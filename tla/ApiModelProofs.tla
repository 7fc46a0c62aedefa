---------------------------- MODULE ApiModelProofs ----------------------------
(***************************************************************************)
(* For any versions, any table of them, any definition and any sequence of *)
(* deploy, scale, addpool and upgrade commands, failed upgrades included:  *)
(* completing the API model again and again loses nothing the user set but *)
(* what an upgrade overrules, keeps nothing a version has retired, and     *)
(* ends where completing it once would have ended.                         *)
(*                                                                         *)
(* Every operator of a pass is first described flag by flag (...Is); from  *)
(* that follow the two laws of the passes: one that follows another for    *)
(* the same version changes nothing, and after one for a later version it  *)
(* does not matter that there was an earlier one (...Again, ...Later).     *)
(* GoodFile collects what a pass establishes and keeps; the inductive      *)
(* invariant says that the file is good and how the nodes and the running  *)
(* command's model follow from it.                                         *)
(***************************************************************************)
EXTENDS ApiModel, FiniteSetTheorems, NaturalsInduction, WellFoundedInduction, TLAPS

(* The upgrades offered, for any table of versions.                          *)

\* What the code calls a version: pre-releases are below patch 0.
AnyVersion == Nat \X (Nat \union {-1})

\* A set of numbers that is not empty has a smallest member.
LEMMA SmallestNumber ==
    ASSUME NEW S \in SUBSET Nat, S # {}
    PROVE  \E n \in S : \A k \in S : n <= k
<1>1. PICK n \in S : \A k \in S : ~(<<k, n>> \in OpToRel(<, Nat))
    BY WFMin, NatLessThanWellFounded
<1>2. \A k \in S : ~(k < n)
    BY <1>1 DEF OpToRel
<1> QED BY <1>2

\* GetMinVersion finds the lowest version of a list that is not empty: the
\* lowest minor version first, then its lowest patch.
LEMMA MinVersionExists ==
    ASSUME NEW S \in SUBSET AnyVersion, S # {}
    PROVE  /\ GetMinVersion(S) \in S
           /\ \A w \in S : NewerOrSame(w, GetMinVersion(S))
<1> DEFINE minors == {w[1] : w \in S}
<1>1. minors \in SUBSET Nat /\ minors # {}
    BY DEF AnyVersion
<1>2. PICK m \in minors : \A k \in minors : m <= k
    <2> HIDE DEF minors
    <2> QED BY <1>1, SmallestNumber
<1> DEFINE patches == {w[2] + 1 : w \in {u \in S : u[1] = m}}
<1>3. patches \in SUBSET Nat /\ patches # {}
    BY <1>2 DEF AnyVersion
<1>4. PICK q \in patches : \A k \in patches : q <= k
    <2> HIDE DEF patches
    <2> QED BY <1>3, SmallestNumber
<1>5. PICK v \in S : v[1] = m /\ q = v[2] + 1
    BY <1>4
<1>6. ASSUME NEW w \in S PROVE NewerOrSame(w, v)
    <2>1. /\ v = <<v[1], v[2]>> /\ w = <<w[1], w[2]>>
          /\ v[1] \in Nat /\ w[1] \in Nat /\ v[2] \in Int /\ w[2] \in Int
        BY DEF AnyVersion
    <2>2. v[1] <= w[1]
        BY <1>2, <1>5
    <2>3. w[1] = v[1] => v[2] <= w[2]
        <3>1. w[1] = v[1] => w[2] + 1 \in patches
            BY <1>5
        <3>2. w[1] = v[1] => v[2] + 1 <= w[2] + 1
            BY <1>4, <1>5, <3>1
        <3> QED BY <2>1, <3>2
    <2> QED BY <2>1, <2>2, <2>3 DEF NewerOrSame, Newer
<1>7. \E u \in S : \A w \in S : NewerOrSame(w, u)
    BY <1>6
<1> QED BY <1>7 DEF GetMinVersion

\* For every table of versions the upgrades offered are supported and newer,
\* there is one whenever there is a newer supported version, and none skips a
\* supported minor version (getKubernetesAvailableUpgradeVersions).
THEOREM OfferedUpgrades ==
    ASSUME NEW allowed, DOMAIN allowed \subseteq AnyVersion, NEW v \in DOMAIN allowed,
           NEW newer, newer = {w \in DOMAIN allowed : allowed[w] /\ Newer(w, v)}
    PROVE  /\ UpgradesOf(v, allowed) \subseteq newer
           /\ newer # {} => UpgradesOf(v, allowed) # {}
           /\ \A w \in UpgradesOf(v, allowed), u \in newer :
                 Minor(v) < Minor(u) => Minor(w) <= Minor(u)
<1> DEFINE supported == GetAllSupported(allowed, FALSE)
           first == GetMinVersion(newer)
           limit == IF Minor(v) + 1 < Minor(first) THEN Minor(first) + 1 ELSE Minor(v) + 2
<1>1. GetVersionsGt(supported, v, FALSE, TRUE) = newer
    BY DEF GetAllSupported, GetVersionsGt
<1>2. CASE newer = {}
    BY <1>1, <1>2 DEF UpgradesOf, AvailableUpgrades
<1>3. CASE newer # {}
    <2>1. newer \in SUBSET AnyVersion /\ v \in AnyVersion
        OBVIOUS
    <2>2. first \in newer /\ \A w \in newer : NewerOrSame(w, first)
        BY <1>3, <2>1, MinVersionExists
    <2> HIDE DEF first
    <2>3. /\ Minor(v) \in Nat /\ Minor(first) \in Nat
          /\ \A w \in newer : Minor(w) \in Nat /\ Minor(first) <= Minor(w)
        BY <2>1, <2>2 DEF Minor, NewerOrSame, Newer, AnyVersion
    <2>4. limit \in Nat
        BY <2>3
    <2>5. UpgradesOf(v, allowed) = GetVersionsBetween(supported, v, FirstPreRelease(limit), FALSE, TRUE)
        BY <1>1, <1>3 DEF UpgradesOf, AvailableUpgrades, first
    <2> HIDE DEF limit
    <2>6. UpgradesOf(v, allowed) = {w \in newer : Newer(FirstPreRelease(limit), w)}
        BY <1>1, <2>5 DEF GetVersionsBetween, GetVersionsGt, GetVersionsLt
    <2>7. \A w \in newer : Newer(FirstPreRelease(limit), w) <=> Minor(w) < limit
        BY <2>1, <2>4 DEF Newer, FirstPreRelease, Minor, AnyVersion
    <2>8. first \in UpgradesOf(v, allowed)
        <3>1. Minor(first) < limit
            BY <2>3 DEF limit
        <3> QED BY <2>2, <2>6, <2>7, <3>1
    <2>9. ASSUME NEW w \in UpgradesOf(v, allowed), NEW u \in newer, Minor(v) < Minor(u)
          PROVE  Minor(w) <= Minor(u)
        <3>1. w \in newer /\ Minor(w) < limit
            BY <2>6, <2>7
        <3> QED BY <2>3, <2>9, <3>1 DEF limit
    <2> QED BY <2>6, <2>8, <2>9
<1> QED BY <1>2, <1>3

\* A list of versions that is not empty has a latest one.
LEMMA MaxVersionExists ==
    ASSUME NEW S \in SUBSET AnyVersion, S # {}, IsFiniteSet(S)
    PROVE  \E v \in S : \A w \in S : NewerOrSame(v, w)
<1> DEFINE HasMax(T) == \E v \in T : \A w \in T : NewerOrSame(v, w)
           Bad == {n \in Nat : \E T \in SUBSET S : T # {} /\ ~HasMax(T) /\ Cardinality(T) = n}
<1>1. SUFFICES ASSUME Bad # {} PROVE FALSE
    <2>1. Cardinality(S) \in Nat BY FS_CardinalityType
    <2> QED BY <1>1, <2>1
<1>2. PICK n \in Bad : \A k \in Bad : n <= k
    <2>1. Bad \in SUBSET Nat OBVIOUS
    <2> HIDE DEF Bad
    <2> QED BY <1>1, <2>1, SmallestNumber
<1>3. PICK T \in SUBSET S : T # {} /\ ~HasMax(T) /\ Cardinality(T) = n BY <1>2
<1>4. IsFiniteSet(T) BY FS_Subset
<1>5. PICK x \in T : TRUE BY <1>3
<1> DEFINE U == T \ {x}
<1>6. IsFiniteSet(U) /\ Cardinality(U) = n - 1 /\ n \in Nat /\ Cardinality(U) \in Nat
    BY <1>3, <1>4, <1>5, FS_RemoveElement, FS_CardinalityType
<1>7. \A v, w \in S : NewerOrSame(v, w) \/ NewerOrSame(w, v)
    BY DEF NewerOrSame, Newer, AnyVersion
<1>8. \A u, v, w \in S : NewerOrSame(u, v) /\ NewerOrSame(v, w) => NewerOrSame(u, w)
    BY DEF NewerOrSame, Newer, AnyVersion
<1>9. \A v \in S : NewerOrSame(v, v) BY DEF NewerOrSame
<1>10. CASE U = {}
    <2>1. T = {x} BY <1>5, <1>10
    <2> QED BY <1>3, <1>9, <2>1
<1>11. CASE U # {}
    <2>1. HasMax(U)
        <3>1. Cardinality(U) \notin Bad BY <1>2, <1>6
        <3> QED BY <1>3, <1>6, <1>11, <3>1
    <2>2. PICK y \in U : \A w \in U : NewerOrSame(y, w) BY <2>1
    <2>3. CASE NewerOrSame(y, x) BY <1>3, <2>2, <2>3
    <2>4. CASE NewerOrSame(x, y)
        <3>1. \A w \in T : NewerOrSame(x, w) BY <1>3, <1>5, <1>8, <1>9, <2>2, <2>4
        <3> QED BY <1>3, <1>5, <3>1
    <2> QED BY <1>3, <1>5, <1>7, <2>2, <2>3, <2>4
<1> QED BY <1>10, <1>11

\* A version a command is given becomes a listed one of the same minor, or none.
LEMMA ValidPatch ==
    ASSUME NEW S \in SUBSET AnyVersion, IsFiniteSet(S), NEW d, NEW v \in AnyVersion,
           NEW valid, valid = GetValidPatchVersion(v, S, d)
    PROVE  /\ valid # NoVersion => valid \in S /\ Minor(valid) = Minor(v)
           /\ v \in S => valid = v
<1>1. v # NoVersion /\ Minor(v) \in Nat BY DEF AnyVersion, NoVersion, Minor
<1>2. CASE v \in S BY <1>1, <1>2 DEF GetValidPatchVersion, Rationalize
<1>3. CASE v \notin S
    <2> DEFINE patches == {w \in S : Minor(w) = Minor(v)}
    <2>1. Minor(v) # NoRelease BY <1>1 DEF NoRelease
    <2>2. valid = GetLatestPatchVersion(Minor(v), S)
        BY <1>1, <1>3, <2>1 DEF GetValidPatchVersion, Rationalize
    <2>3. patches # {} => GetLatestPatchVersion(Minor(v), S) \in patches
        <3>1. patches \in SUBSET AnyVersion /\ IsFiniteSet(patches) BY FS_Subset
        <3>2. patches # {} => \E x \in patches : \A w \in patches : NewerOrSame(x, w)
            <4> HIDE DEF patches
            <4> QED BY <3>1, MaxVersionExists
        <3> QED BY <3>2 DEF GetLatestPatchVersion
    <2>4. patches = {} => GetLatestPatchVersion(Minor(v), S) = NoVersion
        BY DEF GetLatestPatchVersion
    <2> QED BY <1>3, <2>2, <2>3, <2>4
<1> QED BY <1>2, <1>3

-----------------------------------------------------------------------------
(* The table and the versions of the models never change on their own.      *)
TableOK == table \in [Known -> BOOLEAN] /\ table[Default]

\* With the versions the build knows: an existing cluster keeps its version, and a
\* new one gets a supported one, of the minor it names.
LEMMA ValidKnown ==
    ASSUME TableOK
    PROVE  /\ \A v \in Known : ValidVersion(v, TRUE) = v
           /\ \A v \in Known \union {NoVersion} :
                 ValidVersion(v, FALSE) # NoVersion
                 => ValidVersion(v, FALSE) \in Known /\ table[ValidVersion(v, FALSE)]
           /\ \A v \in Known : ValidVersion(v, FALSE) # NoVersion
                               => Minor(ValidVersion(v, FALSE)) = Minor(v)
<1>1. GetAllSupported(table, TRUE) = Known BY DEF TableOK, GetAllSupported
<1>2. GetAllSupported(table, FALSE) = {v \in Known : table[v]} BY DEF TableOK, GetAllSupported
<1>3. IsFiniteSet(Known) /\ Known \in SUBSET AnyVersion BY KnownAssumption DEF AnyVersion
<1> DEFINE S == {v \in Known : table[v]}
<1>4. IsFiniteSet(S) /\ S \in SUBSET AnyVersion BY <1>3, FS_Subset
<1>5. ASSUME NEW v \in Known PROVE ValidVersion(v, TRUE) = v
    <2>1. ValidVersion(v, TRUE) = GetValidPatchVersion(v, Known, Default) BY <1>1 DEF ValidVersion
    <2> QED BY <1>3, <2>1, ValidPatch
<1>6. ASSUME NEW v \in Known, ValidVersion(v, FALSE) # NoVersion
      PROVE  ValidVersion(v, FALSE) \in S /\ Minor(ValidVersion(v, FALSE)) = Minor(v)
    <2>1. ValidVersion(v, FALSE) = GetValidPatchVersion(v, S, Default) BY <1>2 DEF ValidVersion
    <2>2. PICK valid : valid = GetValidPatchVersion(v, S, Default) OBVIOUS
    <2> HIDE DEF S
    <2>3. valid # NoVersion => valid \in S /\ Minor(valid) = Minor(v)
        BY <1>3, <1>4, <2>2, ValidPatch
    <2> QED BY <1>6, <2>1, <2>2, <2>3
<1>7. ValidVersion(NoVersion, FALSE) = Default
    BY DEF ValidVersion, GetValidPatchVersion, Rationalize
<1> QED BY <1>5, <1>6, <1>7, KnownAssumption DEF TableOK

\* What get-versions, upgrade and deploy may choose, for one table
LEMMA PathsSound == TableOK => UpgradePathsSound
<1> SUFFICES ASSUME TableOK, NEW v \in Known,
                    NEW newer, newer = {w \in Known : table[w] /\ Newer(w, v)},
                    NEW valid, valid = ValidVersion(v, FALSE)
             PROVE  /\ UpgradesOf(v, table) \subseteq newer
                    /\ newer # {} => UpgradesOf(v, table) # {}
                    /\ \A w \in UpgradesOf(v, table) : ~\E u \in newer :
                          Minor(v) < Minor(u) /\ Minor(u) < Minor(w)
                    /\ valid # NoVersion => Minor(valid) = Minor(v) /\ table[valid]
    BY DEF UpgradePathsSound
<1>1. DOMAIN table = Known /\ Known \subseteq AnyVersion BY KnownAssumption DEF TableOK, AnyVersion
<1>2. /\ UpgradesOf(v, table) \subseteq newer
      /\ newer # {} => UpgradesOf(v, table) # {}
      /\ \A w \in UpgradesOf(v, table), u \in newer : Minor(v) < Minor(u) => Minor(w) <= Minor(u)
    BY <1>1, OfferedUpgrades
<1>3. \A w \in UpgradesOf(v, table) : ~\E u \in newer : Minor(v) < Minor(u) /\ Minor(u) < Minor(w)
    <2>1. \A w \in newer : Minor(w) \in Nat BY <1>1 DEF Minor, AnyVersion
    <2> QED BY <1>2, <2>1
<1>4. valid # NoVersion => Minor(valid) = Minor(v) /\ table[valid] BY ValidKnown
<1> QED BY <1>2, <1>3, <1>4

\* For every table of versions: the upgrades offered are newer and supported,
\* none skips a supported minor, and a definition gets a supported patch of its
\* minor or is refused (getKubernetesAvailableUpgradeVersions,
\* GetValidPatchVersion).
THEOREM PathsAlwaysSound == Spec => []UpgradePathsSound
<1>1. Init => TableOK BY DEF Init, TableOK
<1>2. TableOK /\ [Next]_vars => TableOK'
    <2>1. [Next]_vars => table' = table
        BY DEF Next, vars, Deploy, Scale, AddPool, Upgrade, Start, UpgradeMasters, UpgradePool,
            SaveUpgrade, SavePool, Fail
    <2> QED BY <2>1 DEF TableOK
<1> QED BY <1>1, <1>2, PathsSound, PTL DEF Spec

-----------------------------------------------------------------------------
(* Functions that are put together.                                          *)

\* The first function is preferred.
LEMMA Over ==
    ASSUME NEW f, NEW g
    PROVE  /\ DOMAIN (f @@ g) = DOMAIN f \union DOMAIN g
           /\ \A x \in DOMAIN f : (f @@ g)[x] = f[x]
           /\ \A x \in DOMAIN g \ DOMAIN f : (f @@ g)[x] = g[x]
BY DEF @@

\* What is left of a configuration
LEMMA Less ==
    ASSUME NEW c, NEW keys
    PROVE  /\ DOMAIN Without(c, keys) = DOMAIN c \ keys
           /\ \A x \in DOMAIN c \ keys : Without(c, keys)[x] = c[x]
BY DEF Without, Restrict

-----------------------------------------------------------------------------
(* What SetPropertiesDefaults makes of a container service, place by place.  *)

\* A container service with all its fields
IsModel(cs) ==
    /\ cs = [version |-> cs.version, pools |-> cs.pools, config |-> cs.config,
             options |-> cs.options,
             custom |-> cs.custom, addons |-> cs.addons, components |-> cs.components]
    /\ cs.config = [p \in Places |-> cs.config[p]]
    /\ cs.pools \subseteq Pools

\* SetPropertiesDefaults, once the version is found
Complete(cs, v, u) ==
    LET addons == SetAddonsConfig(cs.addons, cs.options, cs.custom, v, u)
        config == SetKubeletConfig(cs.config, cs.pools, v, u)
        psp    == addons["pod-security-policy"].on
    IN  [cs EXCEPT
            !.version = v,
            !.addons = addons,
            !.components = SetComponentsConfig(@, cs.custom, v, u),
            !.config = [config EXCEPT
                !["controllerManager"] = SetControllerManagerConfig(@, v),
                !["cloudControllerManager"] = SetCloudControllerManagerConfig(@, v),
                !["apiserver"] = SetAPIServerConfig(@, v, psp),
                !["scheduler"] = SetSchedulerConfig(@, v)]]

\* What a pass makes of every part of a model
CompletedIs(new, cs, v, u, cluster) ==
    /\ IsModel(new)
    /\ new.version = v /\ new.pools = cs.pools /\ new.custom = cs.custom /\ new.options = cs.options
    /\ new.addons = SetAddonsConfig(cs.addons, cs.options, cs.custom, v, u)
    /\ new.components = SetComponentsConfig(cs.components, cs.custom, v, u)
    /\ new.config["cluster"] = cluster
    /\ \A p \in {"master"} \union cs.pools :
          new.config[p] = ProfileKubelet(p, cs.config[p], cluster, v, u)
    /\ \A p \in KubeletPlaces \ ({"cluster", "master"} \union cs.pools) : new.config[p] = cs.config[p]
    /\ new.config["controllerManager"] = SetControllerManagerConfig(cs.config["controllerManager"], v)
    /\ new.config["cloudControllerManager"]
          = SetCloudControllerManagerConfig(cs.config["cloudControllerManager"], v)
    /\ new.config["scheduler"] = SetSchedulerConfig(cs.config["scheduler"], v)
    /\ new.config["apiserver"] = SetAPIServerConfig(cs.config["apiserver"], v,
                                    new.addons["pod-security-policy"].on)

\* SetPropertiesDefaults is the sum of its parts: cluster, profiles, components,
\* addons.
LEMMA Completed ==
    ASSUME NEW cs, IsModel(cs), NEW u, NEW v, NEW new, new = Complete(cs, v, u),
           NEW cluster, cluster = ClusterKubelet(cs.config["cluster"], v, u)
    PROVE  CompletedIs(new, cs, v, u, cluster)
<1> DEFINE addons == SetAddonsConfig(cs.addons, cs.options, cs.custom, v, u)
           config == SetKubeletConfig(cs.config, cs.pools, v, u)
           psp == addons["pod-security-policy"].on
           full == [config EXCEPT
                !["controllerManager"] = SetControllerManagerConfig(@, v),
                !["cloudControllerManager"] = SetCloudControllerManagerConfig(@, v),
                !["apiserver"] = SetAPIServerConfig(@, v, psp),
                !["scheduler"] = SetSchedulerConfig(@, v)]
           components == SetComponentsConfig(cs.components, cs.custom, v, u)
<1>1. new = [cs EXCEPT !.version = v, !.addons = addons, !.components = components, !.config = full]
    BY DEF Complete
<1> DEFINE profile(p) == ProfileKubelet(p, cs.config[p], cluster, v, u)
<1>2. config = [p \in Places |->
            CASE p = "cluster" -> cluster
              [] p \in {"master"} \union cs.pools -> profile(p)
              [] OTHER -> cs.config[p]]
    BY DEF SetKubeletConfig
<1>a. {"controllerManager", "cloudControllerManager", "apiserver", "scheduler"} \subseteq Places
      /\ "cluster" \in Places /\ KubeletPlaces \subseteq Places /\ ComponentPlaces \subseteq Places
      /\ "cluster" \notin ComponentPlaces /\ "master" \notin ComponentPlaces
      /\ cs.pools \subseteq KubeletPlaces \ {"cluster"} /\ "master" \in KubeletPlaces
      /\ KubeletPlaces \intersect ComponentPlaces = {}
    BY DEF IsModel, Places, KubeletPlaces, ComponentPlaces, Pools
<1>4. /\ config["cluster"] = cluster /\ DOMAIN config = Places
      /\ \A p \in {"master"} \union cs.pools :
            config[p] = profile(p)
      /\ \A p \in KubeletPlaces \ ({"cluster", "master"} \union cs.pools) : config[p] = cs.config[p]
      /\ \A c \in ComponentPlaces : config[c] = cs.config[c]
    <2> HIDE DEF config, profile
    <2>1. DOMAIN config = Places BY <1>2
    <2>2. \A p \in Places : config[p] =
            CASE p = "cluster" -> cluster
              [] p \in {"master"} \union cs.pools -> profile(p)
              [] OTHER -> cs.config[p]
        BY <1>2
    <2>3. config["cluster"] = cluster BY <1>a, <2>2
    <2>4. \A p \in Places : p # "cluster" /\ p \in {"master"} \union cs.pools => config[p] = profile(p)
        BY <2>2
    <2>5. \A p \in Places : p # "cluster" /\ p \notin {"master"} \union cs.pools => config[p] = cs.config[p]
        BY <2>2
    <2>6. \A p \in KubeletPlaces \ ({"cluster", "master"} \union cs.pools) : config[p] = cs.config[p]
        BY <1>a, <2>5
    <2>7. \A c \in ComponentPlaces : config[c] = cs.config[c]
        BY <1>a, <2>5
    <2>8. \A p \in {"master"} \union cs.pools : config[p] = profile(p)
        BY <1>a, <2>4
    <2> QED BY <2>1, <2>3, <2>6, <2>7, <2>8
<1>b. config = [p \in Places |-> config[p]] 
    <2> HIDE DEF config
    <2> QED BY <1>2
<1> HIDE DEF config, components, psp
<1>3. /\ full = [p \in Places |-> full[p]]
      /\ \A p \in KubeletPlaces : full[p] = config[p]
      /\ full["controllerManager"] = SetControllerManagerConfig(config["controllerManager"], v)
      /\ full["cloudControllerManager"] = SetCloudControllerManagerConfig(config["cloudControllerManager"], v)
      /\ full["scheduler"] = SetSchedulerConfig(config["scheduler"], v)
      /\ full["apiserver"] = SetAPIServerConfig(config["apiserver"], v, psp)
    <2> DEFINE a == SetControllerManagerConfig(config["controllerManager"], v)
               b == SetCloudControllerManagerConfig(config["cloudControllerManager"], v)
               c == SetSchedulerConfig(config["scheduler"], v)
               d == SetAPIServerConfig(config["apiserver"], v, psp)
    <2>1. full = [config EXCEPT !["controllerManager"] = a, !["cloudControllerManager"] = b,
                                !["apiserver"] = d, !["scheduler"] = c]
        OBVIOUS
    <2> HIDE DEF a, b, c, d, full
    <2>2. /\ full = [p \in Places |-> full[p]]
          /\ full["controllerManager"] = a /\ full["cloudControllerManager"] = b
          /\ full["scheduler"] = c /\ full["apiserver"] = d
          /\ \A p \in Places \ ComponentPlaces : full[p] = config[p]
        BY <1>4, <1>a, <1>b, <2>1 DEF ComponentPlaces
    <2> QED BY <1>a, <2>2 DEF a, b, c, d
<1> HIDE DEF full, addons
<1>5. /\ new.version = v /\ new.pools = cs.pools /\ new.custom = cs.custom /\ new.options = cs.options
      /\ new.addons = addons /\ new.components = components /\ new.config = full
      /\ new = [version |-> new.version, pools |-> new.pools, config |-> new.config,
                options |-> new.options,
                custom |-> new.custom, addons |-> new.addons, components |-> new.components]
    BY <1>1 DEF IsModel
<1>6. IsModel(new) BY <1>3, <1>5 DEF IsModel
<1>7. {"controllerManager", "cloudControllerManager", "apiserver", "scheduler"} = ComponentPlaces
      /\ "cluster" \in KubeletPlaces
    BY DEF ComponentPlaces, KubeletPlaces
<1>8. new.addons["pod-security-policy"].on = psp BY <1>5, Zenon DEF psp
<1>9. new.config["apiserver"] = SetAPIServerConfig(config["apiserver"], v, new.addons["pod-security-policy"].on)
    BY <1>3, <1>5, <1>8, Zenon
<1>10. /\ new.config["controllerManager"] = SetControllerManagerConfig(config["controllerManager"], v)
       /\ new.config["cloudControllerManager"] = SetCloudControllerManagerConfig(config["cloudControllerManager"], v)
       /\ new.config["scheduler"] = SetSchedulerConfig(config["scheduler"], v)
    BY <1>3, <1>5
<1>11. /\ new.addons = SetAddonsConfig(cs.addons, cs.options, cs.custom, v, u)
       /\ new.components = SetComponentsConfig(cs.components, cs.custom, v, u)
    BY <1>5, Zenon DEF addons, components
<1>12. /\ new.config["cluster"] = cluster
       /\ \A p \in {"master"} \union cs.pools :
            new.config[p] = ProfileKubelet(p, cs.config[p], cluster, v, u)
       /\ \A p \in KubeletPlaces \ ({"cluster", "master"} \union cs.pools) : new.config[p] = cs.config[p]
    BY <1>3, <1>4, <1>5, <1>7, <1>a
<1>13. /\ config["controllerManager"] = cs.config["controllerManager"]
       /\ config["cloudControllerManager"] = cs.config["cloudControllerManager"]
       /\ config["scheduler"] = cs.config["scheduler"]
       /\ config["apiserver"] = cs.config["apiserver"]
    BY <1>4, <1>7
<1> QED BY <1>5, <1>6, <1>9, <1>10, <1>11, <1>12, <1>13, Zenon DEF CompletedIs

-----------------------------------------------------------------------------
(* The steps a configuration goes through.                                   *)

\* Setting the gates leaves the other flags alone.
LEMMA GatesSet ==
    ASSUME NEW c, NEW g
    PROVE  /\ DOMAIN ((Gates :> g) @@ c) = DOMAIN c \union {Gates}
           /\ \A x \in DOMAIN c \ {Gates} : ((Gates :> g) @@ c)[x] = c[x]
           /\ GatesOf((Gates :> g) @@ c) = g
BY DEF @@, :>, GatesOf

\* Removing gates leaves the other flags alone.
LEMMA InvalidRemoved ==
    ASSUME NEW c, NEW g, NEW r, r = RemoveInvalidFeatureGates(c, g)
    PROVE  /\ DOMAIN r = DOMAIN c \union {Gates}
           /\ \A x \in DOMAIN c \ {Gates} : r[x] = c[x]
           /\ GatesOf(r) = Without(GatesOf(c), g)
BY GatesSet DEF RemoveInvalidFeatureGates

\* Adding gates leaves the other flags alone.
LEMMA DefaultsAdded ==
    ASSUME NEW c, NEW g, NEW r, r = AddDefaultFeatureGates(c, g)
    PROVE  /\ DOMAIN r = DOMAIN c \union {Gates}
           /\ \A x \in DOMAIN c \ {Gates} : r[x] = c[x]
           /\ GatesOf(r) = GatesOf(c) @@ g
BY GatesSet DEF AddDefaultFeatureGates

\* removeKubeletFlags removes one flag, with 1.27.
LEMMA RuntimeRemoved ==
    ASSUME NEW c, NEW v
    PROVE  /\ DOMAIN RemoveKubeletFlags(c, v) = DOMAIN c \ (IF Ge(v, 27) THEN {"--container-runtime"} ELSE {})
           /\ \A x \in DOMAIN RemoveKubeletFlags(c, v) : RemoveKubeletFlags(c, v)[x] = c[x]
           /\ GatesOf(RemoveKubeletFlags(c, v)) = GatesOf(c)
<1>1. CASE Ge(v, 27) BY <1>1 DEF RemoveKubeletFlags, Without, Restrict, GatesOf, Gates
<1>2. CASE ~Ge(v, 27) BY <1>2 DEF RemoveKubeletFlags
<1> QED BY <1>1, <1>2

\* PodMaxPids sets pod-max-pids only.
LEMMA PidsSet ==
    ASSUME NEW c, NEW u \in BOOLEAN
    PROVE  /\ DOMAIN PodMaxPids(c, u) \subseteq DOMAIN c \union {"--pod-max-pids"}
           /\ DOMAIN c \subseteq DOMAIN PodMaxPids(c, u)
           /\ \A x \in DOMAIN c \ {"--pod-max-pids"} : PodMaxPids(c, u)[x] = c[x]
           /\ (~u \/ "SupportPodPidsLimit" \in DOMAIN GatesOf(c)) => PodMaxPids(c, u) = c
           /\ GatesOf(PodMaxPids(c, u)) = GatesOf(c)
<1>1. CASE u /\ "SupportPodPidsLimit" \notin DOMAIN GatesOf(c)
    <2>1. PodMaxPids(c, u) = "--pod-max-pids" :> "default" @@ c BY <1>1 DEF PodMaxPids
    <2> QED BY <1>1, <2>1 DEF @@, :>, GatesOf, Gates
<1>2. CASE ~(u /\ "SupportPodPidsLimit" \notin DOMAIN GatesOf(c))
    <2>1. PodMaxPids(c, u) = c BY <1>2 DEF PodMaxPids
    <2> QED BY <2>1
<1> QED BY <1>1, <1>2

-----------------------------------------------------------------------------
(* The flags a place may have: what a user may write there and the defaults. *)

\* The flags of a kubelet
KubeletFlags == {"--cluster-dns", "--max-pods", "--pod-max-pids", PauseImage, "--container-runtime",
                 Gates, "--register-with-taints"}

\* The flags of the components
CommonFlags == {"--leader-elect", "--profiling", Gates}
ControllerFlags == CommonFlags \union {"--pod-eviction-timeout"}
ServerFlags == CommonFlags \union {"--service-account-api-audiences", "--enable-admission-plugins"}
SchedulerFlags == CommonFlags \union {"--lock-object-name", "--leader-elect-resource-name"}

\* The gates anyone sets
GateNames == {"SupportPodPidsLimit", "LegacyServiceAccountToken", "RotateKubeletServerCertificate",
              "PodSecurity", "LocalStorageCapacityIsolation"}

\* A configuration has only flags and gates of its place.
Fits(c, flags) == DOMAIN c \subseteq flags /\ DOMAIN GatesOf(c) \subseteq GateNames

\* The flags and gates that are gone, and since when
LEMMA FlagsAndGates ==
    /\ DOMAIN Retired = {"--container-runtime", "--pod-eviction-timeout",
            "--service-account-api-audiences", "--lock-object-name",
            "LocalStorageCapacityIsolation", "PodSecurity", "LegacyServiceAccountToken"}
    /\ Retired["--container-runtime"] = 27 /\ Retired["--pod-eviction-timeout"] = 27
    /\ Retired["--service-account-api-audiences"] = 25 /\ Retired["--lock-object-name"] = 28
    /\ Retired["LocalStorageCapacityIsolation"] = 27
    /\ Retired["PodSecurity"] = 28
    /\ Retired["LegacyServiceAccountToken"] = 29
BY DEF Retired

\* A minor version is a number.
LEMMA MinorNat == \A v \in Known : Minor(v) \in Nat
BY KnownAssumption DEF Minor

\* A gate is removed with the version that retires it.
LEMMA RetiredGates ==
    ASSUME NEW v \in Known
    PROVE  \A x \in GateNames \intersect DOMAIN Retired : x \notin InvalidFeatureGates(v) => Minor(v) < Retired[x]
<1>1. Minor(v) \in Nat BY MinorNat
<1>2. /\ "LocalStorageCapacityIsolation" \notin InvalidFeatureGates(v) => Minor(v) < 27
      /\ "PodSecurity" \notin InvalidFeatureGates(v) => Minor(v) < 28
      /\ "LegacyServiceAccountToken" \notin InvalidFeatureGates(v) => Minor(v) < 29
    BY <1>1 DEF InvalidFeatureGates, Ge
<1> QED BY <1>2, FlagsAndGates DEF GateNames

\* A configuration whose last step is the removal of gates
LEMMA CleanGates ==
    ASSUME NEW v \in Known, NEW c, NEW gates, InvalidFeatureGates(v) \subseteq gates,
           NEW r, r = RemoveInvalidFeatureGates(c, gates), NEW flags, Fits(c, flags), Gates \in flags,
           \A f \in DOMAIN c \intersect DOMAIN Retired : Minor(v) < Retired[f]
    PROVE  /\ Fits(r, flags)
           /\ StartsWith(r, v)
<1>1. /\ DOMAIN r = DOMAIN c \union {Gates}
      /\ GatesOf(r) = Without(GatesOf(c), gates)
    BY InvalidRemoved
<1>2. DOMAIN GatesOf(r) = DOMAIN GatesOf(c) \ gates BY <1>1, Less
<1>3. Fits(r, flags) BY <1>1, <1>2 DEF Fits
<1>4. \A f \in DOMAIN GatesOf(r) \intersect DOMAIN Retired : Minor(v) < Retired[f]
    BY <1>2, RetiredGates DEF Fits
<1>5. Gates \notin DOMAIN Retired BY FlagsAndGates DEF Gates
<1> QED BY <1>1, <1>3, <1>4, <1>5 DEF StartsWith

\* Adding the default gates
LEMMA AddedGates ==
    ASSUME NEW c, NEW g, DOMAIN g \subseteq GateNames, NEW flags, Fits(c, flags), Gates \in flags
    PROVE  Fits(AddDefaultFeatureGates(c, g), flags)
           /\ DOMAIN AddDefaultFeatureGates(c, g) = DOMAIN c \union {Gates}
<1>1. PICK r : r = AddDefaultFeatureGates(c, g) OBVIOUS
<1>2. DOMAIN r = DOMAIN c \union {Gates} /\ GatesOf(r) = GatesOf(c) @@ g BY <1>1, DefaultsAdded
<1>3. DOMAIN GatesOf(r) = DOMAIN GatesOf(c) \union DOMAIN g BY <1>2, Over
<1> QED BY <1>1, <1>2, <1>3 DEF Fits

\* The gates that are added by default
LEMMA DefaultGates ==
    ASSUME NEW v
    PROVE  /\ DOMAIN PodSecurity(v) \subseteq GateNames
           /\ DOMAIN ("RotateKubeletServerCertificate" :> TRUE @@ PodSecurity(v)) \subseteq GateNames
BY DEF PodSecurity, Empty, @@, :>, GateNames

\* The controller manager starts with what setControllerManagerConfig leaves.
LEMMA ControllerStarts ==
    ASSUME NEW v \in Known, NEW user, Fits(user, ControllerFlags)
    PROVE  /\ Fits(SetControllerManagerConfig(user, v), ControllerFlags)
           /\ StartsWith(SetControllerManagerConfig(user, v), v)
<1> DEFINE filled == user @@ [f \in {"--profiling", "--pod-eviction-timeout"} |-> "default"]
           known  == IF Ge(v, 27) THEN Without(filled, {"--pod-eviction-timeout"}) ELSE filled
           gates  == "LocalStorageCapacityIsolation" :> TRUE @@ PodSecurity(v)
                    @@ (IF Ge(v, 27) THEN Empty ELSE "LegacyServiceAccountToken" :> FALSE)
           gated == AddDefaultFeatureGates(known, gates)
           full == "--leader-elect" :> "static" @@ gated
           invalid == InvalidFeatureGates(v)
              \union (IF Ge(v, 27) THEN {"LegacyServiceAccountToken"} ELSE {})
<1>1. Fits(filled, ControllerFlags)
    BY DEF Fits, ControllerFlags, CommonFlags, Gates, GatesOf, @@
<1>2. Fits(known, ControllerFlags) /\ ("--pod-eviction-timeout" \in DOMAIN known => ~Ge(v, 27))
    BY <1>1 DEF Fits, GatesOf, Gates, Without, Restrict
<1>3. DOMAIN gates \subseteq GateNames
    BY DEF PodSecurity, Empty, @@, :>, GateNames
<1> HIDE DEF known, gates
<1>4. Fits(gated, ControllerFlags) /\ DOMAIN gated = DOMAIN known \union {Gates}
    BY <1>2, <1>3, AddedGates DEF ControllerFlags, CommonFlags
<1> HIDE DEF gated
<1>5. Fits(full, ControllerFlags) /\ DOMAIN full = DOMAIN gated \union {"--leader-elect"}
    BY <1>4 DEF Fits, ControllerFlags, CommonFlags, Gates, GatesOf, @@, :>
<1>6. \A f \in DOMAIN full \intersect DOMAIN Retired : Minor(v) < Retired[f]
    BY <1>2, <1>4, <1>5, FlagsAndGates, MinorNat DEF Fits, ControllerFlags, CommonFlags, Gates, Ge
<1> HIDE DEF full
<1>7. SetControllerManagerConfig(user, v) = RemoveInvalidFeatureGates(full, invalid)
    BY DEF SetControllerManagerConfig, full, gated, known, gates
<1> HIDE DEF invalid
<1>8. InvalidFeatureGates(v) \subseteq invalid /\ Gates \in ControllerFlags
    BY DEF invalid, ControllerFlags, CommonFlags
<1> QED BY <1>5, <1>6, <1>7, <1>8, CleanGates

\* The same for setCloudControllerManagerConfig
LEMMA CloudStarts ==
    ASSUME NEW v \in Known, NEW user, Fits(user, CommonFlags)
    PROVE  /\ Fits(SetCloudControllerManagerConfig(user, v), CommonFlags)
           /\ StartsWith(SetCloudControllerManagerConfig(user, v), v)
<1> DEFINE full == "--leader-elect" :> "static" @@ user
<1>1. Fits(full, CommonFlags) /\ DOMAIN full \subseteq CommonFlags
    BY DEF Fits, CommonFlags, Gates, GatesOf, @@, :>
<1>2. \A f \in DOMAIN full \intersect DOMAIN Retired : Minor(v) < Retired[f]
    <2> HIDE DEF full
    <2> QED BY <1>1, FlagsAndGates DEF CommonFlags, Gates
<1> HIDE DEF full
<1>3. SetCloudControllerManagerConfig(user, v) = RemoveInvalidFeatureGates(full, InvalidFeatureGates(v))
    BY DEF SetCloudControllerManagerConfig, full
<1>4. Gates \in CommonFlags BY DEF CommonFlags
<1> QED BY <1>1, <1>2, <1>3, <1>4, CleanGates

\* The same for setSchedulerConfig, which renames a flag that 1.28 retires
LEMMA SchedulerStarts ==
    ASSUME NEW v \in Known, NEW user, Fits(user, SchedulerFlags)
    PROVE  /\ Fits(SetSchedulerConfig(user, v), SchedulerFlags)
           /\ StartsWith(SetSchedulerConfig(user, v), v)
<1> DEFINE filled == user @@ "--profiling" :> "default"
           gated == AddDefaultFeatureGates(filled, PodSecurity(v))
           full == "--leader-elect" :> "static" @@ gated
           clean == RemoveInvalidFeatureGates(full, InvalidFeatureGates(v))
           named == "--leader-elect-resource-name" :> clean["--lock-object-name"]
                      @@ Without(clean, {"--lock-object-name"})
<1>0. Gates \in SchedulerFlags BY DEF SchedulerFlags, CommonFlags
<1>1. Fits(filled, SchedulerFlags)
    BY DEF Fits, SchedulerFlags, CommonFlags, Gates, GatesOf, @@, :>
<1> HIDE DEF filled
<1>2. Fits(gated, SchedulerFlags) BY <1>0, <1>1, AddedGates, DefaultGates
<1> HIDE DEF gated
<1>3. Fits(full, SchedulerFlags)
    BY <1>2 DEF Fits, SchedulerFlags, CommonFlags, Gates, GatesOf, @@, :>
<1> HIDE DEF full
<1>4. DOMAIN clean = DOMAIN full \union {Gates}
      /\ GatesOf(clean) = Without(GatesOf(full), InvalidFeatureGates(v)) BY InvalidRemoved
<1> HIDE DEF clean
<1>5. DOMAIN GatesOf(clean) = DOMAIN GatesOf(full) \ InvalidFeatureGates(v) BY <1>4, Less
<1>6. Fits(clean, SchedulerFlags) BY <1>0, <1>3, <1>4, <1>5 DEF Fits
<1>7. \A f \in DOMAIN GatesOf(clean) \intersect DOMAIN Retired : Minor(v) < Retired[f]
    BY <1>5, <1>6, RetiredGates DEF Fits
<1>8. SetSchedulerConfig(user, v) = IF Ge(v, 28) /\ "--lock-object-name" \in DOMAIN clean THEN named ELSE clean
    BY DEF SetSchedulerConfig, clean, full, gated, filled
<1>9. \A f \in SchedulerFlags \intersect DOMAIN Retired : f = "--lock-object-name"
    BY FlagsAndGates DEF SchedulerFlags, CommonFlags, Gates
<1>10. CASE Ge(v, 28) /\ "--lock-object-name" \in DOMAIN clean
    <2>1. DOMAIN named = (DOMAIN clean \ {"--lock-object-name"}) \union {"--leader-elect-resource-name"}
          /\ GatesOf(named) = GatesOf(clean)
        BY DEF GatesOf, Gates, @@, :>, Without, Restrict
    <2> HIDE DEF named
    <2>2. Fits(named, SchedulerFlags) BY <1>6, <2>1 DEF Fits, SchedulerFlags
    <2>3. StartsWith(named, v) BY <1>7, <1>9, <2>1, <2>2 DEF StartsWith, Fits
    <2> QED BY <1>8, <1>10, <2>2, <2>3
<1>11. CASE ~(Ge(v, 28) /\ "--lock-object-name" \in DOMAIN clean)
    <2>1. \A f \in DOMAIN clean \intersect DOMAIN Retired : Minor(v) < Retired[f]
        BY <1>6, <1>9, <1>11, FlagsAndGates, MinorNat DEF Fits, Ge
    <2>2. StartsWith(clean, v) BY <1>7, <2>1 DEF StartsWith
    <2> QED BY <1>6, <1>8, <1>11, <2>2
<1> QED BY <1>10, <1>11

\* The same for setAPIServerConfig
LEMMA ServerStarts ==
    ASSUME NEW v \in Known, NEW user, Fits(user, ServerFlags), NEW psp
    PROVE  /\ Fits(SetAPIServerConfig(user, v, psp), ServerFlags)
           /\ StartsWith(SetAPIServerConfig(user, v, psp), v)
<1> DEFINE plugins == {"default"} \union (IF psp THEN {"PodSecurityPolicy"} ELSE {})
           filled == user @@ "--enable-admission-plugins" :> plugins @@ "--profiling" :> "default"
           gated == AddDefaultFeatureGates(filled, PodSecurity(v))
           known == IF Ge(v, 25) THEN Without(gated, {"--service-account-api-audiences"}) ELSE gated
           full == "--leader-elect" :> "static" @@ known
           clean == RemoveInvalidFeatureGates(full, InvalidFeatureGates(v))
<1>a. SetAPIServerConfig(user, v, psp) =
          IF Ge(v, 25) THEN [clean EXCEPT !["--enable-admission-plugins"] = @ \ {"PodSecurityPolicy"}]
          ELSE clean
    BY DEF SetAPIServerConfig
<1>0. Gates \in ServerFlags BY DEF ServerFlags, CommonFlags
<1> HIDE DEF plugins
<1>1. Fits(filled, ServerFlags)
    BY DEF Fits, ServerFlags, CommonFlags, Gates, GatesOf, @@, :>
<1> HIDE DEF filled
<1>2. Fits(gated, ServerFlags) BY <1>0, <1>1, AddedGates, DefaultGates
<1> HIDE DEF gated
<1>3. Fits(known, ServerFlags) /\ ("--service-account-api-audiences" \in DOMAIN known => ~Ge(v, 25))
    BY <1>2 DEF Fits, GatesOf, Gates, Without, Restrict
<1> HIDE DEF known
<1>4. Fits(full, ServerFlags) /\ DOMAIN full = DOMAIN known \union {"--leader-elect"}
    BY <1>3 DEF Fits, ServerFlags, CommonFlags, Gates, GatesOf, @@, :>
<1>5. \A f \in DOMAIN full \intersect DOMAIN Retired : Minor(v) < Retired[f]
    <2> HIDE DEF full
    <2> QED BY <1>3, <1>4, FlagsAndGates, MinorNat DEF Fits, ServerFlags, CommonFlags, Gates, Ge
<1> HIDE DEF full
<1>6. Fits(clean, ServerFlags) /\ StartsWith(clean, v) BY <1>0, <1>4, <1>5, CleanGates
<1> HIDE DEF clean
<1>7. ASSUME NEW x
      PROVE  LET r == [clean EXCEPT !["--enable-admission-plugins"] = x]
             IN  DOMAIN r = DOMAIN clean /\ GatesOf(r) = GatesOf(clean)
    BY DEF GatesOf, Gates
<1>8. \A x : LET r == [clean EXCEPT !["--enable-admission-plugins"] = x]
             IN  Fits(r, ServerFlags) /\ StartsWith(r, v)
    BY <1>6, <1>7 DEF Fits, StartsWith
<1> QED BY <1>a, <1>6, <1>8

\* What the profiles inherit from the cluster are flags and gates of a kubelet.
LEMMA ClusterFits ==
    ASSUME NEW v \in Known, NEW user, Fits(user, KubeletFlags), NEW u \in BOOLEAN
    PROVE  Fits(ClusterKubelet(user, v, u), KubeletFlags)
<1> DEFINE filled == ForcedImage(v, u) @@ user @@ DefaultKubelet(v)
           gated == AddDefaultFeatureGates(filled, "RotateKubeletServerCertificate" :> TRUE @@ PodSecurity(v))
           static == StaticKubelet @@ gated
           pids == PodMaxPids(static, u)
           known == RemoveKubeletFlags(pids, v)
<1>a. ClusterKubelet(user, v, u) = RemoveInvalidFeatureGates(known, InvalidFeatureGates(v))
    BY DEF ClusterKubelet
<1>0. Gates \in KubeletFlags BY DEF KubeletFlags
<1>1. Fits(filled, KubeletFlags)
    <2>1. DOMAIN ForcedImage(v, u) \subseteq {PauseImage} BY DEF ForcedImage, Empty, :>
    <2>2. DOMAIN DefaultKubelet(v) \subseteq KubeletFlags \ {Gates}
        BY DEF DefaultKubelet, Empty, :>, @@, KubeletFlags, Gates, PauseImage
    <2> QED BY <2>1, <2>2 DEF Fits, GatesOf, @@, KubeletFlags, Gates, PauseImage
<1> HIDE DEF filled
<1>2. Fits(gated, KubeletFlags) BY <1>0, <1>1, AddedGates, DefaultGates
<1> HIDE DEF gated
<1>3. Fits(static, KubeletFlags)
    BY <1>2 DEF Fits, StaticKubelet, GatesOf, @@, :>, KubeletFlags, Gates, PauseImage
<1> HIDE DEF static
<1>4. Fits(pids, KubeletFlags) BY <1>3, PidsSet DEF Fits, KubeletFlags
<1> HIDE DEF pids
<1>5. Fits(known, KubeletFlags) BY <1>4, RuntimeRemoved DEF Fits
<1> HIDE DEF known
<1>6. PICK r : r = RemoveInvalidFeatureGates(known, InvalidFeatureGates(v)) OBVIOUS
<1>7. /\ DOMAIN r = DOMAIN known \union {Gates}
      /\ GatesOf(r) = Without(GatesOf(known), InvalidFeatureGates(v))
    BY <1>6, InvalidRemoved
<1>8. DOMAIN GatesOf(r) = DOMAIN GatesOf(known) \ InvalidFeatureGates(v) BY <1>7, Less
<1>9. Fits(r, KubeletFlags) BY <1>0, <1>5, <1>7, <1>8 DEF Fits
<1> QED BY <1>a, <1>6, <1>9

\* A kubelet starts with what setKubeletConfig leaves for its profile, though the
\* user set a retired flag there.
LEMMA ProfileStarts ==
    ASSUME NEW v \in Known, NEW p, NEW user, Fits(user, KubeletFlags),
           NEW cluster, Fits(cluster, KubeletFlags), NEW u \in BOOLEAN
    PROVE  /\ Fits(ProfileKubelet(p, user, cluster, v, u), KubeletFlags)
           /\ StartsWith(ProfileKubelet(p, user, cluster, v, u), v)
<1> DEFINE forced == ForcedImage(cluster[PauseImage], u)
           static == CASE p = "master"  -> Empty
                       [] p = "windows" -> StaticWindowsKubelet
                       [] OTHER         -> StaticKubelet
           filled == static @@ forced @@ user @@ cluster
           pids   == PodMaxPids(filled, u)
           known  == RemoveKubeletFlags(pids, v)
           clean  == RemoveInvalidFeatureGates(known, InvalidFeatureGates(v))
           taints == IF "--register-with-taints" \in DOMAIN clean
                     THEN clean["--register-with-taints"] ELSE {}
           tainted == "--register-with-taints" :> (taints \union {"master"}) @@ clean
<1>a. ProfileKubelet(p, user, cluster, v, u) = IF p = "master" THEN tainted ELSE clean
    BY DEF ProfileKubelet
<1>0. Gates \in KubeletFlags BY DEF KubeletFlags
<1>1. DOMAIN static \subseteq {"--cluster-dns", PauseImage}
    BY DEF Empty, StaticWindowsKubelet, StaticKubelet, @@, :>
<1>2. DOMAIN forced \subseteq {PauseImage} BY DEF ForcedImage, Empty, :>
<1> HIDE DEF static, forced
<1>3. Fits(filled, KubeletFlags)
    BY <1>1, <1>2 DEF Fits, GatesOf, @@, KubeletFlags, Gates, PauseImage
<1> HIDE DEF filled
<1>4. Fits(pids, KubeletFlags) BY <1>3, PidsSet DEF Fits, KubeletFlags
<1> HIDE DEF pids
<1>5. Fits(known, KubeletFlags) /\ ("--container-runtime" \in DOMAIN known => ~Ge(v, 27))
    BY <1>4, RuntimeRemoved DEF Fits
<1> HIDE DEF known
<1>6. \A f \in DOMAIN known \intersect DOMAIN Retired : Minor(v) < Retired[f]
    BY <1>5, FlagsAndGates, MinorNat DEF Fits, KubeletFlags, PauseImage, Gates, Ge
<1>7. Fits(clean, KubeletFlags) /\ StartsWith(clean, v) BY <1>0, <1>5, <1>6, CleanGates
<1> HIDE DEF clean, taints
<1>8. DOMAIN tainted = DOMAIN clean \union {"--register-with-taints"} /\ GatesOf(tainted) = GatesOf(clean)
    BY DEF GatesOf, Gates, @@, :>
<1> HIDE DEF tainted
<1>9. Fits(tainted, KubeletFlags) BY <1>7, <1>8 DEF Fits, KubeletFlags
<1>10. StartsWith(tainted, v) BY <1>7, <1>8, FlagsAndGates DEF StartsWith
<1> QED BY <1>a, <1>7, <1>9, <1>10

-----------------------------------------------------------------------------
(* Nothing a version no longer knows reaches a node.                         *)
FlagsOf(p) ==
    CASE p = "controllerManager" -> ControllerFlags
      [] p = "cloudControllerManager" -> CommonFlags
      [] p = "apiserver" -> ServerFlags
      [] p = "scheduler" -> SchedulerFlags
      [] OTHER -> KubeletFlags

\* A model whose configurations have the flags of their places
Shaped(cs) == IsModel(cs) /\ \A p \in Places : Fits(cs.config[p], FlagsOf(p))

\* A model of a version the build knows
Sound(cs) == Shaped(cs) /\ cs.version \in Known

\* The flags each place may have
LEMMA FlagsOfPlaces ==
    /\ FlagsOf("controllerManager") = ControllerFlags
    /\ FlagsOf("cloudControllerManager") = CommonFlags
    /\ FlagsOf("apiserver") = ServerFlags
    /\ FlagsOf("scheduler") = SchedulerFlags
    /\ \A p \in KubeletPlaces : FlagsOf(p) = KubeletFlags
    /\ Places = KubeletPlaces \union ComponentPlaces
    /\ ComponentPlaces = {"controllerManager", "cloudControllerManager", "apiserver", "scheduler"}
    /\ KubeletPlaces \intersect ComponentPlaces = {}
    /\ {"cluster", "master", "added"} \subseteq KubeletPlaces /\ Pools \subseteq KubeletPlaces
    /\ "cluster" \notin Pools
<1>1. /\ Places = KubeletPlaces \union ComponentPlaces
      /\ ComponentPlaces = {"controllerManager", "cloudControllerManager", "apiserver", "scheduler"}
      /\ KubeletPlaces \intersect ComponentPlaces = {}
      /\ {"cluster", "master", "added"} \subseteq KubeletPlaces /\ Pools \subseteq KubeletPlaces
      /\ "cluster" \notin Pools
    BY DEF Places, KubeletPlaces, ComponentPlaces, Pools
<1>2. \A p \in KubeletPlaces : FlagsOf(p) = KubeletFlags
    BY <1>1 DEF FlagsOf
<1> QED BY <1>1, <1>2 DEF FlagsOf

\* A pass keeps a model in shape, and every process it configures starts.
LEMMA CompletedSound ==
    ASSUME NEW cs, Shaped(cs), NEW u \in BOOLEAN,
           NEW v \in Known, NEW new, new = Complete(cs, v, u)
    PROVE  /\ Sound(new) /\ new.version = v /\ new.pools = cs.pools
           /\ \A p \in {"master"} \union cs.pools \union ComponentPlaces : StartsWith(new.config[p], v)
<1>1. PICK cluster : cluster = ClusterKubelet(cs.config["cluster"], v, u) OBVIOUS
<1>2. /\ IsModel(new)
      /\ new.version = v /\ new.pools = cs.pools
      /\ new.config["cluster"] = cluster
      /\ \A p \in {"master"} \union cs.pools :
            new.config[p] = ProfileKubelet(p, cs.config[p], cluster, v, u)
      /\ \A p \in KubeletPlaces \ ({"cluster", "master"} \union cs.pools) : new.config[p] = cs.config[p]
      /\ new.config["controllerManager"] = SetControllerManagerConfig(cs.config["controllerManager"], v)
      /\ new.config["cloudControllerManager"]
            = SetCloudControllerManagerConfig(cs.config["cloudControllerManager"], v)
      /\ new.config["scheduler"] = SetSchedulerConfig(cs.config["scheduler"], v)
      /\ new.config["apiserver"] = SetAPIServerConfig(cs.config["apiserver"], v,
                                      new.addons["pod-security-policy"].on)
    <2>1. CompletedIs(new, cs, v, u, cluster) BY <1>1, Completed DEF Shaped
    <2> QED BY <2>1 DEF CompletedIs
<1>3. /\ cs.pools \subseteq KubeletPlaces
      /\ \A p \in KubeletPlaces : Fits(cs.config[p], KubeletFlags)
      /\ Fits(cs.config["controllerManager"], ControllerFlags)
      /\ Fits(cs.config["cloudControllerManager"], CommonFlags)
      /\ Fits(cs.config["scheduler"], SchedulerFlags)
      /\ Fits(cs.config["apiserver"], ServerFlags)
    BY FlagsOfPlaces DEF Shaped, IsModel
<1>4. Fits(cluster, KubeletFlags) BY <1>1, <1>3, ClusterFits, FlagsOfPlaces
<1>5. ASSUME NEW p \in {"master"} \union cs.pools
      PROVE  Fits(new.config[p], KubeletFlags) /\ StartsWith(new.config[p], v)
    BY <1>2, <1>3, <1>4, ProfileStarts, FlagsOfPlaces
<1>6. \A p \in KubeletPlaces : Fits(new.config[p], KubeletFlags)
    BY <1>2, <1>3, <1>4, <1>5
<1>7. Fits(new.config["controllerManager"], ControllerFlags) /\ StartsWith(new.config["controllerManager"], v)
    BY <1>2, <1>3, ControllerStarts
<1>8. Fits(new.config["cloudControllerManager"], CommonFlags) /\ StartsWith(new.config["cloudControllerManager"], v)
    BY <1>2, <1>3, CloudStarts
<1>9. Fits(new.config["scheduler"], SchedulerFlags) /\ StartsWith(new.config["scheduler"], v)
    BY <1>2, <1>3, SchedulerStarts
<1>10. Fits(new.config["apiserver"], ServerFlags) /\ StartsWith(new.config["apiserver"], v)
    BY <1>2, <1>3, ServerStarts
<1>11. \A c \in ComponentPlaces : Fits(new.config[c], FlagsOf(c)) /\ StartsWith(new.config[c], v)
    BY <1>7, <1>8, <1>9, <1>10, FlagsOfPlaces
<1>12. Sound(new) BY <1>2, <1>6, <1>11, FlagsOfPlaces DEF Sound, Shaped
<1> QED BY <1>2, <1>5, <1>11, <1>12

\* What a user writes fits its place.
LEMMA DefinitionShaped ==
    ASSUME given \subseteq Settings, NEW v
    PROVE  Shaped(Definition(v)) /\ Definition(v).version = v
<1>1. IsModel(Definition(v)) /\ Definition(v).version = v
      /\ \A p \in Places : Definition(v).config[p] = Written(p)
    BY DEF Definition, IsModel, Pools
<1>2. ASSUME NEW p \in Places PROVE Fits(Written(p), FlagsOf(p))
    <2>1. DOMAIN Written(p) = {s[2] : s \in {t \in given : t[1] = p}} \ {"custom"}
          /\ (Gates \in DOMAIN Written(p) => Written(p)[Gates] = Value(p, Gates))
        BY DEF Written
    <2>2. DOMAIN GatesOf(Written(p)) \subseteq GateNames
        <3>1. DOMAIN Value(p, Gates) \subseteq GateNames
            BY DEF Value, @@, :>, GateNames, Gates, PauseImage
        <3> HIDE DEF Written
        <3> QED BY <2>1, <3>1 DEF GatesOf, Empty
    <2>3. \A s \in Settings : s[1] \in Places /\ s[2] # "custom" => s[2] \in FlagsOf(s[1])
        <3>1. CASE TRUE
            BY FlagsOfPlaces DEF Settings, KubeletPlaces, Pools, Addons, AzureCloudAddons, CustomPlaces,
            KubeletFlags, ControllerFlags, CommonFlags, ServerFlags, SchedulerFlags, PauseImage, Gates
        <3> QED BY <3>1
    <2> QED BY <2>1, <2>2, <2>3 DEF Fits
<1> QED BY <1>1, <1>2 DEF Shaped

-----------------------------------------------------------------------------
(* What the kubelet of the cluster and of a profile runs with, flag by flag. *)
IsFcn(c) == c = [x \in DOMAIN c |-> c[x]]

\* A configuration and its gates are functions.
Proper(c) == IsFcn(c) /\ IsFcn(GatesOf(c))

\* The flag that 1.27 removes
Runtime(v) == IF Ge(v, 27) THEN {} ELSE {"--container-runtime"}

\* The flags every kubelet has
Standard == {"--cluster-dns", "--max-pods", "--pod-max-pids", PauseImage, Gates}

\* The default of a gate that a place adds
GateDefault(g) == IF g = "LegacyServiceAccountToken" THEN FALSE ELSE TRUE

\* The gate that is on by default from 1.25
PodSecurityGate(v) == IF Ge(v, 25) THEN {"PodSecurity"} ELSE {}

\* setKubeletConfig for the cluster, flag by flag and gate by gate
ClusterIs(r, user, v, u) ==
    /\ Proper(r)
    /\ DOMAIN r = (DOMAIN user \ {"--container-runtime"}) \union Standard \union Runtime(v)
    /\ r["--cluster-dns"] = "static"
    /\ \A x \in {"--max-pods", "--container-runtime"} \intersect DOMAIN r :
          r[x] = IF x \in DOMAIN user THEN user[x] ELSE "default"
    /\ \A x \in DOMAIN user \ (Standard \union {"--container-runtime"}) : r[x] = user[x]
    /\ r[PauseImage] = IF ~u /\ PauseImage \in DOMAIN user THEN user[PauseImage] ELSE v
    /\ r["--pod-max-pids"] =
          IF /\ "--pod-max-pids" \in DOMAIN user
             /\ ~u \/ "SupportPodPidsLimit" \in DOMAIN GatesOf(user)
          THEN user["--pod-max-pids"] ELSE "default"
    /\ DOMAIN GatesOf(r) = (DOMAIN GatesOf(user) \union {"RotateKubeletServerCertificate"}
                              \union PodSecurityGate(v)) \ InvalidFeatureGates(v)
    /\ \A g \in DOMAIN GatesOf(r) :
          GatesOf(r)[g] = IF g \in DOMAIN GatesOf(user) THEN GatesOf(user)[g] ELSE GateDefault(g)

\* ClusterKubelet computes it.
LEMMA ClusterKubeletIs ==
    ASSUME NEW user, NEW v, NEW u \in BOOLEAN, NEW r, r = ClusterKubelet(user, v, u)
    PROVE  ClusterIs(r, user, v, u)
<1> DEFINE filled == ForcedImage(v, u) @@ user @@ DefaultKubelet(v)
           defaults == "RotateKubeletServerCertificate" :> TRUE @@ PodSecurity(v)
           gated == AddDefaultFeatureGates(filled, defaults)
           static == StaticKubelet @@ gated
           pids == PodMaxPids(static, u)
           known == RemoveKubeletFlags(pids, v)
           clean == RemoveInvalidFeatureGates(known, InvalidFeatureGates(v))
<1>a. r = clean BY DEF ClusterKubelet
<1>1. /\ DOMAIN ForcedImage(v, u) = (IF u THEN {PauseImage} ELSE {})
      /\ u => ForcedImage(v, u)[PauseImage] = v
    BY DEF ForcedImage, Empty, :>
<1>2. /\ DOMAIN DefaultKubelet(v) = (Standard \ {Gates, "--cluster-dns"}) \union Runtime(v)
      /\ \A x \in {"--max-pods", "--pod-max-pids", "--container-runtime"} \intersect DOMAIN DefaultKubelet(v) :
            DefaultKubelet(v)[x] = "default"
      /\ DefaultKubelet(v)[PauseImage] = v
    BY DEF DefaultKubelet, Empty, :>, @@, Standard, Runtime, PauseImage, Gates
<1>3. /\ DOMAIN filled = DOMAIN user \union (Standard \ {Gates, "--cluster-dns"}) \union Runtime(v)
      /\ filled[PauseImage] = IF ~u /\ PauseImage \in DOMAIN user THEN user[PauseImage] ELSE v
      /\ \A x \in {"--max-pods", "--pod-max-pids", "--container-runtime"} \intersect DOMAIN filled :
            filled[x] = IF x \in DOMAIN user THEN user[x] ELSE "default"
      /\ \A x \in DOMAIN user \ {PauseImage} : filled[x] = user[x]
      /\ GatesOf(filled) = GatesOf(user)
    BY <1>1, <1>2 DEF @@, Standard, Runtime, PauseImage, Gates, GatesOf
<1> HIDE DEF filled
<1>4. /\ DOMAIN defaults = {"RotateKubeletServerCertificate"} \union PodSecurityGate(v)
      /\ \A g \in DOMAIN defaults : defaults[g] = GateDefault(g)
    BY DEF GateDefault, PodSecurity, PodSecurityGate, Empty, :>, @@
<1> HIDE DEF defaults
<1>5. /\ DOMAIN gated = DOMAIN filled \union {Gates}
      /\ \A x \in DOMAIN filled \ {Gates} : gated[x] = filled[x]
      /\ GatesOf(gated) = GatesOf(filled) @@ defaults
    BY DefaultsAdded
<1>6. /\ DOMAIN GatesOf(gated) = DOMAIN GatesOf(user) \union {"RotateKubeletServerCertificate"} \union PodSecurityGate(v)
      /\ \A g \in DOMAIN GatesOf(gated) :
            GatesOf(gated)[g] = IF g \in DOMAIN GatesOf(user) THEN GatesOf(user)[g] ELSE GateDefault(g)
    BY <1>3, <1>4, <1>5 DEF @@
<1> HIDE DEF gated
<1>7. /\ DOMAIN static = DOMAIN gated \union {"--cluster-dns"}
      /\ static["--cluster-dns"] = "static"
      /\ \A x \in DOMAIN gated \ {"--cluster-dns"} : static[x] = gated[x]
      /\ GatesOf(static) = GatesOf(gated)
    BY DEF StaticKubelet, @@, :>, GatesOf, Gates
<1> HIDE DEF static
<1>8. /\ DOMAIN pids = DOMAIN static \union {"--pod-max-pids"}
      /\ \A x \in DOMAIN static \ {"--pod-max-pids"} : pids[x] = static[x]
      /\ pids["--pod-max-pids"] = IF u /\ "SupportPodPidsLimit" \notin DOMAIN GatesOf(static) THEN "default"
                                  ELSE static["--pod-max-pids"]
      /\ GatesOf(pids) = GatesOf(static)
    <2>1. "--pod-max-pids" \in DOMAIN static BY <1>3, <1>5, <1>7 DEF Standard, PauseImage, Gates
    <2>2. CASE u /\ "SupportPodPidsLimit" \notin DOMAIN GatesOf(static)
        <3>1. pids = "--pod-max-pids" :> "default" @@ static BY <2>2 DEF PodMaxPids
        <3> QED BY <2>2, <3>1 DEF @@, :>, GatesOf, Gates
    <2>3. CASE ~(u /\ "SupportPodPidsLimit" \notin DOMAIN GatesOf(static))
        <3>1. pids = static BY <2>3 DEF PodMaxPids
        <3> QED BY <2>1, <2>3, <3>1
    <2> QED BY <2>2, <2>3
<1> HIDE DEF pids
<1>9. /\ DOMAIN known = (DOMAIN pids \ {"--container-runtime"})
              \union (IF Ge(v, 27) THEN {} ELSE {"--container-runtime"} \intersect DOMAIN pids)
      /\ \A x \in DOMAIN known : known[x] = pids[x]
      /\ GatesOf(known) = GatesOf(pids)
    BY RuntimeRemoved
<1> HIDE DEF known
<1>10. /\ DOMAIN clean = DOMAIN known \union {Gates}
       /\ \A x \in DOMAIN known \ {Gates} : clean[x] = known[x]
       /\ GatesOf(clean) = Without(GatesOf(known), InvalidFeatureGates(v))
       /\ IsFcn(clean)
    <2>1. IsFcn(clean) BY DEF IsFcn, RemoveInvalidFeatureGates, @@
    <2> QED BY <2>1, InvalidRemoved
<1> HIDE DEF clean
<1>11. /\ IsFcn(GatesOf(clean))
       /\ DOMAIN GatesOf(clean) = DOMAIN GatesOf(known) \ InvalidFeatureGates(v)
       /\ \A g \in DOMAIN GatesOf(clean) : GatesOf(clean)[g] = GatesOf(known)[g]
    BY <1>10 DEF Without, Restrict, IsFcn
<1>12. DOMAIN clean = (DOMAIN user \ {"--container-runtime"}) \union Standard \union Runtime(v)
    BY <1>3, <1>5, <1>7, <1>8, <1>9, <1>10 DEF Standard, Runtime, PauseImage, Gates
<1>13. /\ \A x \in DOMAIN clean \ {Gates} : clean[x] = pids[x]
       /\ \A x \in DOMAIN clean \ {Gates, "--pod-max-pids"} : clean[x] = static[x]
       /\ \A x \in DOMAIN clean \ {Gates, "--pod-max-pids", "--cluster-dns"} : clean[x] = filled[x]
       /\ clean["--cluster-dns"] = "static"
    BY <1>3, <1>5, <1>7, <1>8, <1>9, <1>10, <1>12 DEF Standard, PauseImage, Gates
<1>14. /\ DOMAIN GatesOf(clean) = (DOMAIN GatesOf(user) \union {"RotateKubeletServerCertificate"}
                              \union PodSecurityGate(v)) \ InvalidFeatureGates(v)
       /\ \A g \in DOMAIN GatesOf(clean) :
             GatesOf(clean)[g] = IF g \in DOMAIN GatesOf(user) THEN GatesOf(user)[g] ELSE GateDefault(g)
    BY <1>6, <1>7, <1>8, <1>9, <1>11
<1>15. "SupportPodPidsLimit" \in DOMAIN GatesOf(static) <=> "SupportPodPidsLimit" \in DOMAIN GatesOf(user)
    BY <1>6, <1>7 DEF PodSecurityGate
<1>16. clean["--pod-max-pids"] =
          IF /\ "--pod-max-pids" \in DOMAIN user
             /\ ~u \/ "SupportPodPidsLimit" \in DOMAIN GatesOf(user)
          THEN user["--pod-max-pids"] ELSE "default"
    BY <1>3, <1>5, <1>7, <1>8, <1>12, <1>13, <1>15 DEF Standard, PauseImage, Gates
<1>17. /\ \A x \in {"--max-pods", "--container-runtime"} \intersect DOMAIN clean :
             clean[x] = IF x \in DOMAIN user THEN user[x] ELSE "default"
       /\ \A x \in DOMAIN user \ (Standard \union {"--container-runtime"}) : clean[x] = user[x]
       /\ clean[PauseImage] = IF ~u /\ PauseImage \in DOMAIN user THEN user[PauseImage] ELSE v
    BY <1>3, <1>12, <1>13 DEF Standard, Runtime, PauseImage, Gates
<1> QED BY <1>a, <1>10, <1>11, <1>12, <1>13, <1>14, <1>16, <1>17 DEF ClusterIs, Proper
\* The gates a profile starts from: its own, or those of the cluster
OwnGates(user, cluster) == IF Gates \in DOMAIN user THEN GatesOf(user) ELSE GatesOf(cluster)

\* The flag only masters have
Taints == "--register-with-taints"

\* setKubeletConfig for a profile, flag by flag and gate by gate
ProfileIs(r, p, user, cluster, v, u) ==
    /\ Proper(r)
    /\ DOMAIN r = (((DOMAIN user \union DOMAIN cluster) \ {"--container-runtime"})
                     \union ((DOMAIN user \union DOMAIN cluster) \intersect Runtime(v)))
                    \union (IF p = "master" THEN {Taints} ELSE {})
    /\ r["--cluster-dns"] = IF p # "master" THEN "static"
                            ELSE IF "--cluster-dns" \in DOMAIN user THEN user["--cluster-dns"]
                            ELSE cluster["--cluster-dns"]
    /\ r[PauseImage] = IF p = "windows" THEN WindowsImage
                       ELSE IF ~u /\ PauseImage \in DOMAIN user THEN user[PauseImage]
                       ELSE cluster[PauseImage]
    /\ \A x \in DOMAIN r \ {"--cluster-dns", PauseImage, "--pod-max-pids", Gates, Taints} :
          r[x] = IF x \in DOMAIN user THEN user[x] ELSE cluster[x]
    /\ r["--pod-max-pids"] =
          IF u /\ "SupportPodPidsLimit" \notin DOMAIN OwnGates(user, cluster) THEN "default"
          ELSE IF "--pod-max-pids" \in DOMAIN user THEN user["--pod-max-pids"]
          ELSE cluster["--pod-max-pids"]
    /\ p # "master" /\ Taints \in DOMAIN r =>
          r[Taints] = IF Taints \in DOMAIN user THEN user[Taints] ELSE cluster[Taints]
    /\ p = "master" =>
          r[Taints] = (IF Taints \in DOMAIN user THEN user[Taints]
                       ELSE IF Taints \in DOMAIN cluster THEN cluster[Taints] ELSE {}) \union {"master"}
    /\ DOMAIN GatesOf(r) = DOMAIN OwnGates(user, cluster) \ InvalidFeatureGates(v)
    /\ \A g \in DOMAIN GatesOf(r) : GatesOf(r)[g] = OwnGates(user, cluster)[g]

\* ProfileKubelet computes it.
LEMMA ProfileKubeletIs ==
    ASSUME NEW p, NEW user, NEW cluster, Standard \subseteq DOMAIN cluster, NEW v, NEW u \in BOOLEAN,
           NEW r, r = ProfileKubelet(p, user, cluster, v, u)
    PROVE  ProfileIs(r, p, user, cluster, v, u)
<1> DEFINE forced == ForcedImage(cluster[PauseImage], u)
           static == CASE p = "master"  -> Empty
                       [] p = "windows" -> StaticWindowsKubelet
                       [] OTHER         -> StaticKubelet
           filled == static @@ forced @@ user @@ cluster
           pids   == PodMaxPids(filled, u)
           known  == RemoveKubeletFlags(pids, v)
           clean  == RemoveInvalidFeatureGates(known, InvalidFeatureGates(v))
           taints == IF Taints \in DOMAIN clean THEN clean[Taints] ELSE {}
           tainted == Taints :> (taints \union {"master"}) @@ clean
<1>a. r = IF p = "master" THEN tainted ELSE clean
    BY DEF ProfileKubelet, Taints
<1>1. /\ DOMAIN forced = (IF u THEN {PauseImage} ELSE {})
      /\ u => forced[PauseImage] = cluster[PauseImage]
    BY DEF ForcedImage, Empty, :>
<1>2. /\ DOMAIN static = IF p = "master" THEN {}
                         ELSE IF p = "windows" THEN {"--cluster-dns", PauseImage} ELSE {"--cluster-dns"}
      /\ p # "master" => static["--cluster-dns"] = "static"
      /\ p = "windows" => static[PauseImage] = WindowsImage
    <2>1. CASE p = "master" BY <2>1 DEF Empty
    <2>2. CASE p = "windows" BY <2>2 DEF StaticWindowsKubelet, StaticKubelet, @@, :>, PauseImage
    <2>3. CASE p \notin {"master", "windows"} BY <2>3 DEF StaticKubelet, :>
    <2> QED BY <2>1, <2>2, <2>3
<1> HIDE DEF static, forced
<1>3. /\ DOMAIN filled = DOMAIN user \union DOMAIN cluster
      /\ filled["--cluster-dns"] = IF p # "master" THEN "static"
                            ELSE IF "--cluster-dns" \in DOMAIN user THEN user["--cluster-dns"]
                            ELSE cluster["--cluster-dns"]
      /\ filled[PauseImage] = IF p = "windows" THEN WindowsImage
                       ELSE IF ~u /\ PauseImage \in DOMAIN user THEN user[PauseImage]
                       ELSE cluster[PauseImage]
      /\ \A x \in DOMAIN filled \ {"--cluster-dns", PauseImage} :
            filled[x] = IF x \in DOMAIN user THEN user[x] ELSE cluster[x]
    BY <1>1, <1>2 DEF @@, Standard, PauseImage
<1>4. GatesOf(filled) = OwnGates(user, cluster) /\ "--pod-max-pids" \in DOMAIN filled /\ Gates \in DOMAIN filled
    BY <1>3 DEF OwnGates, GatesOf, Standard, PauseImage, Gates
<1> HIDE DEF filled
<1>8. /\ DOMAIN pids = DOMAIN filled
      /\ \A x \in DOMAIN filled \ {"--pod-max-pids"} : pids[x] = filled[x]
      /\ pids["--pod-max-pids"] = IF u /\ "SupportPodPidsLimit" \notin DOMAIN GatesOf(filled) THEN "default"
                                  ELSE filled["--pod-max-pids"]
      /\ GatesOf(pids) = GatesOf(filled)
    <2>2. CASE u /\ "SupportPodPidsLimit" \notin DOMAIN GatesOf(filled)
        <3>1. pids = "--pod-max-pids" :> "default" @@ filled BY <2>2 DEF PodMaxPids
        <3> QED BY <1>4, <2>2, <3>1 DEF @@, :>, GatesOf, Gates
    <2>3. CASE ~(u /\ "SupportPodPidsLimit" \notin DOMAIN GatesOf(filled))
        <3>1. pids = filled BY <2>3 DEF PodMaxPids
        <3> QED BY <1>4, <2>3, <3>1
    <2> QED BY <2>2, <2>3
<1> HIDE DEF pids
<1>9. /\ DOMAIN known = (DOMAIN pids \ {"--container-runtime"}) \union (DOMAIN pids \intersect Runtime(v))
      /\ \A x \in DOMAIN known : known[x] = pids[x]
      /\ GatesOf(known) = GatesOf(pids)
    BY RuntimeRemoved DEF Runtime
<1> HIDE DEF known
<1>10. /\ DOMAIN clean = DOMAIN known \union {Gates}
       /\ \A x \in DOMAIN known \ {Gates} : clean[x] = known[x]
       /\ GatesOf(clean) = Without(GatesOf(known), InvalidFeatureGates(v))
       /\ IsFcn(clean)
    <2>1. IsFcn(clean) BY DEF IsFcn, RemoveInvalidFeatureGates, @@
    <2> QED BY <2>1, InvalidRemoved
<1> HIDE DEF clean
<1>11. /\ IsFcn(GatesOf(clean))
       /\ DOMAIN GatesOf(clean) = DOMAIN GatesOf(known) \ InvalidFeatureGates(v)
       /\ \A g \in DOMAIN GatesOf(clean) : GatesOf(clean)[g] = GatesOf(known)[g]
    BY <1>10 DEF Without, Restrict, IsFcn
<1>12. DOMAIN clean = (((DOMAIN user \union DOMAIN cluster) \ {"--container-runtime"})
                     \union ((DOMAIN user \union DOMAIN cluster) \intersect Runtime(v)))
    BY <1>3, <1>4, <1>8, <1>9, <1>10 DEF Gates
<1>13. /\ \A x \in DOMAIN clean \ {Gates} : clean[x] = pids[x]
       /\ \A x \in DOMAIN clean \ {Gates, "--pod-max-pids"} : clean[x] = filled[x]
       /\ {"--cluster-dns", PauseImage, "--pod-max-pids"} \subseteq DOMAIN clean \ {Gates}
    BY <1>3, <1>8, <1>9, <1>10, <1>12 DEF Standard, PauseImage, Gates
<1>14. /\ DOMAIN GatesOf(clean) = DOMAIN OwnGates(user, cluster) \ InvalidFeatureGates(v)
       /\ \A g \in DOMAIN GatesOf(clean) : GatesOf(clean)[g] = OwnGates(user, cluster)[g]
    BY <1>4, <1>8, <1>9, <1>11
<1>15. /\ clean["--cluster-dns"] = filled["--cluster-dns"] /\ clean[PauseImage] = filled[PauseImage]
       /\ \A x \in DOMAIN clean \ {"--cluster-dns", PauseImage, "--pod-max-pids", Gates} :
             clean[x] = IF x \in DOMAIN user THEN user[x] ELSE cluster[x]
       /\ clean["--pod-max-pids"] =
          IF u /\ "SupportPodPidsLimit" \notin DOMAIN OwnGates(user, cluster) THEN "default"
          ELSE IF "--pod-max-pids" \in DOMAIN user THEN user["--pod-max-pids"]
          ELSE cluster["--pod-max-pids"]
    BY <1>3, <1>4, <1>8, <1>12, <1>13 DEF PauseImage, Gates
<1>16. CASE p # "master"
    <2>1. r = clean BY <1>a, <1>16
    <2>2. Taints \in DOMAIN clean => clean[Taints] = IF Taints \in DOMAIN user THEN user[Taints] ELSE cluster[Taints]
        BY <1>15 DEF Taints, PauseImage, Gates
    <2> QED BY <1>3, <1>10, <1>11, <1>12, <1>14, <1>15, <1>16, <2>1, <2>2 DEF ProfileIs, Proper
<1>17. CASE p = "master"
    <2>1. r = tainted BY <1>a, <1>17
    <2>2. taints = IF Taints \in DOMAIN user THEN user[Taints]
                   ELSE IF Taints \in DOMAIN cluster THEN cluster[Taints] ELSE {}
        BY <1>12, <1>15 DEF Taints, PauseImage, Gates, Runtime
    <2> HIDE DEF taints
    <2>3. /\ DOMAIN tainted = DOMAIN clean \union {Taints}
          /\ \A x \in DOMAIN clean \ {Taints} : tainted[x] = clean[x]
          /\ tainted[Taints] = taints \union {"master"}
          /\ IsFcn(tainted)
        BY DEF @@, :>, IsFcn
    <2>4. GatesOf(tainted) = GatesOf(clean)
        BY <2>3 DEF GatesOf, Gates, Taints
    <2> HIDE DEF tainted
    <2>5. /\ tainted["--cluster-dns"] = filled["--cluster-dns"] /\ tainted[PauseImage] = filled[PauseImage]
          /\ tainted["--pod-max-pids"] = clean["--pod-max-pids"]
          /\ \A x \in DOMAIN tainted \ {"--cluster-dns", PauseImage, "--pod-max-pids", Gates, Taints} :
                tainted[x] = IF x \in DOMAIN user THEN user[x] ELSE cluster[x]
        BY <1>13, <1>15, <2>3 DEF Taints, PauseImage
    <2> QED
        BY <1>3, <1>11, <1>12, <1>14, <1>15, <1>17, <2>1, <2>2, <2>3, <2>4, <2>5 DEF ProfileIs, Proper
<1> QED BY <1>16, <1>17

-----------------------------------------------------------------------------
(* The components, flag by flag.                                             *)
LEMMA InvalidIs ==
    ASSUME NEW v
    PROVE  /\ InvalidFeatureGates(v) \subseteq
                {"LocalStorageCapacityIsolation", "PodSecurity", "LegacyServiceAccountToken"}
           /\ "LocalStorageCapacityIsolation" \in InvalidFeatureGates(v) <=> Ge(v, 27)
           /\ "PodSecurity" \in InvalidFeatureGates(v) <=> Ge(v, 28)
           /\ "LegacyServiceAccountToken" \in InvalidFeatureGates(v) <=> Ge(v, 29)
<1> DEFINE S == {"LocalStorageCapacityIsolation", "PodSecurity", "LegacyServiceAccountToken"}
           with(g) == CASE g = "LocalStorageCapacityIsolation" -> 27
                        [] g = "PodSecurity" -> 28
                        [] OTHER -> 29
<1>1. InvalidFeatureGates(v) = {g \in S : Ge(v, with(g))} BY DEF InvalidFeatureGates
<1>2. /\ with("LocalStorageCapacityIsolation") = 27 /\ with("PodSecurity") = 28
      /\ with("LegacyServiceAccountToken") = 29
    OBVIOUS
<1> HIDE DEF with
<1> QED BY <1>1, <1>2

\* What a version lacks, a later one lacks.
LEMMA Later ==
    ASSUME NEW v \in Known, NEW w \in Known, Minor(v) <= Minor(w)
    PROVE  /\ Ge(v, 25) => Ge(w, 25)
           /\ Ge(v, 27) => Ge(w, 27)
           /\ Ge(v, 28) => Ge(w, 28)
           /\ Ge(v, 29) => Ge(w, 29)
           /\ Ge(w, 28) => Ge(w, 27)
           /\ Ge(w, 29) => Ge(w, 28)
BY MinorNat DEF Ge

\* removeInvalidFeatureGates, gate by gate
LastRemoval(r, c, gates) ==
    /\ Proper(r)
    /\ DOMAIN r = DOMAIN c \union {Gates}
    /\ \A x \in DOMAIN c \ {Gates} : r[x] = c[x]
    /\ DOMAIN GatesOf(r) = DOMAIN GatesOf(c) \ gates
    /\ \A g \in DOMAIN GatesOf(r) : GatesOf(r)[g] = GatesOf(c)[g]

\* RemoveInvalidFeatureGates computes it.
LEMMA RemovalIs ==
    ASSUME NEW c, NEW gates, NEW r, r = RemoveInvalidFeatureGates(c, gates)
    PROVE  LastRemoval(r, c, gates)
<1>1. IsFcn(r) BY DEF IsFcn, RemoveInvalidFeatureGates, @@
<1>2. /\ DOMAIN r = DOMAIN c \union {Gates}
      /\ \A x \in DOMAIN c \ {Gates} : r[x] = c[x]
      /\ GatesOf(r) = Without(GatesOf(c), gates)
    BY InvalidRemoved
<1>3. /\ IsFcn(GatesOf(r))
      /\ DOMAIN GatesOf(r) = DOMAIN GatesOf(c) \ gates
      /\ \A g \in DOMAIN GatesOf(r) : GatesOf(r)[g] = GatesOf(c)[g]
    BY <1>2 DEF Without, Restrict, IsFcn
<1> QED BY <1>1, <1>2, <1>3 DEF LastRemoval, Proper

\* addDefaultFeatureGates, gate by gate
Gated(r, c, defaults) ==
    /\ DOMAIN r = DOMAIN c \union {Gates}
    /\ \A x \in DOMAIN c \ {Gates} : r[x] = c[x]
    /\ DOMAIN GatesOf(r) = DOMAIN GatesOf(c) \union DOMAIN defaults
    /\ \A g \in DOMAIN GatesOf(r) :
          GatesOf(r)[g] = IF g \in DOMAIN GatesOf(c) THEN GatesOf(c)[g] ELSE defaults[g]

\* AddDefaultFeatureGates computes it.
LEMMA GatedIs ==
    ASSUME NEW c, NEW defaults, NEW r, r = AddDefaultFeatureGates(c, defaults)
    PROVE  Gated(r, c, defaults)
<1>1. /\ DOMAIN r = DOMAIN c \union {Gates}
      /\ \A x \in DOMAIN c \ {Gates} : r[x] = c[x]
      /\ GatesOf(r) = GatesOf(c) @@ defaults
    BY DefaultsAdded
<1>2. /\ DOMAIN GatesOf(r) = DOMAIN GatesOf(c) \union DOMAIN defaults
      /\ \A g \in DOMAIN GatesOf(r) :
            GatesOf(r)[g] = IF g \in DOMAIN GatesOf(c) THEN GatesOf(c)[g] ELSE defaults[g]
    BY <1>1 DEF @@
<1> QED BY <1>1, <1>2 DEF Gated

\* The default gate is on.
LEMMA PodSecurityIs ==
    ASSUME NEW v
    PROVE  /\ DOMAIN PodSecurity(v) = PodSecurityGate(v)
           /\ \A g \in PodSecurityGate(v) : PodSecurity(v)[g] = GateDefault(g)
BY DEF GateDefault, PodSecurity, PodSecurityGate, Empty, :>

\* The flag and the gate that the controller manager has before 1.27, and the
\* gate it is denied from then on
Evict == "--pod-eviction-timeout"
LegacyGate(v) == IF Ge(v, 27) THEN {} ELSE {"LegacyServiceAccountToken"}
LateLegacy(v) == IF Ge(v, 27) THEN {"LegacyServiceAccountToken"} ELSE {}

\* setControllerManagerConfig, flag by flag and gate by gate
ControllerIs(r, user, v) ==
    /\ Proper(r)
    /\ DOMAIN r = (DOMAIN user \ {Evict}) \union CommonFlags \union (IF Ge(v, 27) THEN {} ELSE {Evict})
    /\ r["--leader-elect"] = "static"
    /\ \A x \in {"--profiling", Evict} \intersect DOMAIN r :
          r[x] = IF x \in DOMAIN user THEN user[x] ELSE "default"
    /\ \A x \in DOMAIN user \ (CommonFlags \union {Evict}) : r[x] = user[x]
    /\ DOMAIN GatesOf(r) = (DOMAIN GatesOf(user) \union {"LocalStorageCapacityIsolation"}
                              \union PodSecurityGate(v) \union LegacyGate(v))
                             \ (InvalidFeatureGates(v) \union LateLegacy(v))
    /\ \A g \in DOMAIN GatesOf(r) :
          GatesOf(r)[g] = IF g \in DOMAIN GatesOf(user) THEN GatesOf(user)[g] ELSE GateDefault(g)

\* SetControllerManagerConfig computes it.
LEMMA ControllerConfigIs ==
    ASSUME NEW user, NEW v, NEW r, r = SetControllerManagerConfig(user, v)
    PROVE  ControllerIs(r, user, v)
<1> DEFINE filled == user @@ [f \in {"--profiling", "--pod-eviction-timeout"} |-> "default"]
           known  == IF Ge(v, 27) THEN Without(filled, {"--pod-eviction-timeout"}) ELSE filled
           gates  == "LocalStorageCapacityIsolation" :> TRUE @@ PodSecurity(v)
                    @@ (IF Ge(v, 27) THEN Empty ELSE "LegacyServiceAccountToken" :> FALSE)
           gated == AddDefaultFeatureGates(known, gates)
           full == "--leader-elect" :> "static" @@ gated
           invalid == InvalidFeatureGates(v) \union LateLegacy(v)
<1>a. r = RemoveInvalidFeatureGates(full, invalid)
    BY DEF SetControllerManagerConfig, LateLegacy
<1>1. /\ DOMAIN filled = DOMAIN user \union {"--profiling", Evict}
      /\ \A x \in {"--profiling", Evict} : filled[x] = IF x \in DOMAIN user THEN user[x] ELSE "default"
      /\ \A x \in DOMAIN user : filled[x] = user[x]
      /\ GatesOf(filled) = GatesOf(user)
    BY DEF @@, Evict, GatesOf, Gates
<1> HIDE DEF filled
<1>2. /\ DOMAIN known = (DOMAIN filled \ {Evict}) \union (IF Ge(v, 27) THEN {} ELSE {Evict})
      /\ \A x \in DOMAIN known : known[x] = filled[x]
      /\ GatesOf(known) = GatesOf(filled)
    BY <1>1 DEF Without, Restrict, Evict, GatesOf, Gates
<1> HIDE DEF known
<1>3. /\ DOMAIN gates = {"LocalStorageCapacityIsolation"} \union PodSecurityGate(v) \union LegacyGate(v)
      /\ \A g \in DOMAIN gates : gates[g] = GateDefault(g)
    BY DEF GateDefault, PodSecurity, PodSecurityGate, LegacyGate, Empty, :>, @@
<1> HIDE DEF gates
<1>4. Gated(gated, known, gates) BY GatedIs
<1> HIDE DEF gated
<1>5. /\ DOMAIN full = DOMAIN gated \union {"--leader-elect"}
      /\ full["--leader-elect"] = "static"
      /\ \A x \in DOMAIN gated \ {"--leader-elect"} : full[x] = gated[x]
      /\ GatesOf(full) = GatesOf(gated)
    BY DEF @@, :>, GatesOf, Gates
<1> HIDE DEF full, invalid
<1>6. LastRemoval(r, full, invalid) BY <1>a, RemovalIs
<1>7. DOMAIN r = (DOMAIN user \ {Evict}) \union CommonFlags \union (IF Ge(v, 27) THEN {} ELSE {Evict})
    BY <1>1, <1>2, <1>4, <1>5, <1>6 DEF Gated, LastRemoval, CommonFlags, Gates, Evict
<1>8. r["--leader-elect"] = "static" BY <1>5, <1>6 DEF LastRemoval, Gates
<1>9. \A x \in DOMAIN r \ {"--leader-elect", Gates} : r[x] = filled[x]
    BY <1>2, <1>4, <1>5, <1>6 DEF Gated, LastRemoval
<1>10. DOMAIN GatesOf(r) = (DOMAIN GatesOf(user) \union {"LocalStorageCapacityIsolation"}
                              \union PodSecurityGate(v) \union LegacyGate(v))
                             \ (InvalidFeatureGates(v) \union LateLegacy(v))
    BY <1>1, <1>2, <1>3, <1>4, <1>5, <1>6 DEF Gated, LastRemoval, invalid
<1>11. \A g \in DOMAIN GatesOf(r) :
          GatesOf(r)[g] = IF g \in DOMAIN GatesOf(user) THEN GatesOf(user)[g] ELSE GateDefault(g)
    BY <1>1, <1>2, <1>3, <1>4, <1>5, <1>6 DEF Gated, LastRemoval
<1>12. \A x \in {"--profiling", Evict} \intersect DOMAIN r :
          r[x] = IF x \in DOMAIN user THEN user[x] ELSE "default"
    BY <1>1, <1>9 DEF Evict, Gates
<1>13. \A x \in DOMAIN user \ (CommonFlags \union {Evict}) : r[x] = user[x]
    BY <1>1, <1>7, <1>9 DEF CommonFlags
<1> QED BY <1>6, <1>7, <1>8, <1>10, <1>11, <1>12, <1>13 DEF ControllerIs, LastRemoval

\* Extensionality
LEMMA SameConfig ==
    ASSUME NEW r, NEW s, Proper(r), Proper(s), DOMAIN r = DOMAIN s, Gates \in DOMAIN r,
           \A x \in DOMAIN r \ {Gates} : r[x] = s[x],
           DOMAIN GatesOf(r) = DOMAIN GatesOf(s),
           \A g \in DOMAIN GatesOf(r) : GatesOf(r)[g] = GatesOf(s)[g]
    PROVE  r = s
<1>1. GatesOf(r) = GatesOf(s)
    <2>1. PICK f : f = GatesOf(r) OBVIOUS
    <2>2. PICK g : g = GatesOf(s) OBVIOUS
    <2>3. f = [x \in DOMAIN f |-> f[x]] /\ g = [x \in DOMAIN g |-> g[x]]
        BY <2>1, <2>2 DEF Proper, IsFcn
    <2>4. DOMAIN f = DOMAIN g /\ \A x \in DOMAIN f : f[x] = g[x] BY <2>1, <2>2
    <2>5. f = g BY <2>3, <2>4
    <2> QED BY <2>1, <2>2, <2>5
<1>2. \A x \in DOMAIN r : r[x] = s[x] BY <1>1 DEF GatesOf
<1> QED BY <1>2 DEF Proper, IsFcn

\* Passes for two versions, the second not older, leave what the second alone
\* leaves: the flags do not depend on the upgrades that led to a version.
LEMMA ControllerAgain ==
    ASSUME NEW v \in Known, NEW w \in Known, Minor(v) <= Minor(w), NEW user
    PROVE  SetControllerManagerConfig(SetControllerManagerConfig(user, v), w) = SetControllerManagerConfig(user, w)
<1>1. PICK c : c = SetControllerManagerConfig(user, v) OBVIOUS
<1>2. PICK r : r = SetControllerManagerConfig(c, w) OBVIOUS
<1>3. PICK s : s = SetControllerManagerConfig(user, w) OBVIOUS
<1>4. ControllerIs(c, user, v) /\ ControllerIs(r, c, w) /\ ControllerIs(s, user, w)
    BY <1>1, <1>2, <1>3, ControllerConfigIs
<1>5. Proper(r) /\ Proper(s) BY <1>4 DEF ControllerIs
<1>6. DOMAIN r = DOMAIN s /\ Gates \in DOMAIN r
    BY <1>4, Later DEF ControllerIs, CommonFlags, Gates, Evict
<1>7. \A x \in DOMAIN r \ {Gates} : r[x] = s[x]
    BY <1>4, <1>6, Later DEF ControllerIs, CommonFlags, Gates, Evict
<1>8. DOMAIN GatesOf(r) = DOMAIN GatesOf(s)
    BY <1>4, Later, InvalidIs DEF ControllerIs, PodSecurityGate, LegacyGate, LateLegacy
<1>9. \A g \in DOMAIN GatesOf(r) : GatesOf(r)[g] = GatesOf(s)[g]
    BY <1>4, <1>8, Later, InvalidIs DEF ControllerIs, PodSecurityGate, LegacyGate, LateLegacy
<1>10. r = s BY <1>5, <1>6, <1>7, <1>8, <1>9, SameConfig
<1> QED BY <1>1, <1>2, <1>3, <1>10

\* setCloudControllerManagerConfig, flag by flag
CloudIs(r, user, v) ==
    /\ Proper(r)
    /\ DOMAIN r = DOMAIN user \union {"--leader-elect", Gates}
    /\ r["--leader-elect"] = "static"
    /\ \A x \in DOMAIN user \ {"--leader-elect", Gates} : r[x] = user[x]
    /\ DOMAIN GatesOf(r) = DOMAIN GatesOf(user) \ InvalidFeatureGates(v)
    /\ \A g \in DOMAIN GatesOf(r) : GatesOf(r)[g] = GatesOf(user)[g]

\* SetCloudControllerManagerConfig computes it.
LEMMA CloudConfigIs ==
    ASSUME NEW user, NEW v, NEW r, r = SetCloudControllerManagerConfig(user, v)
    PROVE  CloudIs(r, user, v)
<1> DEFINE full == "--leader-elect" :> "static" @@ user
<1>1. /\ DOMAIN full = DOMAIN user \union {"--leader-elect"}
      /\ full["--leader-elect"] = "static"
      /\ \A x \in DOMAIN user \ {"--leader-elect"} : full[x] = user[x]
      /\ GatesOf(full) = GatesOf(user)
    BY DEF @@, :>, GatesOf, Gates
<1>2. r = RemoveInvalidFeatureGates(full, InvalidFeatureGates(v))
    BY DEF SetCloudControllerManagerConfig
<1> HIDE DEF full
<1>3. LastRemoval(r, full, InvalidFeatureGates(v)) BY <1>2, RemovalIs
<1> QED BY <1>1, <1>3 DEF LastRemoval, CloudIs, Gates

\* Its flags do not depend on the upgrades either.
LEMMA CloudAgain ==
    ASSUME NEW v \in Known, NEW w \in Known, Minor(v) <= Minor(w), NEW user
    PROVE  SetCloudControllerManagerConfig(SetCloudControllerManagerConfig(user, v), w)
             = SetCloudControllerManagerConfig(user, w)
<1>1. PICK c : c = SetCloudControllerManagerConfig(user, v) OBVIOUS
<1>2. PICK r : r = SetCloudControllerManagerConfig(c, w) OBVIOUS
<1>3. PICK s : s = SetCloudControllerManagerConfig(user, w) OBVIOUS
<1>4. CloudIs(c, user, v) /\ CloudIs(r, c, w) /\ CloudIs(s, user, w)
    BY <1>1, <1>2, <1>3, CloudConfigIs
<1>5. Proper(r) /\ Proper(s) BY <1>4 DEF CloudIs
<1>6. DOMAIN r = DOMAIN s /\ Gates \in DOMAIN r BY <1>4 DEF CloudIs
<1>7. \A x \in DOMAIN r \ {Gates} : r[x] = s[x] BY <1>4, <1>6 DEF CloudIs
<1>8. DOMAIN GatesOf(r) = DOMAIN GatesOf(s) BY <1>4, Later, InvalidIs DEF CloudIs
<1>9. \A g \in DOMAIN GatesOf(r) : GatesOf(r)[g] = GatesOf(s)[g] BY <1>4, <1>8 DEF CloudIs
<1>10. r = s BY <1>5, <1>6, <1>7, <1>8, <1>9, SameConfig
<1> QED BY <1>1, <1>2, <1>3, <1>10

\* The flag of the scheduler that is renamed with 1.28
Lock == "--lock-object-name"
Resource == "--leader-elect-resource-name"
Renames(v, user) == Ge(v, 28) /\ Lock \in DOMAIN user

\* setSchedulerConfig, flag by flag
SchedulerIs(r, user, v) ==
    /\ Proper(r)
    /\ DOMAIN r = (DOMAIN user \ (IF Renames(v, user) THEN {Lock} ELSE {}))
                    \union CommonFlags \union (IF Renames(v, user) THEN {Resource} ELSE {})
    /\ r["--leader-elect"] = "static"
    /\ r["--profiling"] = IF "--profiling" \in DOMAIN user THEN user["--profiling"] ELSE "default"
    /\ \A x \in DOMAIN r \ (CommonFlags \union {Resource}) : r[x] = user[x]
    /\ Resource \in DOMAIN r => r[Resource] = IF Renames(v, user) THEN user[Lock] ELSE user[Resource]
    /\ DOMAIN GatesOf(r) = (DOMAIN GatesOf(user) \union PodSecurityGate(v)) \ InvalidFeatureGates(v)
    /\ \A g \in DOMAIN GatesOf(r) :
          GatesOf(r)[g] = IF g \in DOMAIN GatesOf(user) THEN GatesOf(user)[g] ELSE GateDefault(g)

\* SetSchedulerConfig computes it.
LEMMA SchedulerConfigIs ==
    ASSUME NEW user, NEW v, NEW r, r = SetSchedulerConfig(user, v)
    PROVE  SchedulerIs(r, user, v)
<1> DEFINE filled == user @@ "--profiling" :> "default"
           gated == AddDefaultFeatureGates(filled, PodSecurity(v))
           full == "--leader-elect" :> "static" @@ gated
           clean == RemoveInvalidFeatureGates(full, InvalidFeatureGates(v))
           named == Resource :> clean[Lock] @@ Without(clean, {Lock})
<1>a. r = IF Ge(v, 28) /\ Lock \in DOMAIN clean THEN named ELSE clean
    BY DEF SetSchedulerConfig, Lock, Resource
<1>1. /\ DOMAIN filled = DOMAIN user \union {"--profiling"}
      /\ filled["--profiling"] = IF "--profiling" \in DOMAIN user THEN user["--profiling"] ELSE "default"
      /\ \A x \in DOMAIN user : filled[x] = user[x]
      /\ GatesOf(filled) = GatesOf(user)
    BY DEF @@, :>, GatesOf, Gates
<1> HIDE DEF filled
<1>2. Gated(gated, filled, PodSecurity(v)) BY GatedIs
<1> HIDE DEF gated
<1>3. /\ DOMAIN full = DOMAIN gated \union {"--leader-elect"}
      /\ full["--leader-elect"] = "static"
      /\ \A x \in DOMAIN gated \ {"--leader-elect"} : full[x] = gated[x]
      /\ GatesOf(full) = GatesOf(gated)
    BY DEF @@, :>, GatesOf, Gates
<1> HIDE DEF full
<1>4. LastRemoval(clean, full, InvalidFeatureGates(v)) BY RemovalIs
<1> HIDE DEF clean
<1>5. DOMAIN clean = DOMAIN user \union CommonFlags
    BY <1>1, <1>2, <1>3, <1>4 DEF Gated, LastRemoval, CommonFlags
<1>6. /\ clean["--leader-elect"] = "static"
      /\ \A x \in DOMAIN clean \ {"--leader-elect", Gates} : clean[x] = filled[x]
    BY <1>2, <1>3, <1>4 DEF Gated, LastRemoval, Gates
<1>7. clean["--profiling"] = IF "--profiling" \in DOMAIN user THEN user["--profiling"] ELSE "default"
    BY <1>1, <1>5, <1>6 DEF CommonFlags, Gates
<1>8. \A x \in DOMAIN clean \ CommonFlags : clean[x] = user[x]
    BY <1>1, <1>5, <1>6 DEF CommonFlags
<1>9. /\ DOMAIN GatesOf(clean) = (DOMAIN GatesOf(user) \union PodSecurityGate(v)) \ InvalidFeatureGates(v)
      /\ \A g \in DOMAIN GatesOf(clean) :
            GatesOf(clean)[g] = IF g \in DOMAIN GatesOf(user) THEN GatesOf(user)[g] ELSE GateDefault(g)
    BY <1>1, <1>2, <1>3, <1>4, PodSecurityIs DEF Gated, LastRemoval
<1>10. CASE Renames(v, user)
    <2>1. r = named BY <1>a, <1>5, <1>10 DEF Renames
    <2>2. /\ IsFcn(named)
          /\ DOMAIN named = (DOMAIN clean \ {Lock}) \union {Resource}
          /\ named[Resource] = clean[Lock]
          /\ \A x \in DOMAIN clean \ {Lock, Resource} : named[x] = clean[x]
          /\ GatesOf(named) = GatesOf(clean)
        BY DEF @@, :>, Without, Restrict, Lock, Resource, GatesOf, Gates, IsFcn
    <2> HIDE DEF named
    <2>3. Proper(named) BY <1>4, <2>2 DEF Proper, LastRemoval
    <2>4. DOMAIN named = (DOMAIN user \ {Lock}) \union CommonFlags \union {Resource}
        BY <1>5, <2>2 DEF CommonFlags, Lock, Gates
    <2>5. /\ named["--leader-elect"] = "static" /\ named["--profiling"] = clean["--profiling"]
          /\ \A x \in DOMAIN named \ (CommonFlags \union {Resource}) : named[x] = user[x]
          /\ named[Resource] = user[Lock]
        BY <1>5, <1>6, <1>8, <1>10, <2>2 DEF CommonFlags, Lock, Resource, Gates, Renames
    <2> QED BY <1>7, <1>9, <1>10, <2>1, <2>2, <2>3, <2>4, <2>5 DEF SchedulerIs
<1>11. CASE ~Renames(v, user)
    <2>1. r = clean BY <1>a, <1>5, <1>11 DEF Renames, CommonFlags, Lock, Gates
    <2>2. Resource \in DOMAIN clean => clean[Resource] = user[Resource]
        BY <1>8 DEF CommonFlags, Resource, Gates
    <2>3. Proper(clean) BY <1>4 DEF LastRemoval
    <2> QED BY <1>5, <1>6, <1>7, <1>8, <1>9, <1>11, <2>1, <2>2, <2>3 DEF SchedulerIs
<1> QED BY <1>10, <1>11

\* Its flags do not depend on the upgrades either: a renamed flag is not set
\* again.
LEMMA SchedulerAgain ==
    ASSUME NEW v \in Known, NEW w \in Known, Minor(v) <= Minor(w), NEW user
    PROVE  SetSchedulerConfig(SetSchedulerConfig(user, v), w) = SetSchedulerConfig(user, w)
<1>1. PICK c : c = SetSchedulerConfig(user, v) OBVIOUS
<1>2. PICK r : r = SetSchedulerConfig(c, w) OBVIOUS
<1>3. PICK s : s = SetSchedulerConfig(user, w) OBVIOUS
<1>4. SchedulerIs(c, user, v) /\ SchedulerIs(r, c, w) /\ SchedulerIs(s, user, w)
    BY <1>1, <1>2, <1>3, SchedulerConfigIs
<1>5. Proper(r) /\ Proper(s) BY <1>4 DEF SchedulerIs
<1>6. DOMAIN r = DOMAIN s /\ Gates \in DOMAIN r
    BY <1>4, Later DEF SchedulerIs, CommonFlags, Gates, Lock, Resource, Renames
<1>7. \A x \in DOMAIN r \ {Gates} : r[x] = s[x]
    <2>1. \A x \in DOMAIN r \ (CommonFlags \union {Resource}) : r[x] = s[x]
        BY <1>4, <1>6, Later DEF SchedulerIs
    <2>2. r["--leader-elect"] = s["--leader-elect"] /\ r["--profiling"] = s["--profiling"]
        BY <1>4, <1>6 DEF SchedulerIs, CommonFlags
    <2>3. Resource \in DOMAIN r => r[Resource] = s[Resource]
        BY <1>4, <1>6, Later DEF SchedulerIs, CommonFlags, Gates, Lock, Resource, Renames
    <2> QED BY <2>1, <2>2, <2>3 DEF CommonFlags
<1>8. DOMAIN GatesOf(r) = DOMAIN GatesOf(s)
    BY <1>4, Later, InvalidIs DEF SchedulerIs, PodSecurityGate
<1>9. \A g \in DOMAIN GatesOf(r) : GatesOf(r)[g] = GatesOf(s)[g]
    BY <1>4, <1>8, Later, InvalidIs DEF SchedulerIs, PodSecurityGate
<1>10. r = s BY <1>5, <1>6, <1>7, <1>8, <1>9, SameConfig
<1> QED BY <1>1, <1>2, <1>3, <1>10

\* The flags of the API server that go with 1.25, or change
Plugins == "--enable-admission-plugins"
Audiences == "--service-account-api-audiences"
DefaultPlugins(psp) == {"default"} \union (IF psp THEN {"PodSecurityPolicy"} ELSE {})

\* setAPIServerConfig, flag by flag
ServerIs(r, user, v, psp) ==
    /\ Proper(r)
    /\ DOMAIN r = (DOMAIN user \ (IF Ge(v, 25) THEN {Audiences} ELSE {})) \union CommonFlags \union {Plugins}
    /\ r["--leader-elect"] = "static"
    /\ r["--profiling"] = IF "--profiling" \in DOMAIN user THEN user["--profiling"] ELSE "default"
    /\ \A x \in DOMAIN r \ (CommonFlags \union {Plugins}) : r[x] = user[x]
    /\ r[Plugins] = LET listed == IF Plugins \in DOMAIN user THEN user[Plugins] ELSE DefaultPlugins(psp)
                    IN  IF Ge(v, 25) THEN listed \ {"PodSecurityPolicy"} ELSE listed
    /\ DOMAIN GatesOf(r) = (DOMAIN GatesOf(user) \union PodSecurityGate(v)) \ InvalidFeatureGates(v)
    /\ \A g \in DOMAIN GatesOf(r) :
          GatesOf(r)[g] = IF g \in DOMAIN GatesOf(user) THEN GatesOf(user)[g] ELSE GateDefault(g)

\* SetAPIServerConfig computes it.
LEMMA ServerConfigIs ==
    ASSUME NEW user, NEW v, NEW psp, NEW r, r = SetAPIServerConfig(user, v, psp)
    PROVE  ServerIs(r, user, v, psp)
<1> DEFINE plugins == DefaultPlugins(psp)
           filled == user @@ Plugins :> plugins @@ "--profiling" :> "default"
           gated == AddDefaultFeatureGates(filled, PodSecurity(v))
           known == IF Ge(v, 25) THEN Without(gated, {Audiences}) ELSE gated
           full == "--leader-elect" :> "static" @@ known
           clean == RemoveInvalidFeatureGates(full, InvalidFeatureGates(v))
           trimmed == [clean EXCEPT ![Plugins] = @ \ {"PodSecurityPolicy"}]
<1>a. r = IF Ge(v, 25) THEN trimmed ELSE clean
    BY DEF SetAPIServerConfig, DefaultPlugins, Plugins, Audiences
<1> HIDE DEF plugins
<1>1. /\ DOMAIN filled = DOMAIN user \union {"--profiling", Plugins}
      /\ filled["--profiling"] = IF "--profiling" \in DOMAIN user THEN user["--profiling"] ELSE "default"
      /\ filled[Plugins] = IF Plugins \in DOMAIN user THEN user[Plugins] ELSE plugins
      /\ \A x \in DOMAIN user : filled[x] = user[x]
      /\ GatesOf(filled) = GatesOf(user)
    BY DEF @@, :>, GatesOf, Gates, Plugins
<1> HIDE DEF filled
<1>2. Gated(gated, filled, PodSecurity(v)) BY GatedIs
<1> HIDE DEF gated
<1>3. /\ DOMAIN known = DOMAIN gated \ (IF Ge(v, 25) THEN {Audiences} ELSE {})
      /\ \A x \in DOMAIN known : known[x] = gated[x]
      /\ GatesOf(known) = GatesOf(gated)
    BY DEF Without, Restrict, GatesOf, Gates, Audiences
<1> HIDE DEF known
<1>4. /\ DOMAIN full = DOMAIN known \union {"--leader-elect"}
      /\ full["--leader-elect"] = "static"
      /\ \A x \in DOMAIN known \ {"--leader-elect"} : full[x] = known[x]
      /\ GatesOf(full) = GatesOf(known)
    BY DEF @@, :>, GatesOf, Gates
<1> HIDE DEF full
<1>5. LastRemoval(clean, full, InvalidFeatureGates(v)) BY RemovalIs
<1> HIDE DEF clean
<1>6. DOMAIN clean = (DOMAIN user \ (IF Ge(v, 25) THEN {Audiences} ELSE {})) \union CommonFlags \union {Plugins}
    BY <1>1, <1>2, <1>3, <1>4, <1>5 DEF Gated, LastRemoval, CommonFlags, Audiences, Plugins, Gates
<1>7. /\ clean["--leader-elect"] = "static"
      /\ \A x \in DOMAIN clean \ {"--leader-elect", Gates} : clean[x] = filled[x]
    BY <1>2, <1>3, <1>4, <1>5 DEF Gated, LastRemoval, Gates
<1>8. /\ clean["--profiling"] = IF "--profiling" \in DOMAIN user THEN user["--profiling"] ELSE "default"
      /\ clean[Plugins] = IF Plugins \in DOMAIN user THEN user[Plugins] ELSE plugins
    BY <1>1, <1>6, <1>7 DEF CommonFlags, Gates, Plugins
<1>9. \A x \in DOMAIN clean \ (CommonFlags \union {Plugins}) : clean[x] = user[x]
    BY <1>1, <1>6, <1>7 DEF CommonFlags
<1>10. /\ DOMAIN GatesOf(clean) = (DOMAIN GatesOf(user) \union PodSecurityGate(v)) \ InvalidFeatureGates(v)
       /\ \A g \in DOMAIN GatesOf(clean) :
             GatesOf(clean)[g] = IF g \in DOMAIN GatesOf(user) THEN GatesOf(user)[g] ELSE GateDefault(g)
    BY <1>1, <1>2, <1>3, <1>4, <1>5, PodSecurityIs DEF Gated, LastRemoval
<1>11. Proper(clean) BY <1>5 DEF LastRemoval
<1>12. CASE Ge(v, 25)
    <2>1. r = trimmed BY <1>a, <1>12
    <2>2. /\ IsFcn(trimmed) /\ DOMAIN trimmed = DOMAIN clean
          /\ trimmed[Plugins] = clean[Plugins] \ {"PodSecurityPolicy"}
          /\ \A x \in DOMAIN clean \ {Plugins} : trimmed[x] = clean[x]
          /\ GatesOf(trimmed) = GatesOf(clean)
        BY <1>6 DEF IsFcn, GatesOf, Gates, Plugins
    <2> HIDE DEF trimmed
    <2>3. Proper(trimmed) BY <1>11, <2>2 DEF Proper
    <2>4. trimmed["--leader-elect"] = clean["--leader-elect"] /\ trimmed["--profiling"] = clean["--profiling"]
        BY <1>6, <2>2 DEF CommonFlags, Plugins
    <2> QED BY <1>6, <1>7, <1>8, <1>9, <1>10, <1>12, <2>1, <2>2, <2>3, <2>4 DEF ServerIs, plugins
<1>13. CASE ~Ge(v, 25)
    <2>1. r = clean BY <1>a, <1>13
    <2> QED BY <1>6, <1>7, <1>8, <1>9, <1>10, <1>11, <1>13, <2>1 DEF ServerIs, plugins
<1> QED BY <1>12, <1>13

\* The addon ends with 1.25, and with it its plugin.
LEMMA ServerAgain ==
    ASSUME NEW v \in Known, NEW w \in Known, Minor(v) <= Minor(w), NEW user,
           NEW on, NEW p1, p1 <=> (on /\ ~Ge(v, 25)),
           NEW p2, p2 <=> (p1 /\ ~Ge(w, 25)), NEW p3, p3 <=> (on /\ ~Ge(w, 25))
    PROVE  SetAPIServerConfig(SetAPIServerConfig(user, v, p1), w, p2) = SetAPIServerConfig(user, w, p3)
<1>1. PICK c : c = SetAPIServerConfig(user, v, p1) OBVIOUS
<1>2. PICK r : r = SetAPIServerConfig(c, w, p2) OBVIOUS
<1>3. PICK s : s = SetAPIServerConfig(user, w, p3) OBVIOUS
<1>4. ServerIs(c, user, v, p1) /\ ServerIs(r, c, w, p2) /\ ServerIs(s, user, w, p3)
    BY <1>1, <1>2, <1>3, ServerConfigIs
<1>5. Proper(r) /\ Proper(s) BY <1>4 DEF ServerIs
<1>6. DOMAIN r = DOMAIN s /\ Gates \in DOMAIN r
    BY <1>4, Later DEF ServerIs, CommonFlags, Gates, Plugins, Audiences
<1>7. \A x \in DOMAIN r \ {Gates} : r[x] = s[x]
    <2>1. \A x \in DOMAIN r \ (CommonFlags \union {Plugins}) : r[x] = s[x]
        BY <1>4, <1>6, Later DEF ServerIs
    <2>2. r["--leader-elect"] = s["--leader-elect"] /\ r["--profiling"] = s["--profiling"]
        BY <1>4, <1>6 DEF ServerIs, CommonFlags
    <2>3. r[Plugins] = s[Plugins]
        <3>1. Plugins \in DOMAIN c BY <1>4 DEF ServerIs
        <3>2. PICK listed : listed = IF Plugins \in DOMAIN user THEN user[Plugins] ELSE DefaultPlugins(p1) OBVIOUS
        <3>3. c[Plugins] = IF Ge(v, 25) THEN listed \ {"PodSecurityPolicy"} ELSE listed
            BY <1>4, <3>2 DEF ServerIs
        <3>4. r[Plugins] = IF Ge(w, 25) THEN c[Plugins] \ {"PodSecurityPolicy"} ELSE c[Plugins]
            BY <1>4, <3>1 DEF ServerIs
        <3>5. PICK other : other = IF Plugins \in DOMAIN user THEN user[Plugins] ELSE DefaultPlugins(p3) OBVIOUS
        <3>6. s[Plugins] = IF Ge(w, 25) THEN other \ {"PodSecurityPolicy"} ELSE other
            BY <1>4, <3>5 DEF ServerIs
        <3>7. listed \ {"PodSecurityPolicy"} = other \ {"PodSecurityPolicy"}
            <4>1. CASE Plugins \in DOMAIN user BY <3>2, <3>5, <4>1
            <4>2. CASE Plugins \notin DOMAIN user
                <5>1. listed = DefaultPlugins(p1) /\ other = DefaultPlugins(p3) BY <3>2, <3>5, <4>2
                <5>2. \A q : DefaultPlugins(q) \ {"PodSecurityPolicy"} = {"default"}
                    BY DEF DefaultPlugins
                <5> QED BY <5>1, <5>2
            <4> QED BY <4>1, <4>2
        <3>8. ~Ge(w, 25) => listed = other
            <4> SUFFICES ASSUME ~Ge(w, 25) PROVE listed = other OBVIOUS
            <4>1. ~Ge(v, 25) BY Later
            <4>2. p1 <=> p3 BY <4>1
            <4>3. DefaultPlugins(p1) = DefaultPlugins(p3)
                <5>1. CASE p1 BY <4>2, <5>1 DEF DefaultPlugins
                <5>2. CASE ~p1 BY <4>2, <5>2 DEF DefaultPlugins
                <5> QED BY <5>1, <5>2
            <4> QED BY <3>2, <3>5, <4>3
        <3>9. Ge(v, 25) => Ge(w, 25) BY Later
        <3> QED BY <3>3, <3>4, <3>6, <3>7, <3>8, <3>9
    <2> QED BY <2>1, <2>2, <2>3 DEF CommonFlags
<1>8. DOMAIN GatesOf(r) = DOMAIN GatesOf(s)
    BY <1>4, Later, InvalidIs DEF ServerIs, PodSecurityGate
<1>9. \A g \in DOMAIN GatesOf(r) : GatesOf(r)[g] = GatesOf(s)[g]
    BY <1>4, <1>8, Later, InvalidIs DEF ServerIs, PodSecurityGate
<1>10. r = s BY <1>5, <1>6, <1>7, <1>8, <1>9, SameConfig
<1> QED BY <1>1, <1>2, <1>3, <1>10

-----------------------------------------------------------------------------
(* Completing a kubelet's flags once more.                                   *)
\* A pass after another one of the same version: only the first may be the
\* one of an upgrade.
Follows(u, before) == before \/ ~u

\* A pass for the same version that follows another leaves the kubelet of the
\* cluster alone.
LEMMA ClusterAgain ==
    ASSUME NEW x, NEW v, NEW u \in BOOLEAN, NEW before \in BOOLEAN, Follows(u, before),
           NEW c, c = ClusterKubelet(x, v, before)
    PROVE  ClusterKubelet(c, v, u) = c
<1>1. PICK r : r = ClusterKubelet(c, v, u) OBVIOUS
<1>2. ClusterIs(c, x, v, before) /\ ClusterIs(r, c, v, u) BY <1>1, ClusterKubeletIs
<1>3. Proper(r) /\ Proper(c) BY <1>2 DEF ClusterIs
<1>4. DOMAIN r = DOMAIN c /\ Standard \subseteq DOMAIN c
    BY <1>2 DEF ClusterIs, Standard, PauseImage, Gates, Runtime
<1>5. \A g \in DOMAIN GatesOf(c) : g \in DOMAIN GatesOf(r) /\ GatesOf(r)[g] = GatesOf(c)[g]
    BY <1>2 DEF ClusterIs
<1>6. DOMAIN GatesOf(r) = DOMAIN GatesOf(c) BY <1>2 DEF ClusterIs
<1>7. "SupportPodPidsLimit" \in DOMAIN GatesOf(c) <=> "SupportPodPidsLimit" \in DOMAIN GatesOf(x)
    BY <1>2, InvalidIs DEF ClusterIs, PodSecurityGate
<1>8. r["--pod-max-pids"] = c["--pod-max-pids"]
    BY <1>2, <1>4, <1>7 DEF ClusterIs, Standard, Follows
<1>9. r[PauseImage] = c[PauseImage] BY <1>2, <1>4 DEF ClusterIs, Standard, Follows
<1>10. \A k \in DOMAIN c \ {Gates, PauseImage, "--pod-max-pids"} : r[k] = c[k]
    BY <1>2, <1>4 DEF ClusterIs, Standard
<1> QED BY <1>1, <1>3, <1>4, <1>5, <1>6, <1>8, <1>9, <1>10, SameConfig DEF Standard

\* A pass for the same version that follows another leaves the kubelet of a
\* profile alone.
LEMMA ProfileAgain ==
    ASSUME NEW p, NEW x, NEW cluster, Standard \subseteq DOMAIN cluster,
           NEW v, NEW u \in BOOLEAN, NEW before \in BOOLEAN, Follows(u, before),
           NEW c, c = ProfileKubelet(p, x, cluster, v, before)
    PROVE  ProfileKubelet(p, c, cluster, v, u) = c
<1>1. PICK r : r = ProfileKubelet(p, c, cluster, v, u) OBVIOUS
<1>2. ProfileIs(c, p, x, cluster, v, before) /\ ProfileIs(r, p, c, cluster, v, u)
    BY <1>1, ProfileKubeletIs
<1>3. Proper(r) /\ Proper(c) BY <1>2 DEF ProfileIs
<1>4. DOMAIN r = DOMAIN c
    BY <1>2 DEF ProfileIs, Runtime, Taints
<1>5. Standard \subseteq DOMAIN c BY <1>2 DEF ProfileIs, Standard, PauseImage, Gates
<1>6. OwnGates(c, cluster) = GatesOf(c) BY <1>5 DEF OwnGates, Standard
<1>7. DOMAIN GatesOf(r) = DOMAIN GatesOf(c) /\ \A g \in DOMAIN GatesOf(r) : GatesOf(r)[g] = GatesOf(c)[g]
    BY <1>2, <1>6 DEF ProfileIs
<1>8. "SupportPodPidsLimit" \in DOMAIN GatesOf(c) <=> "SupportPodPidsLimit" \in DOMAIN OwnGates(x, cluster)
    BY <1>2, InvalidIs DEF ProfileIs
<1>9. r["--pod-max-pids"] = c["--pod-max-pids"]
    BY <1>2, <1>5, <1>6, <1>8 DEF ProfileIs, Standard, Follows
<1>10. r[PauseImage] = c[PauseImage] BY <1>2, <1>5 DEF ProfileIs, Standard, Follows
<1>11. r["--cluster-dns"] = c["--cluster-dns"] BY <1>2, <1>5 DEF ProfileIs, Standard
<1>12. Taints \in DOMAIN c => r[Taints] = c[Taints]
    <2>1. CASE p # "master" BY <1>2, <1>4, <2>1 DEF ProfileIs
    <2>2. CASE p = "master"
        <3>1. PICK b : c[Taints] = b \union {"master"} BY <1>2, <2>2 DEF ProfileIs
        <3>2. Taints \in DOMAIN c BY <1>2, <2>2 DEF ProfileIs
        <3>3. r[Taints] = c[Taints] \union {"master"} BY <1>2, <2>2, <3>2 DEF ProfileIs
        <3> QED BY <3>1, <3>3
    <2> QED BY <2>1, <2>2
<1>13. \A k \in DOMAIN c \ {"--cluster-dns", PauseImage, "--pod-max-pids", Gates, Taints} : r[k] = c[k]
    BY <1>2, <1>4 DEF ProfileIs
<1> QED BY <1>1, <1>3, <1>4, <1>5, <1>7, <1>9, <1>10, <1>11, <1>12, <1>13, SameConfig DEF Standard

\* Two configurations that differ in some flags at most
Alike(c, d, keys) ==
    /\ DOMAIN c \ keys = DOMAIN d \ keys
    /\ \A x \in DOMAIN c \ keys : c[x] = d[x]

\* Alike compares what Without leaves.
LEMMA AlikeIs ==
    ASSUME NEW c, NEW d, NEW keys
    PROVE  Alike(c, d, keys) <=> Without(c, keys) = Without(d, keys)
<1>1. Alike(c, d, keys) => Without(c, keys) = Without(d, keys) BY DEF Alike, Without, Restrict
<1>2. ASSUME Without(c, keys) = Without(d, keys) PROVE Alike(c, d, keys)
    <2>1. DOMAIN Without(c, keys) = DOMAIN c \ keys /\ DOMAIN Without(d, keys) = DOMAIN d \ keys
        BY Less
    <2>2. \A x \in DOMAIN c \ keys : Without(c, keys)[x] = c[x] BY Less
    <2>3. \A x \in DOMAIN d \ keys : Without(d, keys)[x] = d[x] BY Less
    <2> QED BY <1>2, <2>1, <2>2, <2>3 DEF Alike
<1> QED BY <1>1, <1>2

\* The two kinds of a pass, as values
NewPass == FALSE

\* The pass of upgrade
UpgradePass == TRUE

\* Which pass leaves alone what another wrote
LEMMA Passes ==
    /\ NewPass \in BOOLEAN /\ UpgradePass \in BOOLEAN
    /\ \A u \in BOOLEAN : Follows(NewPass, u)
    /\ Follows(UpgradePass, UpgradePass)
BY DEF NewPass, UpgradePass, Follows

\* What an upgrade sets again
Reset == {PauseImage, "--pod-max-pids"}

\* A later pass makes the kubelet of the cluster like a new one of its version,
\* if it was like a new one of the version before.
LEMMA ClusterLater ==
    ASSUME NEW v \in Known, NEW w \in Known, Minor(v) <= Minor(w), NEW x, NEW c,
           Alike(c, ClusterKubelet(x, v, NewPass), Reset),
           NEW u \in BOOLEAN
    PROVE  Alike(ClusterKubelet(c, w, u), ClusterKubelet(x, w, NewPass), Reset)
<1>1. PICK b : b = ClusterKubelet(x, v, NewPass) OBVIOUS
<1>2. PICK r : r = ClusterKubelet(c, w, u) OBVIOUS
<1>3. PICK s : s = ClusterKubelet(x, w, NewPass) OBVIOUS
<1>4. ClusterIs(b, x, v, NewPass) /\ ClusterIs(r, c, w, u) /\ ClusterIs(s, x, w, NewPass)
    BY <1>1, <1>2, <1>3, ClusterKubeletIs, Passes
<1>5. Alike(c, b, Reset) BY <1>1
<1>6. GatesOf(c) = GatesOf(b) /\ Gates \in DOMAIN c /\ Gates \notin Reset
    <2>1. Gates \in DOMAIN b BY <1>4 DEF ClusterIs, Standard
    <2>2. Gates \notin Reset BY DEF Reset, Gates, PauseImage
    <2> QED BY <1>5, <2>1, <2>2 DEF Alike, GatesOf
<1>7. DOMAIN r \ Reset = DOMAIN s \ Reset
    BY <1>4, <1>5, Later DEF ClusterIs, Alike, Reset, Standard, Runtime, PauseImage, Gates
<1>8. r["--cluster-dns"] = s["--cluster-dns"] BY <1>4 DEF ClusterIs
<1>9. "--max-pods" \in DOMAIN r \ Reset => r["--max-pods"] = s["--max-pods"]
    BY <1>4, <1>5, <1>7 DEF ClusterIs, Alike, Reset, Standard, PauseImage, Gates
<1>10. "--container-runtime" \in DOMAIN r \ Reset => r["--container-runtime"] = s["--container-runtime"]
    BY <1>4, <1>5, <1>7, Later DEF ClusterIs, Alike, Reset, Standard, Runtime, PauseImage, Gates
<1>11. ASSUME NEW k \in DOMAIN r \ Reset, k \notin Standard \union {"--container-runtime"} PROVE r[k] = s[k]
    BY <1>4, <1>5, <1>7, <1>11 DEF ClusterIs, Alike, Reset, Standard, Runtime, PauseImage, Gates
<1>12. r[Gates] = s[Gates]
    <2>1. /\ DOMAIN GatesOf(r) = DOMAIN GatesOf(s)
        BY <1>4, <1>6, Later, InvalidIs DEF ClusterIs, PodSecurityGate
    <2>2. \A g \in DOMAIN GatesOf(r) : GatesOf(r)[g] = GatesOf(s)[g]
        BY <1>4, <1>6, <2>1, Later, InvalidIs DEF ClusterIs, PodSecurityGate
    <2>3. Gates \in DOMAIN r /\ Gates \in DOMAIN s BY <1>4 DEF ClusterIs, Standard
    <2>4. r[Gates] = GatesOf(r) /\ s[Gates] = GatesOf(s) BY <2>3 DEF GatesOf
    <2>5. IsFcn(GatesOf(r)) /\ IsFcn(GatesOf(s)) BY <1>4 DEF ClusterIs, Proper
    <2> QED BY <2>1, <2>2, <2>4, <2>5 DEF IsFcn
<1>13. \A k \in DOMAIN r \ Reset : r[k] = s[k]
    BY <1>8, <1>9, <1>10, <1>11, <1>12 DEF Standard, Reset
<1> QED BY <1>2, <1>3, <1>7, <1>13 DEF Alike

\* What a profile keeps besides
ResetOrGates == Reset \union {Gates}

\* The same for the kubelet of a profile
LEMMA ProfileLater ==
    ASSUME NEW v \in Known, NEW w \in Known, Minor(v) <= Minor(w), NEW p, NEW x, NEW y, NEW c, NEW cluster,
           Alike(c, ProfileKubelet(p, x, ClusterKubelet(y, v, NewPass), v, NewPass), ResetOrGates),
           Standard \subseteq DOMAIN cluster,
           Alike(cluster, ClusterKubelet(y, w, NewPass), Reset),
           NEW u \in BOOLEAN
    PROVE  Alike(ProfileKubelet(p, c, cluster, w, u),
                 ProfileKubelet(p, x, ClusterKubelet(y, w, NewPass), w, NewPass), ResetOrGates)
<1>1. PICK cv : cv = ClusterKubelet(y, v, NewPass) OBVIOUS
<1>2. PICK cw : cw = ClusterKubelet(y, w, NewPass) OBVIOUS
<1>3. PICK b : b = ProfileKubelet(p, x, cv, v, NewPass) OBVIOUS
<1>4. PICK r : r = ProfileKubelet(p, c, cluster, w, u) OBVIOUS
<1>5. PICK s : s = ProfileKubelet(p, x, cw, w, NewPass) OBVIOUS
<1>6. ClusterIs(cv, y, v, NewPass) /\ ClusterIs(cw, y, w, NewPass)
    BY <1>1, <1>2, ClusterKubeletIs, Passes
<1>7. Standard \subseteq DOMAIN cv /\ Standard \subseteq DOMAIN cw BY <1>6 DEF ClusterIs
<1>8. ProfileIs(b, p, x, cv, v, NewPass) /\ ProfileIs(r, p, c, cluster, w, u) /\ ProfileIs(s, p, x, cw, w, NewPass)
    BY <1>3, <1>4, <1>5, <1>7, ProfileKubeletIs, Passes
<1>9. Alike(c, b, ResetOrGates) BY <1>1, <1>3
<1>10. Alike(cluster, cw, Reset) BY <1>2
<1>11. DOMAIN r \ ResetOrGates = DOMAIN s \ ResetOrGates
    <2>1. DOMAIN cluster \ ResetOrGates = DOMAIN cw \ ResetOrGates BY <1>10 DEF Alike, ResetOrGates
    <2>2. DOMAIN cv \ {"--container-runtime"} = DOMAIN cw \ {"--container-runtime"}
        BY <1>6 DEF ClusterIs, Runtime
    <2>3. "--container-runtime" \in DOMAIN cw => "--container-runtime" \in DOMAIN cv
        BY <1>6, Later DEF ClusterIs, Runtime, Standard, PauseImage, Gates
    <2>4. \A k : k # "--container-runtime" /\ k \notin ResetOrGates => (k \in DOMAIN r <=> k \in DOMAIN s)
        BY <1>8, <1>9, <2>1, <2>2 DEF ProfileIs, Alike, Runtime
    <2>5. "--container-runtime" \in DOMAIN r <=> "--container-runtime" \in DOMAIN s
        <3>1. Taints # "--container-runtime" /\ "--container-runtime" \notin ResetOrGates
            BY DEF Taints, ResetOrGates, Reset, PauseImage, Gates
        <3>2. Ge(w, 27) => "--container-runtime" \notin DOMAIN r /\ "--container-runtime" \notin DOMAIN s
            BY <1>8, <3>1 DEF ProfileIs, Runtime
        <3>3. ~Ge(w, 27) => "--container-runtime" \in DOMAIN cw /\ "--container-runtime" \in DOMAIN cluster
            BY <1>6, <2>1, <3>1 DEF ClusterIs, Runtime
        <3>4. ~Ge(w, 27) => "--container-runtime" \in DOMAIN r /\ "--container-runtime" \in DOMAIN s
            BY <1>8, <3>3 DEF ProfileIs, Runtime
        <3> QED BY <3>2, <3>4
    <2> QED BY <2>4, <2>5
<1>12. ASSUME NEW k \in DOMAIN r \ ResetOrGates PROVE r[k] = s[k]
    <2>1. k \in DOMAIN s BY <1>11
    <2>2. k \in DOMAIN c <=> k \in DOMAIN b BY <1>9 DEF Alike
    <2>3. k \in DOMAIN c => c[k] = b[k] BY <1>9 DEF Alike
    <2>4. k \in DOMAIN cluster <=> k \in DOMAIN cw BY <1>10 DEF Alike, ResetOrGates
    <2>5. k \in DOMAIN cluster => cluster[k] = cw[k] BY <1>10 DEF Alike, ResetOrGates
    <2>6. CASE k \notin {"--cluster-dns", Taints}
        <3>1. k \notin {"--cluster-dns", PauseImage, "--pod-max-pids", Gates, Taints}
            BY <2>6 DEF ResetOrGates, Reset
        <3>2. r[k] = IF k \in DOMAIN c THEN c[k] ELSE cluster[k] BY <1>8, <3>1 DEF ProfileIs
        <3>3. s[k] = IF k \in DOMAIN x THEN x[k] ELSE cw[k] BY <1>8, <2>1, <3>1 DEF ProfileIs
        <3>4. k \in DOMAIN b => b[k] = IF k \in DOMAIN x THEN x[k] ELSE cv[k]
            BY <1>8, <3>1 DEF ProfileIs
        <3>5. k = "--container-runtime" => ~Ge(w, 27) /\ ~Ge(v, 27)
            BY <1>8, <3>1, Later DEF ProfileIs, Runtime
        <3>6. k \in DOMAIN x \union DOMAIN cw
            BY <1>8, <2>1, <3>1 DEF ProfileIs
        <3>7. k \in DOMAIN x => k \in DOMAIN b
            BY <1>8, <3>5 DEF ProfileIs, Runtime
        <3>8. k \in DOMAIN cw => k \in DOMAIN cv /\ cv[k] = cw[k]
            BY <1>6, <3>1, <3>5, Later DEF ClusterIs, Runtime, Standard
        <3>9. k \in DOMAIN cv => k \in DOMAIN b
            BY <1>8, <3>5 DEF ProfileIs, Runtime
        <3> QED BY <2>2, <2>3, <2>4, <2>5, <3>2, <3>3, <3>4, <3>6, <3>7, <3>8, <3>9
    <2>7. CASE k = "--cluster-dns"
        <3>1. cv[k] = "static" /\ cw[k] = "static" /\ k \in DOMAIN cv
            BY <1>6, <2>7 DEF ClusterIs, Standard
        <3>2. k \in DOMAIN b BY <1>8, <2>7, <3>1 DEF ProfileIs
        <3>3. b[k] = IF p # "master" THEN "static" ELSE IF k \in DOMAIN x THEN x[k] ELSE cv[k]
            BY <1>8, <2>7 DEF ProfileIs
        <3>4. s[k] = IF p # "master" THEN "static" ELSE IF k \in DOMAIN x THEN x[k] ELSE cw[k]
            BY <1>8, <2>7 DEF ProfileIs
        <3>5. r[k] = IF p # "master" THEN "static" ELSE IF k \in DOMAIN c THEN c[k] ELSE cluster[k]
            BY <1>8, <2>7 DEF ProfileIs
        <3> QED BY <2>2, <2>3, <3>1, <3>2, <3>3, <3>4, <3>5
    <2>8. CASE k = Taints
        <3>0. Taints \notin Standard \union {"--container-runtime"}
            BY DEF Taints, Standard, PauseImage, Gates
        <3>1. /\ k \in DOMAIN cv <=> k \in DOMAIN y
              /\ k \in DOMAIN cw <=> k \in DOMAIN y
              /\ k \in DOMAIN y => cv[k] = y[k] /\ cw[k] = y[k]
            BY <1>6, <2>8, <3>0 DEF ClusterIs, Runtime
        <3>2. CASE p # "master"
            <4>1. k \in DOMAIN b <=> k \in DOMAIN x \union DOMAIN cv
                BY <1>8, <2>8, <3>0, <3>2 DEF ProfileIs, Runtime
            <4>2. k \in DOMAIN b => b[k] = IF k \in DOMAIN x THEN x[k] ELSE cv[k]
                BY <1>8, <2>8, <3>2 DEF ProfileIs
            <4>3. s[k] = IF k \in DOMAIN x THEN x[k] ELSE cw[k]
                BY <1>8, <2>1, <2>8, <3>2 DEF ProfileIs
            <4>4. r[k] = IF k \in DOMAIN c THEN c[k] ELSE cluster[k]
                BY <1>8, <2>8, <3>2 DEF ProfileIs
            <4>5. k \in DOMAIN x \union DOMAIN cw
                BY <1>8, <2>1, <2>8, <3>0, <3>2 DEF ProfileIs, Runtime
            <4> QED BY <2>2, <2>3, <3>1, <4>1, <4>2, <4>3, <4>4, <4>5
        <3>3. CASE p = "master"
            <4>1. PICK own : own = IF k \in DOMAIN x THEN x[k] ELSE IF k \in DOMAIN y THEN y[k] ELSE {} OBVIOUS
            <4>2. b[k] = own \union {"master"} /\ s[k] = own \union {"master"} /\ k \in DOMAIN b
                BY <1>8, <2>8, <3>1, <3>3, <4>1 DEF ProfileIs
            <4>3. r[k] = c[k] \union {"master"} BY <1>8, <2>2, <2>8, <3>3, <4>2 DEF ProfileIs
            <4> QED BY <2>2, <2>3, <4>2, <4>3
        <3> QED BY <3>2, <3>3
    <2> QED BY <2>6, <2>7, <2>8
<1> QED BY <1>1, <1>2, <1>3, <1>4, <1>5, <1>11, <1>12 DEF Alike

-----------------------------------------------------------------------------
(* Addons and components.                                                    *)
IsPart(a) == a = [on |-> a.on, image |-> a.image, cpu |-> a.cpu] /\ a.on \in BOOLEAN

\* Addons and components are records.
Parts(f) ==
    /\ f.addons = [a \in Addons |-> f.addons[a]]
    /\ \A a \in Addons : IsPart(f.addons[a])
    /\ f.components = [c \in ComponentPlaces |-> f.components[c]]
    /\ \A c \in ComponentPlaces : IsPart(f.components[c])

\* assignDefaultAddonVals and assignDefaultComponentVals, field by field
AssignedTo(r, a, v, u) ==
    /\ IsPart(r)
    /\ r.on = a.on
    /\ r.image = IF ~a.on THEN NoImage ELSE IF a.image = NoImage \/ u THEN v ELSE a.image
    /\ r.cpu = IF ~a.on THEN "" ELSE IF a.cpu = "" THEN "default" ELSE a.cpu

\* AssignDefaultVals computes it.
LEMMA AssignedIs ==
    ASSUME NEW a, IsPart(a), NEW v, NEW u \in BOOLEAN, NEW r, r = AssignDefaultVals(a, v, u)
    PROVE  AssignedTo(r, a, v, u)
<1>1. CASE a.on = TRUE BY <1>1 DEF AssignDefaultVals, IsPart, AssignedTo
<1>2. CASE a.on = FALSE BY <1>2 DEF AssignDefaultVals, IsPart, AssignedTo
<1> QED BY <1>1, <1>2 DEF IsPart

\* A second pass of an upgrade assigns nothing new.
LEMMA AssignedAgain ==
    ASSUME NEW a, IsPart(a), NEW v, NEW u \in BOOLEAN, u = UpgradePass, NEW r, r = AssignDefaultVals(a, v, u),
           NEW b, IsPart(b), b.on = r.on, b.cpu = r.cpu
    PROVE  AssignDefaultVals(b, v, u) = r
<1>1. PICK s : s = AssignDefaultVals(b, v, u) OBVIOUS
<1>2. AssignedTo(r, a, v, u) BY AssignedIs
<1>3. AssignedTo(s, b, v, u) BY <1>1, AssignedIs
<1>4. s.on = r.on BY <1>3 DEF AssignedTo
<1>5. s.image = r.image BY <1>2, <1>3 DEF AssignedTo, UpgradePass
<1>6. s.cpu = r.cpu BY <1>2, <1>3 DEF AssignedTo
<1>7. s = r BY <1>2, <1>3, <1>4, <1>5, <1>6 DEF AssignedTo, IsPart
<1> QED BY <1>1, <1>7

\* A custom image is one field of a part.
LEMMA CustomIs ==
    ASSUME NEW part, IsPart(part), NEW custom, NEW c, NEW r, r = HonorCustomImage(part, c, custom)
    PROVE  IsPart(r) /\ r.on = part.on /\ r.cpu = part.cpu
           /\ r.image = IF c \in custom THEN UserImage ELSE part.image
BY DEF HonorCustomImage, IsPart

\* Addons that are only switched on and off
Bare == {"pod-security-policy", "azure-cni-networkmonitor"}

\* Whether an addon is on after a pass
Lives(a, on, options, v, u) ==
    CASE a = "pod-security-policy" -> on /\ ~Ge(v, 25)
      [] a = "azure-cni-networkmonitor" -> on /\ ~u
      [] OTHER -> on \/ (u /\ a \in ForcedOn(options))

\* An addon that loses its requests in a pass
Fresh(a, on, options, u) == ~on \/ (u /\ a = "cloud-node-manager" /\ "azureStack" \in options)

\* What a pass makes of an addon x, field by field
AddonIs(r, a, x, options, custom, v, u) ==
    /\ IsPart(r)
    /\ r.on <=> Lives(a, x.on, options, v, u)
    /\ a \in Bare => r.image = x.image /\ r.cpu = x.cpu
    /\ a \notin Bare =>
          /\ r.image = IF ~r.on THEN NoImage ELSE IF u THEN v ELSE IF a \in custom THEN UserImage
                       ELSE IF x.image = NoImage THEN v ELSE x.image
          /\ r.cpu = IF ~r.on THEN "" ELSE IF Fresh(a, x.on, options, u) \/ x.cpu = "" THEN "default"
                     ELSE x.cpu

\* What the upgrade of a cloud addon makes of it
LEMMA CloudIsEnabled ==
    ASSUME NEW a \in Addons, NEW x, IsPart(x), NEW options, NEW r, r = EnableAzureCloudAddon(a, x, options)
    PROVE  /\ IsPart(r)
           /\ r.on <=> x.on \/ a \in ForcedOn(options) \ {"calico"}
           /\ IF Fresh(a, x.on, options, TRUE) /\ a \in ForcedOn(options) \ {"calico"}
              THEN r.image = NoImage /\ r.cpu = "" ELSE r = x
<1>1. PICK want \in BOOLEAN :
         want <=> \/ /\ a \in AzureCloudAddons /\ ~x.on
                     /\ \A b \in AzureCloudAddons : ShouldEnableAzureCloudAddon(b, options)
                  \/ a = "cloud-node-manager" /\ "azureStack" \in options
    OBVIOUS
<1>2. r = IF want THEN DefaultAddon(a, options) ELSE x BY <1>1 DEF EnableAzureCloudAddon
<1>3. want <=> a \in ForcedOn(options) \ {"calico"} /\ Fresh(a, x.on, options, TRUE)
    BY <1>1 DEF AzureCloudAddons, ShouldEnableAzureCloudAddon, UseCloudControllerManager, ForcedOn, Fresh, Addons
<1>4. ASSUME want
      PROVE  DefaultAddon(a, options) = [on |-> TRUE, image |-> NoImage, cpu |-> ""]
    <2>1. a \in AzureCloudAddons /\ a # "calico" BY <1>1, <1>4 DEF AzureCloudAddons
    <2>2. ShouldEnableAzureCloudAddon(a, options) <=> TRUE
        BY <1>1, <1>4, <2>1 DEF AzureCloudAddons, ShouldEnableAzureCloudAddon, UseCloudControllerManager
    <2>3. PICK on : on = CASE a = "calico" -> "calico" \in options
                           [] a \in AzureCloudAddons -> ShouldEnableAzureCloudAddon(a, options)
                           [] a = "azure-cni-networkmonitor" -> FALSE
                           [] OTHER -> TRUE
        OBVIOUS
    <2>4. on = ShouldEnableAzureCloudAddon(a, options) BY <2>1, <2>3 DEF AzureCloudAddons
    <2>5. on = TRUE BY <2>2, <2>4
    <2>6. DefaultAddon(a, options) = [on |-> on, image |-> NoImage, cpu |-> ""] BY <2>3, Zenon DEF DefaultAddon
    <2> QED BY <2>5, <2>6
<1>5. CASE want
    <2>0. PICK yes \in BOOLEAN : yes = TRUE OBVIOUS
    <2>1. r = [on |-> yes, image |-> NoImage, cpu |-> ""] BY <1>2, <1>4, <1>5, <2>0
    <2>2. IsPart(r) /\ r.on = yes /\ r.image = NoImage /\ r.cpu = ""
        <3>1. PICK q : q = r OBVIOUS
        <3>2. q = [on |-> yes, image |-> NoImage, cpu |-> ""] BY <2>1, <3>1
        <3>3. IsPart(q) /\ q.on = yes /\ q.image = NoImage /\ q.cpu = "" BY <2>0, <3>2 DEF IsPart
        <3> QED BY <3>1, <3>3
    <2> QED BY <1>3, <1>5, <2>0, <2>2
<1>6. CASE ~want
    <2>1. r = x BY <1>2, <1>6
    <2>2. a \in ForcedOn(options) \ {"calico"} => x.on BY <1>3, <1>6 DEF Fresh
    <2> QED BY <1>3, <1>6, <2>1, <2>2
<1> QED BY <1>5, <1>6

\* SetAddonsConfig computes it.
LEMMA AddonsConfigIs ==
    ASSUME NEW addons, \A a \in Addons : IsPart(addons[a]), NEW options, NEW custom,
           NEW v, NEW u \in BOOLEAN, NEW r, r = SetAddonsConfig(addons, options, custom, v, u)
    PROVE  /\ r = [a \in Addons |-> r[a]]
           /\ \A a \in Addons : AddonIs(r[a], a, addons[a], options, custom, v, u)
<1> DEFINE cloud(a) == IF u THEN EnableAzureCloudAddon(a, addons[a], options) ELSE addons[a]
           full(a) == AssignDefaultVals(HonorCustomImage(cloud(a), a, custom), v, u)
           set(a) == CASE a = "pod-security-policy" -> [addons[a] EXCEPT !.on = @ /\ ~Ge(v, 25)]
                       [] a = "azure-cni-networkmonitor" -> [addons[a] EXCEPT !.on = @ /\ ~u]
                       [] a = "calico" /\ u /\ "calico" \in options ->
                             AssignDefaultVals([full(a) EXCEPT !.on = TRUE], v, u)
                       [] OTHER -> full(a)
<1>1. r = [a \in Addons |-> set(a)] BY DEF SetAddonsConfig
<1>2. ASSUME NEW a \in Addons PROVE AddonIs(set(a), a, addons[a], options, custom, v, u)
    <2>1. PICK x : x = addons[a] OBVIOUS
    <2>2. IsPart(x) /\ x.on \in BOOLEAN BY <2>1 DEF IsPart
    <2>3. CASE a = "pod-security-policy"
        <3>1. PICK on \in BOOLEAN : on <=> (x.on /\ ~Ge(v, 25)) OBVIOUS
        <3>2. set(a) = [x EXCEPT !.on = on] BY <2>1, <2>2, <2>3, <3>1
        <3>3. PICK q : q = set(a) OBVIOUS
        <3>4. IsPart(q) /\ q.on = on /\ q.image = x.image /\ q.cpu = x.cpu BY <2>2, <3>2, <3>3 DEF IsPart
        <3>5. AddonIs(q, a, x, options, custom, v, u) BY <2>3, <3>1, <3>4 DEF AddonIs, Lives, Bare
        <3> QED BY <2>1, <3>3, <3>5
    <2>4. CASE a = "azure-cni-networkmonitor"
        <3>1. PICK on \in BOOLEAN : on <=> (x.on /\ ~u) OBVIOUS
        <3>2. set(a) = [x EXCEPT !.on = on] BY <2>1, <2>2, <2>4, <3>1
        <3>3. PICK q : q = set(a) OBVIOUS
        <3>4. IsPart(q) /\ q.on = on /\ q.image = x.image /\ q.cpu = x.cpu BY <2>2, <3>2, <3>3 DEF IsPart
        <3>5. AddonIs(q, a, x, options, custom, v, u) BY <2>4, <3>1, <3>4 DEF AddonIs, Lives, Bare
        <3> QED BY <2>1, <3>3, <3>5
    <2>5. CASE a \notin Bare
        <3>1. PICK c : c = cloud(a) OBVIOUS
        <3>2. /\ IsPart(c)
              /\ c.on <=> x.on \/ (u /\ a \in ForcedOn(options) \ {"calico"})
              /\ IF u /\ Fresh(a, x.on, options, u) /\ a \in ForcedOn(options) \ {"calico"}
                 THEN c.image = NoImage /\ c.cpu = "" ELSE c = x
            <4>1. CASE u
                <5>1. c = EnableAzureCloudAddon(a, x, options) /\ u = TRUE BY <2>1, <3>1, <4>1
                <5> QED BY <2>2, <4>1, <5>1, CloudIsEnabled
            <4>2. CASE ~u BY <2>1, <2>2, <3>1, <4>2
            <4> QED BY <4>1, <4>2
        <3>3. PICK h : h = HonorCustomImage(c, a, custom) OBVIOUS
        <3>4. IsPart(h) /\ h.on = c.on /\ h.cpu = c.cpu
              /\ h.image = IF a \in custom THEN UserImage ELSE c.image
            <4>1. IsPart(c) BY <3>2
            <4> QED BY <3>3, <4>1, CustomIs
        <3>5. PICK q : q = full(a) OBVIOUS
        <3>6. AssignedTo(q, h, v, u) BY <3>1, <3>3, <3>4, <3>5, AssignedIs
        <3>7. c.on \in BOOLEAN /\ h.on \in BOOLEAN /\ q.on \in BOOLEAN /\ q.on = c.on
            BY <3>2, <3>4, <3>6 DEF IsPart, AssignedTo
        <3>8. UserImage # NoImage BY DEF UserImage, NoImage
        <3>9. CASE a = "calico" /\ u /\ "calico" \in options
            <4>1. PICK w : w = [q EXCEPT !.on = TRUE] OBVIOUS
            <4>2. IsPart(w) /\ w.on = TRUE /\ w.image = q.image /\ w.cpu = q.cpu
                BY <3>6, <4>1 DEF AssignedTo, IsPart
            <4>3. PICK t : t = AssignDefaultVals(w, v, u) OBVIOUS
            <4>4. AssignedTo(t, w, v, u) BY <4>2, <4>3, AssignedIs
            <4>5. set(a) = t BY <2>5, <3>5, <3>9, <4>1, <4>3 DEF Bare
            <4>6. a \in ForcedOn(options) BY <3>9 DEF ForcedOn
            <4>7. IsPart(t) /\ t.on = TRUE /\ t.image = v BY <3>9, <4>2, <4>4 DEF AssignedTo
            <4>8. c = x BY <3>2, <3>9
            <4>9. t.cpu = IF Fresh(a, x.on, options, u) \/ x.cpu = "" THEN "default" ELSE x.cpu
                BY <3>4, <3>6, <3>9, <4>2, <4>4, <4>8, <2>2 DEF AssignedTo, Fresh
            <4>10. AddonIs(t, a, x, options, custom, v, u)
                BY <2>5, <3>9, <4>6, <4>7, <4>9 DEF AddonIs, Lives, Bare
            <4> QED BY <2>1, <4>5, <4>10
        <3>10. CASE ~(a = "calico" /\ u /\ "calico" \in options)
            <4>1. set(a) = q BY <2>5, <3>5, <3>10 DEF Bare
            <4>2. a = "calico" => ~(u /\ a \in ForcedOn(options)) BY <3>10 DEF ForcedOn
            <4>3. q.on <=> x.on \/ (u /\ a \in ForcedOn(options)) BY <3>2, <3>7, <4>2
            <4>4. q.image = IF ~q.on THEN NoImage ELSE IF u THEN v ELSE IF a \in custom THEN UserImage
                            ELSE IF x.image = NoImage THEN v ELSE x.image
                BY <3>2, <3>4, <3>6, <3>7, <3>8 DEF AssignedTo
            <4>5. q.cpu = IF ~q.on THEN "" ELSE IF Fresh(a, x.on, options, u) \/ x.cpu = "" THEN "default"
                          ELSE x.cpu
                <5>1. CASE u /\ Fresh(a, x.on, options, u) /\ a \in ForcedOn(options) \ {"calico"}
                    BY <3>2, <3>4, <3>6, <3>7, <5>1 DEF AssignedTo
                <5>2. CASE ~(u /\ Fresh(a, x.on, options, u) /\ a \in ForcedOn(options) \ {"calico"})
                    <6>1. c = x BY <3>2, <5>2
                    <6>2. u /\ a = "cloud-node-manager" /\ "azureStack" \in options
                             => a \in ForcedOn(options) \ {"calico"}
                        BY DEF ForcedOn, UseCloudControllerManager
                    <6>3. q.on => ~Fresh(a, x.on, options, u) BY <3>7, <5>2, <6>1, <6>2 DEF Fresh
                    <6> QED BY <3>4, <3>6, <3>7, <6>1, <6>3 DEF AssignedTo
                <5> QED BY <5>1, <5>2
            <4>6. AddonIs(q, a, x, options, custom, v, u)
                BY <2>5, <3>6, <4>3, <4>4, <4>5 DEF AddonIs, AssignedTo, Lives, Bare
            <4> QED BY <2>1, <4>1, <4>6
        <3> QED BY <3>9, <3>10
    <2> QED BY <2>3, <2>4, <2>5 DEF Bare
<1> HIDE DEF set
<1>3. r = [a \in Addons |-> r[a]] /\ \A a \in Addons : r[a] = set(a) BY <1>1
<1> QED BY <1>2, <1>3

\* A second pass of an upgrade leaves the addons alone.
LEMMA AddonsAgain ==
    ASSUME NEW addons, \A a \in Addons : IsPart(addons[a]), NEW options, NEW custom,
           NEW v, NEW u \in BOOLEAN, u = UpgradePass,
           NEW r, r = SetAddonsConfig(addons, options, custom, v, u)
    PROVE  SetAddonsConfig(r, options, custom, v, u) = r /\ \A a \in Addons : IsPart(r[a])
<1>1. /\ r = [a \in Addons |-> r[a]]
      /\ \A a \in Addons : AddonIs(r[a], a, addons[a], options, custom, v, u)
    BY AddonsConfigIs
<1>2. \A a \in Addons : IsPart(r[a]) BY <1>1 DEF AddonIs
<1>3. PICK s : s = SetAddonsConfig(r, options, custom, v, u) OBVIOUS
<1>4. /\ s = [a \in Addons |-> s[a]]
      /\ \A a \in Addons : AddonIs(s[a], a, r[a], options, custom, v, u)
    BY <1>2, <1>3, AddonsConfigIs
<1>5. ASSUME NEW a \in Addons PROVE s[a] = r[a]
    <2>1. PICK x : x = addons[a] OBVIOUS
    <2>2. PICK y : y = r[a] OBVIOUS
    <2>3. PICK z : z = s[a] OBVIOUS
    <2>4. AddonIs(y, a, x, options, custom, v, u) /\ AddonIs(z, a, y, options, custom, v, u)
        BY <1>1, <1>4, <2>1, <2>2, <2>3
    <2>5. IsPart(y) /\ IsPart(z) /\ y.on \in BOOLEAN /\ z.on \in BOOLEAN BY <2>4 DEF AddonIs, IsPart
    <2>6. z.on = y.on
        <3>1. z.on <=> Lives(a, y.on, options, v, u) BY <2>4 DEF AddonIs
        <3>2. y.on <=> Lives(a, x.on, options, v, u) BY <2>4 DEF AddonIs
        <3>3. z.on <=> y.on BY <3>1, <3>2 DEF Lives
        <3> QED BY <2>5, <3>3
    <2>7. u = TRUE BY DEF UpgradePass
    <2>8. z.image = y.image BY <2>4, <2>6, <2>7 DEF AddonIs
    <2>9. z.cpu = y.cpu
        <3>1. CASE a \in Bare BY <2>4, <3>1 DEF AddonIs
        <3>2. CASE a \notin Bare /\ ~y.on BY <2>4, <2>6, <3>2 DEF AddonIs
        <3>3. CASE a \notin Bare /\ y.on BY <2>4, <2>6, <3>3 DEF AddonIs, Fresh
        <3> QED BY <3>1, <3>2, <3>3
    <2>10. z = y BY <2>5, <2>6, <2>8, <2>9 DEF IsPart
    <2> QED BY <2>2, <2>3, <2>10
<1>6. s = r BY <1>1, <1>4, <1>5
<1> QED BY <1>2, <1>3, <1>6

\* SetComponentsConfig, component by component
LEMMA ComponentsConfigIs ==
    ASSUME NEW components, NEW custom, NEW v, NEW u, NEW r, r = SetComponentsConfig(components, custom, v, u)
    PROVE  /\ r = [c \in ComponentPlaces |-> r[c]]
           /\ \A c \in ComponentPlaces : r[c] = AssignDefaultVals(HonorCustomImage(components[c], c, custom), v, u)
<1> DEFINE part(c) == AssignDefaultVals(HonorCustomImage(components[c], c, custom), v, u)
<1>1. r = [c \in ComponentPlaces |-> part(c)] BY DEF SetComponentsConfig
<1> HIDE DEF part
<1>2. /\ r = [c \in ComponentPlaces |-> r[c]]
      /\ \A c \in ComponentPlaces : r[c] = part(c)
    BY <1>1
<1> QED BY <1>2 DEF part

\* A second pass of an upgrade leaves the components alone.
LEMMA ComponentsAgain ==
    ASSUME NEW components, \A c \in ComponentPlaces : IsPart(components[c]),
           NEW custom, NEW v, NEW u \in BOOLEAN, u = UpgradePass,
           NEW r, r = SetComponentsConfig(components, custom, v, u)
    PROVE  SetComponentsConfig(r, custom, v, u) = r
<1>1. /\ r = [c \in ComponentPlaces |-> r[c]]
      /\ \A c \in ComponentPlaces : r[c] = AssignDefaultVals(HonorCustomImage(components[c], c, custom), v, u)
    BY ComponentsConfigIs
<1>2. PICK s : s = SetComponentsConfig(r, custom, v, u) OBVIOUS
<1>3. /\ s = [c \in ComponentPlaces |-> s[c]]
      /\ \A c \in ComponentPlaces : s[c] = AssignDefaultVals(HonorCustomImage(r[c], c, custom), v, u)
    BY <1>2, ComponentsConfigIs
<1>4. ASSUME NEW c \in ComponentPlaces PROVE s[c] = r[c]
    <2>1. PICK a : a = HonorCustomImage(components[c], c, custom) OBVIOUS
    <2>2. IsPart(a) BY <2>1, CustomIs
    <2>3. PICK rc : rc = r[c] OBVIOUS
    <2>4. rc = AssignDefaultVals(a, v, u) BY <1>1, <2>1, <2>3
    <2>5. IsPart(rc)
        <3>1. AssignedTo(rc, a, v, u) BY <2>2, <2>4, AssignedIs
        <3> QED BY <3>1 DEF AssignedTo
    <2>6. PICK b : b = HonorCustomImage(rc, c, custom) OBVIOUS
    <2>7. IsPart(b) /\ b.on = rc.on /\ b.cpu = rc.cpu BY <2>5, <2>6, CustomIs
    <2>8. AssignDefaultVals(b, v, u) = rc BY <2>2, <2>4, <2>7, AssignedAgain
    <2> QED BY <1>3, <2>3, <2>6, <2>8
<1>5. s = r BY <1>1, <1>3, <1>4
<1> QED BY <1>2, <1>5

\* Two models that agree in every field
LEMMA SameModel ==
    ASSUME NEW f, IsModel(f), NEW g, IsModel(g), f.version = g.version, f.pools = g.pools,
           f.custom = g.custom, f.options = g.options, f.addons = g.addons, f.components = g.components,
           \A p \in Places : f.config[p] = g.config[p]
    PROVE  f = g
<1>1. f.config = g.config BY DEF IsModel
<1> QED BY <1>1 DEF IsModel

\* A second pass of an upgrade changes nothing.
LEMMA UpgradeAgain ==
    ASSUME NEW cs, IsModel(cs), Parts(cs), NEW v \in Known, NEW u \in BOOLEAN, u = UpgradePass,
           NEW new, new = Complete(cs, v, u)
    PROVE  Complete(new, v, u) = new
<1>1. PICK cluster : cluster = ClusterKubelet(cs.config["cluster"], v, u) OBVIOUS
<1>2. PICK again : again = Complete(new, v, u) OBVIOUS
<1>3. CompletedIs(new, cs, v, u, cluster) BY <1>1, Completed
<1>4. IsModel(new) /\ new.config["cluster"] = cluster BY <1>3 DEF CompletedIs
<1>0. Follows(u, u) BY DEF Follows
<1>5. cluster = ClusterKubelet(new.config["cluster"], v, u) BY <1>0, <1>1, <1>4, ClusterAgain
<1>6. CompletedIs(again, new, v, u, cluster) BY <1>2, <1>4, <1>5, Completed
<1>7. Standard \subseteq DOMAIN cluster
    <2>1. ClusterIs(cluster, cs.config["cluster"], v, u) BY <1>1, ClusterKubeletIs
    <2> QED BY <2>1 DEF ClusterIs
<1>8. ASSUME NEW p \in {"master"} \union cs.pools PROVE again.config[p] = new.config[p]
    <2>1. new.config[p] = ProfileKubelet(p, cs.config[p], cluster, v, u) BY <1>3 DEF CompletedIs
    <2>2. again.config[p] = ProfileKubelet(p, new.config[p], cluster, v, u)
        BY <1>3, <1>6 DEF CompletedIs
    <2> QED BY <1>0, <1>7, <2>1, <2>2, ProfileAgain
<1>9. again.addons = new.addons /\ \A a \in Addons : IsPart(new.addons[a])
    <2>1. new.addons = SetAddonsConfig(cs.addons, cs.options, cs.custom, v, u) BY <1>3 DEF CompletedIs
    <2>2. again.addons = SetAddonsConfig(new.addons, cs.options, cs.custom, v, u)
        BY <1>3, <1>6 DEF CompletedIs
    <2> QED BY <2>1, <2>2, AddonsAgain DEF Parts
<1>10. again.components = new.components
    <2>1. new.components = SetComponentsConfig(cs.components, cs.custom, v, u)
        BY <1>3 DEF CompletedIs
    <2>2. again.components = SetComponentsConfig(new.components, cs.custom, v, u)
        BY <1>3, <1>6 DEF CompletedIs
    <2> QED BY <2>1, <2>2, ComponentsAgain DEF Parts
<1>11. Minor(v) <= Minor(v) BY MinorNat
<1>12. again.config["controllerManager"] = new.config["controllerManager"]
    <2>1. new.config["controllerManager"] = SetControllerManagerConfig(cs.config["controllerManager"], v)
        BY <1>3 DEF CompletedIs
    <2>2. again.config["controllerManager"] = SetControllerManagerConfig(new.config["controllerManager"], v)
        BY <1>6 DEF CompletedIs
    <2> QED BY <1>11, <2>1, <2>2, ControllerAgain
<1>13. again.config["cloudControllerManager"] = new.config["cloudControllerManager"]
    <2>1. new.config["cloudControllerManager"] = SetCloudControllerManagerConfig(cs.config["cloudControllerManager"], v)
        BY <1>3 DEF CompletedIs
    <2>2. again.config["cloudControllerManager"] = SetCloudControllerManagerConfig(new.config["cloudControllerManager"], v)
        BY <1>6 DEF CompletedIs
    <2> QED BY <1>11, <2>1, <2>2, CloudAgain
<1>14. again.config["scheduler"] = new.config["scheduler"]
    <2>1. new.config["scheduler"] = SetSchedulerConfig(cs.config["scheduler"], v)
        BY <1>3 DEF CompletedIs
    <2>2. again.config["scheduler"] = SetSchedulerConfig(new.config["scheduler"], v)
        BY <1>6 DEF CompletedIs
    <2> QED BY <1>11, <2>1, <2>2, SchedulerAgain
<1>15. again.config["apiserver"] = new.config["apiserver"]
    <2>1. PICK psp \in BOOLEAN : psp = new.addons["pod-security-policy"].on
        BY <1>9 DEF IsPart, Addons
    <2>2. psp <=> (psp /\ ~Ge(v, 25))
        <3>1. new.addons = SetAddonsConfig(cs.addons, cs.options, cs.custom, v, u) BY <1>3 DEF CompletedIs
        <3>2. AddonIs(new.addons["pod-security-policy"], "pod-security-policy",
                      cs.addons["pod-security-policy"], cs.options, cs.custom, v, u)
            BY <3>1, AddonsConfigIs DEF Parts, Addons
        <3> QED BY <2>1, <3>2 DEF AddonIs, Lives
    <2>3. SetAPIServerConfig(SetAPIServerConfig(cs.config["apiserver"], v, psp), v, psp)
            = SetAPIServerConfig(cs.config["apiserver"], v, psp)
        BY <1>11, <2>2, ServerAgain
    <2>4. new.config["apiserver"] = SetAPIServerConfig(cs.config["apiserver"], v, psp)
        BY <1>3, <2>1, Zenon DEF CompletedIs
    <2>5. again.config["apiserver"] = SetAPIServerConfig(new.config["apiserver"], v, psp)
        BY <1>6, <1>9, <2>1, Zenon DEF CompletedIs
    <2> QED BY <2>3, <2>4, <2>5, Zenon
<1>16. ASSUME NEW p \in KubeletPlaces PROVE again.config[p] = new.config[p]
    <2>1. CASE p \in {"master"} \union cs.pools BY <1>8, <2>1
    <2>2. CASE p = "cluster" BY <1>4, <1>6, <2>2 DEF CompletedIs
    <2>3. CASE p \notin {"cluster", "master"} \union cs.pools BY <1>3, <1>6, <2>3 DEF CompletedIs
    <2> QED BY <2>1, <2>2, <2>3
<1>17. \A p \in Places : again.config[p] = new.config[p]
    BY <1>12, <1>13, <1>14, <1>15, <1>16, FlagsOfPlaces
<1>18. /\ IsModel(again) /\ again.version = new.version
       /\ again.pools = new.pools /\ again.custom = new.custom /\ again.options = new.options
    BY <1>3, <1>6 DEF CompletedIs
<1>19. again = new BY <1>4, <1>9, <1>10, <1>17, <1>18, SameModel
<1> QED BY <1>2, <1>19

-----------------------------------------------------------------------------
(* What one pass makes of a model, and what it keeps of it.                  *)
Profiles(f) == {"master"} \union f.pools

\* Every process of the model starts with its flags.
Starts(f) == \A p \in Profiles(f) \union ComponentPlaces : StartsWith(f.config[p], f.version)

\* Another pass for a new template changes no kubelet.
Fixed(f) ==
    /\ Standard \subseteq DOMAIN f.config["cluster"]
    /\ ClusterKubelet(f.config["cluster"], f.version, NewPass) = f.config["cluster"]
    /\ \A p \in Profiles(f) :
          /\ ProfileKubelet(p, f.config[p], f.config["cluster"], f.version, NewPass) = f.config[p]
          /\ Standard \subseteq DOMAIN f.config[p]

\* The kubelet of the cluster has the standard flags.
LEMMA ClusterStandard ==
    ASSUME NEW x, NEW v, NEW u \in BOOLEAN, NEW c, c = ClusterKubelet(x, v, u)
    PROVE  Standard \subseteq DOMAIN c
<1>1. ClusterIs(c, x, v, u) BY ClusterKubeletIs
<1> QED BY <1>1 DEF ClusterIs

\* A profile has the standard flags of its cluster.
LEMMA ProfileStandard ==
    ASSUME NEW p, NEW x, NEW cluster, Standard \subseteq DOMAIN cluster, NEW v, NEW u \in BOOLEAN,
           NEW c, c = ProfileKubelet(p, x, cluster, v, u)
    PROVE  Standard \subseteq DOMAIN c
<1>1. ProfileIs(c, p, x, cluster, v, u) BY ProfileKubeletIs
<1> QED BY <1>1 DEF ProfileIs, Standard, PauseImage, Gates

\* What a pass leaves, a pass for a new template leaves alone.
LEMMA CompletedFixed ==
    ASSUME NEW cs, IsModel(cs), NEW u \in BOOLEAN, NEW v, NEW new, new = Complete(cs, v, u)
    PROVE  Fixed(new)
<1>1. PICK cluster : cluster = ClusterKubelet(cs.config["cluster"], v, u) OBVIOUS
<1>2. CompletedIs(new, cs, v, u, cluster) BY <1>1, Completed
<1>3. new.config["cluster"] = cluster /\ new.version = v /\ new.pools = cs.pools
    BY <1>2 DEF CompletedIs
<1>4. Standard \subseteq DOMAIN cluster BY <1>1, ClusterStandard
<1>5. ClusterKubelet(cluster, v, NewPass) = cluster BY <1>1, ClusterAgain, Passes
<1>6. ASSUME NEW p \in Profiles(new)
      PROVE  /\ ProfileKubelet(p, new.config[p], cluster, v, NewPass) = new.config[p]
             /\ Standard \subseteq DOMAIN new.config[p]
    <2>1. new.config[p] = ProfileKubelet(p, cs.config[p], cluster, v, u)
        BY <1>2, <1>3 DEF CompletedIs, Profiles
    <2> QED BY <1>4, <2>1, ProfileAgain, ProfileStandard, Passes
<1> QED BY <1>3, <1>4, <1>5, <1>6 DEF Fixed

\* A pass leaves addons and components that are records.
LEMMA CompletedParts ==
    ASSUME NEW cs, IsModel(cs), Parts(cs), NEW u \in BOOLEAN, NEW v, NEW new, new = Complete(cs, v, u)
    PROVE  /\ Parts(new)
           /\ \A a \in Addons : AddonIs(new.addons[a], a, cs.addons[a], cs.options, cs.custom, v, u)
           /\ \A c \in ComponentPlaces :
                 AssignedTo(new.components[c], HonorCustomImage(cs.components[c], c, cs.custom), v, u)
<1>1. PICK cluster : cluster = ClusterKubelet(cs.config["cluster"], v, u) OBVIOUS
<1>2. CompletedIs(new, cs, v, u, cluster) BY <1>1, Completed
<1>3. /\ new.addons = SetAddonsConfig(cs.addons, cs.options, cs.custom, v, u)
      /\ new.components = SetComponentsConfig(cs.components, cs.custom, v, u)
    BY <1>2 DEF CompletedIs
<1>4. /\ new.addons = [a \in Addons |-> new.addons[a]]
      /\ \A a \in Addons : AddonIs(new.addons[a], a, cs.addons[a], cs.options, cs.custom, v, u)
    BY <1>3, AddonsConfigIs DEF Parts
<1>6. \A a \in Addons : IsPart(new.addons[a]) BY <1>4 DEF AddonIs
<1>7. /\ new.components = [c \in ComponentPlaces |-> new.components[c]]
      /\ \A c \in ComponentPlaces :
            new.components[c] = AssignDefaultVals(HonorCustomImage(cs.components[c], c, cs.custom), v, u)
    BY <1>3, ComponentsConfigIs
<1>8. ASSUME NEW c \in ComponentPlaces
      PROVE  AssignedTo(new.components[c], HonorCustomImage(cs.components[c], c, cs.custom), v, u)
    <2>1. IsPart(HonorCustomImage(cs.components[c], c, cs.custom)) BY CustomIs DEF Parts
    <2> QED BY <1>7, <2>1, AssignedIs
<1>9. \A c \in ComponentPlaces : IsPart(new.components[c]) BY <1>8 DEF AssignedTo
<1>10. Parts(new) BY <1>4, <1>6, <1>7, <1>9 DEF Parts
<1> QED BY <1>4, <1>8, <1>10

\* An addon without a container has no image.
BareImages(f) == \A a \in Bare : f.addons[a].image = NoImage

\* Images are the user's or of version v; an upgrade renews all but those of
\* Windows.
Images(f, v) ==
    /\ \A c \in ComponentPlaces : f.components[c].image \in {NoImage, UserImage, v}
    /\ \A a \in Addons : f.addons[a].image \in {NoImage, UserImage, v}
    /\ BareImages(f)
    /\ \A p \in {"cluster"} \union Profiles(f) :
          PauseImage \in DOMAIN f.config[p] => f.config[p][PauseImage] \in {UserImage, WindowsImage, v}

\* After a pass of an upgrade, or one of a model whose images are already so, every
\* image is the user's or that of the version.
LEMMA CompletedImages ==
    ASSUME NEW cs, IsModel(cs), Parts(cs), BareImages(cs), NEW u \in BOOLEAN, NEW v,
           u = UpgradePass \/ Images(cs, v),
           NEW new, new = Complete(cs, v, u)
    PROVE  Images(new, v)
<1>1. PICK cluster : cluster = ClusterKubelet(cs.config["cluster"], v, u) OBVIOUS
<1>2. CompletedIs(new, cs, v, u, cluster) BY <1>1, Completed
<1>3. PICK old : old <=> Images(cs, v) OBVIOUS
<1>4. u \/ old BY <1>3 DEF UpgradePass
<1>5. ASSUME NEW c \in ComponentPlaces PROVE new.components[c].image \in {NoImage, UserImage, v}
    <2>1. PICK a : a = HonorCustomImage(cs.components[c], c, cs.custom) OBVIOUS
    <2>2. AssignedTo(new.components[c], a, v, u) BY <2>1, CompletedParts
    <2>3. a.image = IF c \in cs.custom THEN UserImage ELSE cs.components[c].image
        BY <2>1, CustomIs DEF Parts
    <2>4. old => a.image \in {NoImage, UserImage, v} BY <1>3, <2>3 DEF Images
    <2> QED BY <1>4, <2>2, <2>4 DEF AssignedTo
<1>6. ASSUME NEW a \in Addons
      PROVE  /\ new.addons[a].image \in {NoImage, UserImage, v}
             /\ a \in Bare => new.addons[a].image = NoImage
    <2>1. PICK x : x = cs.addons[a] OBVIOUS
    <2>2. PICK r : r = new.addons[a] OBVIOUS
    <2>3. AddonIs(r, a, x, cs.options, cs.custom, v, u) BY <2>1, <2>2, CompletedParts
    <2>4. old => x.image \in {NoImage, UserImage, v} BY <1>3, <2>1 DEF Images
    <2>5. a \in Bare => x.image = NoImage BY <2>1 DEF BareImages
    <2>6. CASE a \in Bare BY <2>2, <2>3, <2>5, <2>6 DEF AddonIs
    <2>7. CASE a \notin Bare BY <1>4, <2>2, <2>3, <2>4, <2>7 DEF AddonIs
    <2> QED BY <2>6, <2>7
<1>11. BareImages(new) BY <1>6 DEF BareImages, Bare, Addons
<1>7. cluster[PauseImage] \in {UserImage, WindowsImage, v}
    <2>1. ClusterIs(cluster, cs.config["cluster"], v, u) BY <1>1, ClusterKubeletIs
    <2>2. old /\ PauseImage \in DOMAIN cs.config["cluster"]
             => cs.config["cluster"][PauseImage] \in {UserImage, WindowsImage, v}
        BY <1>3 DEF Images
    <2> QED BY <1>4, <2>1, <2>2 DEF ClusterIs
<1>8. Standard \subseteq DOMAIN cluster BY <1>1, ClusterStandard
<1>9. ASSUME NEW p \in Profiles(new) PROVE new.config[p][PauseImage] \in {UserImage, WindowsImage, v}
    <2>0. p \in Profiles(cs) BY <1>2 DEF CompletedIs, Profiles
    <2>1. new.config[p] = ProfileKubelet(p, cs.config[p], cluster, v, u)
        BY <1>2, <2>0 DEF CompletedIs, Profiles
    <2>2. ProfileIs(new.config[p], p, cs.config[p], cluster, v, u) BY <1>8, <2>1, ProfileKubeletIs
    <2>3. old /\ PauseImage \in DOMAIN cs.config[p]
             => cs.config[p][PauseImage] \in {UserImage, WindowsImage, v}
        BY <1>3, <2>0 DEF Images
    <2> QED BY <1>4, <1>7, <2>2, <2>3 DEF ProfileIs
<1>10. new.config["cluster"] = cluster BY <1>2 DEF CompletedIs
<1> QED BY <1>5, <1>6, <1>7, <1>9, <1>10, <1>11 DEF Images

-----------------------------------------------------------------------------
(* The user's settings.                                                      *)
KeptAt(p, c, g) ==
    /\ <<p, "--max-pods">> \in g => "--max-pods" \in DOMAIN c /\ c["--max-pods"] = "user"
    /\ <<p, Gates>> \in g => Gates \in DOMAIN c /\ "SupportPodPidsLimit" \in DOMAIN GatesOf(c)
    /\ <<p, "--pod-max-pids">> \in g /\ <<p, Gates>> \in g
          => "--pod-max-pids" \in DOMAIN c /\ c["--pod-max-pids"] = "user"

\* What a profile without settings of its own has from the cluster
Inherits(p, c, g) ==
    /\ /\ <<"cluster", "--max-pods">> \in g
       /\ <<p, "--max-pods">> \notin g /\ <<p, Gates>> \notin g
       /\ "--max-pods" \in DOMAIN c
       => c["--max-pods"] = "user"
    /\ /\ <<"cluster", "--pod-max-pids">> \in g /\ <<"cluster", Gates>> \in g
       /\ <<p, "--pod-max-pids">> \notin g /\ <<p, Gates>> \notin g
       => /\ "--pod-max-pids" \in DOMAIN c => c["--pod-max-pids"] = "user"
          /\ Gates \in DOMAIN c => "SupportPodPidsLimit" \in DOMAIN GatesOf(c)

\* The settings of the cluster survive a pass.
LEMMA ClusterKept ==
    ASSUME NEW g, NEW x, KeptAt("cluster", x, g), NEW v, NEW u \in BOOLEAN,
           NEW c, c = ClusterKubelet(x, v, u)
    PROVE  KeptAt("cluster", c, g)
<1>1. ClusterIs(c, x, v, u) BY ClusterKubeletIs
<1>2. Standard \subseteq DOMAIN c BY <1>1 DEF ClusterIs
<1>3. "SupportPodPidsLimit" \in DOMAIN GatesOf(x) => "SupportPodPidsLimit" \in DOMAIN GatesOf(c)
    BY <1>1, InvalidIs DEF ClusterIs
<1>4. "--max-pods" \in DOMAIN x => c["--max-pods"] = x["--max-pods"]
    BY <1>1, <1>2 DEF ClusterIs, Standard
<1>5. "--pod-max-pids" \in DOMAIN x /\ "SupportPodPidsLimit" \in DOMAIN GatesOf(x)
         => c["--pod-max-pids"] = x["--pod-max-pids"]
    BY <1>1 DEF ClusterIs
<1> QED BY <1>2, <1>3, <1>4, <1>5 DEF KeptAt, Standard

\* The settings of a profile, and those it inherits, survive a pass.
LEMMA ProfileKept ==
    ASSUME NEW g, NEW p, NEW x, KeptAt(p, x, g), Inherits(p, x, g),
           NEW cluster, Standard \subseteq DOMAIN cluster, KeptAt("cluster", cluster, g),
           NEW v, NEW u \in BOOLEAN, NEW c, c = ProfileKubelet(p, x, cluster, v, u)
    PROVE  KeptAt(p, c, g) /\ Inherits(p, c, g)
<1>1. ProfileIs(c, p, x, cluster, v, u) BY ProfileKubeletIs
<1>2. Standard \subseteq DOMAIN c BY ProfileStandard
<1>3. "SupportPodPidsLimit" \in DOMAIN OwnGates(x, cluster) => "SupportPodPidsLimit" \in DOMAIN GatesOf(c)
    BY <1>1, InvalidIs DEF ProfileIs
<1>4. c["--max-pods"] = IF "--max-pods" \in DOMAIN x THEN x["--max-pods"] ELSE cluster["--max-pods"]
    BY <1>1, <1>2 DEF ProfileIs, Standard, PauseImage, Gates, Taints
<1>5. "SupportPodPidsLimit" \in DOMAIN OwnGates(x, cluster) =>
          c["--pod-max-pids"] = IF "--pod-max-pids" \in DOMAIN x THEN x["--pod-max-pids"]
                                ELSE cluster["--pod-max-pids"]
    BY <1>1 DEF ProfileIs
<1>6. KeptAt(p, c, g) BY <1>2, <1>3, <1>4, <1>5 DEF KeptAt, Standard, OwnGates
<1>7. Inherits(p, c, g) BY <1>2, <1>3, <1>4, <1>5 DEF KeptAt, Inherits, Standard, OwnGates
<1> QED BY <1>6, <1>7

\* The user's settings, at the places they were made
Kept(f, g) ==
    /\ KeptAt("cluster", f.config["cluster"], g)
    /\ \A p \in Profiles(f) : KeptAt(p, f.config[p], g) /\ Inherits(p, f.config[p], g)
    /\ \A c \in ComponentPlaces : <<c, "--profiling">> \in g
          => "--profiling" \in DOMAIN f.config[c] /\ f.config[c]["--profiling"] = "user"

\* The setting of a component survives a pass.
LEMMA ProfilingKept ==
    ASSUME NEW x, NEW v, NEW psp, "--profiling" \in DOMAIN x,
           NEW c \in {SetControllerManagerConfig(x, v), SetCloudControllerManagerConfig(x, v),
                      SetSchedulerConfig(x, v), SetAPIServerConfig(x, v, psp)}
    PROVE  "--profiling" \in DOMAIN c /\ c["--profiling"] = x["--profiling"]
<1>1. CASE c = SetControllerManagerConfig(x, v)
    <2>1. ControllerIs(c, x, v) BY <1>1, ControllerConfigIs
    <2> QED BY <2>1 DEF ControllerIs, CommonFlags
<1>2. CASE c = SetCloudControllerManagerConfig(x, v)
    <2>1. CloudIs(c, x, v) BY <1>2, CloudConfigIs
    <2> QED BY <2>1 DEF CloudIs, Gates
<1>3. CASE c = SetSchedulerConfig(x, v)
    <2>1. SchedulerIs(c, x, v) BY <1>3, SchedulerConfigIs
    <2> QED BY <2>1 DEF SchedulerIs, CommonFlags
<1>4. CASE c = SetAPIServerConfig(x, v, psp)
    <2>1. ServerIs(c, x, v, psp) BY <1>4, ServerConfigIs
    <2> QED BY <2>1 DEF ServerIs, CommonFlags
<1> QED BY <1>1, <1>2, <1>3, <1>4

\* What a pass makes of the flags of a component
LEMMA CompletedComponent ==
    ASSUME NEW new, NEW cs, NEW v, NEW u, NEW cluster, CompletedIs(new, cs, v, u, cluster),
           NEW c \in ComponentPlaces
    PROVE  \E psp : new.config[c] \in {SetControllerManagerConfig(cs.config[c], v),
               SetCloudControllerManagerConfig(cs.config[c], v),
               SetSchedulerConfig(cs.config[c], v), SetAPIServerConfig(cs.config[c], v, psp)}
<1>1. CASE c = "controllerManager" BY <1>1 DEF CompletedIs
<1>2. CASE c = "cloudControllerManager" BY <1>2 DEF CompletedIs
<1>3. CASE c = "scheduler" BY <1>3 DEF CompletedIs
<1>4. CASE c = "apiserver"
    <2>1. new.config[c] = SetAPIServerConfig(cs.config[c], v, new.addons["pod-security-policy"].on)
        BY <1>4, Zenon DEF CompletedIs
    <2> QED BY <2>1, Zenon
<1> QED BY <1>1, <1>2, <1>3, <1>4 DEF ComponentPlaces

\* A pass keeps the user's settings.
LEMMA CompletedKept ==
    ASSUME NEW g, NEW cs, IsModel(cs), Parts(cs), Kept(cs, g), NEW u \in BOOLEAN, NEW v,
           NEW new, new = Complete(cs, v, u)
    PROVE  Kept(new, g)
<1>1. PICK cluster : cluster = ClusterKubelet(cs.config["cluster"], v, u) OBVIOUS
<1>2. CompletedIs(new, cs, v, u, cluster) BY <1>1, Completed
<1>3. new.config["cluster"] = cluster /\ KeptAt("cluster", cluster, g)
    <2>1. KeptAt("cluster", cs.config["cluster"], g) BY DEF Kept
    <2> QED BY <1>1, <1>2, <2>1, ClusterKept DEF CompletedIs
<1>4. Standard \subseteq DOMAIN cluster BY <1>1, ClusterStandard
<1>5. ASSUME NEW p \in Profiles(new) PROVE KeptAt(p, new.config[p], g) /\ Inherits(p, new.config[p], g)
    <2>0. p \in Profiles(cs) BY <1>2 DEF CompletedIs, Profiles
    <2>1. new.config[p] = ProfileKubelet(p, cs.config[p], cluster, v, u)
        BY <1>2, <2>0 DEF CompletedIs, Profiles
    <2>2. KeptAt(p, cs.config[p], g) /\ Inherits(p, cs.config[p], g) BY <2>0 DEF Kept
    <2> QED BY <1>3, <1>4, <2>1, <2>2, ProfileKept
<1>6. ASSUME NEW c \in ComponentPlaces, <<c, "--profiling">> \in g
      PROVE  "--profiling" \in DOMAIN new.config[c] /\ new.config[c]["--profiling"] = "user"
    <2>1. "--profiling" \in DOMAIN cs.config[c] /\ cs.config[c]["--profiling"] = "user"
        BY <1>6 DEF Kept
    <2>2. PICK psp : new.config[c] \in {SetControllerManagerConfig(cs.config[c], v),
               SetCloudControllerManagerConfig(cs.config[c], v),
               SetSchedulerConfig(cs.config[c], v), SetAPIServerConfig(cs.config[c], v, psp)}
        BY <1>2, CompletedComponent
    <2> QED BY <2>1, <2>2, ProfilingKept
<1> QED BY <1>3, <1>5, <1>6 DEF Kept

\* The user's addon a in a model; up tells whether an upgrade has made the model.
AddonHeld(a, x, version, g, up) ==
    LET options == OptionsOf(g)
    IN  /\ <<a, "off">> \in g => (x.on <=> up /\ a \in ForcedOn(options))
        /\ <<a, "off">> \notin g /\ a \in ForcedOn(options) => x.on
        /\ <<a, "on">> \in g => (x.on <=> ~up)
        /\ x.on /\ <<a, "cpu">> \in g /\ <<a, "off">> \notin g
              => x.cpu = IF up /\ a = "cloud-node-manager" /\ "azureStack" \in options
                         THEN "default" ELSE "user"
        /\ x.on /\ <<a, "image">> \in g => x.image = IF up THEN version ELSE UserImage

\* A component that is used
Used(c, g) == c = "cloudControllerManager" => UseCloudControllerManager(OptionsOf(g))

\* The user's options, addons and components in a model
Held(f, g, up) ==
    /\ f.options = OptionsOf(g)
    /\ f.custom = {c \in CustomPlaces : <<c, "custom">> \in g}
    /\ \A a \in Addons : AddonHeld(a, f.addons[a], f.version, g, up)
    /\ \A c \in ComponentPlaces : f.components[c].on <=> Used(c, g)

\* The custom images of a complete model
CustomHeld(f, g, up) ==
    /\ \A a \in Addons : f.addons[a].on /\ <<a, "custom">> \in g
          => f.addons[a].image = IF up THEN f.version ELSE UserImage
    /\ \A c \in ComponentPlaces : <<c, "custom">> \in g
          => f.components[c].image = IF up THEN f.version ELSE UserImage

\* The settings of addons
LEMMA AddonSettings ==
    ASSUME NEW g \in SUBSET Settings, NEW a \in Addons
    PROVE  /\ <<a, "on">> \in g => a = "azure-cni-networkmonitor"
           /\ <<a, "off">> \in g => a # "azure-cni-networkmonitor"
           /\ {<<a, "cpu">>, <<a, "image">>, <<a, "custom">>} \intersect g # {} => a \notin Bare
           /\ <<a, "custom">> \in g => a \in CustomPlaces
<1>1. /\ <<a, "on">> \in Settings => a = "azure-cni-networkmonitor"
      /\ <<a, "off">> \in Settings => a # "azure-cni-networkmonitor"
      /\ {<<a, "cpu">>, <<a, "image">>, <<a, "custom">>} \intersect Settings # {} => a \notin Bare
      /\ <<a, "custom">> \in Settings => a \in CustomPlaces
    BY DEF Settings, Bare, CustomPlaces, ComponentPlaces, KubeletPlaces, Pools, Addons, AzureCloudAddons,
           Gates, PauseImage
<1> QED BY <1>1

\* A pass keeps the user's addons, but for what an upgrade overrules.
LEMMA CompletedHeld ==
    ASSUME NEW g \in SUBSET Settings, Accepted(g), NEW cs, IsModel(cs), Parts(cs),
           NEW up \in BOOLEAN, Held(cs, g, up), NEW u \in BOOLEAN, up => u, NEW v,
           NEW new, new = Complete(cs, v, u)
    PROVE  Held(new, g, u) /\ CustomHeld(new, g, u)
<1>1. PICK cluster : cluster = ClusterKubelet(cs.config["cluster"], v, u) OBVIOUS
<1>2. CompletedIs(new, cs, v, u, cluster) BY <1>1, Completed
<1>3. new.version = v /\ new.options = OptionsOf(g) /\ new.custom = cs.custom
    BY <1>2 DEF CompletedIs, Held
<1>4. cs.options = OptionsOf(g) /\ cs.custom = {c \in CustomPlaces : <<c, "custom">> \in g} BY DEF Held
<1>5. ASSUME NEW a \in Addons
      PROVE  /\ AddonHeld(a, new.addons[a], v, g, u)
             /\ new.addons[a].on /\ <<a, "custom">> \in g
                   => new.addons[a].image = IF u THEN v ELSE UserImage
    <2>1. PICK x : x = cs.addons[a] OBVIOUS
    <2>2. PICK r : r = new.addons[a] OBVIOUS
    <2>3. PICK options : options = OptionsOf(g) OBVIOUS
    <2>4. AddonIs(r, a, x, options, cs.custom, v, u) BY <1>4, <2>1, <2>2, <2>3, CompletedParts
    <2>5. AddonHeld(a, x, cs.version, g, up) BY <2>1 DEF Held
    <2>6. r.on <=> Lives(a, x.on, options, v, u) BY <2>4 DEF AddonIs
    <2>7. \A b \in Bare : b \notin ForcedOn(options) BY DEF Bare, ForcedOn
    <2>8. <<a, "off">> \in g => (r.on <=> u /\ a \in ForcedOn(options))
        BY <2>3, <2>5, <2>6, <2>7 DEF AddonHeld, Lives, Bare
    <2>9. <<a, "off">> \notin g /\ a \in ForcedOn(options) => x.on /\ r.on
        BY <2>3, <2>5, <2>6, <2>7 DEF AddonHeld, Lives, Bare
    <2>10. <<a, "on">> \in g => (r.on <=> ~u)
        <3>1. ASSUME <<a, "on">> \in g PROVE r.on <=> ~u
            <4>1. a = "azure-cni-networkmonitor" BY <3>1, AddonSettings
            <4>2. x.on <=> ~up BY <2>5, <3>1 DEF AddonHeld
            <4> QED BY <2>6, <4>1, <4>2 DEF Lives
        <3> QED BY <3>1
    <2>11. r.on /\ a \notin Bare /\ <<a, "off">> \notin g => x.on
        BY <2>6, <2>9 DEF Lives, Bare
    <2>12. r.on /\ <<a, "cpu">> \in g /\ <<a, "off">> \notin g
              => r.cpu = IF u /\ a = "cloud-node-manager" /\ "azureStack" \in options
                         THEN "default" ELSE "user"
        <3>1. ASSUME r.on, <<a, "cpu">> \in g, <<a, "off">> \notin g
              PROVE  r.cpu = IF u /\ a = "cloud-node-manager" /\ "azureStack" \in options
                             THEN "default" ELSE "user"
            <4>1. a \notin Bare BY <3>1, AddonSettings
            <4>2. x.on BY <2>11, <3>1, <4>1
            <4>3. x.cpu = IF up /\ a = "cloud-node-manager" /\ "azureStack" \in options
                          THEN "default" ELSE "user"
                BY <2>3, <2>5, <3>1, <4>2 DEF AddonHeld
            <4>4. r.cpu = IF (u /\ a = "cloud-node-manager" /\ "azureStack" \in options) \/ x.cpu = ""
                          THEN "default" ELSE x.cpu
                BY <2>4, <3>1, <4>1, <4>2 DEF AddonIs, Fresh
            <4> QED BY <4>3, <4>4
        <3> QED BY <3>1
    <2>13. r.on /\ <<a, "image">> \in g => r.image = IF u THEN v ELSE UserImage
        <3>1. ASSUME r.on, <<a, "image">> \in g PROVE r.image = IF u THEN v ELSE UserImage
            <4>1. a \notin Bare BY <3>1, AddonSettings
            <4>2. CASE u BY <2>4, <3>1, <4>1, <4>2 DEF AddonIs
            <4>3. CASE ~u
                <5>1. x.on BY <2>6, <3>1, <4>1, <4>3 DEF Lives, Bare
                <5>2. x.image = UserImage BY <2>5, <3>1, <4>3, <5>1 DEF AddonHeld
                <5>3. UserImage # NoImage BY DEF UserImage, NoImage
                <5> QED BY <2>4, <3>1, <4>1, <4>3, <5>2, <5>3 DEF AddonIs
            <4> QED BY <4>2, <4>3
        <3> QED BY <3>1
    <2>14. r.on /\ <<a, "custom">> \in g => r.image = IF u THEN v ELSE UserImage
        <3>1. ASSUME r.on, <<a, "custom">> \in g PROVE r.image = IF u THEN v ELSE UserImage
            <4>1. a \notin Bare /\ a \in cs.custom BY <1>4, <3>1, AddonSettings
            <4> QED BY <2>4, <3>1, <4>1 DEF AddonIs
        <3> QED BY <3>1
    <2>15. AddonHeld(a, r, v, g, u) BY <2>3, <2>8, <2>9, <2>10, <2>12, <2>13 DEF AddonHeld
    <2> QED BY <2>2, <2>14, <2>15
<1>6. ASSUME NEW c \in ComponentPlaces
      PROVE  /\ new.components[c].on <=> Used(c, g)
             /\ <<c, "custom">> \in g => new.components[c].image = IF u THEN v ELSE UserImage
    <2>1. PICK h : h = HonorCustomImage(cs.components[c], c, cs.custom) OBVIOUS
    <2>2. PICK r : r = new.components[c] OBVIOUS
    <2>3. AssignedTo(r, h, v, u) BY <2>1, <2>2, CompletedParts
    <2>4. h.on = cs.components[c].on /\ h.image = IF c \in cs.custom THEN UserImage ELSE cs.components[c].image
        BY <2>1, CustomIs DEF Parts
    <2>5. h.on <=> Used(c, g)
        <3>1. cs.components[c].on <=> Used(c, g) BY DEF Held
        <3> QED BY <2>4, <3>1, Zenon
    <2>6. r.on <=> Used(c, g)
        <3>1. r.on = h.on BY <2>3 DEF AssignedTo
        <3> QED BY <2>5, <3>1, Zenon
    <2>7. ASSUME <<c, "custom">> \in g PROVE r.image = IF u THEN v ELSE UserImage
        <3>1. h.on BY <2>5, <2>7 DEF Used, Accepted
        <3>2. h.image = UserImage BY <1>4, <2>4, <2>7 DEF CustomPlaces
        <3>3. UserImage # NoImage BY DEF UserImage, NoImage
        <3> QED BY <2>3, <3>1, <3>2, <3>3 DEF AssignedTo
    <2> QED BY <2>2, <2>6, <2>7, Zenon
<1>7. Held(new, g, u) BY <1>3, <1>4, <1>5, <1>6 DEF Held
<1>8. CustomHeld(new, g, u) BY <1>3, <1>5, <1>6 DEF CustomHeld
<1> QED BY <1>7, <1>8

-----------------------------------------------------------------------------
(* A model as the same definition gives it for a new cluster.                *)
WrittenBy(g, place) == [f \in {s[2] : s \in {t \in g : t[1] = place}} \ {"custom"} |-> Value(place, f)]

\* The kubelets of a new cluster
NewCluster(g, v) == ClusterKubelet(WrittenBy(g, "cluster"), v, NewPass)
NewProfile(g, p, v) == ProfileKubelet(p, WrittenBy(g, p), NewCluster(g, v), v, NewPass)
FirstProfiles == {"master", "linux", "windows"}

\* A model has the flags that the same definition gives for a new cluster.
LikeNew(f, g) ==
    /\ Alike(f.config["cluster"], NewCluster(g, f.version), Reset)
    /\ \A p \in FirstProfiles : Alike(f.config[p], NewProfile(g, p, f.version), ResetOrGates)
    /\ f.config["controllerManager"]
          = SetControllerManagerConfig(WrittenBy(g, "controllerManager"), f.version)
    /\ f.config["cloudControllerManager"]
          = SetCloudControllerManagerConfig(WrittenBy(g, "cloudControllerManager"), f.version)
    /\ f.config["scheduler"] = SetSchedulerConfig(WrittenBy(g, "scheduler"), f.version)
    /\ f.config["apiserver"] = SetAPIServerConfig(WrittenBy(g, "apiserver"), f.version,
                                                  f.addons["pod-security-policy"].on)
    /\ f.addons["pod-security-policy"].on
          <=> (<<"pod-security-policy", "off">> \notin g /\ ~Ge(f.version, 25))

\* A pass for a version that is not older leaves a model like a new one of that
\* version.
LEMMA CompletedLikeNew ==
    ASSUME NEW g, NEW cs, IsModel(cs), Parts(cs), LikeNew(cs, g), {"linux", "windows"} \subseteq cs.pools,
           cs.version \in Known, NEW v \in Known, Minor(cs.version) <= Minor(v), NEW u \in BOOLEAN,
           NEW new, new = Complete(cs, v, u)
    PROVE  LikeNew(new, g)
<1>1. PICK cluster : cluster = ClusterKubelet(cs.config["cluster"], v, u) OBVIOUS
<1>2. CompletedIs(new, cs, v, u, cluster) BY <1>1, Completed
<1>3. new.version = v /\ new.config["cluster"] = cluster BY <1>2 DEF CompletedIs
<1>4. Standard \subseteq DOMAIN cluster BY <1>1, ClusterStandard
<1>5. PICK was : was = cs.version OBVIOUS
<1>6. was \in Known /\ Minor(was) <= Minor(v) BY <1>5
<1>7. Alike(cluster, NewCluster(g, v), Reset)
    <2>1. PICK x : x = WrittenBy(g, "cluster") OBVIOUS
    <2>2. PICK c : c = cs.config["cluster"] OBVIOUS
    <2>3. Alike(c, ClusterKubelet(x, was, NewPass), Reset)
        BY <1>5, <2>1, <2>2 DEF LikeNew, NewCluster
    <2>4. Alike(ClusterKubelet(c, v, u), ClusterKubelet(x, v, NewPass), Reset)
        BY <1>6, <2>3, ClusterLater
    <2> QED BY <1>1, <2>1, <2>2, <2>4 DEF NewCluster
<1>8. ASSUME NEW p \in FirstProfiles PROVE Alike(new.config[p], NewProfile(g, p, v), ResetOrGates)
    <2>1. PICK x : x = WrittenBy(g, p) OBVIOUS
    <2>2. PICK y : y = WrittenBy(g, "cluster") OBVIOUS
    <2>3. PICK c : c = cs.config[p] OBVIOUS
    <2>4. new.config[p] = ProfileKubelet(p, c, cluster, v, u)
        BY <1>2, <2>3 DEF CompletedIs, FirstProfiles
    <2>5. Alike(c, ProfileKubelet(p, x, ClusterKubelet(y, was, NewPass), was, NewPass), ResetOrGates)
        BY <1>5, <2>1, <2>2, <2>3 DEF LikeNew, NewProfile, NewCluster
    <2>6. Alike(cluster, ClusterKubelet(y, v, NewPass), Reset) BY <1>7, <2>2 DEF NewCluster
    <2>7. Alike(ProfileKubelet(p, c, cluster, v, u),
                ProfileKubelet(p, x, ClusterKubelet(y, v, NewPass), v, NewPass), ResetOrGates)
        BY <1>4, <1>6, <2>5, <2>6, ProfileLater
    <2> QED BY <2>1, <2>2, <2>4, <2>7 DEF NewProfile, NewCluster
<1>9. new.config["controllerManager"] = SetControllerManagerConfig(WrittenBy(g, "controllerManager"), v)
    <2>1. PICK x : x = WrittenBy(g, "controllerManager") OBVIOUS
    <2>2. cs.config["controllerManager"] = SetControllerManagerConfig(x, was)
        BY <1>5, <2>1 DEF LikeNew
    <2>3. new.config["controllerManager"] = SetControllerManagerConfig(cs.config["controllerManager"], v)
        BY <1>2 DEF CompletedIs
    <2> QED BY <1>6, <2>1, <2>2, <2>3, ControllerAgain
<1>10. new.config["cloudControllerManager"]
          = SetCloudControllerManagerConfig(WrittenBy(g, "cloudControllerManager"), v)
    <2>1. PICK x : x = WrittenBy(g, "cloudControllerManager") OBVIOUS
    <2>2. cs.config["cloudControllerManager"] = SetCloudControllerManagerConfig(x, was)
        BY <1>5, <2>1 DEF LikeNew
    <2>3. new.config["cloudControllerManager"]
             = SetCloudControllerManagerConfig(cs.config["cloudControllerManager"], v)
        BY <1>2 DEF CompletedIs
    <2> QED BY <1>6, <2>1, <2>2, <2>3, CloudAgain
<1>11. new.config["scheduler"] = SetSchedulerConfig(WrittenBy(g, "scheduler"), v)
    <2>1. PICK x : x = WrittenBy(g, "scheduler") OBVIOUS
    <2>2. cs.config["scheduler"] = SetSchedulerConfig(x, was) BY <1>5, <2>1 DEF LikeNew
    <2>3. new.config["scheduler"] = SetSchedulerConfig(cs.config["scheduler"], v)
        BY <1>2 DEF CompletedIs
    <2> QED BY <1>6, <2>1, <2>2, <2>3, SchedulerAgain
<1>12. PICK on \in BOOLEAN : on <=> <<"pod-security-policy", "off">> \notin g OBVIOUS
<1>13. PICK before \in BOOLEAN : before = cs.addons["pod-security-policy"].on
    BY DEF Parts, IsPart, Addons
<1>14. PICK after \in BOOLEAN : after = new.addons["pod-security-policy"].on
    <2>1. Parts(new) BY CompletedParts
    <2> QED BY <2>1 DEF Parts, IsPart, Addons
<1>15. before <=> (on /\ ~Ge(was, 25)) BY <1>5, <1>12, <1>13 DEF LikeNew
<1>16. after <=> (before /\ ~Ge(v, 25))
    <2>1. AddonIs(new.addons["pod-security-policy"], "pod-security-policy",
                  cs.addons["pod-security-policy"], cs.options, cs.custom, v, u)
        BY CompletedParts DEF Addons
    <2> QED BY <1>13, <1>14, <2>1 DEF AddonIs, Lives
<1>17. after <=> (on /\ ~Ge(v, 25)) BY <1>6, <1>15, <1>16, Later
<1>18. new.config["apiserver"] = SetAPIServerConfig(WrittenBy(g, "apiserver"), v, after)
    <2>1. PICK x : x = WrittenBy(g, "apiserver") OBVIOUS
    <2>2. cs.config["apiserver"] = SetAPIServerConfig(x, was, before)
        BY <1>5, <1>13, <2>1, Zenon DEF LikeNew
    <2>3. new.config["apiserver"] = SetAPIServerConfig(cs.config["apiserver"], v, after)
        BY <1>2, <1>14, Zenon DEF CompletedIs
    <2>4. SetAPIServerConfig(SetAPIServerConfig(x, was, before), v, after) = SetAPIServerConfig(x, v, after)
        BY <1>6, <1>15, <1>16, <1>17, ServerAgain
    <2> QED BY <2>1, <2>2, <2>3, <2>4, Zenon
<1>19. new.config["apiserver"] = SetAPIServerConfig(WrittenBy(g, "apiserver"), v,
                                                         new.addons["pod-security-policy"].on)
    BY <1>14, <1>18, Zenon
<1>20. new.addons["pod-security-policy"].on <=> (<<"pod-security-policy", "off">> \notin g /\ ~Ge(v, 25))
    BY <1>12, <1>14, <1>17
<1> QED BY <1>3, <1>7, <1>8, <1>9, <1>10, <1>11, <1>19, <1>20, Zenon DEF LikeNew

-----------------------------------------------------------------------------
(* The file, and what deploy, addpool and an upgrade make of it.             *)
GoodFile(f, g) ==
    /\ g \subseteq Settings /\ Accepted(g)
    /\ Sound(f) /\ Parts(f)
    /\ {"linux", "windows"} \subseteq f.pools
    /\ "added" \notin f.pools => DOMAIN f.config["added"] = {}
    /\ Fixed(f) /\ Starts(f)
    /\ Images(f, f.version)
    /\ Kept(f, g)
    /\ \E up \in BOOLEAN : Held(f, g, up)
    /\ LikeNew(f, g)

\* An upgrade makes a file of a file.
LEMMA UpgradedGood ==
    ASSUME NEW f, NEW g, GoodFile(f, g), NEW v \in Known, Minor(f.version) <= Minor(v),
           NEW new, new = Complete(f, v, UpgradePass)
    PROVE  /\ GoodFile(new, g) /\ new.version = v /\ new.pools = f.pools
           /\ Held(new, g, UpgradePass) /\ CustomHeld(new, g, UpgradePass)
<1>1. /\ IsModel(f) /\ Shaped(f) /\ Parts(f) /\ Kept(f, g) /\ LikeNew(f, g) /\ BareImages(f)
      /\ {"linux", "windows"} \subseteq f.pools /\ f.version \in Known
      /\ g \in SUBSET Settings /\ Accepted(g)
    BY DEF GoodFile, Sound, Shaped, Images
<1>2. PICK u \in BOOLEAN : u = UpgradePass BY Passes
<1>3. new = Complete(f, v, u) BY <1>2
<1>4. /\ Sound(new) /\ new.version = v /\ new.pools = f.pools
      /\ \A p \in {"master"} \union f.pools \union ComponentPlaces : StartsWith(new.config[p], v)
    BY <1>1, <1>3, CompletedSound
<1>5. Starts(new) BY <1>4 DEF Starts, Profiles
<1>6. Fixed(new) BY <1>1, <1>3, CompletedFixed
<1>7. Parts(new) BY <1>1, <1>3, CompletedParts
<1>8. Images(new, v) BY <1>1, <1>2, <1>3, CompletedImages
<1>9. Kept(new, g) BY <1>1, <1>3, CompletedKept
<1>10. LikeNew(new, g) BY <1>1, <1>3, CompletedLikeNew
<1>12. Held(new, g, u) /\ CustomHeld(new, g, u)
    <2>1. PICK up \in BOOLEAN : Held(f, g, up) BY DEF GoodFile
    <2>2. up => u BY <1>2 DEF UpgradePass
    <2> QED BY <1>1, <1>3, <2>1, <2>2, CompletedHeld
<1>11. "added" \notin new.pools => DOMAIN new.config["added"] = {}
    <2>1. PICK cluster : cluster = ClusterKubelet(f.config["cluster"], v, u) OBVIOUS
    <2>2. CompletedIs(new, f, v, u, cluster) BY <1>1, <1>3, <2>1, Completed
    <2>3. "added" \notin f.pools => new.config["added"] = f.config["added"]
        BY <2>2, FlagsOfPlaces DEF CompletedIs
    <2> QED BY <1>4, <2>3 DEF GoodFile
<1> QED BY <1>1, <1>2, <1>4, <1>5, <1>6, <1>7, <1>8, <1>9, <1>10, <1>11, <1>12 DEF GoodFile

\* The definition of a user
LEMMA WrittenIs ==
    ASSUME NEW p
    PROVE  /\ Written(p) = WrittenBy(given, p)
           /\ \A f : f # "custom" => (f \in DOMAIN Written(p) <=> <<p, f>> \in {<<t[1], t[2]>> : t \in given})
           /\ \A f \in DOMAIN Written(p) : Written(p)[f] = Value(p, f)
<1>1. Written(p) = WrittenBy(given, p) BY DEF Written, WrittenBy
<1>2. DOMAIN Written(p) = {s[2] : s \in {t \in given : t[1] = p}} \ {"custom"} BY DEF Written
<1>3. \A f \in DOMAIN Written(p) : Written(p)[f] = Value(p, f) BY DEF Written
<1>4. ASSUME NEW f, f # "custom"
      PROVE  f \in DOMAIN Written(p) <=> <<p, f>> \in {<<t[1], t[2]>> : t \in given}
    <2>1. f \in DOMAIN Written(p) <=> \E t \in given : t[1] = p /\ t[2] = f BY <1>2, <1>4
    <2>2. <<p, f>> \in {<<t[1], t[2]>> : t \in given} <=> \E t \in given : t[1] = p /\ t[2] = f
        BY Z3
    <2> QED BY <2>1, <2>2
<1> QED BY <1>1, <1>3, <1>4

\* A setting is a place and a flag; the pool addpool adds has none.
LEMMA SettingsArePairs ==
    ASSUME given \subseteq Settings
    PROVE  /\ {<<t[1], t[2]>> : t \in given} = given
           /\ \A t \in given : t[1] # "added"
<1>1. \A t \in Settings : t = <<t[1], t[2]>> /\ t[1] # "added"
    BY DEF Settings, KubeletPlaces, Pools, ComponentPlaces, Addons, AzureCloudAddons, CustomPlaces
<1>2. \A t \in given : t = <<t[1], t[2]>> /\ t[1] # "added" BY <1>1
<1>3. {<<t[1], t[2]>> : t \in given} = given
    <2>1. \A x : x \in {<<t[1], t[2]>> : t \in given} => x \in given BY <1>2
    <2>2. \A x : x \in given => x \in {<<t[1], t[2]>> : t \in given} BY <1>2
    <2> QED BY <2>1, <2>2
<1> QED BY <1>2, <1>3

\* The flags of the definition are the settings.
LEMMA WrittenFlags ==
    ASSUME given \subseteq Settings, NEW p
    PROVE  /\ \A f : f # "custom" => (f \in DOMAIN Written(p) <=> <<p, f>> \in given)
           /\ \A f \in DOMAIN Written(p) : Written(p)[f] = Value(p, f)
           /\ DOMAIN Written("added") = {}
<1>1. \A f : f # "custom" => (f \in DOMAIN Written(p) <=> <<p, f>> \in given)
    BY WrittenIs, SettingsArePairs
<1>2. DOMAIN Written("added") = {} BY SettingsArePairs DEF Written
<1> QED BY <1>1, <1>2, WrittenIs

\* The values that the properties name
LEMMA ValueIs ==
    ASSUME NEW p
    PROVE  /\ \A f \in {"--max-pods", "--pod-max-pids", "--profiling"} : Value(p, f) = "user"
           /\ Value(p, PauseImage) = UserImage
           /\ "SupportPodPidsLimit" \in DOMAIN Value(p, Gates)
BY DEF Value, PauseImage, Gates, @@, :>

\* The user, or else the default, switches an addon on.
WritesOn(a) ==
    \/ <<a, "on">> \in given
    \/ <<a, "off">> \notin given /\ DefaultAddon(a, OptionsOf(given)).on

\* The definition, part by part
IsDefinition(cs, v) ==
    /\ cs.version = v /\ cs.pools = {"linux", "windows"}
    /\ cs.options = OptionsOf(given) /\ cs.custom = {c \in CustomPlaces : <<c, "custom">> \in given}
    /\ \A p \in Places : cs.config[p] = Written(p)
    /\ Parts(cs)
    /\ \A a \in Addons :
          /\ cs.addons[a].on <=> WritesOn(a)
          /\ cs.addons[a].image = IF <<a, "image">> \in given THEN UserImage ELSE NoImage
          /\ cs.addons[a].cpu = IF <<a, "cpu">> \in given THEN "user" ELSE ""
    /\ \A c \in ComponentPlaces :
          cs.components[c].image = NoImage /\ (cs.components[c].on <=> Used(c, given))

\* Definition is it.
LEMMA DefinitionIs == ASSUME NEW v, NEW cs, cs = Definition(v) PROVE IsDefinition(cs, v)
<1> DEFINE addon(a) == WrittenAddon(a)
           part(c) == DefaultComponent(c)
<1>1. /\ cs.version = v /\ cs.pools = {"linux", "windows"}
      /\ cs.options = OptionsOf(given) /\ cs.custom = {c \in CustomPlaces : <<c, "custom">> \in given}
      /\ cs.config = [p \in Places |-> Written(p)]
      /\ cs.addons = [a \in Addons |-> addon(a)]
      /\ cs.components = [c \in ComponentPlaces |-> part(c)]
    BY DEF Definition
<1>2. ASSUME NEW a \in Addons
      PROVE  /\ IsPart(addon(a))
             /\ addon(a).on <=> WritesOn(a)
             /\ addon(a).image = IF <<a, "image">> \in given THEN UserImage ELSE NoImage
             /\ addon(a).cpu = IF <<a, "cpu">> \in given THEN "user" ELSE ""
    <2>0. WritesOn(a) \in BOOLEAN BY DEF WritesOn
    <2>1. PICK on \in BOOLEAN : on <=> WritesOn(a) OBVIOUS
    <2>2. PICK image : image = IF <<a, "image">> \in given THEN UserImage ELSE NoImage OBVIOUS
    <2>3. PICK cpu : cpu = IF <<a, "cpu">> \in given THEN "user" ELSE "" OBVIOUS
    <2>4. addon(a) = [on |-> on, image |-> image, cpu |-> cpu]
        <3>1. on = WritesOn(a) BY <2>0, <2>1
        <3>2. addon(a) = [on |-> WritesOn(a), image |-> image, cpu |-> cpu]
            BY <2>2, <2>3, Zenon DEF WrittenAddon, WritesOn
        <3> QED BY <3>1, <3>2
    <2> HIDE DEF addon
    <2>5. addon(a).on = on /\ addon(a).image = image /\ addon(a).cpu = cpu /\ IsPart(addon(a))
        BY <2>4 DEF IsPart
    <2>6. addon(a).on <=> WritesOn(a) BY <2>1, <2>5, Zenon
    <2> QED BY <2>2, <2>3, <2>5, <2>6
<1>3. ASSUME NEW c \in ComponentPlaces
      PROVE  IsPart(part(c)) /\ part(c).image = NoImage /\ (part(c).on <=> Used(c, given))
    <2>0. Used(c, given) \in BOOLEAN BY DEF Used
    <2>1. PICK on \in BOOLEAN : on <=> Used(c, given) OBVIOUS
    <2>2. part(c) = [on |-> on, image |-> NoImage, cpu |-> ""]
        <3>1. on = Used(c, given) BY <2>0, <2>1
        <3>2. part(c) = [on |-> Used(c, given), image |-> NoImage, cpu |-> ""]
            BY Zenon DEF DefaultComponent, Used
        <3> QED BY <3>1, <3>2
    <2> HIDE DEF part
    <2>3. part(c).on = on /\ part(c).image = NoImage /\ IsPart(part(c))
        <3>1. PICK q : q = part(c) OBVIOUS
        <3>2. q = [on |-> on, image |-> NoImage, cpu |-> ""] BY <2>2, <3>1
        <3>3. q.on = on /\ q.image = NoImage /\ IsPart(q) BY <2>1, <3>2 DEF IsPart
        <3> QED BY <3>1, <3>3
    <2>4. part(c).on <=> Used(c, given) BY <2>1, <2>3, Zenon
    <2> QED BY <2>3, <2>4
<1> HIDE DEF addon, part
<1>4. /\ \A a \in Addons : cs.addons[a] = addon(a)
      /\ \A c \in ComponentPlaces : cs.components[c] = part(c)
      /\ \A p \in Places : cs.config[p] = Written(p)
    BY <1>1
<1>5. Parts(cs) BY <1>1, <1>2, <1>3, <1>4 DEF Parts
<1>6. ASSUME NEW a \in Addons
      PROVE  /\ cs.addons[a].on <=> WritesOn(a)
             /\ cs.addons[a].image = IF <<a, "image">> \in given THEN UserImage ELSE NoImage
             /\ cs.addons[a].cpu = IF <<a, "cpu">> \in given THEN "user" ELSE ""
    <2>1. cs.addons[a] = addon(a) BY <1>4
    <2> QED BY <1>2, <2>1, Zenon
<1>7. ASSUME NEW c \in ComponentPlaces
      PROVE  cs.components[c].image = NoImage /\ (cs.components[c].on <=> Used(c, given))
    <2>1. cs.components[c] = part(c) BY <1>4
    <2> QED BY <1>3, <2>1, Zenon
<1> QED BY <1>1, <1>4, <1>5, <1>6, <1>7, Zenon DEF IsDefinition

\* The definition has the settings.
LEMMA DefinitionKept ==
    ASSUME given \subseteq Settings, NEW v, NEW cs, cs = Definition(v)
    PROVE  Kept(cs, given)
<1>0. IsDefinition(cs, v) BY DefinitionIs
<1>1. ASSUME NEW p \in Places PROVE KeptAt(p, cs.config[p], given)
    <2>1. cs.config[p] = Written(p) BY <1>0 DEF IsDefinition
    <2>2. PICK c : c = Written(p) OBVIOUS
    <2>3. /\ \A f : f # "custom" => (f \in DOMAIN c <=> <<p, f>> \in given)
          /\ \A f \in DOMAIN c : c[f] = Value(p, f)
        BY <2>2, WrittenFlags
    <2>4. Gates # "custom" BY DEF Gates
    <2>5. Gates \in DOMAIN c => GatesOf(c) = Value(p, Gates) BY <2>3 DEF GatesOf
    <2>6. KeptAt(p, c, given) BY <2>3, <2>4, <2>5, ValueIs DEF KeptAt
    <2> QED BY <2>1, <2>2, <2>6
<1>2. ASSUME NEW p \in Places PROVE Inherits(p, cs.config[p], given)
    <2>1. cs.config[p] = Written(p) BY <1>0 DEF IsDefinition
    <2>2. PICK c : c = Written(p) OBVIOUS
    <2>3. \A f : f # "custom" => (f \in DOMAIN c <=> <<p, f>> \in given)
        BY <2>2, WrittenFlags
    <2>4. Gates # "custom" BY DEF Gates
    <2>5. Inherits(p, c, given) BY <2>3, <2>4 DEF Inherits
    <2> QED BY <2>1, <2>2, <2>5
<1>3. "cluster" \in Places /\ Profiles(cs) \subseteq Places
    BY <1>0, FlagsOfPlaces DEF IsDefinition, Profiles, KubeletPlaces, Pools
<1>4. ASSUME NEW c \in ComponentPlaces, <<c, "--profiling">> \in given
      PROVE  "--profiling" \in DOMAIN cs.config[c] /\ cs.config[c]["--profiling"] = "user"
    <2>1. cs.config[c] = Written(c) BY <1>0, FlagsOfPlaces DEF IsDefinition
    <2>2. "--profiling" \in DOMAIN Written(c) BY <1>4, WrittenFlags
    <2>3. Written(c)["--profiling"] = Value(c, "--profiling") BY <2>2, WrittenFlags
    <2> QED BY <2>1, <2>2, <2>3, ValueIs
<1> QED BY <1>1, <1>2, <1>3, <1>4 DEF Kept

\* What an upgrade forces on is on by default.
LEMMA ForcedByDefault ==
    ASSUME NEW options, NEW a \in ForcedOn(options) PROVE DefaultAddon(a, options).on
<1>1. PICK on \in BOOLEAN :
         on <=> CASE a = "calico" -> "calico" \in options
                  [] a \in AzureCloudAddons -> ShouldEnableAzureCloudAddon(a, options)
                  [] a = "azure-cni-networkmonitor" -> FALSE
                  [] OTHER -> TRUE
    OBVIOUS
<1>2. on
    BY <1>1 DEF ForcedOn, AzureCloudAddons, ShouldEnableAzureCloudAddon, UseCloudControllerManager
<1>3. DefaultAddon(a, options).on <=> on BY <1>1, Zenon DEF DefaultAddon
<1> QED BY <1>2, <1>3, Zenon

\* The definition has the addons the user writes.
LEMMA DefinitionHeld ==
    ASSUME given \subseteq Settings, NEW v, NEW cs, cs = Definition(v)
    PROVE  Held(cs, given, FALSE)
<1>0. IsDefinition(cs, v) BY DefinitionIs
<1>1. ASSUME NEW a \in Addons PROVE AddonHeld(a, cs.addons[a], v, given, FALSE)
    <2>1. PICK x : x = cs.addons[a] OBVIOUS
    <2>2. /\ x.on <=> WritesOn(a)
          /\ x.image = IF <<a, "image">> \in given THEN UserImage ELSE NoImage
          /\ x.cpu = IF <<a, "cpu">> \in given THEN "user" ELSE ""
        <3>1. cs.addons[a].on <=> WritesOn(a) BY <1>0, Zenon DEF IsDefinition
        <3>2. x.on <=> WritesOn(a) BY <2>1, <3>1, Zenon
        <3> QED BY <1>0, <2>1, <3>2 DEF IsDefinition
    <2>3. ~(<<a, "on">> \in given /\ <<a, "off">> \in given) BY AddonSettings
    <2>4. <<a, "off">> \in given => ~x.on BY <2>2, <2>3, Zenon DEF WritesOn
    <2>5. <<a, "on">> \in given => x.on BY <2>2, Zenon DEF WritesOn
    <2>6. <<a, "off">> \notin given /\ a \in ForcedOn(OptionsOf(given)) => x.on
        BY <2>2, ForcedByDefault, Zenon DEF WritesOn
    <2>7. AddonHeld(a, x, v, given, FALSE) BY <2>2, <2>4, <2>5, <2>6 DEF AddonHeld
    <2> QED BY <2>1, <2>7
<1>2. \A c \in ComponentPlaces : cs.components[c].on <=> Used(c, given)
    BY <1>0, Zenon DEF IsDefinition
<1>3. cs.version = v /\ cs.options = OptionsOf(given)
      /\ cs.custom = {c \in CustomPlaces : <<c, "custom">> \in given}
    BY <1>0 DEF IsDefinition
<1> QED BY <1>1, <1>2, <1>3, Zenon DEF Held

\* The definition has only images of the user.
LEMMA DefinitionImages ==
    ASSUME given \subseteq Settings, NEW v, NEW w, NEW cs, cs = Definition(v)
    PROVE  Images(cs, w)
<1>0. IsDefinition(cs, v) BY DefinitionIs
<1>1. ASSUME NEW p \in Places, PauseImage \in DOMAIN cs.config[p] PROVE cs.config[p][PauseImage] = UserImage
    <2>1. cs.config[p] = Written(p) BY <1>0 DEF IsDefinition
    <2>2. Written(p)[PauseImage] = Value(p, PauseImage) BY <1>1, <2>1, WrittenFlags
    <2> QED BY <2>1, <2>2, ValueIs
<1>2. {"cluster"} \union Profiles(cs) \subseteq Places
    BY <1>0, FlagsOfPlaces DEF IsDefinition, Profiles, KubeletPlaces, Pools
<1>3. \A a \in Addons : cs.addons[a].image \in {NoImage, UserImage} BY <1>0 DEF IsDefinition
<1>4. \A c \in ComponentPlaces : cs.components[c].image = NoImage BY <1>0 DEF IsDefinition
<1>5. BareImages(cs)
    <2>1. ASSUME NEW a \in Bare PROVE cs.addons[a].image = NoImage
        <3>1. a \in Addons BY DEF Bare, Addons
        <3>2. <<a, "image">> \notin given BY <3>1, AddonSettings
        <3> QED BY <1>0, <3>1, <3>2 DEF IsDefinition
    <2> QED BY <2>1 DEF BareImages
<1> QED BY <1>1, <1>2, <1>3, <1>4, <1>5 DEF Images

\* deploy makes a file of the definition.
LEMMA DeployedGood ==
    ASSUME given \subseteq Settings, Accepted(given), NEW named, NEW v \in Known,
           NEW new, new = Complete(Definition(named), v, NewPass)
    PROVE  /\ GoodFile(new, given) /\ new.version = v
           /\ Held(new, given, NewPass) /\ CustomHeld(new, given, NewPass)
<1>1. PICK cs : cs = Definition(named) OBVIOUS
<1>0. IsDefinition(cs, named) BY <1>1, DefinitionIs
<1>2. PICK u \in BOOLEAN : u = NewPass BY Passes
<1>3. new = Complete(cs, v, u) BY <1>1, <1>2
<1>4. Shaped(cs) /\ IsModel(cs) /\ Parts(cs)
    BY <1>0, <1>1, DefinitionShaped DEF Shaped, IsDefinition
<1>5. cs.pools = {"linux", "windows"} /\ \A p \in Places : cs.config[p] = WrittenBy(given, p)
    BY <1>0, WrittenIs DEF IsDefinition
<1>6. /\ Sound(new) /\ new.version = v /\ new.pools = cs.pools
      /\ \A p \in {"master"} \union cs.pools \union ComponentPlaces : StartsWith(new.config[p], v)
    BY <1>3, <1>4, CompletedSound
<1>7. Starts(new) BY <1>6 DEF Starts, Profiles
<1>8. Fixed(new) BY <1>3, <1>4, CompletedFixed
<1>9. Parts(new) BY <1>3, <1>4, CompletedParts
<1>10. Images(new, v)
    <2>1. Images(cs, v) /\ BareImages(cs) BY <1>1, DefinitionImages DEF Images
    <2> QED BY <1>3, <1>4, <2>1, CompletedImages
<1>11. Kept(new, given)
    <2>1. Kept(cs, given) BY <1>1, DefinitionKept
    <2> QED BY <1>3, <1>4, <2>1, CompletedKept
<1>22. Held(new, given, u) /\ CustomHeld(new, given, u)
    <2>1. PICK up \in BOOLEAN : up = FALSE OBVIOUS
    <2>2. Held(cs, given, up) BY <1>1, <2>1, DefinitionHeld
    <2>3. up => u BY <2>1
    <2> QED BY <1>3, <1>4, <2>2, <2>3, CompletedHeld
<1>12. PICK cluster : cluster = ClusterKubelet(cs.config["cluster"], v, u) OBVIOUS
<1>13. CompletedIs(new, cs, v, u, cluster) BY <1>3, <1>4, <1>12, Completed
<1>14. cluster = NewCluster(given, v) /\ new.config["cluster"] = cluster
    BY <1>2, <1>5, <1>12, <1>13, FlagsOfPlaces DEF NewCluster, CompletedIs
<1>15. ASSUME NEW p \in FirstProfiles PROVE new.config[p] = NewProfile(given, p, v)
    <2>1. p \in {"master"} \union cs.pools /\ p \in Places
        BY <1>5, FlagsOfPlaces DEF FirstProfiles, KubeletPlaces, Pools
    <2>2. new.config[p] = ProfileKubelet(p, cs.config[p], cluster, v, u)
        BY <1>13, <2>1 DEF CompletedIs
    <2> QED BY <1>2, <1>5, <1>14, <2>1, <2>2 DEF NewProfile
<1>16. \A c, keys : Alike(c, c, keys) BY DEF Alike
<1>17. /\ new.config["controllerManager"] = SetControllerManagerConfig(WrittenBy(given, "controllerManager"), v)
       /\ new.config["cloudControllerManager"]
             = SetCloudControllerManagerConfig(WrittenBy(given, "cloudControllerManager"), v)
       /\ new.config["scheduler"] = SetSchedulerConfig(WrittenBy(given, "scheduler"), v)
    BY <1>5, <1>13, FlagsOfPlaces DEF CompletedIs
<1>18. new.config["apiserver"] = SetAPIServerConfig(WrittenBy(given, "apiserver"), v,
                                                         new.addons["pod-security-policy"].on)
    <2>1. cs.config["apiserver"] = WrittenBy(given, "apiserver") BY <1>5, FlagsOfPlaces
    <2> QED BY <1>13, <2>1, Zenon DEF CompletedIs
<1>19. new.addons["pod-security-policy"].on <=> (<<"pod-security-policy", "off">> \notin given /\ ~Ge(v, 25))
    <2>0. "pod-security-policy" \in Addons BY DEF Addons
    <2>1. AddonIs(new.addons["pod-security-policy"], "pod-security-policy",
                  cs.addons["pod-security-policy"], cs.options, cs.custom, v, u)
        BY <1>3, <1>4, <2>0, CompletedParts
    <2>2. cs.addons["pod-security-policy"].on <=> <<"pod-security-policy", "off">> \notin given
        <3>1. <<"pod-security-policy", "on">> \notin given BY <2>0, AddonSettings
        <3>2. DefaultAddon("pod-security-policy", OptionsOf(given)).on
            BY DEF DefaultAddon, AzureCloudAddons
        <3>3. cs.addons["pod-security-policy"].on <=> WritesOn("pod-security-policy")
            BY <1>0, <2>0, Zenon DEF IsDefinition
        <3> QED BY <3>1, <3>2, <3>3, Zenon DEF WritesOn
    <2> QED BY <2>1, <2>2 DEF AddonIs, Lives
<1>20. LikeNew(new, given)
    <2>1. Alike(new.config["cluster"], NewCluster(given, v), Reset) BY <1>14, <1>16
    <2>2. \A p \in FirstProfiles : Alike(new.config[p], NewProfile(given, p, v), ResetOrGates)
        BY <1>15, <1>16
    <2> QED BY <1>6, <1>17, <1>18, <1>19, <2>1, <2>2, Zenon DEF LikeNew
<1>21. DOMAIN new.config["added"] = {}
    <2>1. new.config["added"] = cs.config["added"]
        BY <1>5, <1>13, FlagsOfPlaces DEF CompletedIs
    <2>2. cs.config["added"] = Written("added") BY <1>0, FlagsOfPlaces DEF IsDefinition
    <2> QED BY <2>1, <2>2, WrittenFlags
<1> QED BY <1>2, <1>5, <1>6, <1>7, <1>8, <1>9, <1>10, <1>11, <1>20, <1>21, <1>22 DEF GoodFile

\* scale and addpool complete the file for one pool.
LEMMA PoolPass ==
    ASSUME NEW f, IsModel(f), Fixed(f), NEW pool \in Pools,
           NEW new, new = Complete([f EXCEPT !.pools = {pool}], f.version, NewPass)
    PROVE  /\ new.version = f.version /\ new.pools = {pool}
           /\ new.config[pool] = ProfileKubelet(pool, f.config[pool], f.config["cluster"], f.version, NewPass)
<1>1. PICK cs : cs = [f EXCEPT !.pools = {pool}] OBVIOUS
<1>2. /\ IsModel(cs) /\ cs.pools = {pool} /\ cs.config = f.config
    BY <1>1 DEF IsModel
<1>3. PICK u \in BOOLEAN : u = NewPass BY Passes
<1>4. PICK v : v = f.version OBVIOUS
<1>5. f.config["cluster"] = ClusterKubelet(cs.config["cluster"], v, u) BY <1>2, <1>3, <1>4 DEF Fixed
<1>6. new = Complete(cs, v, u) BY <1>1, <1>3, <1>4
<1>7. CompletedIs(new, cs, v, u, f.config["cluster"]) BY <1>2, <1>5, <1>6, Completed
<1> QED BY <1>2, <1>3, <1>4, <1>7 DEF CompletedIs

\* The file with the pool addpool appends
Appended(f, c) == [f EXCEPT !.pools = @ \union {"added"}, !.config["added"] = c]

\* What is left alone when a pool is appended
Extends(new, f, c) ==
    /\ new.version = f.version /\ new.pools = f.pools \union {"added"}
    /\ new.config["added"] = c
    /\ \A p \in Profiles(f) : new.config[p] = f.config[p]
    /\ \A w : \A p \in Profiles(f) :
          Complete(new, w, UpgradePass).config[p] = Complete(f, w, UpgradePass).config[p]

\* addpool makes a file of a file.
LEMMA AddedGood ==
    ASSUME given \subseteq Settings, NEW f, GoodFile(f, given), "added" \notin f.pools,
           NEW c, c = ProfileKubelet("added", f.config["added"], f.config["cluster"], f.version, NewPass),
           NEW new, new = Appended(f, c)
    PROVE  GoodFile(new, given) /\ Extends(new, f, c)
<1>1. IsModel(f) /\ f.version \in Known /\ Parts(f) /\ Fixed(f) /\ Shaped(f)
    BY DEF GoodFile, Sound, Shaped
<1>2. "added" \in Places /\ "added" \in Pools /\ "added" # "cluster" /\ "added" # "master"
      /\ ComponentPlaces \subseteq Places /\ "added" \notin ComponentPlaces /\ Profiles(f) \subseteq Places
      /\ "cluster" \in Places
    BY <1>1, FlagsOfPlaces DEF Pools, ComponentPlaces, Profiles, IsModel
<1>3. /\ IsModel(new) /\ new.version = f.version /\ new.pools = f.pools \union {"added"}
      /\ new.addons = f.addons /\ new.components = f.components
      /\ new.options = f.options /\ new.custom = f.custom
      /\ new.config["added"] = c
      /\ \A p \in Places \ {"added"} : new.config[p] = f.config[p]
    BY <1>1, <1>2 DEF IsModel, Appended
<1>4. PICK v : v = f.version OBVIOUS
<1>5. PICK u \in BOOLEAN : u = NewPass BY Passes
<1>6. PICK x : x = f.config["added"] OBVIOUS
<1>7. PICK cluster : cluster = f.config["cluster"] OBVIOUS
<1>8. v \in Known /\ Standard \subseteq DOMAIN cluster /\ DOMAIN x = {}
    BY <1>1, <1>4, <1>6, <1>7 DEF Fixed, GoodFile
<1>9. c = ProfileKubelet("added", x, cluster, v, u) BY <1>4, <1>5, <1>6, <1>7
<1>10. Fits(c, KubeletFlags) /\ StartsWith(c, v)
    <2>1. Fits(x, KubeletFlags) /\ Fits(cluster, KubeletFlags)
        BY <1>1, <1>6, <1>7, FlagsOfPlaces DEF Shaped
    <2> QED BY <1>8, <1>9, <2>1, ProfileStarts
<1>11. ProfileKubelet("added", c, cluster, v, NewPass) = c /\ Standard \subseteq DOMAIN c
    BY <1>8, <1>9, ProfileAgain, ProfileStandard, Passes
<1>12. c[PauseImage] \in {UserImage, WindowsImage, v}
    <2>1. ProfileIs(c, "added", x, cluster, v, u) BY <1>8, <1>9, ProfileKubeletIs
    <2>2. c[PauseImage] = cluster[PauseImage] BY <1>8, <2>1 DEF ProfileIs
    <2>3. PauseImage \in DOMAIN cluster BY <1>8 DEF Standard
    <2> QED BY <1>4, <1>7, <2>2, <2>3 DEF GoodFile, Images
<1>13. KeptAt("added", c, given) /\ Inherits("added", c, given)
    <2>1. \A y : <<"added", y>> \notin given BY SettingsArePairs
    <2>2. KeptAt("added", x, given) BY <2>1 DEF KeptAt
    <2>3. Inherits("added", x, given) BY <1>8 DEF Inherits
    <2>4. KeptAt("cluster", cluster, given) BY <1>7 DEF GoodFile, Kept
    <2> QED BY <1>8, <1>9, <2>2, <2>3, <2>4, ProfileKept
<1>14. Profiles(new) = Profiles(f) \union {"added"} BY <1>3 DEF Profiles
<1>15. \A p \in Profiles(f) \union ComponentPlaces \union {"cluster"} : new.config[p] = f.config[p]
    <2>1. "added" \notin Profiles(f) BY DEF Profiles
    <2> QED BY <1>2, <1>3, <2>1
<1>16. Sound(new)
    <2>1. \A p \in Places \ {"added"} : Fits(new.config[p], FlagsOf(p)) BY <1>1, <1>3 DEF Shaped
    <2>2. Fits(new.config["added"], FlagsOf("added")) BY <1>3, <1>10, FlagsOfPlaces
    <2> QED BY <1>1, <1>3, <2>1, <2>2 DEF Sound, Shaped
<1>17. Parts(new) BY <1>1, <1>3 DEF Parts
<1>18. Fixed(new)
    BY <1>1, <1>3, <1>4, <1>7, <1>11, <1>14, <1>15 DEF Fixed
<1>19. Starts(new)
    <2>1. Starts(f) BY DEF GoodFile
    <2> QED BY <1>3, <1>4, <1>10, <1>14, <1>15, <2>1 DEF Starts
<1>20. Images(new, new.version)
    <2>1. Images(f, f.version) BY DEF GoodFile
    <2>2. BareImages(f) BY <2>1 DEF Images
    <2>3. BareImages(new) BY <1>3, <2>2 DEF BareImages
    <2>4. ASSUME NEW p \in {"cluster"} \union Profiles(new), PauseImage \in DOMAIN new.config[p]
          PROVE  new.config[p][PauseImage] \in {UserImage, WindowsImage, v}
        <3>1. CASE p = "added" BY <1>3, <1>12, <3>1
        <3>2. CASE p # "added"
            <4>1. p \in {"cluster"} \union Profiles(f) /\ new.config[p] = f.config[p]
                BY <1>14, <1>15, <2>4, <3>2
            <4> QED BY <1>4, <2>1, <2>4, <4>1 DEF Images
        <3> QED BY <3>1, <3>2
    <2>5. /\ \A k \in ComponentPlaces : new.components[k].image \in {NoImage, UserImage, v}
          /\ \A a \in Addons : new.addons[a].image \in {NoImage, UserImage, v}
        BY <1>3, <1>4, <2>1 DEF Images
    <2> QED BY <1>3, <1>4, <2>3, <2>4, <2>5 DEF Images
<1>21. Kept(new, given)
    <2>1. Kept(f, given) BY DEF GoodFile
    <2> QED BY <1>3, <1>13, <1>14, <1>15, <2>1 DEF Kept
<1>25. \E up \in BOOLEAN : Held(new, given, up)
    <2>1. PICK up \in BOOLEAN : Held(f, given, up) BY DEF GoodFile
    <2>2. Held(new, given, up) BY <1>3, <2>1 DEF Held
    <2> QED BY <2>2
<1>22. LikeNew(new, given)
    <2>1. LikeNew(f, given) BY DEF GoodFile
    <2>2. {"linux", "windows"} \subseteq f.pools BY DEF GoodFile
    <2>3. \A p \in FirstProfiles : new.config[p] = f.config[p]
        BY <1>15, <2>2 DEF FirstProfiles, Profiles
    <2>4. /\ new.config["cluster"] = f.config["cluster"]
          /\ new.config["controllerManager"] = f.config["controllerManager"]
          /\ new.config["cloudControllerManager"] = f.config["cloudControllerManager"]
          /\ new.config["scheduler"] = f.config["scheduler"]
          /\ new.config["apiserver"] = f.config["apiserver"]
        BY <1>15 DEF ComponentPlaces
    <2>5. Alike(new.config["cluster"], NewCluster(given, new.version), Reset)
        BY <1>3, <2>1, <2>4 DEF LikeNew
    <2>6. \A p \in FirstProfiles : Alike(new.config[p], NewProfile(given, p, new.version), ResetOrGates)
        BY <1>3, <2>1, <2>3 DEF LikeNew
    <2>7. /\ new.config["controllerManager"]
                = SetControllerManagerConfig(WrittenBy(given, "controllerManager"), new.version)
          /\ new.config["cloudControllerManager"]
                = SetCloudControllerManagerConfig(WrittenBy(given, "cloudControllerManager"), new.version)
          /\ new.config["scheduler"] = SetSchedulerConfig(WrittenBy(given, "scheduler"), new.version)
        BY <1>3, <2>1, <2>4 DEF LikeNew
    <2>8. f.config["apiserver"] = SetAPIServerConfig(WrittenBy(given, "apiserver"), f.version,
                                                     f.addons["pod-security-policy"].on)
        BY <2>1, Zenon DEF LikeNew
    <2>9. new.config["apiserver"] = SetAPIServerConfig(WrittenBy(given, "apiserver"), new.version,
                                                       new.addons["pod-security-policy"].on)
        BY <1>3, <2>4, <2>8, Zenon
    <2>10. f.addons["pod-security-policy"].on
              <=> (<<"pod-security-policy", "off">> \notin given /\ ~Ge(f.version, 25))
        BY <2>1, Zenon DEF LikeNew
    <2>11. new.addons["pod-security-policy"].on
              <=> (<<"pod-security-policy", "off">> \notin given /\ ~Ge(new.version, 25))
        BY <1>3, <2>10, Zenon
    <2> QED BY <2>5, <2>6, <2>7, <2>9, <2>11, Zenon DEF LikeNew
<1>23. GoodFile(new, given)
    <2>1. {"linux", "windows"} \subseteq f.pools BY DEF GoodFile
    <2>2. "added" \in new.pools BY <1>3
    <2>3. Accepted(given) BY DEF GoodFile
    <2> QED BY <1>3, <1>16, <1>17, <1>18, <1>19, <1>20, <1>21, <1>22, <1>25, <2>1, <2>2, <2>3 DEF GoodFile
<1>24. ASSUME NEW w, NEW p \in Profiles(f)
       PROVE  Complete(new, w, UpgradePass).config[p] = Complete(f, w, UpgradePass).config[p]
    <2>1. PICK t \in BOOLEAN : t = UpgradePass BY Passes
    <2>2. PICK a : a = Complete(f, w, t) OBVIOUS
    <2>0. PICK m : m = new OBVIOUS
    <2>3. PICK b : b = Complete(m, w, t) OBVIOUS
    <2>4. PICK k : k = ClusterKubelet(f.config["cluster"], w, t) OBVIOUS
    <2>5. IsModel(m) /\ k = ClusterKubelet(m.config["cluster"], w, t) BY <1>3, <1>15, <2>0, <2>4
    <2>6. CompletedIs(a, f, w, t, k) BY <1>1, <2>2, <2>4, Completed
    <2>7. CompletedIs(b, m, w, t, k) BY <2>3, <2>5, Completed
    <2>8. p \in {"master"} \union f.pools /\ p \in {"master"} \union m.pools
        BY <1>3, <2>0 DEF Profiles
    <2>9. a.config[p] = ProfileKubelet(p, f.config[p], k, w, t) BY <2>6, <2>8 DEF CompletedIs
    <2>10. b.config[p] = ProfileKubelet(p, m.config[p], k, w, t) BY <2>7, <2>8 DEF CompletedIs
    <2>11. a.config[p] = b.config[p] BY <1>15, <2>0, <2>9, <2>10
    <2> QED BY <2>0, <2>1, <2>2, <2>3, <2>11
<1> QED BY <1>3, <1>15, <1>23, <1>24 DEF Extends

-----------------------------------------------------------------------------
(* The states of the commands.                                               *)
\* A version a command may take the file to
IsGoal(v, f, t) == t[v] /\ v # f.version /\ Minor(f.version) <= Minor(v)

\* A node is of the file, or of an upgrade that has not been saved.
NodeIs(n, f, p) ==
    \/ n.version = f.version /\ n.config = f.config[p]
    \/ /\ n.version \in Known /\ n.version # f.version /\ Minor(f.version) <= Minor(n.version)
       /\ n.config = Complete(f, n.version, UpgradePass).config[p]

\* The file is complete and every profile has nodes, which are of it.
FileOK(f, t, g, ns) ==
    /\ GoodFile(f, g) /\ t[f.version]
    /\ DOMAIN ns = Profiles(f)
    /\ \A p \in Profiles(f) : NodeIs(ns[p], f, p)

\* The container service a command works on, made of the file it has read
CommandOK(c, m, f, t, ns) ==
    /\ c = "scale" => \E pool \in f.pools : m = [f EXCEPT !.pools = {pool}]
    /\ c = "addpool" => "added" \notin f.pools /\ m = [f EXCEPT !.pools = {"added"}]
    /\ c = "upgrade" => \E goal \in Known : IsGoal(goal, f, t) /\ m = [f EXCEPT !.version = goal]
    /\ c = "pools" => \E goal \in Known :
                        /\ IsGoal(goal, f, t)
                        /\ m = Complete(f, goal, UpgradePass)
                        /\ ns["master"].version = goal

\* The control plane is of a complete file, with the user's addons and images as
\* an upgrade, if one created it, has left them.
PlaneOK(f, g, up) == GoodFile(f, g) /\ Held(f, g, up) /\ CustomHeld(f, g, up)

\* The inductive invariant: whatever the history, the file is what a pass leaves
\* (GoodFile), and a node runs with the file's flags or with those the upgrade
\* under way, or one that failed, makes of the file.
IInv ==
    /\ TableOK
    /\ given \subseteq Settings /\ Accepted(given)
    /\ upgraded \in BOOLEAN
    /\ file = NoFile => command = "none" /\ DOMAIN nodes = {} /\ ~upgraded
    /\ file # NoFile => /\ FileOK(file, table, given, nodes)
                        /\ CommandOK(command, model, file, table, nodes)
    /\ plane # NoFile => PlaneOK(plane, given, upgraded)

\* A complete file is a file.
LEMMA GoodIsFile == ASSUME NEW f, NEW g, GoodFile(f, g) PROVE f # NoFile /\ f.version \in Known
<1>1. f.version \in Known BY DEF GoodFile, Sound
<1>2. NoVersion \notin Known BY KnownAssumption DEF NoVersion
<1>3. NoFile.version = NoVersion BY DEF NoFile
<1> QED BY <1>1, <1>2, <1>3

\* The nodes after a deployment
AreDeployed(ns, cs, places) ==
    /\ DOMAIN ns = places \union DOMAIN nodes
    /\ \A p \in places : ns[p].version = cs.version /\ ns[p].config = cs.config[p]
    /\ \A p \in DOMAIN nodes \ places : ns[p] = nodes[p]

\* Deployed is it.
LEMMA DeployedIs ==
    ASSUME NEW cs, NEW places, NEW ns, ns = Deployed(cs, places)
    PROVE  AreDeployed(ns, cs, places)
<1>1. PICK h : h = [p \in places |-> [version |-> cs.version, config |-> cs.config[p]]] OBVIOUS
<1>2. ns = h @@ nodes BY <1>1 DEF Deployed
<1>3. DOMAIN h = places /\ \A p \in places : h[p].version = cs.version /\ h[p].config = cs.config[p]
    BY <1>1
<1>4. /\ DOMAIN ns = DOMAIN h \union DOMAIN nodes
      /\ \A x \in DOMAIN h : ns[x] = h[x]
      /\ \A x \in DOMAIN nodes \ DOMAIN h : ns[x] = nodes[x]
    BY <1>2 DEF @@
<1> QED BY <1>3, <1>4 DEF AreDeployed

\* The passes of the commands: deploy, upgrade, and scale or addpool.
LEMMA DeployPass ==
    ASSUME NEW cs, NEW v, v = ValidVersion(cs.version, FALSE)
    PROVE  SetPropertiesDefaults(cs, FALSE, FALSE) = Complete(cs, v, NewPass)
<1>1. FALSE \/ FALSE <=> FALSE OBVIOUS
<1> QED BY Zenon DEF SetPropertiesDefaults, Complete, NewPass

\* The pass of an upgrade
LEMMA UpgradePassIs ==
    ASSUME TableOK, NEW cs, cs.version \in Known
    PROVE  SetPropertiesDefaults(cs, TRUE, FALSE) = Complete(cs, cs.version, UpgradePass)
<1>1. ValidVersion(cs.version, TRUE) = cs.version BY ValidKnown
<1> QED BY <1>1, Zenon DEF SetPropertiesDefaults, Complete, UpgradePass

\* The pass of scale and addpool
LEMMA PoolPassIs ==
    ASSUME TableOK, NEW cs, cs.version \in Known
    PROVE  SetPropertiesDefaults(cs, FALSE, TRUE) = Complete(cs, cs.version, NewPass)
<1>1. ValidVersion(cs.version, TRUE) = cs.version BY ValidKnown
<1> QED BY <1>1, Zenon DEF SetPropertiesDefaults, Complete, NewPass

\* A pass sets the version itself.
LEMMA VersionSet ==
    ASSUME NEW f, IsModel(f), NEW v, NEW u \in BOOLEAN
    PROVE  Complete([f EXCEPT !.version = v], v, u) = Complete(f, v, u)
<1>1. PICK cs : cs = [f EXCEPT !.version = v] OBVIOUS
<1>2. /\ IsModel(cs) /\ cs.version = v /\ cs.pools = f.pools /\ cs.custom = f.custom
      /\ cs.options = f.options
      /\ cs.addons = f.addons /\ cs.components = f.components /\ cs.config = f.config
    BY <1>1 DEF IsModel
<1>3. PICK a : a = Complete(cs, v, u) OBVIOUS
<1>4. PICK b : b = Complete(f, v, u) OBVIOUS
<1>5. PICK k : k = ClusterKubelet(f.config["cluster"], v, u) OBVIOUS
<1>6. CompletedIs(a, cs, v, u, k) BY <1>2, <1>3, <1>5, Completed
<1>7. CompletedIs(b, f, v, u, k) BY <1>4, <1>5, Completed
<1>8. a.addons = b.addons /\ a.components = b.components /\ IsModel(a) /\ IsModel(b)
      /\ a.version = b.version /\ a.pools = b.pools /\ a.custom = b.custom /\ a.options = b.options
    BY <1>2, <1>6, <1>7 DEF CompletedIs
<1>9. ASSUME NEW p \in KubeletPlaces PROVE a.config[p] = b.config[p]
    <2>1. CASE p \in {"master"} \union f.pools
        <3>1. a.config[p] = ProfileKubelet(p, f.config[p], k, v, u)
            BY <1>2, <1>6, <2>1 DEF CompletedIs
        <3>2. b.config[p] = ProfileKubelet(p, f.config[p], k, v, u) BY <1>7, <2>1 DEF CompletedIs
        <3> QED BY <3>1, <3>2
    <2>2. CASE p = "cluster" BY <1>6, <1>7, <2>2 DEF CompletedIs
    <2>3. CASE p \notin {"cluster", "master"} \union f.pools
        BY <1>2, <1>6, <1>7, <2>3 DEF CompletedIs
    <2> QED BY <2>1, <2>2, <2>3
<1>10. \A p \in ComponentPlaces \ {"apiserver"} : a.config[p] = b.config[p]
    BY <1>2, <1>6, <1>7 DEF CompletedIs, ComponentPlaces
<1>11. a.config["apiserver"] = b.config["apiserver"]
    <2>1. a.config["apiserver"] = SetAPIServerConfig(f.config["apiserver"], v, a.addons["pod-security-policy"].on)
        BY <1>2, <1>6, Zenon DEF CompletedIs
    <2>2. b.config["apiserver"] = SetAPIServerConfig(f.config["apiserver"], v, b.addons["pod-security-policy"].on)
        BY <1>7, Zenon DEF CompletedIs
    <2> QED BY <1>8, <2>1, <2>2, Zenon
<1>12. \A p \in Places : a.config[p] = b.config[p] BY <1>9, <1>10, <1>11 DEF Places
<1>13. a = b BY <1>8, <1>12, SameModel
<1> QED BY <1>1, <1>3, <1>4, <1>13

\* Every node has what some complete file says for its version.
LEMMA NodeGood ==
    ASSUME NEW f, NEW t, NEW g, NEW ns, FileOK(f, t, g, ns), NEW p \in DOMAIN ns
    PROVE  \E h : /\ GoodFile(h, g) /\ p \in Profiles(h)
                  /\ ns[p].version = h.version /\ ns[p].config = h.config[p]
<1>1. GoodFile(f, g) /\ p \in Profiles(f) /\ NodeIs(ns[p], f, p) BY DEF FileOK
<1>2. CASE ns[p].version = f.version /\ ns[p].config = f.config[p] BY <1>1, <1>2
<1>3. CASE /\ ns[p].version \in Known /\ Minor(f.version) <= Minor(ns[p].version)
           /\ ns[p].config = Complete(f, ns[p].version, UpgradePass).config[p]
    <2>1. PICK v \in Known : v = ns[p].version BY <1>3
    <2>2. PICK h : h = Complete(f, v, UpgradePass) OBVIOUS
    <2>3. GoodFile(h, g) /\ h.version = v /\ h.pools = f.pools
        BY <1>1, <1>3, <2>1, <2>2, UpgradedGood
    <2>4. p \in Profiles(h) BY <1>1, <2>3 DEF Profiles
    <2> QED BY <1>3, <2>1, <2>2, <2>3, <2>4
<1> QED BY <1>1, <1>2, <1>3 DEF NodeIs

-----------------------------------------------------------------------------
(* The invariant, action by action.                                          *)

\* There is no file to begin with.
LEMMA InitInv == Init => IInv
<1>1. Init => TableOK BY DEF Init, TableOK
<1>2. Init => given \subseteq Settings /\ Accepted(given) BY DefinitionsAssumption DEF Init
<1>3. DOMAIN [p \in {} |-> Empty] = {} OBVIOUS
<1> QED BY <1>1, <1>2, <1>3 DEF Init, IInv

\* deploy writes a complete file and its nodes.
LEMMA DeployInv == ASSUME IInv, NEW named \in Known \union {NoVersion}, Deploy(named) PROVE IInv'
<1>1. PICK v : v = ValidVersion(named, FALSE) OBVIOUS
<1>2. v \in Known /\ table[v] BY <1>1, ValidKnown DEF Deploy, IInv
<1>3. PICK cs : cs = SetPropertiesDefaults(Definition(named), FALSE, FALSE) OBVIOUS
<1>4. /\ file' = cs /\ plane' = cs /\ nodes' = Deployed(cs, {"master"} \union cs.pools)
      /\ table' = table /\ given' = given /\ command' = command /\ model' = model
      /\ upgraded' = upgraded
    BY <1>3 DEF Deploy
<1>5. Definition(named).version = named BY DEF Definition
<1>6. cs = Complete(Definition(named), v, NewPass) BY <1>1, <1>3, <1>5, DeployPass
<1>7. GoodFile(cs, given) /\ cs.version = v /\ Held(cs, given, FALSE) /\ CustomHeld(cs, given, FALSE)
    BY <1>2, <1>6, DeployedGood DEF IInv, NewPass
<1>8. file = NoFile /\ DOMAIN nodes = {} /\ command = "none" /\ upgraded = FALSE BY DEF Deploy, IInv
<1>13. PlaneOK(cs, given, upgraded) BY <1>7, <1>8 DEF PlaneOK
<1>9. /\ DOMAIN nodes' = Profiles(cs)
      /\ \A p \in Profiles(cs) : nodes'[p].version = cs.version /\ nodes'[p].config = cs.config[p]
    <2>1. AreDeployed(nodes', cs, Profiles(cs)) BY <1>4, DeployedIs DEF Profiles
    <2> QED BY <1>8, <2>1 DEF AreDeployed
<1>10. FileOK(cs, table, given, nodes') BY <1>2, <1>7, <1>9 DEF FileOK, NodeIs
<1>11. CommandOK(command', model', cs, table, nodes') BY <1>4, <1>8 DEF CommandOK
<1>12. cs # NoFile BY <1>7, GoodIsFile
<1> QED BY <1>4, <1>7, <1>10, <1>11, <1>12, <1>13 DEF IInv, TableOK

\* A command reads the file.
LEMMA StartInv ==
    ASSUME IInv, Idle, NEW c, NEW cs, Start(c, cs), CommandOK(c, cs, file, table, nodes)
    PROVE  IInv'
<1>1. /\ command' = c /\ model' = cs
      /\ table' = table /\ given' = given /\ file' = file /\ nodes' = nodes /\ plane' = plane
      /\ upgraded' = upgraded
    BY DEF Start
<1> QED BY <1>1 DEF IInv, TableOK, Idle

\* scale reads the file for one pool.
LEMMA ScaleInv == ASSUME IInv, NEW pool \in Pools, Scale(pool) PROVE IInv'
<1>1. PICK cs : cs = [file EXCEPT !.pools = {pool}] OBVIOUS
<1>2. Idle /\ Start("scale", cs) /\ pool \in file.pools BY <1>1 DEF Scale
<1>3. CommandOK("scale", cs, file, table, nodes) BY <1>1, <1>2 DEF CommandOK
<1> QED BY <1>2, <1>3, StartInv

\* addpool reads the file for the pool to add.
LEMMA AddPoolInv == ASSUME IInv, AddPool PROVE IInv'
<1>1. PICK cs : cs = [file EXCEPT !.pools = {"added"}] OBVIOUS
<1>2. Idle /\ Start("addpool", cs) /\ "added" \notin file.pools BY <1>1 DEF AddPool
<1>3. CommandOK("addpool", cs, file, table, nodes) BY <1>1, <1>2 DEF CommandOK
<1> QED BY <1>2, <1>3, StartInv

\* upgrade reads the file for a newer version, an upgrade that is offered.
LEMMA UpgradeInv == ASSUME IInv, NEW goal \in Known, Upgrade(goal) PROVE IInv'
<1>1. PICK cs : cs = [file EXCEPT !.version = goal] OBVIOUS
<1>2. Idle /\ Start("upgrade", cs) /\ goal \in UpgradesOf(file.version, table) BY <1>1 DEF Upgrade
<1>3. GoodFile(file, given) /\ file.version \in Known
    BY <1>2, GoodIsFile DEF Idle, IInv, FileOK
<1>4. IsGoal(goal, file, table)
    <2>1. DOMAIN table = Known /\ Known \subseteq AnyVersion
        BY KnownAssumption DEF IInv, TableOK, AnyVersion
    <2>2. PICK v \in Known : v = file.version BY <1>3
    <2>3. goal \in {w \in DOMAIN table : table[w] /\ Newer(w, v)}
        BY <1>2, <2>1, <2>2, OfferedUpgrades
    <2>4. table[goal] /\ Newer(goal, v) BY <2>3
    <2>5. goal \in AnyVersion /\ v \in AnyVersion BY <2>1, <2>2
    <2>6. goal # v /\ Minor(v) <= Minor(goal) BY <2>4, <2>5 DEF Newer, Minor, AnyVersion
    <2> QED BY <2>2, <2>4, <2>6 DEF IsGoal
<1>5. CommandOK("upgrade", cs, file, table, nodes) BY <1>1, <1>4 DEF CommandOK
<1> QED BY <1>2, <1>5, StartInv

\* What a template of the upgrade does to the nodes of a place
TemplateDoes(ns, cs, place, goal) ==
    ns = IF nodes[place].version = goal THEN nodes ELSE Deployed(cs, {place})

\* Nodes of a template are of the upgrade, and nodes at the goal already are.
LEMMA TemplateNodesAre ==
    ASSUME FileOK(file, table, given, nodes), NEW goal \in Known, IsGoal(goal, file, table),
           NEW cs, cs = Complete(file, goal, UpgradePass), NEW place \in Profiles(file),
           NEW ns, TemplateDoes(ns, cs, place, goal)
    PROVE  /\ FileOK(file, table, given, ns)
           /\ ns[place].version = goal
           /\ \A p \in Profiles(file) \ {place} : ns[p] = nodes[p]
           /\ PlaneOK(cs, given, UpgradePass)
<1>1. GoodFile(cs, given) /\ cs.version = goal /\ cs.pools = file.pools /\ PlaneOK(cs, given, UpgradePass)
    BY UpgradedGood DEF FileOK, IsGoal, PlaneOK
<1>2. CASE nodes[place].version = goal BY <1>1, <1>2 DEF TemplateDoes
<1>3. CASE nodes[place].version # goal
    <2>1. AreDeployed(ns, cs, {place}) BY <1>3, DeployedIs DEF TemplateDoes
    <2>2. /\ DOMAIN ns = {place} \union DOMAIN nodes
          /\ ns[place].version = cs.version /\ ns[place].config = cs.config[place]
          /\ \A p \in DOMAIN nodes \ {place} : ns[p] = nodes[p]
        BY <2>1 DEF AreDeployed
    <2>3. DOMAIN ns = Profiles(file) /\ \A p \in Profiles(file) \ {place} : ns[p] = nodes[p]
        BY <2>2 DEF FileOK
    <2>4. NodeIs(ns[place], file, place) BY <1>1, <2>2 DEF NodeIs, IsGoal
    <2>5. \A p \in Profiles(file) : NodeIs(ns[p], file, p) BY <2>3, <2>4 DEF FileOK
    <2>6. FileOK(file, table, given, ns) BY <2>3, <2>5 DEF FileOK
    <2> QED BY <1>1, <2>2, <2>3, <2>6
<1> QED BY <1>2, <1>3

\* The first template of an upgrade makes a complete model of the file.
LEMMA UpgradeMastersInv == ASSUME IInv, UpgradeMasters PROVE IInv'
<1>1. command = "upgrade" /\ command' = "pools" /\ table' = table /\ given' = given /\ file' = file
    BY DEF UpgradeMasters
<1>2. TableOK /\ file # NoFile /\ FileOK(file, table, given, nodes) BY <1>1 DEF IInv
<1>3. PICK goal \in Known : IsGoal(goal, file, table) /\ model = [file EXCEPT !.version = goal]
    BY <1>1, <1>2 DEF IInv, CommandOK
<1>4. IsModel(file) BY <1>2 DEF FileOK, GoodFile, Sound, Shaped
<1>5. model.version = goal BY <1>3, <1>4 DEF IsModel
<1>6. PICK cs : cs = SetPropertiesDefaults(model, TRUE, FALSE) OBVIOUS
<1>7. cs = Complete(model, goal, UpgradePass) BY <1>2, <1>5, <1>6, UpgradePassIs
<1>8. cs = Complete(file, goal, UpgradePass) BY <1>3, <1>4, <1>7, VersionSet, Passes
<1>9. /\ model' = cs
      /\ nodes' = IF nodes["master"].version = goal THEN nodes ELSE Deployed(cs, {"master"})
      /\ (plane' = plane /\ upgraded' = upgraded) \/ (plane' = cs /\ upgraded' = UpgradePass)
    BY <1>5, <1>6 DEF UpgradeMasters, UpgradeTemplate, UpgradePass
<1>10. "master" \in Profiles(file) BY DEF Profiles
<1>11. PICK ns : ns = nodes' OBVIOUS
<1>12. FileOK(file, table, given, ns) /\ ns["master"].version = goal /\ PlaneOK(cs, given, UpgradePass)
    <2>1. TemplateDoes(ns, cs, "master", goal) BY <1>9, <1>11 DEF TemplateDoes
    <2> QED BY <1>2, <1>3, <1>8, <1>10, <2>1, TemplateNodesAre
<1>13. CommandOK("pools", cs, file, table, ns) BY <1>3, <1>8, <1>12 DEF CommandOK
<1>14. FileOK(file, table, given, nodes') /\ CommandOK(command', model', file, table, nodes')
    BY <1>1, <1>9, <1>11, <1>12, <1>13
<1>15. upgraded' \in BOOLEAN /\ (plane' # NoFile => PlaneOK(plane', given, upgraded'))
    <2>1. upgraded \in BOOLEAN /\ (plane # NoFile => PlaneOK(plane, given, upgraded)) BY DEF IInv
    <2>2. PICK up : up = upgraded' OBVIOUS
    <2>3. CASE plane' = plane /\ upgraded' = upgraded BY <2>1, <2>3
    <2>4. CASE plane' = cs /\ upgraded' = UpgradePass
        <3>1. PlaneOK(plane', given, UpgradePass) BY <1>12, <2>4
        <3>2. PlaneOK(plane', given, up) BY <2>2, <2>4, <3>1
        <3> QED BY <2>2, <2>4, <3>2, Passes
    <2> QED BY <1>9, <2>3, <2>4
<1> QED BY <1>1, <1>2, <1>14, <1>15 DEF IInv, TableOK

\* The templates after it leave the model as it is.
LEMMA UpgradePoolInv == ASSUME IInv, NEW pool \in Pools, UpgradePool(pool) PROVE IInv'
<1>1. command = "pools" /\ command' = "pools" /\ table' = table /\ given' = given /\ file' = file
      /\ pool \in model.pools
    BY DEF UpgradePool
<1>2. TableOK /\ file # NoFile /\ FileOK(file, table, given, nodes) BY <1>1 DEF IInv
<1>3. PICK goal \in Known : /\ IsGoal(goal, file, table) /\ model = Complete(file, goal, UpgradePass)
                            /\ nodes["master"].version = goal
    BY <1>1, <1>2 DEF IInv, CommandOK
<1>4. IsModel(file) /\ Parts(file) /\ GoodFile(file, given)
    BY <1>2 DEF FileOK, GoodFile, Sound, Shaped
<1>5. model.version = goal /\ model.pools = file.pools BY <1>3, <1>4, UpgradedGood DEF IsGoal
<1>6. PICK cs : cs = SetPropertiesDefaults(model, TRUE, FALSE) OBVIOUS
<1>7. cs = Complete(model, goal, UpgradePass) BY <1>2, <1>5, <1>6, UpgradePassIs
<1>8. cs = model BY <1>3, <1>4, <1>7, UpgradeAgain, Passes
<1>9. pool # "master" /\ pool \in Profiles(file) /\ "master" \in Profiles(file)
    BY <1>1, <1>5 DEF Pools, Profiles
<1>10. /\ model' = model /\ plane' = plane /\ upgraded' = upgraded
       /\ nodes' = IF nodes[pool].version = goal THEN nodes ELSE Deployed(model, {pool})
    BY <1>5, <1>6, <1>8, <1>9 DEF UpgradePool, UpgradeTemplate
<1>11. PICK ns : ns = nodes' OBVIOUS
<1>12. FileOK(file, table, given, ns) /\ ns["master"].version = goal
    <2>1. PICK m : m = model OBVIOUS
    <2>2. m = Complete(file, goal, UpgradePass) BY <1>3, <2>1
    <2>3. TemplateDoes(ns, m, pool, goal) BY <1>10, <1>11, <2>1 DEF TemplateDoes
    <2>4. FileOK(file, table, given, ns) /\ \A p \in Profiles(file) \ {pool} : ns[p] = nodes[p]
        BY <1>2, <1>3, <1>9, <2>2, <2>3, TemplateNodesAre
    <2> QED BY <1>3, <1>9, <2>4
<1>13. CommandOK("pools", model, file, table, ns) BY <1>3, <1>12 DEF CommandOK
<1>14. FileOK(file, table, given, nodes') /\ CommandOK(command', model', file, table, nodes')
    BY <1>1, <1>10, <1>11, <1>12, <1>13
<1> QED BY <1>1, <1>2, <1>10, <1>14 DEF IInv, TableOK

\* The model is saved when every node is of it.
LEMMA SaveUpgradeInv == ASSUME IInv, SaveUpgrade PROVE IInv'
<1>1. /\ command = "pools" /\ command' = "none" /\ file' = model
      /\ table' = table /\ given' = given /\ nodes' = nodes /\ plane' = plane /\ upgraded' = upgraded
      /\ \A p \in model.pools : nodes[p].version = model.version
    BY DEF SaveUpgrade
<1>2. TableOK /\ file # NoFile /\ FileOK(file, table, given, nodes) BY <1>1 DEF IInv
<1>3. PICK goal \in Known : /\ IsGoal(goal, file, table) /\ model = Complete(file, goal, UpgradePass)
                            /\ nodes["master"].version = goal
    BY <1>1, <1>2 DEF IInv, CommandOK
<1>4. PICK m : m = model OBVIOUS
<1>5. m = Complete(file, goal, UpgradePass) BY <1>3, <1>4
<1>6. GoodFile(m, given) /\ m.version = goal /\ m.pools = file.pools
    BY <1>2, <1>3, <1>5, UpgradedGood DEF FileOK, IsGoal
<1>7. Profiles(m) = Profiles(file) BY <1>6 DEF Profiles
<1>8. \A p \in Profiles(m) : nodes[p].version = goal BY <1>1, <1>3, <1>4, <1>6 DEF Profiles
<1>9. \A p \in Profiles(m) : nodes[p].config = m.config[p]
    BY <1>2, <1>3, <1>5, <1>7, <1>8 DEF FileOK, NodeIs, IsGoal
<1>10. FileOK(m, table, given, nodes)
    BY <1>2, <1>3, <1>6, <1>7, <1>8, <1>9 DEF FileOK, NodeIs, IsGoal
<1>11. CommandOK("none", model', m, table, nodes) BY DEF CommandOK
<1>12. m # NoFile BY <1>6, GoodIsFile
<1>13. file' # NoFile /\ FileOK(file', table', given', nodes') /\ CommandOK(command', model', file', table', nodes')
    BY <1>1, <1>4, <1>10, <1>11, <1>12
<1> QED BY <1>1, <1>2, <1>13 DEF IInv, TableOK

\* An upgrade that fails leaves the file, and nodes that its next pass agrees with.
LEMMA FailInv == ASSUME IInv, Fail PROVE IInv'
<1>1. /\ command \in {"upgrade", "pools"} /\ command' = "none"
      /\ table' = table /\ given' = given /\ file' = file /\ nodes' = nodes /\ plane' = plane
      /\ upgraded' = upgraded
    BY DEF Fail
<1>2. file # NoFile BY <1>1 DEF IInv
<1>3. CommandOK(command', model', file, table, nodes) BY <1>1 DEF CommandOK
<1> QED BY <1>1, <1>2, <1>3 DEF IInv, TableOK

\* The pass of scale leaves the kubelets of the file alone.
LEMMA SaveScaleInv == ASSUME IInv, SavePool, command = "scale" PROVE IInv'
<1>1. PICK cs : cs = SetPropertiesDefaults(model, FALSE, TRUE) OBVIOUS
<1>2. /\ command' = "none" /\ file' = file /\ nodes' = Deployed(cs, cs.pools)
      /\ table' = table /\ given' = given /\ plane' = plane /\ upgraded' = upgraded
    BY <1>1 DEF SavePool
<1>3. TableOK /\ file # NoFile /\ FileOK(file, table, given, nodes) BY DEF IInv
<1>4. PICK pool \in file.pools : model = [file EXCEPT !.pools = {pool}]
    BY <1>3 DEF IInv, CommandOK
<1>5. IsModel(file) /\ Fixed(file) /\ file.version \in Known /\ pool \in Pools
    BY <1>3, <1>4 DEF FileOK, GoodFile, Sound, Shaped, IsModel
<1>6. model.version = file.version BY <1>4, <1>5 DEF IsModel
<1>7. cs = Complete(model, file.version, NewPass) BY <1>1, <1>3, <1>5, <1>6, PoolPassIs
<1>8. /\ cs.version = file.version /\ cs.pools = {pool}
      /\ cs.config[pool] = ProfileKubelet(pool, file.config[pool], file.config["cluster"], file.version, NewPass)
    BY <1>4, <1>5, <1>7, PoolPass
<1>9. pool \in Profiles(file) BY <1>4 DEF Profiles
<1>10. cs.config[pool] = file.config[pool] BY <1>5, <1>8, <1>9 DEF Fixed
<1>11. PICK ns : ns = nodes' OBVIOUS
<1>12. AreDeployed(ns, cs, {pool}) BY <1>2, <1>8, <1>11, DeployedIs
<1>13. /\ DOMAIN ns = Profiles(file)
       /\ ns[pool].version = file.version /\ ns[pool].config = file.config[pool]
       /\ \A p \in Profiles(file) \ {pool} : ns[p] = nodes[p]
    BY <1>3, <1>8, <1>9, <1>10, <1>12 DEF AreDeployed, FileOK
<1>14. \A p \in Profiles(file) : NodeIs(ns[p], file, p) BY <1>3, <1>13 DEF FileOK, NodeIs
<1>15. FileOK(file, table, given, ns) BY <1>3, <1>13, <1>14 DEF FileOK
<1>16. CommandOK(command', model', file, table, ns) BY <1>2 DEF CommandOK
<1> QED BY <1>2, <1>3, <1>11, <1>15, <1>16 DEF IInv, TableOK

\* The pass of addpool completes the pool it appends to the file.
LEMMA SaveAddedInv == ASSUME IInv, SavePool, command = "addpool" PROVE IInv'
<1>1. PICK cs : cs = SetPropertiesDefaults(model, FALSE, TRUE) OBVIOUS
<1>2. PICK new : new = Appended(file, cs.config["added"]) OBVIOUS
<1>3. /\ command' = "none" /\ nodes' = Deployed(cs, cs.pools) /\ file' = new
      /\ table' = table /\ given' = given /\ plane' = plane /\ upgraded' = upgraded
    BY <1>1, <1>2 DEF SavePool, Appended
<1>4. TableOK /\ file # NoFile /\ FileOK(file, table, given, nodes) /\ given \subseteq Settings
    BY DEF IInv
<1>5. "added" \notin file.pools /\ model = [file EXCEPT !.pools = {"added"}]
    BY <1>4 DEF IInv, CommandOK
<1>6. IsModel(file) /\ Fixed(file) /\ file.version \in Known /\ GoodFile(file, given) /\ "added" \in Pools
    BY <1>4 DEF FileOK, GoodFile, Sound, Shaped, Pools
<1>7. model.version = file.version BY <1>5, <1>6 DEF IsModel
<1>8. cs = Complete(model, file.version, NewPass) BY <1>1, <1>4, <1>6, <1>7, PoolPassIs
<1>9. /\ cs.version = file.version /\ cs.pools = {"added"}
      /\ cs.config["added"] = ProfileKubelet("added", file.config["added"], file.config["cluster"],
                                             file.version, NewPass)
    BY <1>5, <1>6, <1>8, PoolPass
<1>10. PICK c : c = cs.config["added"] OBVIOUS
<1>11. new = Appended(file, c) BY <1>2, <1>10
<1>12. /\ GoodFile(new, given) /\ new.version = file.version /\ new.pools = file.pools \union {"added"}
       /\ new.config["added"] = c
       /\ \A p \in Profiles(file) : new.config[p] = file.config[p]
       /\ \A w : \A p \in Profiles(file) :
             Complete(new, w, UpgradePass).config[p] = Complete(file, w, UpgradePass).config[p]
    <2>1. c = ProfileKubelet("added", file.config["added"], file.config["cluster"], file.version, NewPass)
        BY <1>9, <1>10
    <2>2. GoodFile(new, given) /\ Extends(new, file, c) BY <1>4, <1>5, <1>6, <1>11, <2>1, AddedGood
    <2> QED BY <2>2 DEF Extends
<1>13. PICK ns : ns = nodes' OBVIOUS
<1>14. AreDeployed(ns, cs, {"added"}) BY <1>3, <1>9, <1>13, DeployedIs
<1>15. Profiles(new) = Profiles(file) \union {"added"} /\ "added" \notin Profiles(file)
    BY <1>5, <1>12 DEF Profiles
<1>16. /\ DOMAIN ns = Profiles(new)
       /\ ns["added"].version = new.version /\ ns["added"].config = new.config["added"]
       /\ \A p \in Profiles(file) : ns[p] = nodes[p]
    BY <1>4, <1>9, <1>10, <1>12, <1>14, <1>15 DEF AreDeployed, FileOK
<1>17. ASSUME NEW p \in Profiles(file) PROVE NodeIs(ns[p], new, p)
    <2>1. NodeIs(ns[p], file, p) BY <1>4, <1>16 DEF FileOK
    <2> QED BY <1>12, <2>1 DEF NodeIs
<1>18. NodeIs(ns["added"], new, "added") BY <1>16 DEF NodeIs
<1>19. \A p \in Profiles(new) : NodeIs(ns[p], new, p) BY <1>15, <1>17, <1>18
<1>20. FileOK(new, table, given, ns) BY <1>4, <1>12, <1>16, <1>19 DEF FileOK
<1>21. CommandOK("none", model', new, table, ns) BY DEF CommandOK
<1>22. new # NoFile BY <1>12, GoodIsFile
<1>23. /\ file' # NoFile /\ FileOK(file', table', given', nodes')
       /\ CommandOK(command', model', file', table', nodes')
    BY <1>3, <1>13, <1>20, <1>21, <1>22
<1> QED BY <1>3, <1>4, <1>23 DEF IInv, TableOK

\* Every step keeps the invariant.
LEMMA NextInv == IInv /\ [Next]_vars => IInv'
<1> SUFFICES ASSUME IInv, [Next]_vars PROVE IInv' OBVIOUS
<1>1. CASE \E v \in Known \union {NoVersion} : Deploy(v) BY <1>1, DeployInv
<1>2. CASE \E p \in Pools : Scale(p) BY <1>2, ScaleInv
<1>3. CASE AddPool BY <1>3, AddPoolInv
<1>4. CASE \E v \in Known : Upgrade(v) BY <1>4, UpgradeInv
<1>5. CASE UpgradeMasters BY <1>5, UpgradeMastersInv
<1>6. CASE \E p \in Pools : UpgradePool(p) BY <1>6, UpgradePoolInv
<1>7. CASE SaveUpgrade BY <1>7, SaveUpgradeInv
<1>8. CASE SavePool BY <1>8, SaveScaleInv, SaveAddedInv DEF SavePool
<1>9. CASE Fail BY <1>9, FailInv
<1>10. CASE UNCHANGED vars BY <1>10 DEF vars, IInv, TableOK
<1> QED BY <1>1, <1>2, <1>3, <1>4, <1>5, <1>6, <1>7, <1>8, <1>9, <1>10 DEF Next

\* The invariant holds for any versions, any table and definition and any sequence
\* of commands.
THEOREM ModelInvariant == Spec => []IInv
BY InitInv, NextInv, PTL DEF Spec

-----------------------------------------------------------------------------
(* What the invariant says.                                                  *)

\* Completing a model again changes nothing: nodes of the file's version run with
\* the file's flags, whichever command made them (SetPropertiesDefaults).
THEOREM NodesAlwaysAgree == Spec => []NodesAgree
<1>1. ASSUME IInv PROVE NodesAgree
    <2>1. CASE file = NoFile BY <1>1, <2>1 DEF IInv, NodesAgree
    <2>2. CASE file # NoFile
        <3>1. FileOK(file, table, given, nodes) BY <1>1, <2>2 DEF IInv
        <3> QED BY <3>1 DEF FileOK, NodeIs, NodesAgree
    <2> QED BY <2>1, <2>2
<1> QED BY <1>1, ModelInvariant, PTL

\* Every node has what a complete file says for its version.
LEMMA NodesOfFiles ==
    ASSUME IInv, NEW p \in DOMAIN nodes
    PROVE  \E h : /\ GoodFile(h, given) /\ p \in Profiles(h)
                  /\ nodes[p].version = h.version /\ nodes[p].config = h.config[p]
<1>1. FileOK(file, table, given, nodes) BY DEF IInv
<1> QED BY <1>1, NodeGood

\* No flag or gate that a version has retired reaches a node or the control
\* plane of that version (removeKubeletFlags, removeInvalidFeatureGates).
THEOREM NothingRetiredRuns == Spec => []NothingRetired
<1>1. ASSUME IInv PROVE NothingRetired
    <2>1. ASSUME NEW p \in DOMAIN nodes PROVE StartsWith(nodes[p].config, nodes[p].version)
        <3>1. PICK h : /\ GoodFile(h, given) /\ p \in Profiles(h)
                       /\ nodes[p].version = h.version /\ nodes[p].config = h.config[p]
            BY <1>1, NodesOfFiles
        <3> QED BY <3>1 DEF GoodFile, Starts
    <2>2. ASSUME plane # NoFile, NEW c \in ComponentPlaces PROVE StartsWith(plane.config[c], plane.version)
        BY <1>1, <2>2 DEF IInv, PlaneOK, GoodFile, Starts
    <2> QED BY <2>1, <2>2 DEF NothingRetired
<1> QED BY <1>1, ModelInvariant, PTL

\* What the user has set stays as set through every sequence of commands, but
\* for the addons an upgrade forces on or off and the images it renews, which
\* are as SettingsKept says (setKubeletConfig, setAddonsConfig,
\* setComponentsConfig).
THEOREM SettingsAlwaysKept == Spec => []SettingsKept
<1>1. ASSUME IInv PROVE SettingsKept
    <2>1. ASSUME NEW s \in given \intersect (KubeletPlaces \X {"--max-pods", "--pod-max-pids"}),
                 NEW p \in DOMAIN nodes,
                 s[1] = p \/ (s[1] = "cluster" /\ {<<p, s[2]>>, <<p, Gates>>} \intersect given = {}),
                 s[2] = "--max-pods" \/ <<s[1], Gates>> \in given
          PROVE  nodes[p].config[s[2]] = "user"
        <3>1. PICK h : /\ GoodFile(h, given) /\ p \in Profiles(h)
                       /\ nodes[p].version = h.version /\ nodes[p].config = h.config[p]
            BY <1>1, NodesOfFiles
        <3>2. KeptAt(p, h.config[p], given) /\ Inherits(p, h.config[p], given)
            BY <3>1 DEF GoodFile, Kept
        <3>3. Standard \subseteq DOMAIN h.config[p] BY <3>1 DEF GoodFile, Fixed
        <3>4. s = <<s[1], s[2]>> /\ s \in given /\ s[2] \in {"--max-pods", "--pod-max-pids"} BY <2>1
        <3>5. CASE s[1] = p BY <2>1, <3>1, <3>2, <3>4, <3>5 DEF KeptAt
        <3>6. CASE s[1] = "cluster" /\ {<<p, s[2]>>, <<p, Gates>>} \intersect given = {}
            BY <2>1, <3>1, <3>2, <3>3, <3>4, <3>6 DEF Inherits, Standard
        <3> QED BY <2>1, <3>5, <3>6
    <2>2. ASSUME plane # NoFile
          PROVE  /\ \A c \in ComponentPlaces : <<c, "--profiling">> \in given
                       => plane.config[c]["--profiling"] = "user"
                 /\ \A a \in Addons : AddonKept(a, plane.addons[a], plane.version)
                 /\ \A c \in ComponentPlaces : <<c, "custom">> \in given
                       => plane.components[c].image = IF upgraded THEN plane.version ELSE UserImage
        <3>1. Kept(plane, given) /\ Held(plane, given, upgraded) /\ CustomHeld(plane, given, upgraded)
            BY <1>1, <2>2 DEF IInv, PlaneOK, GoodFile
        <3>2. ASSUME NEW a \in Addons PROVE AddonKept(a, plane.addons[a], plane.version)
            <4>1. PICK x : x = plane.addons[a] OBVIOUS
            <4>2. PICK v : v = plane.version OBVIOUS
            <4>3. AddonHeld(a, x, v, given, upgraded) BY <3>1, <4>1, <4>2 DEF Held
            <4>4. x.on /\ <<a, "custom">> \in given => x.image = IF upgraded THEN v ELSE UserImage
                BY <3>1, <4>1, <4>2 DEF CustomHeld
            <4>5. AddonKept(a, x, v) BY <4>3, <4>4 DEF AddonHeld, AddonKept
            <4> QED BY <4>1, <4>2, <4>5
        <3> QED BY <3>1, <3>2 DEF Kept, CustomHeld
    <2> QED BY <2>1, <2>2, Zenon DEF SettingsKept
<1> QED BY <1>1, ModelInvariant, PTL

\* The model a new cluster of the file's version would have
LEMMA NewModel ==
    ASSUME IInv, file # NoFile, NEW new, new = SetPropertiesDefaults(Definition(file.version), FALSE, FALSE)
    PROVE  GoodFile(new, given) /\ new.version = file.version
           /\ new = Complete(Definition(file.version), file.version, NewPass)
<1>1. PICK v \in Known : v = file.version BY GoodIsFile DEF IInv, FileOK
<1>2. table[v] /\ v \in Known BY <1>1 DEF IInv, FileOK
<1>3. ValidVersion(v, FALSE) = v
    <2>1. PICK S : S = {w \in Known : table[w]} OBVIOUS
    <2>2. GetAllSupported(table, FALSE) = S BY <2>1 DEF IInv, TableOK, GetAllSupported
    <2>3. S \in SUBSET AnyVersion /\ IsFiniteSet(S)
        BY <2>1, KnownAssumption, FS_Subset DEF AnyVersion
    <2>4. v \in S /\ v \in AnyVersion BY <1>2, <2>1, <2>3
    <2>5. GetValidPatchVersion(v, S, Default) = v BY <2>3, <2>4, ValidPatch
    <2> QED BY <2>2, <2>5 DEF ValidVersion
<1>4. Definition(v).version = v BY DEF Definition
<1>5. new = Complete(Definition(v), v, NewPass) BY <1>1, <1>3, <1>4, DeployPass
<1>6. GoodFile(new, given) /\ new.version = v BY <1>2, <1>5, DeployedGood DEF IInv
<1> QED BY <1>1, <1>5, <1>6

\* Two models of one version that are like a new one are like each other.
LEMMA BothLikeNew ==
    ASSUME NEW f, NEW new, NEW g, GoodFile(f, g), GoodFile(new, g), f.version = new.version
    PROVE  /\ \A p \in ComponentPlaces \union {"cluster"} : Alike(f.config[p], new.config[p], Reset)
           /\ \A p \in FirstProfiles : Alike(f.config[p], new.config[p], ResetOrGates)
<1>1. LikeNew(f, g) /\ LikeNew(new, g) /\ Parts(f) /\ Parts(new) BY DEF GoodFile
<1>2. \A c, d, e, keys : Alike(c, e, keys) /\ Alike(d, e, keys) => Alike(c, d, keys)
    BY DEF Alike
<1>3. \A c, keys : Alike(c, c, keys) BY DEF Alike
<1>4. Alike(f.config["cluster"], new.config["cluster"], Reset)
    <2>1. PICK e : e = NewCluster(g, f.version) OBVIOUS
    <2>2. Alike(f.config["cluster"], e, Reset) /\ Alike(new.config["cluster"], e, Reset)
        BY <1>1, <2>1 DEF LikeNew
    <2> QED BY <1>2, <2>2
<1>5. ASSUME NEW p \in FirstProfiles PROVE Alike(f.config[p], new.config[p], ResetOrGates)
    <2>1. PICK e : e = NewProfile(g, p, f.version) OBVIOUS
    <2>2. Alike(f.config[p], e, ResetOrGates) /\ Alike(new.config[p], e, ResetOrGates)
        BY <1>1, <2>1 DEF LikeNew
    <2> QED BY <1>2, <2>2
<1>6. /\ f.config["controllerManager"] = new.config["controllerManager"]
      /\ f.config["cloudControllerManager"] = new.config["cloudControllerManager"]
      /\ f.config["scheduler"] = new.config["scheduler"]
    BY <1>1 DEF LikeNew
<1>7. f.config["apiserver"] = new.config["apiserver"]
    <2>1. PICK v : v = f.version OBVIOUS
    <2>2. PICK a \in BOOLEAN : a = f.addons["pod-security-policy"].on
        BY <1>1 DEF Parts, IsPart, Addons
    <2>3. PICK b \in BOOLEAN : b = new.addons["pod-security-policy"].on
        BY <1>1 DEF Parts, IsPart, Addons
    <2>4. a <=> (<<"pod-security-policy", "off">> \notin g /\ ~Ge(v, 25))
        BY <1>1, <2>1, <2>2 DEF LikeNew
    <2>5. b <=> (<<"pod-security-policy", "off">> \notin g /\ ~Ge(v, 25))
        BY <1>1, <2>1, <2>3 DEF LikeNew
    <2>6. a = b BY <2>4, <2>5, Zenon
    <2>7. f.config["apiserver"] = SetAPIServerConfig(WrittenBy(g, "apiserver"), v, a)
        BY <1>1, <2>1, <2>2, Zenon DEF LikeNew
    <2>8. new.config["apiserver"] = SetAPIServerConfig(WrittenBy(g, "apiserver"), v, b)
        BY <1>1, <2>1, <2>3, Zenon DEF LikeNew
    <2> QED BY <2>6, <2>7, <2>8, Zenon
<1>8. \A p \in ComponentPlaces : f.config[p] = new.config[p] BY <1>6, <1>7 DEF ComponentPlaces
<1> QED BY <1>3, <1>4, <1>5, <1>8

\* However many upgrades led to a version, the flags are those of a new cluster
\* of it, and no image is of an older version (SetPropertiesDefaults).
THEOREM UpgradedAlwaysLikeNew == Spec => []UpgradedLikeNew
<1>1. ASSUME IInv PROVE UpgradedLikeNew
    <2>1. ASSUME file # NoFile, NEW new, new = SetPropertiesDefaults(Definition(file.version), FALSE, FALSE)
          PROVE  /\ \A p \in ComponentPlaces \union {"cluster"} :
                       Without(file.config[p], Reset) = Without(new.config[p], Reset)
                 /\ \A p \in {"master", "linux", "windows"} :
                       Without(file.config[p], ResetOrGates) = Without(new.config[p], ResetOrGates)
        <3>1. GoodFile(new, given) /\ new.version = file.version BY <1>1, <2>1, NewModel
        <3>2. GoodFile(file, given) BY <1>1, <2>1 DEF IInv, FileOK
        <3>3. /\ \A p \in ComponentPlaces \union {"cluster"} : Alike(file.config[p], new.config[p], Reset)
              /\ \A p \in FirstProfiles : Alike(file.config[p], new.config[p], ResetOrGates)
            BY <3>1, <3>2, BothLikeNew
        <3> QED BY <3>3, AlikeIs DEF FirstProfiles
    <2>2. ASSUME plane # NoFile
          PROVE  \A i \in {plane.components[c].image : c \in ComponentPlaces}
                            \union {plane.addons[a].image : a \in Addons} :
                     i \in {NoImage, UserImage, plane.version}
        <3>1. Images(plane, plane.version) BY <1>1, <2>2 DEF IInv, PlaneOK, GoodFile
        <3> QED BY <3>1 DEF Images
    <2>3. ASSUME NEW p \in DOMAIN nodes
          PROVE  nodes[p].config[PauseImage] \in {UserImage, WindowsImage, nodes[p].version}
        <3>1. PICK h : /\ GoodFile(h, given) /\ p \in Profiles(h)
                       /\ nodes[p].version = h.version /\ nodes[p].config = h.config[p]
            BY <1>1, NodesOfFiles
        <3>2. Images(h, h.version) /\ PauseImage \in DOMAIN h.config[p]
            BY <3>1 DEF GoodFile, Fixed, Standard
        <3> QED BY <3>1, <3>2 DEF Images
    <2> QED BY <2>1, <2>2, <2>3, Zenon DEF UpgradedLikeNew, Reset, ResetOrGates
<1> QED BY <1>1, ModelInvariant, PTL
=============================================================================
