------------------------------ MODULE ApiModel ------------------------------
(***************************************************************************)
(* The API model over the life of a cluster: the user's definition is      *)
(* completed with defaults (pkg/api/defaults*.go, addons.go,               *)
(* components.go), deployed, saved, and read again by scale, addpool and   *)
(* upgrade, which complete it once more.  A saved default looks like a     *)
(* value of the user, so every later pass must tell what to keep, what to  *)
(* renew and what the new version no longer knows.                         *)
(*                                                                         *)
(* A configuration is a partial function from flags to values.  Of the     *)
(* flags and gates of the code each kind of treatment keeps one member.    *)
(* Addons and components are one record each, with its image and one of    *)
(* its settings; of the addons there is one for each kind of treatment,    *)
(* those that an upgrade switches on or off whatever the user says among   *)
(* them.                                                                   *)
(***************************************************************************)
EXTENDS Versions, FiniteSets, Functions

CONSTANTS Known,        \* the versions the build knows
          Default,      \* the version of a definition that names none
          Definitions,  \* the definitions users write, sets of settings
          MaxCommands   \* bound: scale, addpool and upgrade commands

ASSUME KnownAssumption ==
    IsFiniteSet(Known) /\ Known \subseteq Nat \X (Nat \union {-1}) /\ Default \in Known
ASSUME BoundsAssumption == MaxCommands \in Nat

Pools == {"linux", "windows", "added"}
KubeletPlaces == {"cluster", "master"} \union Pools
ComponentPlaces == {"controllerManager", "cloudControllerManager", "apiserver", "scheduler"}
Places == KubeletPlaces \union ComponentPlaces
AzureCloudAddons == {"azuredisk-csi-driver", "cloud-node-manager"}
Addons == {"metrics-server", "pod-security-policy", "kube-proxy", "calico",
           "azure-cni-networkmonitor"} \union AzureCloudAddons
CustomPlaces == ComponentPlaces \union {"kube-proxy"}

\* networkPolicy = calico, useCloudControllerManager, and Azure Stack Hub, where
\* the versions of the build cannot do without the cloud controller manager
Options == {"calico", "ccm", "azureStack"}

\* A function of one argument, and two of which the first is preferred: the
\* operators of the module TLC, whose definitions a proof cannot expand.
d :> e == [x \in {d} |-> e]
f @@ g == [x \in DOMAIN f \union DOMAIN g |-> IF x \in DOMAIN f THEN f[x] ELSE g[x]]

Gates == "--feature-gates"
Empty == [x \in {} |-> x]

PauseImage == "--pod-infra-container-image"

\* The default image of a version is that version.
NoImage == <<>>
UserImage == <<"user">>
WindowsImage == <<"windows">>

\* What a user may have written: <<place, flag>>.  "image" and "cpu" are the
\* fields of an addon, "on" and "off" its enabled, "custom" the field
\* customKubeSchedulerImage or its like.  The pool addpool adds is a linux one
\* without settings.  kube-proxy is not switched off: with a custom image of it
\* the next pass would panic.
Settings ==
    ((KubeletPlaces \ {"added"}) \X {"--cluster-dns", "--max-pods", "--pod-max-pids", PauseImage,
                       "--container-runtime", Gates})
      \union (ComponentPlaces \X {"--leader-elect", "--profiling", Gates})
      \union (CustomPlaces \X {"custom"})
      \union {<<"master", "--register-with-taints">>,
              <<"controllerManager", "--pod-eviction-timeout">>,
              <<"apiserver", "--service-account-api-audiences">>,
              <<"apiserver", "--enable-admission-plugins">>,
              <<"scheduler", "--lock-object-name">>,
              <<"metrics-server", "image">>, <<"azure-cni-networkmonitor", "on">>}
      \union ((Addons \ {"pod-security-policy", "azure-cni-networkmonitor"}) \X {"cpu"})
      \union ((Addons \ {"kube-proxy", "azure-cni-networkmonitor"}) \X {"off"})
      \union ({"options"} \X Options)

ASSUME DefinitionsAssumption == Definitions \subseteq SUBSET Settings

VARIABLES table,      \* [Known -> BOOLEAN]: new clusters may use it
          given,      \* the settings of the definition
          file,       \* apimodel.json, or NoFile
          model,      \* the running command's container service
          command,    \* "none", "scale", "addpool", "upgrade", then "pools"
          nodes,      \* the version and kubelet flags the newest VMs of a place run with
          plane,      \* what the control plane was created from
          upgraded,   \* history: an upgrade created it
          commands    \* counter for MaxCommands

vars == <<table, given, file, model, command, nodes, plane, upgraded, commands>>

NoFile == [version |-> NoVersion]

Ge(v, minor) == Minor(v) >= minor

(***************************************************************************)
(* Flags and feature gates.                                                *)
(***************************************************************************)
Without(config, keys) == Restrict(config, DOMAIN config \ keys)
GatesOf(config) == IF Gates \in DOMAIN config THEN config[Gates] ELSE Empty

\* The user's value of a gate is preferred.
AddDefaultFeatureGates(config, defaults) ==
    (Gates :> (GatesOf(config) @@ defaults)) @@ config

RemoveInvalidFeatureGates(config, gates) ==
    (Gates :> Without(GatesOf(config), gates)) @@ config

\* One of the gates removed with each of 1.27, 1.28 and 1.29
InvalidFeatureGates(v) ==
    {g \in {"LocalStorageCapacityIsolation", "PodSecurity", "LegacyServiceAccountToken"} :
        Ge(v, CASE g = "LocalStorageCapacityIsolation" -> 27
                [] g = "PodSecurity" -> 28
                [] OTHER -> 29)}

PodSecurity(v) == IF Ge(v, 25) THEN "PodSecurity" :> TRUE ELSE Empty

\* Mistake: flags are removed with 1.28 only.
RemoveKubeletFlagsLate(config, v) ==
    IF Ge(v, 28) THEN Without(config, {"--container-runtime"}) ELSE config

RemoveKubeletFlags(config, v) ==
    IF Ge(v, 27) THEN Without(config, {"--container-runtime"}) ELSE config

(***************************************************************************)
(* setKubeletConfig.                                                       *)
(***************************************************************************)
StaticKubelet == "--cluster-dns" :> "static"
StaticWindowsKubelet == StaticKubelet @@ PauseImage :> WindowsImage

DefaultKubelet(v) ==
    [f \in {"--max-pods", "--pod-max-pids"} |-> "default"]
      @@ PauseImage :> v
      @@ (IF Ge(v, 27) THEN Empty ELSE "--container-runtime" :> "default")

\* Without SupportPodPidsLimit an upgrade turns the limit off, which is also
\* its default.
PodMaxPids(config, isUpgrade) ==
    IF isUpgrade /\ "SupportPodPidsLimit" \notin DOMAIN GatesOf(config)
    THEN "--pod-max-pids" :> "default" @@ config ELSE config

ForcedImage(image, isUpgrade) ==
    IF isUpgrade THEN PauseImage :> image ELSE Empty

ClusterKubelet(user, v, isUpgrade) ==
    LET filled == ForcedImage(v, isUpgrade) @@ user @@ DefaultKubelet(v)
        gated  == AddDefaultFeatureGates(filled,
                      "RotateKubeletServerCertificate" :> TRUE @@ PodSecurity(v))
    IN  RemoveInvalidFeatureGates(
            RemoveKubeletFlags(PodMaxPids(StaticKubelet @@ gated, isUpgrade), v),
            InvalidFeatureGates(v))

\* Mistake: the cluster's values come before those of the profile.
ProfileKubeletOverruled(place, user, cluster, v, isUpgrade) ==
    cluster @@ user

\* Masters keep even static values of their own; a pool's are overwritten.
ProfileKubelet(place, user, cluster, v, isUpgrade) ==
    LET forced == ForcedImage(cluster[PauseImage], isUpgrade)
        static == CASE place = "master"  -> Empty
                    [] place = "windows" -> StaticWindowsKubelet
                    [] OTHER             -> StaticKubelet
        pids   == PodMaxPids(static @@ forced @@ user @@ cluster, isUpgrade)
        clean  == RemoveInvalidFeatureGates(RemoveKubeletFlags(pids, v), InvalidFeatureGates(v))
        taints == IF "--register-with-taints" \in DOMAIN clean
                  THEN clean["--register-with-taints"] ELSE {}
    IN  IF place = "master"
        THEN "--register-with-taints" :> (taints \union {"master"}) @@ clean
        ELSE clean

SetKubeletConfig(config, pools, v, isUpgrade) ==
    LET cluster == ClusterKubelet(config["cluster"], v, isUpgrade)
    IN  [p \in Places |->
            CASE p = "cluster" -> cluster
              [] p \in {"master"} \union pools ->
                    ProfileKubelet(p, config[p], cluster, v, isUpgrade)
              [] OTHER -> config[p]]

(***************************************************************************)
(* The components of the control plane: static values over the user's over *)
(* the defaults, less what the version lacks.                              *)
(***************************************************************************)
\* Mistake: the gate that 1.27 forces is only removed with 1.29.
SetControllerManagerConfigLate(user, v) ==
    LET filled == user @@ [f \in {"--profiling", "--pod-eviction-timeout"} |-> "default"]
        known  == IF Ge(v, 27) THEN Without(filled, {"--pod-eviction-timeout"}) ELSE filled
        gates  == "LocalStorageCapacityIsolation" :> TRUE @@ PodSecurity(v)
                    @@ (IF Ge(v, 27) THEN Empty ELSE "LegacyServiceAccountToken" :> FALSE)
    IN  RemoveInvalidFeatureGates(
            "--leader-elect" :> "static" @@ AddDefaultFeatureGates(known, gates),
            InvalidFeatureGates(v))

SetControllerManagerConfig(user, v) ==
    LET filled == user @@ [f \in {"--profiling", "--pod-eviction-timeout"} |-> "default"]
        known  == IF Ge(v, 27) THEN Without(filled, {"--pod-eviction-timeout"}) ELSE filled
        gates  == "LocalStorageCapacityIsolation" :> TRUE @@ PodSecurity(v)
                    @@ (IF Ge(v, 27) THEN Empty ELSE "LegacyServiceAccountToken" :> FALSE)
    IN  RemoveInvalidFeatureGates(
            "--leader-elect" :> "static" @@ AddDefaultFeatureGates(known, gates),
            InvalidFeatureGates(v)
              \union (IF Ge(v, 27) THEN {"LegacyServiceAccountToken"} ELSE {}))

SetCloudControllerManagerConfig(user, v) ==
    RemoveInvalidFeatureGates(
        "--leader-elect" :> "static" @@ user, InvalidFeatureGates(v))

SetSchedulerConfig(user, v) ==
    LET gated == AddDefaultFeatureGates(user @@ "--profiling" :> "default", PodSecurity(v))
        clean == RemoveInvalidFeatureGates("--leader-elect" :> "static" @@ gated,
                                           InvalidFeatureGates(v))
    IN  IF Ge(v, 28) /\ "--lock-object-name" \in DOMAIN clean
        THEN "--leader-elect-resource-name" :> clean["--lock-object-name"]
               @@ Without(clean, {"--lock-object-name"})
        ELSE clean

SetAPIServerConfig(user, v, psp) ==
    LET plugins == "--enable-admission-plugins" :>
                       ({"default"} \union (IF psp THEN {"PodSecurityPolicy"} ELSE {}))
        gated   == AddDefaultFeatureGates(user @@ plugins @@ "--profiling" :> "default", PodSecurity(v))
        known   == IF Ge(v, 25) THEN Without(gated, {"--service-account-api-audiences"})
                   ELSE gated
        clean   == RemoveInvalidFeatureGates("--leader-elect" :> "static" @@ known,
                                             InvalidFeatureGates(v))
    IN  IF Ge(v, 25)
        THEN [clean EXCEPT !["--enable-admission-plugins"] = @ \ {"PodSecurityPolicy"}]
        ELSE clean

(***************************************************************************)
(* Addons and components: an image and a setting, absent when disabled.    *)
(***************************************************************************)
\* assignDefaultAddonVals, assignDefaultComponentVals
AssignDefaultVals(a, v, isUpgrade) ==
    IF ~a.on THEN [on |-> FALSE, image |-> NoImage, cpu |-> ""]
    ELSE [on |-> TRUE,
          image |-> IF a.image = NoImage \/ isUpgrade THEN v ELSE a.image,
          cpu |-> IF a.cpu = "" THEN "default" ELSE a.cpu]

UseCloudControllerManager(options) == options \intersect {"ccm", "azureStack"} # {}

\* The versions this asks for, 1.18 with Windows, are long behind the build.
ShouldEnableAzureCloudAddon(a, options) ==
    /\ UseCloudControllerManager(options)
    /\ a = "azuredisk-csi-driver" => "azureStack" \notin options

\* An addon the user does not mention. networkmonitor is not among the defaults.
DefaultAddon(a, options) ==
    [on |-> CASE a = "calico" -> "calico" \in options
              [] a \in AzureCloudAddons -> ShouldEnableAzureCloudAddon(a, options)
              [] a = "azure-cni-networkmonitor" -> FALSE
              [] OTHER -> TRUE,
     image |-> NoImage, cpu |-> ""]

\* An upgrade switches on what a cluster with the cloud controller manager
\* needs; on Azure Stack it even renews a cloud-node-manager that is on.
\* azurefile-csi-driver is off by default, so replacing it changes nothing.
EnableAzureCloudAddon(a, addon, options) ==
    IF \/ a \in AzureCloudAddons /\ ~addon.on
            /\ \A b \in AzureCloudAddons : ShouldEnableAzureCloudAddon(b, options)
       \/ a = "cloud-node-manager" /\ "azureStack" \in options
    THEN DefaultAddon(a, options) ELSE addon

\* custom{component}Image takes the place of the image before the defaults
\* are assigned.
HonorCustomImage(part, place, custom) ==
    IF place \in custom THEN [part EXCEPT !.image = UserImage] ELSE part

\* pod-security-policy has no container and ends with 1.25. An upgrade ends
\* networkmonitor, which gets no defaults, and calico cannot stay off when it
\* is the network policy. Left out is what only files of older builds or an
\* addon with its own manifest (Data) meet.
SetAddonsConfig(addons, options, custom, v, isUpgrade) ==
    [a \in Addons |->
        LET cloud == IF isUpgrade THEN EnableAzureCloudAddon(a, addons[a], options) ELSE addons[a]
            full  == AssignDefaultVals(HonorCustomImage(cloud, a, custom), v, isUpgrade)
        IN  CASE a = "pod-security-policy" -> [addons[a] EXCEPT !.on = @ /\ ~Ge(v, 25)]
              [] a = "azure-cni-networkmonitor" -> [addons[a] EXCEPT !.on = @ /\ ~isUpgrade]
              [] a = "calico" /\ isUpgrade /\ "calico" \in options ->
                    AssignDefaultVals([full EXCEPT !.on = TRUE], v, isUpgrade)
              [] OTHER -> full]

\* On Azure Stack an upgrade renews the cloud controller manager, which is then
\* on anyway and has no setting but its image.
SetComponentsConfig(components, custom, v, isUpgrade) ==
    [c \in ComponentPlaces |->
        AssignDefaultVals(HonorCustomImage(components[c], c, custom), v, isUpgrade)]

(***************************************************************************)
(* SetPropertiesDefaults, in the order of setOrchestratorDefaults.         *)
(***************************************************************************)
ValidVersion(version, isUpdate) ==
    GetValidPatchVersion(version, GetAllSupported(table, isUpdate), Default)

SetPropertiesDefaults(cs, isUpgrade, isScale) ==
    LET v      == ValidVersion(cs.version, isUpgrade \/ isScale)
        addons == SetAddonsConfig(cs.addons, cs.options, cs.custom, v, isUpgrade)
        config == SetKubeletConfig(cs.config, cs.pools, v, isUpgrade)
        psp    == addons["pod-security-policy"].on
    IN  [cs EXCEPT
            !.version = v,
            !.addons = addons,
            !.components = SetComponentsConfig(@, cs.custom, v, isUpgrade),
            !.config = [config EXCEPT
                !["controllerManager"] = SetControllerManagerConfig(@, v),
                !["cloudControllerManager"] = SetCloudControllerManagerConfig(@, v),
                !["apiserver"] = SetAPIServerConfig(@, v, psp),
                !["scheduler"] = SetSchedulerConfig(@, v)]]

(***************************************************************************)
(* The commands.                                                           *)
(***************************************************************************)
\* The user's definition as an API model
Value(place, flag) ==
    CASE flag = Gates -> "SupportPodPidsLimit" :> TRUE @@ "LegacyServiceAccountToken" :> TRUE
      [] flag = "--register-with-taints" -> {"user"}
      [] flag = PauseImage -> UserImage
      [] flag = "--enable-admission-plugins" -> {"user", "PodSecurityPolicy"}
      [] OTHER -> "user"

Written(place) == [f \in {s[2] : s \in {t \in given : t[1] = place}} \ {"custom"} |->
                      Value(place, f)]

OptionsOf(S) == {o \in Options : <<"options", o>> \in S}

\* An addon or component whose enabled the user leaves open is as the default is.
WrittenAddon(a) ==
    [on |-> \/ <<a, "on">> \in given
            \/ <<a, "off">> \notin given /\ DefaultAddon(a, OptionsOf(given)).on,
     image |-> IF <<a, "image">> \in given THEN UserImage ELSE NoImage,
     cpu |-> IF <<a, "cpu">> \in given THEN "user" ELSE ""]
DefaultComponent(c) ==
    [on |-> c = "cloudControllerManager" => UseCloudControllerManager(OptionsOf(given)),
     image |-> NoImage, cpu |-> ""]

Definition(version) ==
    [version |-> version,
     pools |-> {"linux", "windows"},
     options |-> OptionsOf(given),
     config |-> [p \in Places |-> Written(p)],
     custom |-> {c \in CustomPlaces : <<c, "custom">> \in given},
     addons |-> [a \in Addons |-> WrittenAddon(a)],
     components |-> [c \in ComponentPlaces |-> DefaultComponent(c)]]

\* The validation refuses a cluster without cloud-node-manager that needs it,
\* but for Azure Stack. It accepts a custom image of a cloud controller manager
\* that is not used; the pass after the first would then panic, as its
\* container is gone (components.go:146), and such definitions are left out.
Accepted(S) ==
    /\ <<"cloud-node-manager", "off">> \in S /\ UseCloudControllerManager(OptionsOf(S))
          => "azureStack" \in OptionsOf(S)
    /\ <<"cloudControllerManager", "custom">> \in S => UseCloudControllerManager(OptionsOf(S))

Init ==
    /\ table \in [Known -> BOOLEAN]
    /\ table[Default]
    /\ given \in Definitions
    /\ Accepted(given)
    /\ file = NoFile /\ model = NoFile
    /\ command = "none"
    /\ nodes = [p \in {} |-> Empty]
    /\ plane = NoFile
    /\ upgraded = FALSE
    /\ commands = 0

\* The VMs of these places are created from the template of cs.
Deployed(cs, places) ==
    [p \in places |-> [version |-> cs.version, config |-> cs.config[p]]] @@ nodes

\* deploy: the artifacts, apimodel.json among them, are written and then
\* deployed. A definition whose version has no supported patch is refused.
Deploy(version) ==
    /\ file = NoFile
    /\ ValidVersion(version, FALSE) # NoVersion
    /\ LET cs == SetPropertiesDefaults(Definition(version), FALSE, FALSE)
       IN  /\ file' = cs
           /\ nodes' = Deployed(cs, {"master"} \union cs.pools)
           /\ plane' = cs
    /\ UNCHANGED <<table, given, model, command, upgraded, commands>>

Start(c, cs) ==
    /\ commands < MaxCommands
    /\ commands' = commands + 1
    /\ command' = c /\ model' = cs
    /\ UNCHANGED <<table, given, file, nodes, plane, upgraded>>

Idle == file # NoFile /\ command = "none"

\* scale: the template is made of this pool.
Scale(pool) ==
    /\ Idle /\ pool \in file.pools
    /\ Start("scale", [file EXCEPT !.pools = {pool}])

AddPool ==
    /\ Idle /\ "added" \notin file.pools
    /\ Start("addpool", [file EXCEPT !.pools = {"added"}])

\* Nodes ahead of the goal are the business of UpgradeRun.
Upgrade(goal) ==
    /\ Idle /\ goal \in UpgradesOf(file.version, table)
    /\ \A p \in DOMAIN nodes : ~Newer(nodes[p].version, goal)
    /\ Start("upgrade", [file EXCEPT !.version = goal])

\* generateUpgradeTemplate completes the container service for the masters
\* and the same one again for every pool; nodes of the version are left alone.
UpgradeTemplate(place) ==
    LET cs == SetPropertiesDefaults(model, TRUE, FALSE)
    IN  /\ model' = cs
        /\ nodes' = IF nodes[place].version = model.version THEN nodes
                    ELSE Deployed(cs, {place})
        /\ IF place = "master" /\ plane.version # model.version
           THEN plane' = cs /\ upgraded' = TRUE
           ELSE UNCHANGED <<plane, upgraded>>

UpgradeMasters ==
    /\ command = "upgrade"
    /\ UpgradeTemplate("master")
    /\ command' = "pools"
    /\ UNCHANGED <<table, given, file, commands>>

UpgradePool(pool) ==
    /\ command = "pools" /\ pool \in model.pools
    /\ nodes[pool].version # model.version
    /\ UpgradeTemplate(pool)
    /\ UNCHANGED <<table, given, file, command, commands>>

\* Mistake: only the version of the file is changed.
SaveUpgradeVersion ==
    /\ command = "pools"
    /\ \A p \in model.pools : nodes[p].version = model.version
    /\ file' = [file EXCEPT !.version = model.version]
    /\ command' = "none" /\ model' = NoFile
    /\ UNCHANGED <<table, given, nodes, plane, upgraded, commands>>

SaveUpgrade ==
    /\ command = "pools"
    /\ \A p \in model.pools : nodes[p].version = model.version
    /\ file' = model
    /\ command' = "none" /\ model' = NoFile
    /\ UNCHANGED <<table, given, nodes, plane, upgraded, commands>>

\* The pool of a scale or addpool command is created and the file saved;
\* the file is read again, and an added pool is appended to it.
SavePool ==
    /\ command \in {"scale", "addpool"}
    /\ LET cs == SetPropertiesDefaults(model, FALSE, TRUE)
       IN  /\ nodes' = Deployed(cs, cs.pools)
           /\ file' = IF command = "scale" THEN file
                      ELSE [file EXCEPT !.pools = @ \union {"added"},
                                        !.config["added"] = cs.config["added"]]
    /\ command' = "none" /\ model' = NoFile
    /\ UNCHANGED <<table, given, plane, upgraded, commands>>

\* An upgrade fails or is killed before it saves. The other commands change
\* nothing before they succeed that their repetition does not change again.
Fail ==
    /\ command \in {"upgrade", "pools"}
    /\ command' = "none" /\ model' = NoFile
    /\ UNCHANGED <<table, given, file, nodes, plane, upgraded, commands>>

Next ==
    \/ \E v \in Known \union {NoVersion} : Deploy(v)
    \/ \E p \in Pools : Scale(p)
    \/ AddPool
    \/ \E v \in Known : Upgrade(v)
    \/ UpgradeMasters
    \/ \E p \in Pools : UpgradePool(p)
    \/ SaveUpgrade
    \/ SavePool
    \/ Fail

Spec == Init /\ [][Next]_vars

-----------------------------------------------------------------------------
(***************************************************************************)
(* Properties.                                                             *)
(***************************************************************************)
\* The nodes of a pool and the masters run with what the file says for
\* their version, whether deploy, scale, addpool or any pass of an upgrade
\* created them: completing a model a second time changes nothing
\* (SetPropertiesDefaults, called for every template).
NodesAgree ==
    \A p \in DOMAIN nodes :
        (p \in {"master"} \union file.pools /\ nodes[p].version = file.version)
            => nodes[p].config = file.config[p]

\* The version a flag or gate is gone with
Retired ==
    [f \in {"--container-runtime", "--pod-eviction-timeout",
            "--service-account-api-audiences", "--lock-object-name",
            "LocalStorageCapacityIsolation", "PodSecurity", "LegacyServiceAccountToken"} |->
        CASE f = "--service-account-api-audiences" -> 25
          [] f \in {"--lock-object-name", "PodSecurity"} -> 28
          [] f = "LegacyServiceAccountToken" -> 29
          [] OTHER -> 27]
StartsWith(config, v) ==
    \A f \in (DOMAIN config \union DOMAIN GatesOf(config)) \intersect DOMAIN Retired :
        Minor(v) < Retired[f]

\* Kubernetes refuses to start with a flag or gate it no longer knows: none
\* of them reaches a node or the control plane, though an older version's
\* file or the user brings it (removeKubeletFlags,
\* removeInvalidFeatureGates and their like).
NothingRetired ==
    /\ \A p \in DOMAIN nodes : StartsWith(nodes[p].config, nodes[p].version)
    /\ plane # NoFile => \A c \in ComponentPlaces : StartsWith(plane.config[c], plane.version)

\* What an upgrade switches on against the user
ForcedOn(options) ==
    {a \in Addons :
        \/ a = "calico" /\ "calico" \in options
        \/ a = "cloud-node-manager" /\ UseCloudControllerManager(options)
        \/ a = "azuredisk-csi-driver" /\ "ccm" \in options /\ "azureStack" \notin options}

\* What becomes of an addon of the user: switched off it is off, until an
\* upgrade forces it on; networkmonitor is on until an upgrade; requests are
\* kept, but for those of cloud-node-manager on Azure Stack; an image of the
\* user's is kept until an upgrade renews it.
AddonKept(a, addon, version) ==
    LET options == OptionsOf(given)
        image == IF upgraded THEN version ELSE UserImage
        renewed == upgraded /\ a = "cloud-node-manager" /\ "azureStack" \in options
    IN  /\ <<a, "off">> \in given => (addon.on <=> upgraded /\ a \in ForcedOn(options))
        /\ <<a, "on">> \in given => (addon.on <=> ~upgraded)
        /\ (addon.on /\ <<a, "cpu">> \in given /\ <<a, "off">> \notin given)
              => addon.cpu = IF renewed THEN "default" ELSE "user"
        /\ (addon.on /\ {<<a, "image">>, <<a, "custom">>} \intersect given # {})
              => addon.image = image

\* What the user has set stays as set through every command, but for what an
\* upgrade overrules, which is stated exactly: a flag stays at the place it was
\* given and, given for the cluster, at the places without one of their own;
\* pod-max-pids where SupportPodPidsLimit was given with it; addons are as in
\* AddonKept; the custom image of a component is kept until an upgrade renews
\* it (setKubeletConfig, setAddonsConfig, setComponentsConfig).
SettingsKept ==
    /\ \A s \in given \intersect (KubeletPlaces \X {"--max-pods", "--pod-max-pids"}) :
          \A p \in DOMAIN nodes :
            (/\ s[1] = p \/ (s[1] = "cluster" /\ {<<p, s[2]>>, <<p, Gates>>} \intersect given = {})
             /\ s[2] = "--max-pods" \/ <<s[1], Gates>> \in given)
              => nodes[p].config[s[2]] = "user"
    /\ plane # NoFile =>
          /\ \A c \in ComponentPlaces : <<c, "--profiling">> \in given
                => plane.config[c]["--profiling"] = "user"
          /\ \A a \in Addons : AddonKept(a, plane.addons[a], plane.version)
          /\ \A c \in ComponentPlaces : <<c, "custom">> \in given
                => plane.components[c].image = IF upgraded THEN plane.version ELSE UserImage

\* However many upgrades led to a version, the flags of the control plane and
\* of the cluster are those the same definition gives for a new cluster of
\* that version, and every image that runs is the user's or that of the version
\* that runs: no default of an older version is taken for the user's.
\* Profiles keep the gates they were first given, and an upgrade resets the
\* pause image and pod-max-pids.
UpgradedLikeNew ==
    /\ file # NoFile =>
        LET new == SetPropertiesDefaults(Definition(file.version), FALSE, FALSE)
            reset == {PauseImage, "--pod-max-pids"}
        IN  /\ \A p \in ComponentPlaces \union {"cluster"} :
                  Without(file.config[p], reset) = Without(new.config[p], reset)
            /\ \A p \in {"master", "linux", "windows"} :
                  Without(file.config[p], reset \union {Gates})
                    = Without(new.config[p], reset \union {Gates})
    /\ plane # NoFile =>
          \A i \in {plane.components[c].image : c \in ComponentPlaces}
                     \union {plane.addons[a].image : a \in Addons} :
              i \in {NoImage, UserImage, plane.version}
    /\ \A p \in DOMAIN nodes :
          nodes[p].config[PauseImage] \in {UserImage, WindowsImage, nodes[p].version}

\* get-versions and upgrade offer only newer supported versions, at least one
\* when there is any, and none beyond a supported minor that is still to come
\* (getKubernetesAvailableUpgradeVersions). A definition that names an
\* unsupported patch gets a supported patch of the same minor version or is
\* refused (GetValidPatchVersion).
UpgradePathsSound ==
    \A v \in Known :
        LET newer == {w \in Known : table[w] /\ Newer(w, v)}
            offered == UpgradesOf(v, table)
            valid == ValidVersion(v, FALSE)
        IN  /\ offered \subseteq newer
            /\ newer # {} => offered # {}
            /\ \A w \in offered : ~\E u \in newer :
                  Minor(v) < Minor(u) /\ Minor(u) < Minor(w)
            /\ valid # NoVersion => Minor(valid) = Minor(v) /\ table[valid]

=============================================================================
