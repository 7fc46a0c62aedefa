------------------------ MODULE UpgradeMastersProofs ------------------------
(***************************************************************************)
(* For any number of masters and of failed runs: the upgrade takes down    *)
(* one master at a time plus one per failed run, and a run that succeeds   *)
(* leaves no master at the old version.                                    *)
(***************************************************************************)
EXTENDS UpgradeMasters, FiniteSetTheorems, WellFoundedInduction, TLAPS

\* What the masters still to create are counted from.
CountsFit ==
    /\ pc = "check" => toUpgrade \intersect upgraded = {}
    /\ pc = "create" => Cardinality(existing) + missing <= N

\* The master being replaced, which is allowed to be down.
Current == IF pc \in {"recreate", "validate"} THEN {cur} ELSE {}

\* Apart from the current one, every master that is down was left by an abort.
DownByAborts == Cardinality(Down \ Current) <= aborts

\* While a run is under way, the old masters are among those still to visit.
OldOnesListed ==
    pc \notin {"idle", "success"} => \A i \in Masters : vm[i] = "old" => i \in toUpgrade

MastersInv ==
    TypeOK /\ CountsFit /\ DownByAborts /\ OldOnesListed /\ SuccessLeavesNoOldMaster

-----------------------------------------------------------------------------
\* The masters are N many.
LEMMA MastersFinite ==
    /\ IsFiniteSet(Masters)
    /\ Cardinality(Masters) = N
    /\ 0 \in Masters
    /\ \A S \in SUBSET Masters : /\ IsFiniteSet(S)
                                 /\ Cardinality(S) \in 0..N
                                 /\ Cardinality(S) = N => S = Masters
<1>1. IsFiniteSet(Masters) /\ Cardinality(Masters) = N /\ 0 \in Masters
    BY FS_Interval, MastersAssumption DEF Masters
<1>2. ASSUME NEW S \in SUBSET Masters
      PROVE  /\ IsFiniteSet(S)
             /\ Cardinality(S) \in 0..N
             /\ Cardinality(S) = N => S = Masters
    BY <1>1, <1>2, FS_Subset, FS_CardinalityType, MastersAssumption
<1> QED BY <1>1, <1>2

\* A set of masters that is not empty has a lowest index.
LEMMA LowestMaster ==
    ASSUME NEW S \in SUBSET Masters, S # {}
    PROVE  \E i \in S : \A j \in S : i <= j
<1>1. S \subseteq Nat BY DEF Masters
<1>2. PICK i \in S : \A j \in S : ~(<<j, i>> \in OpToRel(<, Nat))
    BY <1>1, WFMin, NatLessThanWellFounded
<1>3. \A j \in S : ~(j < i) BY <1>1, <1>2 DEF OpToRel
<1> QED BY <1>1, <1>3

\* While there are masters to create, there is an index to create.
LEMMA IndexToCreateIsFree ==
    ASSUME TypeOK, CountsFit, pc = "create", missing > 0
    PROVE  IndexToCreate \in Masters \ existing
<1>1. existing # Masters
    BY MastersFinite, MastersAssumption DEF TypeOK, CountsFit
<1>2. Masters \ existing # {} /\ Masters \ existing \in SUBSET Masters
    BY <1>1 DEF TypeOK
<1>3. \E i \in Masters \ existing : \A j \in Masters \ existing : i <= j
    BY <1>2, LowestMaster
<1> QED BY <1>3 DEF IndexToCreate

\* Types and counts are kept by every step.
LEMMA MastersTypeStep ==
    ASSUME TypeOK, CountsFit, [Next]_vars
    PROVE  TypeOK' /\ CountsFit'
<1> USE MastersAssumption DEF TypeOK, CountsFit, VMStates, Phases, cloud, local
<1>1. CASE SetNodesToUpgrade
    BY <1>1 DEF SetNodesToUpgrade, Listed, Finished
<1>2. CASE CheckRefuses BY <1>2 DEF CheckRefuses
<1>3. CASE CheckPasses
    <2>1. toUpgrade \intersect upgraded = {} BY <1>3 DEF CheckPasses
    <2>0. toUpgrade \in SUBSET Masters /\ upgraded \in SUBSET Masters OBVIOUS
    <2>2. /\ IsFiniteSet(toUpgrade) /\ Cardinality(toUpgrade) \in 0..N
          /\ IsFiniteSet(upgraded) /\ Cardinality(upgraded) \in 0..N
        BY <2>0, MastersFinite, Zenon
    <2>3. toUpgrade \union upgraded \in SUBSET Masters OBVIOUS
    <2>4. Cardinality(toUpgrade \union upgraded) = Cardinality(toUpgrade) + Cardinality(upgraded)
        BY <2>1, <2>2, FS_Union, FS_EmptySet
    <2>5. Cardinality(toUpgrade \union upgraded) \in 0..N
        BY <2>3, MastersFinite
    <2>6. /\ missing' \in 0..N
          /\ Cardinality(existing') + missing' <= N
        BY <1>3, <2>2, <2>4, <2>5 DEF CheckPasses
    <2> QED BY <1>3, <2>6 DEF CheckPasses
<1>4. CASE CreateMissing
    <2>1. pc = "create" /\ missing > 0 BY <1>4 DEF CreateMissing
    <2>2. IndexToCreate \in Masters \ existing BY <2>1, IndexToCreateIsFree
    <2>3. IsFiniteSet(existing) /\ Cardinality(existing) \in Nat BY MastersFinite
    <2>4. Cardinality(existing \union {IndexToCreate}) = Cardinality(existing) + 1
        BY <2>2, <2>3, FS_AddElement
    <2>5. Cardinality(existing') + missing' <= N
        BY <1>4, <2>1, <2>3, <2>4 DEF CreateMissing
    <2>6. vm' \in [Masters -> VMStates] BY <1>4, <2>2 DEF CreateMissing, Deployed
    <2> QED BY <1>4, <2>2, <2>5, <2>6 DEF CreateMissing
<1>5. CASE NoneMissing BY <1>5 DEF NoneMissing
<1>6. CASE DeleteNode BY <1>6 DEF DeleteNode
<1>7. CASE CreateNode BY <1>7 DEF CreateNode, Deployed
<1>8. CASE Validate BY <1>8 DEF Validate
<1>9. CASE AllUpgraded BY <1>9 DEF AllUpgraded
<1>10. CASE Abort
    <2>1. vm' \in [Masters -> VMStates] /\ ready' \in [Masters -> BOOLEAN]
        <3>1. CASE UNCHANGED cloud BY <3>1
        <3>2. CASE pc = "create" /\ missing > 0 /\ vm' = Deployed(IndexToCreate) /\ UNCHANGED ready
            <4>1. IndexToCreate \in Masters BY <3>2, IndexToCreateIsFree
            <4> QED BY <3>2, <4>1 DEF Deployed
        <3>3. CASE pc = "recreate" /\ vm' = Deployed(cur) /\ UNCHANGED ready
            BY <3>3 DEF Deployed
        <3>4. CASE \E i \in toUpgrade : /\ vm' = [vm EXCEPT ![i] = "absent"]
                                        /\ ready' = [ready EXCEPT ![i] = FALSE]
            BY <3>4
        <3> QED BY <1>10, <3>1, <3>2, <3>3, <3>4 DEF Abort, LeftBehind
    <2> QED BY <1>10, <2>1 DEF Abort
<1>11. CASE Finish BY <1>11 DEF Finish, vars
<1>12. ASSUME NEW i \in Masters, BecomesReady(i) PROVE TypeOK' /\ CountsFit'
    BY <1>12 DEF BecomesReady
<1>13. CASE UNCHANGED vars BY <1>13 DEF vars
<1> QED BY <1>1, <1>2, <1>3, <1>4, <1>5, <1>6, <1>7, <1>8, <1>9, <1>10, <1>11,
           <1>12, <1>13 DEF Next, Command

\* Removing masters from a set of them does not make it larger, and adding one
\* adds at most one.
LEMMA DownCounts ==
    ASSUME NEW S \in SUBSET Masters, NEW T \in SUBSET Masters
    PROVE  /\ T \subseteq S => Cardinality(T) <= Cardinality(S)
           /\ \A i \in Masters : T \subseteq S \union {i} => Cardinality(T) <= Cardinality(S) + 1
<1>1. IsFiniteSet(S) /\ Cardinality(S) \in Nat BY MastersFinite
<1>2. T \subseteq S => Cardinality(T) <= Cardinality(S) BY <1>1, FS_Subset
<1>3. ASSUME NEW i \in Masters, T \subseteq S \union {i}
      PROVE  Cardinality(T) <= Cardinality(S) + 1
    <2>1. IsFiniteSet(S \union {i}) BY <1>1, FS_AddElement
    <2>2. Cardinality(S \union {i}) = IF i \in S THEN Cardinality(S) ELSE Cardinality(S) + 1
        BY <1>1, FS_AddElement
    <2>3. T \in SUBSET (S \union {i}) BY <1>3
    <2>4. Cardinality(T) <= Cardinality(S \union {i}) BY <2>1, <2>3, FS_Subset
    <2>5. Cardinality(T) \in 0..N BY MastersFinite
    <2> QED BY <1>1, <2>2, <2>4, <2>5, MastersAssumption
<1> QED BY <1>2, <1>3

\* One step keeps the bound on the masters that are down.
LEMMA DownStep ==
    ASSUME MastersInv, Next
    PROVE  DownByAborts'
<1>0. TypeOK /\ TypeOK' BY MastersTypeStep DEF MastersInv
<1>1. Down \ Current \in SUBSET Masters /\ (Down \ Current)' \in SUBSET Masters
    BY DEF Down
<1>2. /\ Cardinality(Down \ Current) <= aborts
      /\ Cardinality(Down \ Current) \in 0..N
      /\ Cardinality((Down \ Current)') \in 0..N
    BY <1>1, MastersFinite DEF MastersInv, DownByAborts
<1>3. ASSUME (Down \ Current)' \subseteq Down \ Current, aborts' = aborts
      PROVE  DownByAborts'
    BY <1>0, <1>1, <1>2, <1>3, DownCounts, MastersAssumption DEF DownByAborts, TypeOK
<1>4. ASSUME NEW i \in Masters, (Down \ Current)' \subseteq (Down \ Current) \union {i},
             aborts' = aborts + 1
      PROVE  DownByAborts'
    BY <1>0, <1>1, <1>2, <1>4, DownCounts, MastersAssumption DEF DownByAborts, TypeOK
<1> USE <1>0 DEF TypeOK, cloud, local
<1>5. CASE SetNodesToUpgrade
    BY <1>3, <1>5 DEF SetNodesToUpgrade, Down, Current
<1>6. CASE CheckRefuses BY <1>3, <1>6 DEF CheckRefuses, Down, Current
<1>7. CASE CheckPasses BY <1>3, <1>7 DEF CheckPasses, Down, Current
<1>8. CASE CreateMissing BY <1>3, <1>8 DEF CreateMissing, Down, Current
<1>9. CASE NoneMissing BY <1>3, <1>9 DEF NoneMissing, Down, Current
<1>10. CASE DeleteNode BY <1>3, <1>10 DEF DeleteNode, Down, Current
<1>11. CASE CreateNode BY <1>3, <1>11 DEF CreateNode, Down, Current
<1>12. CASE Validate BY <1>3, <1>12 DEF Validate, Down, Current
<1>13. CASE AllUpgraded BY <1>3, <1>13 DEF AllUpgraded, Down, Current
<1>14. CASE Abort
    <2>1. aborts' = aborts + 1 /\ Current' = {} BY <1>14 DEF Abort, Current
    <2>2. CASE UNCHANGED ready
        <3>1. (Down \ Current)' \subseteq (Down \ Current) \union {cur}
            BY <2>1, <2>2 DEF Down, Current
        <3> QED BY <1>4, <2>1, <3>1
    <2>3. CASE pc = "upgrade" /\ \E i \in toUpgrade : ready' = [ready EXCEPT ![i] = FALSE]
        <3>1. PICK i \in toUpgrade : ready' = [ready EXCEPT ![i] = FALSE] BY <2>3
        <3>2. (Down \ Current)' \subseteq (Down \ Current) \union {i}
            BY <2>1, <2>3, <3>1 DEF Down, Current
        <3> QED BY <1>4, <2>1, <3>2
    <2> QED BY <1>14, <2>2, <2>3 DEF Abort, LeftBehind
<1>15. CASE Finish BY <1>3, <1>15 DEF Finish, vars, Down, Current
<1>16. ASSUME NEW i \in Masters, BecomesReady(i) PROVE DownByAborts'
    BY <1>3, <1>16 DEF BecomesReady, Down, Current
<1> QED BY <1>5, <1>6, <1>7, <1>8, <1>9, <1>10, <1>11, <1>12, <1>13, <1>14, <1>15,
           <1>16 DEF Next, Command

\* One step keeps the old masters among those to visit.
LEMMA OldStep ==
    ASSUME MastersInv, Next
    PROVE  OldOnesListed' /\ SuccessLeavesNoOldMaster'
<1> USE DEF MastersInv, TypeOK, OldOnesListed, SuccessLeavesNoOldMaster, VMStates,
        Phases, cloud, local
<1>1. CASE SetNodesToUpgrade BY <1>1 DEF SetNodesToUpgrade, Listed
<1>2. CASE CheckRefuses \/ CheckPasses \/ NoneMissing
    BY <1>2 DEF CheckRefuses, CheckPasses, NoneMissing
<1>3. CASE CreateMissing
    <2>1. IndexToCreate \in Masters BY <1>3, IndexToCreateIsFree DEF CreateMissing
    <2> QED BY <1>3, <2>1 DEF CreateMissing, Deployed
<1>4. CASE DeleteNode BY <1>4 DEF DeleteNode
<1>5. CASE CreateNode BY <1>5 DEF CreateNode, Deployed
<1>6. CASE Validate \/ AllUpgraded BY <1>6 DEF Validate, AllUpgraded
<1>7. CASE Abort BY <1>7 DEF Abort
<1>8. CASE Finish BY <1>8 DEF Finish, vars
<1>9. ASSUME NEW i \in Masters, BecomesReady(i)
      PROVE  OldOnesListed' /\ SuccessLeavesNoOldMaster'
    BY <1>9 DEF BecomesReady
<1> QED BY <1>1, <1>2, <1>3, <1>4, <1>5, <1>6, <1>7, <1>8, <1>9 DEF Next, Command

LEMMA MastersStep == MastersInv /\ [Next]_vars => MastersInv'
<1> SUFFICES ASSUME MastersInv, [Next]_vars PROVE MastersInv'
    OBVIOUS
<1>1. TypeOK' /\ CountsFit' BY MastersTypeStep DEF MastersInv
<1>2. CASE Next BY <1>1, <1>2, DownStep, OldStep DEF MastersInv
<1>3. CASE UNCHANGED vars
    BY <1>1, <1>3 DEF MastersInv, vars, cloud, local, DownByAborts, Down, Current,
        OldOnesListed, SuccessLeavesNoOldMaster
<1> QED BY <1>2, <1>3

LEMMA MastersInit == Init => MastersInv
<1> SUFFICES ASSUME Init PROVE MastersInv
    OBVIOUS
<1>1. TypeOK
    <2>1. /\ vm \in [Masters -> VMStates]
          /\ ready \in [Masters -> BOOLEAN]
          /\ pc \in Phases
          /\ force \in BOOLEAN
        BY DEF Init, VMStates, Phases
    <2>2. /\ toUpgrade \subseteq Masters /\ upgraded \subseteq Masters
          /\ existing \subseteq Masters
        BY DEF Init
    <2>3. missing \in 0..N /\ cur \in Masters /\ aborts \in 0..MaxAborts
        BY MastersFinite, MastersAssumption DEF Init
    <2> QED BY <2>1, <2>2, <2>3, Zenon DEF TypeOK
<1>2. Down \ Current = {} BY DEF Init, Down, Current
<1>3. DownByAborts BY <1>2, FS_EmptySet DEF Init, DownByAborts
<1> QED BY <1>1, <1>3 DEF Init, MastersInv, CountsFit, OldOnesListed,
           SuccessLeavesNoOldMaster

\* Type correctness of the control plane upgrade.
THEOREM MastersTypeCorrect == Spec => []TypeOK
<1>1. MastersInv => TypeOK BY DEF MastersInv
<1> QED BY <1>1, MastersInit, MastersStep, PTL DEF Spec

\* The upgrade takes down one master at a time, plus one per failed run.
THEOREM MastersDownBounded == Spec => []OneMasterDownPerAbort
<1>1. MastersInv => OneMasterDownPerAbort
    <2> SUFFICES ASSUME MastersInv PROVE Cardinality(Down) <= aborts + 1
        BY DEF OneMasterDownPerAbort
    <2>1. TypeOK /\ Cardinality(Down \ Current) <= aborts
        BY DEF MastersInv, DownByAborts
    <2>2. Down \in SUBSET Masters /\ Down \ Current \in SUBSET Masters BY DEF Down
    <2>3. Down \subseteq (Down \ Current) \union {cur} BY DEF Current
    <2>4. Cardinality(Down) <= Cardinality(Down \ Current) + 1
        BY <2>1, <2>2, <2>3, DownCounts DEF TypeOK
    <2>5. Cardinality(Down) \in 0..N /\ Cardinality(Down \ Current) \in 0..N
        BY <2>2, MastersFinite
    <2> QED BY <2>1, <2>4, <2>5, MastersAssumption DEF TypeOK
<1> QED BY <1>1, MastersInit, MastersStep, PTL DEF Spec

\* A run that succeeds leaves no master at the old version.
THEOREM MastersUpgraded == Spec => []SuccessLeavesNoOldMaster
<1>1. MastersInv => SuccessLeavesNoOldMaster BY DEF MastersInv
<1> QED BY <1>1, MastersInit, MastersStep, PTL DEF Spec
=============================================================================
