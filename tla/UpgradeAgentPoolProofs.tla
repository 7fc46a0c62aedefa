----------------------- MODULE UpgradeAgentPoolProofs -----------------------
(***************************************************************************)
(* For a pool of any size, any number of failed runs and any use of        *)
(* --force: a run that reports success leaves no VM at the old version     *)
(* and, if the runs agree on --force, as many VMs as the profile asks for; *)
(* no run deploys over a VM that exists; all nodes but one for each failed *)
(* run or copy given up keep serving; and each run but the first loses the *)
(* custom properties of at most one node.                                  *)
(*                                                                         *)
(* The invariants say what the map agentVMs and the two counters know of   *)
(* the VMs that exist, though the listing they come from is stale.         *)
(*                                                                         *)
(* Then the goroutine that copies the properties to the new node           *)
(* (PropertyCopier).                                                       *)
(***************************************************************************)
EXTENDS UpgradeAgentPool, PropertyCopier, FiniteSetTheorems, SequenceTheorems,
        NaturalsInduction, WellFoundedInduction, TLAPS

Loops == {"fill", "validateNew", "upgrade", "copy", "delete", "recreate", "validate"}

\* What the listing knows: it has every old VM, every VM is still to be
\* visited or noted, and nothing is marked for replacement yet.
ScanComplete ==
    pc = "scan" =>
        /\ \A i \in Index : vm[i] \in OldStates => snap[i] \in OldStates
        /\ \A i \in Index : vm[i] # "absent" =>
                i \in todo \/ view[i] # "none" \/ i \in AgentVMs
        /\ \A i \in Index : view[i] # "notUpgraded"

\* What agentVMs knows: every old VM is to be replaced, and every other VM but
\* the one being validated is in the map.
ViewComplete ==
    pc \in Loops =>
        /\ \A i \in Index : vm[i] \in OldStates => view[i] = "notUpgraded"
        /\ \A i \in Index : vm[i] # "absent" =>
                view[i] # "none" \/ (pc = "validateNew" /\ i = cur)

\* The VM in hand is not an old one, and has gone before it is created again.
InHand ==
    /\ pc \in {"validateNew", "validate"} => vm[cur] \notin OldStates
    /\ pc = "recreate" => vm[cur] = "absent"
    /\ pc \in {"copy", "delete", "recreate", "validate"} => view[cur] = "notUpgraded"

\* Nothing to upgrade means what it says.
NothingToUpgrade ==
    pc \in {"fill", "validateNew"} /\ toBe = 0 =>
        \A i \in Index : view[i] # "notUpgraded"

PoolInv ==
    /\ TypeOK
    /\ ScanComplete
    /\ ViewComplete
    /\ InHand
    /\ NothingToUpgrade
    /\ SuccessMeansUpgraded

-----------------------------------------------------------------------------
(* getAvailableIndex *)

\* A set of indices that is not empty has a lowest and a highest member.
LEMMA LowestIndex ==
    ASSUME NEW S \in SUBSET Nat, S # {}
    PROVE  \E i \in S : \A j \in S : i <= j
<1>1. PICK i \in S : \A j \in S : ~(<<j, i>> \in OpToRel(<, Nat))
    BY WFMin, NatLessThanWellFounded
<1>2. \A j \in S : ~(j < i) BY <1>1 DEF OpToRel
<1> QED BY <1>2

\* The indices of a pool are bounded, so there is a highest one in use.
LEMMA HighestIndex ==
    ASSUME NEW S \in SUBSET Index, S # {}
    PROVE  \E i \in S : \A j \in S : j <= i
<1> DEFINE T == {MaxIndex - j : j \in S}
<1>1. T \in SUBSET Nat /\ T # {}
    <2>1. \A j \in S : MaxIndex - j \in Nat
        BY PoolAssumption DEF Index
    <2>2. PICK s \in S : TRUE
        OBVIOUS
    <2>3. MaxIndex - s \in T
        OBVIOUS
    <2> QED BY <2>1, <2>3
<1>2. PICK t \in T : \A u \in T : t <= u
    BY <1>1, LowestIndex
<1>3. PICK i \in S : t = MaxIndex - i
    BY <1>2
<1>4. \A j \in S : MaxIndex - i <= MaxIndex - j
    BY <1>2, <1>3
<1>5. \A j \in S : j <= i
    BY <1>4, PoolAssumption DEF Index
<1> QED BY <1>5

\* getAvailableIndex returns an index that agentVMs does not hold.
LEMMA AvailableIndexIsFree ==
    /\ AvailableIndex \in Nat
    /\ AvailableIndex \notin InUse
<1> DEFINE highest == CHOOSE i \in InUse \union {0} : \A j \in InUse : j <= i
           gaps == {i \in 0..(highest - 1) : i \notin InUse}
<1>1. highest \in InUse \union {0} /\ \A j \in InUse : j <= highest
    <2>1. CASE InUse = {}
        <3>1. \E i \in InUse \union {0} : \A j \in InUse : j <= i
            BY <2>1
        <3> QED BY <3>1
    <2>2. CASE InUse # {}
        <3>1. InUse \in SUBSET Index
            BY DEF InUse
        <3>2. \E i \in InUse \union {0} : \A j \in InUse : j <= i
            BY <2>2, <3>1, HighestIndex
        <3> QED BY <3>2
    <2> QED BY <2>1, <2>2
<1>2. highest \in Nat
    BY <1>1, PoolAssumption DEF InUse, Index
<1>3. CASE gaps = {}
    <2>1. AvailableIndex = highest + 1
        BY <1>3 DEF AvailableIndex
    <2> HIDE DEF highest, gaps
    <2>2. highest + 1 \notin InUse
        <3>1. SUFFICES ASSUME highest + 1 \in InUse PROVE FALSE
            OBVIOUS
        <3>2. highest + 1 <= highest
            BY <1>1, <3>1
        <3> QED BY <1>2, <3>2
    <2> QED BY <1>2, <2>1, <2>2
<1>4. CASE gaps # {}
    <2>1. gaps \in SUBSET Nat
        BY <1>2
    <2>2. \E i \in gaps : \A j \in gaps : i <= j
        <3> HIDE DEF gaps
        <3> QED BY <1>4, <2>1, LowestIndex
    <2>3. AvailableIndex = CHOOSE i \in gaps : \A j \in gaps : i <= j
        BY <1>4 DEF AvailableIndex
    <2>4. AvailableIndex \in gaps
        <3> HIDE DEF gaps
        <3> QED BY <2>2, <2>3
    <2> QED BY <2>1, <2>4
<1> QED BY <1>3, <1>4

\* The number of VMs to upgrade is a number, and zero only if there is none.
LEMMA AgentVMsCounted ==
    /\ Cardinality(AgentVMs) \in Nat
    /\ Cardinality(AgentVMs) = 0 => AgentVMs = {}
<1>1. IsFiniteSet(Index)
    BY FS_Interval, PoolAssumption DEF Index
<1>2. IsFiniteSet(AgentVMs)
    BY <1>1, FS_Subset DEF AgentVMs
<1> QED BY <1>2, FS_CardinalityType, FS_EmptySet

-----------------------------------------------------------------------------
\* Before the first run nothing is listed.
LEMMA InitPoolInv == Init => PoolInv
<1> SUFFICES ASSUME Init PROVE PoolInv
    OBVIOUS
<1> USE PoolAssumption DEF Init, OldStates, NewStates, VMStates
<1>1. TypeOK
    <2>1. /\ vm \in [Index -> VMStates] /\ ready \in [Index -> BOOLEAN]
          /\ snap \in [Index -> VMStates] /\ view \in [Index -> VMStatus]
        BY DEF VMStatus, Original
    <2>2. props \in [Index -> Index \union {Nobody}]
        BY DEF Original
    <2>3. force \in BOOLEAN /\ preserve \in BOOLEAN /\ agreed \in BOOLEAN
        BY Zenon
    <2>5. pc \in Phases /\ todo \subseteq Index /\ fresh \in Seq(Index)
        BY DEF Phases
    <2>4. /\ upCount \in Nat /\ toBe \in Nat /\ cur \in Index
          /\ aborts \in 0..MaxAborts /\ runs \in Nat /\ givenUp \in Nat /\ recopied \in Nat
        BY DEF Index
    <2>6. cordoned \subseteq Index /\ copiers \subseteq Index \X Index
        OBVIOUS
    <2> QED BY <2>1, <2>2, <2>3, <2>4, <2>5, <2>6, Zenon DEF TypeOK
<1>2. ScanComplete /\ ViewComplete
    BY DEF ScanComplete, ViewComplete, Loops
<1>3. InHand /\ NothingToUpgrade /\ SuccessMeansUpgraded
    BY DEF InHand, NothingToUpgrade, SuccessMeansUpgraded
<1> QED BY <1>1, <1>2, <1>3 DEF PoolInv

\* A copy, whoever does it, changes no VM, nothing in agentVMs and no counter.
LEMMA CopyStep ==
    ASSUME CopyProperties \/ CopyAgain
    PROVE  /\ UNCHANGED <<vm, ready, snap, force, todo, view, upCount, toBe>>
           /\ UNCHANGED <<preserve, aborts, runs, agreed>>
           /\ \/ pc = "upgrade" /\ pc' \in {"copy", "delete"} /\ cur' \in NotUpgraded
              \/ pc = "copy" /\ pc' = "delete" /\ cur' = cur
              \/ pc' = pc /\ cur' = cur
<1>1. CASE CopyProperties
    BY <1>1 DEF CopyProperties, StartCopy, EndCopy, CopyDone, CopyGivenUp, copying, ghost
<1>2. CASE CopyAgain
    BY <1>2 DEF CopyAgain, local
<1> QED BY <1>1, <1>2

\* A process that has ended leaves variables that are well formed.
LEMMA ForgottenType ==
    ASSUME TypeOK, Forgotten
    PROVE  /\ snap' \in [Index -> VMStates] /\ view' \in [Index -> VMStatus]
           /\ force' \in BOOLEAN /\ todo' \subseteq Index
           /\ upCount' \in Nat /\ toBe' \in Nat
           /\ fresh' \in Seq(Index) /\ cur' \in Index
           /\ copiers' \subseteq Index \X Index
<1>1. force' \in BOOLEAN
    BY Zenon DEF TypeOK, Forgotten
<1>2. fresh' \in Seq(Index)
    BY DEF Forgotten
<1>3. cur' \in Index
    BY PoolAssumption DEF Forgotten, Index
<1> QED BY <1>1, <1>2, <1>3 DEF TypeOK, Forgotten, VMStates, VMStatus

\* The command's state stays well formed.
LEMMA TypeStep == TypeOK /\ [Next]_vars => TypeOK'
<1> SUFFICES ASSUME TypeOK, [Next]_vars PROVE TypeOK'
    OBVIOUS
<1> USE DEF TypeOK, cloud, local, copying, ghost, VMStates, OldStates, NewStates, VMStatus, Phases, Removed,
        Created, Deleting
<1>1. CASE ListVirtualMachines
    <2>1. force' \in BOOLEAN /\ todo' \subseteq Index
        BY <1>1, PoolAssumption DEF ListVirtualMachines
    <2>2. fresh' \in Seq(Index)
        BY <1>1 DEF ListVirtualMachines
    <2> QED BY <1>1, <2>1, <2>2 DEF ListVirtualMachines
<1>2. CASE NoteAgentVMs
    BY <1>2, AgentVMsCounted DEF NoteAgentVMs
<1>3. CASE CreateMissing
    <2>1. AvailableIndex \in Index
        BY <1>3, AvailableIndexIsFree, PoolAssumption DEF CreateMissing, Index
    <2> QED BY <1>3, <2>1 DEF CreateMissing
<1>4. CASE ValidateNew
    BY <1>4 DEF ValidateNew
<1>5. CASE Filled
    BY <1>5 DEF Filled
<1>6. CASE CopyProperties
    <2>1. fresh # <<>> => Head(fresh) \in Index /\ Tail(fresh) \in Seq(Index)
        BY HeadTailProperties
    <2>2. CASE StartCopy
        BY <2>1, <2>2 DEF StartCopy, NotUpgraded
    <2>3. CASE EndCopy /\ (CopyDone \/ CopyGivenUp)
        <3>1. fresh' \in Seq(Index) /\ copiers' \subseteq Index \X Index
            BY <2>1, <2>3 DEF EndCopy
        <3>2. props' \in [Index -> Index \union {Nobody}]
            BY <2>1, <2>3 DEF CopyDone, CopyGivenUp, Handed
        <3>3. cordoned' \subseteq Index /\ givenUp' \in Nat
            BY <2>3 DEF CopyDone, CopyGivenUp
        <3> QED BY <2>3, <3>1, <3>2, <3>3 DEF EndCopy
    <2> QED BY <1>6, <2>2, <2>3 DEF CopyProperties, CopyDone, CopyGivenUp
<1>16. CASE CopyAgain
    <2>1. PICK c \in copiers :
             /\ cordoned' = cordoned \ {c[2]}
             /\ \/ props' = Handed(c[2]) /\ copiers' = copiers /\ recopied' = recopied
                \/ /\ props' \in {props, [props EXCEPT ![c[2]] = Nobody]}
                   /\ copiers' = copiers \ {c} /\ recopied' = recopied + 1
        BY <1>16 DEF CopyAgain
    <2>2. c[1] \in Index /\ c[2] \in Index
        BY <2>1
    <2>3. props' \in [Index -> Index \union {Nobody}]
        BY <2>1, <2>2 DEF Handed
    <2> QED BY <1>16, <2>1, <2>3 DEF CopyAgain
<1>7. CASE DeleteOld
    BY <1>7 DEF DeleteOld
<1>8. CASE DeleteNotFound
    <2>1. Forgotten
        BY <1>8 DEF DeleteNotFound
    <2> QED BY <1>8, <2>1, ForgottenType DEF DeleteNotFound
<1>9. CASE CreateAgain
    BY <1>9 DEF CreateAgain
<1>10. CASE Validate
    BY <1>10 DEF Validate
<1>11. CASE PoolUpgraded
    BY <1>11 DEF PoolUpgraded
<1>12. CASE Scan
    <2>1. PICK i \in Index : CountUpgraded(i) \/ DeleteFailed(i) \/ Ignore(i)
        BY <1>12 DEF Scan
    <2>2. CASE CountUpgraded(i)
        BY <2>2 DEF CountUpgraded
    <2>3. CASE DeleteFailed(i)
        <3>1. props' \in [Index -> Index \union {Nobody}]
            BY <2>3 DEF DeleteFailed
        <3> QED BY <2>3, <3>1 DEF DeleteFailed
    <2>4. CASE Ignore(i)
        BY <2>4 DEF Ignore
    <2> QED BY <2>1, <2>2, <2>3, <2>4
<1>13. CASE Abort
    <2>1. /\ vm' \in [Index -> VMStates] /\ ready' \in [Index -> BOOLEAN]
          /\ props' \in [Index -> Index \union {Nobody}] /\ cordoned' \subseteq Index
        <3>1. ASSUME NEW i \in Index, NEW s \in VMStates, Removed(i, s) \/ Created(i, s)
              PROVE  /\ vm' \in [Index -> VMStates] /\ ready' \in [Index -> BOOLEAN]
                     /\ props' \in [Index -> Index \union {Nobody}] /\ cordoned' \subseteq Index
            BY <3>1
        <3>2. AvailableIndex <= MaxIndex => AvailableIndex \in Index
            BY AvailableIndexIsFree, PoolAssumption DEF Index
        <3>3. ASSUME NEW i \in Index, HalfDeleted(i) \/ HalfCreated(i)
              PROVE  /\ vm' \in [Index -> VMStates] /\ ready' \in [Index -> BOOLEAN]
                     /\ props' \in [Index -> Index \union {Nobody}] /\ cordoned' \subseteq Index
            <4>1. /\ "absent" \in VMStates /\ Deleting(i) \in VMStates
                  /\ {"creating", "succeeded", "failed"} \subseteq VMStates
                OBVIOUS
            <4> HIDE DEF Removed, Created, Deleting, VMStates
            <4> QED BY <3>1, <3>3, <4>1 DEF HalfDeleted, HalfCreated
        <3>4. CASE pc = "copy" /\ HalfCopied
            <4>1. Head(fresh) \in Index
                BY <3>4, HeadTailProperties
            <4> QED BY <3>4, <4>1 DEF HalfCopied, Handed
        <3>5. CASE cordoned' = cordoned \union {cur} /\ UNCHANGED <<vm, ready, props>>
            BY <3>5
        <3> HIDE DEF Removed, Created, Deleting, VMStates
        <3>6. \/ UNCHANGED cloud
              \/ \E i \in Index : HalfDeleted(i) \/ HalfCreated(i)
              \/ pc = "copy" /\ HalfCopied
              \/ cordoned' = cordoned \union {cur} /\ UNCHANGED <<vm, ready, props>>
            BY <1>13, <3>2 DEF Abort, LeftBehind
        <3> QED BY <3>3, <3>4, <3>5, <3>6
    <2>2. aborts' \in 0..MaxAborts
        BY <1>13, PoolAssumption DEF Abort
    <2>3. Forgotten /\ pc' = "idle"
        BY <1>13 DEF Abort
    <2> QED BY <1>13, <2>1, <2>2, <2>3, ForgottenType DEF Abort
<1>14. ASSUME NEW i \in Index, BecomesReady(i) \/ Settles(i) PROVE TypeOK'
    BY <1>14 DEF BecomesReady, Settles
<1>15. CASE UNCHANGED vars
    BY <1>15 DEF vars
<1> QED BY <1>1, <1>2, <1>3, <1>4, <1>5, <1>6, <1>7, <1>8, <1>9, <1>10, <1>11, <1>12, <1>13, <1>14,
           <1>15, <1>16
        DEF Next, Command, Finish

\* The listing stays complete while the upgraded VMs are visited.
LEMMA ScanStep == PoolInv /\ [Next]_vars => ScanComplete'
<1> SUFFICES ASSUME PoolInv, [Next]_vars PROVE ScanComplete'
    OBVIOUS
<1> USE DEF TypeOK, cloud, local, copying, ghost, VMStates, OldStates, NewStates, VMStatus, Phases, Removed,
        Created, Deleting, PoolInv, ScanComplete, AgentVMs
<1>1. CASE ListVirtualMachines
    BY <1>1 DEF ListVirtualMachines
<1>2. CASE NoteAgentVMs
    BY <1>2 DEF NoteAgentVMs
<1>3. CASE CreateMissing
    BY <1>3 DEF CreateMissing
<1>4. CASE ValidateNew
    BY <1>4 DEF ValidateNew
<1>5. CASE Filled
    BY <1>5 DEF Filled
<1>6. CASE CopyProperties \/ CopyAgain
    BY <1>6, CopyStep DEF NotUpgraded
<1>7. CASE DeleteOld
    BY <1>7 DEF DeleteOld
<1>8. CASE DeleteNotFound
    BY <1>8 DEF DeleteNotFound, Forgotten
<1>9. CASE CreateAgain
    BY <1>9 DEF CreateAgain
<1>10. CASE Validate
    BY <1>10 DEF Validate
<1>11. CASE PoolUpgraded
    BY <1>11 DEF PoolUpgraded
<1>12. CASE Scan
    <2>1. PICK i \in Index : CountUpgraded(i) \/ DeleteFailed(i) \/ Ignore(i) BY <1>12 DEF Scan
    <2>2. CASE CountUpgraded(i) BY <2>2 DEF CountUpgraded
    <2>3. CASE DeleteFailed(i) BY <2>3 DEF DeleteFailed
    <2>4. CASE Ignore(i) BY <2>4 DEF Ignore
    <2> QED BY <2>1, <2>2, <2>3, <2>4
<1>13. CASE Abort
    BY <1>13 DEF Abort, LeftBehind, HalfDeleted, HalfCopied, HalfCreated, Forgotten
<1>14. ASSUME NEW i \in Index, BecomesReady(i) \/ Settles(i) PROVE ScanComplete'
    BY <1>14 DEF BecomesReady, Settles
<1>15. CASE UNCHANGED vars
    BY <1>15 DEF vars
<1> QED BY <1>1, <1>2, <1>3, <1>4, <1>5, <1>6, <1>7, <1>8, <1>9, <1>10, <1>11, <1>12, <1>13, <1>14,
           <1>15
        DEF Next, Command, Finish

\* agentVMs stays complete while VMs are created and replaced.
LEMMA ViewStep == PoolInv /\ [Next]_vars => (ViewComplete /\ InHand)'
<1> SUFFICES ASSUME PoolInv, [Next]_vars PROVE (ViewComplete /\ InHand)'
    OBVIOUS
<1> USE DEF TypeOK, cloud, local, copying, ghost, VMStates, OldStates, NewStates, VMStatus, Phases, Removed,
        Created, Deleting, PoolInv, ScanComplete, ViewComplete, InHand, Loops
<1>1. CASE ListVirtualMachines
    BY <1>1 DEF ListVirtualMachines
<1>2. CASE NoteAgentVMs
    BY <1>2 DEF NoteAgentVMs, AgentVMs
<1>3. CASE CreateMissing
    <2>1. PICK j \in Index : j = AvailableIndex
        BY <1>3, AvailableIndexIsFree, PoolAssumption DEF CreateMissing, Index
    <2>2. /\ pc = "fill" /\ pc' = "validateNew" /\ cur' = j
          /\ vm' = [vm EXCEPT ![j] = "succeeded"] /\ view' = view
        BY <1>3, <2>1 DEF CreateMissing
    <2> QED BY <2>2
<1>4. CASE ValidateNew
    BY <1>4 DEF ValidateNew
<1>5. CASE Filled
    BY <1>5 DEF Filled
<1>6. CASE CopyProperties \/ CopyAgain
    BY <1>6, CopyStep DEF NotUpgraded
<1>7. CASE DeleteOld
    BY <1>7 DEF DeleteOld
<1>8. CASE DeleteNotFound
    BY <1>8 DEF DeleteNotFound, Forgotten
<1>9. CASE CreateAgain
    BY <1>9 DEF CreateAgain
<1>10. CASE Validate
    BY <1>10 DEF Validate
<1>11. CASE PoolUpgraded
    BY <1>11 DEF PoolUpgraded
<1>12. CASE Scan
    BY <1>12 DEF Scan, CountUpgraded, DeleteFailed, Ignore
<1>13. CASE Abort
    BY <1>13 DEF Abort, LeftBehind, HalfDeleted, HalfCopied, HalfCreated, Forgotten
<1>14. ASSUME NEW i \in Index, BecomesReady(i) \/ Settles(i) PROVE (ViewComplete /\ InHand)'
    BY <1>14 DEF BecomesReady, Settles
<1>15. CASE UNCHANGED vars
    BY <1>15 DEF vars
<1> QED BY <1>1, <1>2, <1>3, <1>4, <1>5, <1>6, <1>7, <1>8, <1>9, <1>10, <1>11, <1>12, <1>13, <1>14,
           <1>15
        DEF Next, Command, Finish

\* toBeUpgradedCount is the number of VMs marked for replacement.
LEMMA NothingStep == PoolInv /\ [Next]_vars => NothingToUpgrade'
<1> SUFFICES ASSUME PoolInv, [Next]_vars PROVE NothingToUpgrade'
    OBVIOUS
<1> USE DEF TypeOK, cloud, local, copying, ghost, VMStates, OldStates, NewStates, VMStatus, Phases, Removed,
        Created, Deleting, PoolInv, NothingToUpgrade, ScanComplete
<1>1. CASE ListVirtualMachines
    BY <1>1 DEF ListVirtualMachines
<1>2. CASE NoteAgentVMs
    BY <1>2, AgentVMsCounted DEF NoteAgentVMs
<1>3. CASE CreateMissing
    BY <1>3 DEF CreateMissing
<1>4. CASE ValidateNew
    BY <1>4 DEF ValidateNew
<1>5. CASE Filled
    BY <1>5 DEF Filled
<1>6. CASE CopyProperties \/ CopyAgain
    BY <1>6, CopyStep DEF NotUpgraded
<1>7. CASE DeleteOld
    BY <1>7 DEF DeleteOld
<1>8. CASE DeleteNotFound
    BY <1>8 DEF DeleteNotFound, Forgotten
<1>9. CASE CreateAgain
    BY <1>9 DEF CreateAgain
<1>10. CASE Validate
    BY <1>10 DEF Validate
<1>11. CASE PoolUpgraded
    BY <1>11 DEF PoolUpgraded
<1>12. CASE Scan
    BY <1>12 DEF Scan, CountUpgraded, DeleteFailed, Ignore
<1>13. CASE Abort
    BY <1>13 DEF Abort, LeftBehind, HalfDeleted, HalfCopied, HalfCreated, Forgotten
<1>14. ASSUME NEW i \in Index, BecomesReady(i) \/ Settles(i) PROVE NothingToUpgrade'
    BY <1>14 DEF BecomesReady, Settles
<1>15. CASE UNCHANGED vars
    BY <1>15 DEF vars
<1> QED BY <1>1, <1>2, <1>3, <1>4, <1>5, <1>6, <1>7, <1>8, <1>9, <1>10, <1>11, <1>12, <1>13, <1>14,
           <1>15
        DEF Next, Command, Finish

\* The pool is declared upgraded only when no old VM is left.
LEMMA SuccessStep == PoolInv /\ [Next]_vars => SuccessMeansUpgraded'
<1> SUFFICES ASSUME PoolInv, [Next]_vars PROVE SuccessMeansUpgraded'
    OBVIOUS
<1> USE DEF TypeOK, cloud, local, copying, ghost, VMStates, OldStates, NewStates, VMStatus, Phases, Removed,
        Created, Deleting, PoolInv, SuccessMeansUpgraded, ViewComplete, NothingToUpgrade, Loops
<1>1. CASE ListVirtualMachines
    BY <1>1 DEF ListVirtualMachines
<1>2. CASE NoteAgentVMs
    BY <1>2 DEF NoteAgentVMs
<1>3. CASE CreateMissing
    BY <1>3 DEF CreateMissing
<1>4. CASE ValidateNew
    BY <1>4 DEF ValidateNew
<1>5. CASE Filled
    BY <1>5 DEF Filled
<1>6. CASE CopyProperties \/ CopyAgain
    BY <1>6, CopyStep DEF NotUpgraded
<1>7. CASE DeleteOld
    BY <1>7 DEF DeleteOld
<1>8. CASE DeleteNotFound
    BY <1>8 DEF DeleteNotFound, Forgotten
<1>9. CASE CreateAgain
    BY <1>9 DEF CreateAgain
<1>10. CASE Validate
    BY <1>10 DEF Validate
<1>11. CASE PoolUpgraded
    BY <1>11 DEF PoolUpgraded, NotUpgraded
<1>12. CASE Scan
    BY <1>12 DEF Scan, CountUpgraded, DeleteFailed, Ignore
<1>13. CASE Abort
    BY <1>13 DEF Abort, LeftBehind, HalfDeleted, HalfCopied, HalfCreated, Forgotten
<1>14. ASSUME NEW i \in Index, BecomesReady(i) \/ Settles(i) PROVE SuccessMeansUpgraded'
    BY <1>14 DEF BecomesReady, Settles
<1>15. CASE UNCHANGED vars
    BY <1>15 DEF vars
<1> QED BY <1>1, <1>2, <1>3, <1>4, <1>5, <1>6, <1>7, <1>8, <1>9, <1>10, <1>11, <1>12, <1>13, <1>14,
           <1>15
        DEF Next, Command, Finish

\* What agentVMs knows of the VMs holds throughout.
LEMMA Inductive == Spec => []PoolInv
<1>1. PoolInv /\ [Next]_vars => PoolInv'
    BY TypeStep, ScanStep, ViewStep, NothingStep, SuccessStep DEF PoolInv
<1> QED BY InitPoolInv, <1>1, PTL DEF Spec

-----------------------------------------------------------------------------
\* The state of upgradeAgentPools is well formed: the counters never become
\* negative and every index stays within the pool's names.
THEOREM PoolTypeCorrect == Spec => []TypeOK
BY Inductive, PTL DEF PoolInv

\* An upgrade of the pool that reports success leaves no VM at the old
\* version, for every size of the pool and every sequence of failed runs.
THEOREM PoolUpgradeComplete == Spec => []SuccessMeansUpgraded
BY Inductive, PTL DEF PoolInv

\* No deployment is for an index at which a VM exists, neither those for
\* missing and extra nodes (getAvailableIndex) nor those that replace a VM.
THEOREM PoolDeploysAtFreeIndex == Spec => []NeverDeploysOverVM
<1>1. PoolInv => NeverDeploysOverVM
    <2> SUFFICES ASSUME PoolInv PROVE NeverDeploysOverVM
        OBVIOUS
    <2>1. pc = "recreate" => vm[cur] = "absent"
        BY DEF PoolInv, InHand
    <2>2. pc = "fill" /\ AvailableIndex \in Index => vm[AvailableIndex] = "absent"
        BY AvailableIndexIsFree DEF PoolInv, ViewComplete, Loops, InUse
    <2> QED BY <2>1, <2>2, AvailableIndexIsFree DEF NeverDeploysOverVM, Index
<1> QED BY <1>1, Inductive, PTL

-----------------------------------------------------------------------------
(* What the listing and agentVMs say of the VMs *)

Alive     == {"creating", "succeeded", "failed"}
Replacing == {"upgrade", "copy", "delete", "recreate", "validate"}

\* The VM that a creation in progress is about.
InDoubt == IF pc \in {"validateNew", "recreate", "validate"} THEN {cur} ELSE {}

\* A node serves only on a VM that exists and is not being deleted.
ReadyExists == \A i \in Index : ready[i] => vm[i] = "old" \/ vm[i] \in Alive

\* The listing is stale in known ways only: what it shows has settled since.
ListingTrue ==
    pc = "scan" => \A i \in Index :
        /\ vm[i] # "absent" => snap[i] # "absent"
        /\ snap[i] \in OldStates => vm[i] \in OldStates \union {"absent"}
        /\ snap[i] = "failed" => vm[i] \in {"failed", "absent"}
        /\ snap[i] = "deleting" => vm[i] \in {"deleting", "absent"}
        /\ snap[i] \in {"creating", "succeeded"} => vm[i] \in Alive
        /\ i \in todo => ~force /\ snap[i] \in NewStates /\ view[i] = "none"
        /\ view[i] = "upgraded" => ~force /\ snap[i] \in {"creating", "succeeded"}
        /\ view[i] = "ignored" => ~force /\ snap[i] = "deleting"

\* An upgraded VM exists and an ignored one goes; without --force a VM marked
\* for replacement is an old one, or has gone.
ViewTrue ==
    pc \in Loops => \A i \in Index :
        /\ view[i] = "upgraded" => vm[i] \in Alive
        /\ view[i] = "ignored" => ~force /\ vm[i] \in {"deleting", "absent"}
        /\ view[i] = "notUpgraded" /\ ~force /\ i \notin InDoubt =>
                vm[i] \in OldStates \union {"absent"}

\* A VM that is being validated was deployed by this run.
NewInHand ==
    /\ pc \in {"validateNew", "validate"} => vm[cur] = "succeeded"
    /\ pc = "validateNew" => view[cur] = "none"

Truth == ReadyExists /\ ListingTrue /\ ViewTrue /\ NewInHand

\* Nodes and VMs go together.
LEMMA ReadyStep == PoolInv /\ Truth /\ [Next]_vars => ReadyExists'
<1> SUFFICES ASSUME PoolInv /\ Truth, [Next]_vars PROVE ReadyExists'
    OBVIOUS
<1> USE DEF TypeOK, cloud, local, copying, ghost, VMStates, OldStates, NewStates, VMStatus, Removed, Created,
        Deleting, PoolInv, Alive, Truth, ReadyExists, InHand
<1>1. CASE ListVirtualMachines
    BY <1>1 DEF ListVirtualMachines
<1>2. CASE NoteAgentVMs
    BY <1>2 DEF NoteAgentVMs
<1>3. CASE CreateMissing
    BY <1>3 DEF CreateMissing
<1>4. CASE ValidateNew
    BY <1>4 DEF ValidateNew
<1>5. CASE Filled
    BY <1>5 DEF Filled
<1>6. CASE CopyProperties \/ CopyAgain
    BY <1>6, CopyStep DEF NotUpgraded
<1>7. CASE DeleteOld
    BY <1>7 DEF DeleteOld
<1>8. CASE DeleteNotFound
    BY <1>8 DEF DeleteNotFound, Forgotten
<1>9. CASE CreateAgain
    BY <1>9 DEF CreateAgain
<1>10. CASE Validate
    BY <1>10 DEF Validate
<1>11. CASE PoolUpgraded
    BY <1>11 DEF PoolUpgraded
<1>12. CASE Scan
    BY <1>12 DEF Scan, CountUpgraded, DeleteFailed, Ignore
<1>13. CASE Abort
    BY <1>13 DEF Abort, LeftBehind, HalfDeleted, HalfCopied, HalfCreated, Forgotten
<1>14. ASSUME NEW i \in Index, BecomesReady(i) \/ Settles(i) PROVE ReadyExists'
    BY <1>14 DEF BecomesReady, Settles
<1>15. CASE UNCHANGED vars
    BY <1>15 DEF vars
<1> QED BY <1>1, <1>2, <1>3, <1>4, <1>5, <1>6, <1>7, <1>8, <1>9, <1>10, <1>11, <1>12, <1>13, <1>14,
           <1>15
        DEF Next, Command, Finish

\* The listing ages as described.
LEMMA ListingStep == PoolInv /\ Truth /\ [Next]_vars => ListingTrue'
<1> SUFFICES ASSUME PoolInv /\ Truth, [Next]_vars PROVE ListingTrue'
    OBVIOUS
<1> USE DEF TypeOK, cloud, local, copying, ghost, VMStates, OldStates, NewStates, VMStatus, Removed, Created,
        Deleting, PoolInv, Alive, Truth, ListingTrue, ScanComplete
<1>1. CASE ListVirtualMachines
    BY <1>1 DEF ListVirtualMachines
<1>2. CASE NoteAgentVMs
    BY <1>2 DEF NoteAgentVMs
<1>3. CASE CreateMissing
    BY <1>3 DEF CreateMissing
<1>4. CASE ValidateNew
    BY <1>4 DEF ValidateNew
<1>5. CASE Filled
    BY <1>5 DEF Filled
<1>6. CASE CopyProperties \/ CopyAgain
    BY <1>6, CopyStep DEF NotUpgraded
<1>7. CASE DeleteOld
    BY <1>7 DEF DeleteOld
<1>8. CASE DeleteNotFound
    BY <1>8 DEF DeleteNotFound, Forgotten
<1>9. CASE CreateAgain
    BY <1>9 DEF CreateAgain
<1>10. CASE Validate
    BY <1>10 DEF Validate
<1>11. CASE PoolUpgraded
    BY <1>11 DEF PoolUpgraded
<1>12. CASE Scan
    BY <1>12 DEF Scan, CountUpgraded, DeleteFailed, Ignore
<1>13. CASE Abort
    BY <1>13 DEF Abort, LeftBehind, HalfDeleted, HalfCopied, HalfCreated, Forgotten
<1>14. ASSUME NEW i \in Index, BecomesReady(i) \/ Settles(i) PROVE ListingTrue'
    BY <1>14 DEF BecomesReady, Settles
<1>15. CASE UNCHANGED vars
    BY <1>15 DEF vars
<1> QED BY <1>1, <1>2, <1>3, <1>4, <1>5, <1>6, <1>7, <1>8, <1>9, <1>10, <1>11, <1>12, <1>13, <1>14,
           <1>15
        DEF Next, Command, Finish

\* agentVMs stays true.
LEMMA ViewTrueStep == PoolInv /\ Truth /\ [Next]_vars => (ViewTrue /\ NewInHand)'
<1> SUFFICES ASSUME PoolInv /\ Truth, [Next]_vars PROVE (ViewTrue /\ NewInHand)'
    OBVIOUS
<1> USE DEF TypeOK, cloud, local, copying, ghost, VMStates, OldStates, NewStates, VMStatus, Removed, Created,
        Deleting, PoolInv, Alive, Truth, ViewTrue, NewInHand, InDoubt, ListingTrue, ScanComplete,
        ViewComplete, InHand, Loops
<1>1. CASE ListVirtualMachines
    BY <1>1 DEF ListVirtualMachines
<1>2. CASE NoteAgentVMs
    BY <1>2 DEF NoteAgentVMs, AgentVMs
<1>3. CASE CreateMissing
    <2>1. PICK j \in Index : j = AvailableIndex /\ view[j] = "none"
        BY <1>3, AvailableIndexIsFree, PoolAssumption DEF CreateMissing, Index, InUse
    <2>2. /\ pc = "fill" /\ pc' = "validateNew" /\ cur' = j
          /\ vm' = [vm EXCEPT ![j] = "succeeded"] /\ view' = view /\ force' = force
        BY <1>3, <2>1 DEF CreateMissing
    <2> QED BY <2>1, <2>2
<1>4. CASE ValidateNew
    BY <1>4 DEF ValidateNew
<1>5. CASE Filled
    BY <1>5 DEF Filled
<1>6. CASE CopyProperties \/ CopyAgain
    BY <1>6, CopyStep DEF NotUpgraded
<1>7. CASE DeleteOld
    BY <1>7 DEF DeleteOld
<1>8. CASE DeleteNotFound
    BY <1>8 DEF DeleteNotFound, Forgotten
<1>9. CASE CreateAgain
    BY <1>9 DEF CreateAgain
<1>10. CASE Validate
    BY <1>10 DEF Validate
<1>11. CASE PoolUpgraded
    BY <1>11 DEF PoolUpgraded
<1>12. CASE Scan
    BY <1>12 DEF Scan, CountUpgraded, DeleteFailed, Ignore
<1>13. CASE Abort
    BY <1>13 DEF Abort, LeftBehind, HalfDeleted, HalfCopied, HalfCreated, Forgotten
<1>14. ASSUME NEW i \in Index, BecomesReady(i) \/ Settles(i) PROVE (ViewTrue /\ NewInHand)'
    BY <1>14 DEF BecomesReady, Settles
<1>15. CASE UNCHANGED vars
    BY <1>15 DEF vars
<1> QED BY <1>1, <1>2, <1>3, <1>4, <1>5, <1>6, <1>7, <1>8, <1>9, <1>10, <1>11, <1>12, <1>13, <1>14,
           <1>15
        DEF Next, Command, Finish

-----------------------------------------------------------------------------
(* How many VMs agentVMs holds *)

\* Sets of indices are finite, so their sizes can be compared.
LEMMA IndexSets ==
    ASSUME NEW S \in SUBSET Index
    PROVE  /\ IsFiniteSet(S)
           /\ Cardinality(S) \in Nat
           /\ Cardinality(S) = 0 <=> S = {}
<1>1. IsFiniteSet(Index)
    BY FS_Interval, PoolAssumption DEF Index
<1>2. IsFiniteSet(S)
    BY <1>1, FS_Subset
<1> QED BY <1>2, FS_CardinalityType, FS_EmptySet

\* Adding, removing and comparing, as the loops do it with agentVMs.
LEMMA OneMore ==
    ASSUME NEW S \in SUBSET Index, NEW i \in Index, i \notin S
    PROVE  Cardinality(S \union {i}) = Cardinality(S) + 1
BY IndexSets, FS_AddElement

LEMMA OneLess ==
    ASSUME NEW S \in SUBSET Index, NEW i \in S
    PROVE  Cardinality(S \ {i}) = Cardinality(S) - 1
BY IndexSets, FS_RemoveElement

LEMMA NotMore ==
    ASSUME NEW T \in SUBSET Index, NEW S \in SUBSET T
    PROVE  Cardinality(S) <= Cardinality(T)
BY IndexSets, FS_Subset

LEMMA DisjointSum ==
    ASSUME NEW S \in SUBSET Index, NEW T \in SUBSET Index, S \intersect T = {}
    PROVE  Cardinality(S \union T) = Cardinality(S) + Cardinality(T)
<1>1. IsFiniteSet(S) /\ IsFiniteSet(T) /\ Cardinality(S) \in Nat /\ Cardinality(T) \in Nat
    BY IndexSets
<1>2. Cardinality(S \intersect T) = 0
    BY FS_EmptySet
<1>3. Cardinality(S \union T) = Cardinality(S) + Cardinality(T) - Cardinality(S \intersect T)
    BY <1>1, FS_Union
<1> QED BY <1>1, <1>2, <1>3

Upgraded == {i \in Index : view[i] = "upgraded"}
Known    == Cardinality(Upgraded) + Cardinality(NotUpgraded)
Spare    == IF NotUpgraded = {} THEN 0 ELSE 1

\* The counters say how many VMs agentVMs holds as upgraded and as to be
\* replaced; in the second loop, how many have been replaced.
CountersRight ==
    /\ pc \in {"scan", "fill", "validateNew"} => upCount = Cardinality(Upgraded)
    /\ pc \in {"fill", "validateNew"} => toBe = Cardinality(NotUpgraded)
    /\ pc \in Replacing => Cardinality(NotUpgraded) + upCount = toBe
    /\ pc \in {"recreate", "validate"} => upCount + 2 <= toBe
    /\ pc = "validateNew" => upCount + toBe < AgentCount

\* While VMs are replaced agentVMs holds one more than the pool needs.
EnoughKnown == pc \in Replacing => Known >= Count + Spare

\* If the runs agree on --force, agentVMs holds no more than that.
NoneTooMany ==
    agreed => /\ pc \in {"fill", "validateNew"} => upCount + toBe <= AgentCount
              /\ pc \in Replacing => Known <= Count + Spare

Counted == CountersRight /\ EnoughKnown /\ NoneTooMany

\* The VMs in s that a run given f as --force counts, and that they are no
\* more than the pool needs, or one more while there is a VM to replace.
Stock(s, f) == {i \in Index : s[i] # "absent" /\ (f \/ s[i] # "deleting")}
Fits(s, f) ==
    \/ Cardinality(Stock(s, f)) <= Count
    \/ /\ Cardinality(Stock(s, f)) <= Count + 1
       /\ f \/ \E i \in Index : s[i] \in OldStates

\* If the runs agree on --force, none leaves more VMs than the pool needs but
\* for the extra one, and a listing shows none.
NotOverfull == agreed => Fits(vm, force) /\ (pc = "scan" => Fits(snap, force))

\* What agentVMs holds is what it holds as upgraded and as to be replaced.
LEMMA KnownCounts ==
    /\ Upgraded \union NotUpgraded \in SUBSET Index
    /\ Cardinality(Upgraded \union NotUpgraded) = Known
    /\ Known \in Nat
<1>1. Upgraded \in SUBSET Index /\ NotUpgraded \in SUBSET Index
    BY DEF Upgraded, NotUpgraded
<1>2. Upgraded \intersect NotUpgraded = {}
    BY DEF Upgraded, NotUpgraded
<1> QED BY <1>1, <1>2, DisjointSum, IndexSets DEF Known

\* The first loop starts with no more VMs than it would create.
LEMMA ListedFit ==
    ASSUME PoolInv, Truth, Fits(snap, force), NoteAgentVMs
    PROVE  Known' <= AgentCount'
<1>1. /\ pc = "scan" /\ toBe' = Cardinality(AgentVMs)
      /\ view' = [i \in Index |-> IF i \in AgentVMs THEN "notUpgraded" ELSE view[i]]
    BY DEF NoteAgentVMs
<1>2. (Upgraded \union NotUpgraded)' \subseteq Stock(snap, force)
    BY <1>1 DEF Upgraded, NotUpgraded, Stock, AgentVMs, PoolInv, ScanComplete, Truth, ListingTrue,
       OldStates
<1>3. Stock(snap, force) \in SUBSET Index
    BY DEF Stock
<1>4. /\ Cardinality((Upgraded \union NotUpgraded)') <= Cardinality(Stock(snap, force))
      /\ Cardinality(Stock(snap, force)) \in Nat
    BY <1>2, <1>3, NotMore, IndexSets
<1>5. Known' <= Cardinality(Stock(snap, force)) /\ Known' \in Nat
    <2>1. Upgraded' \in SUBSET Index /\ NotUpgraded' \in SUBSET Index
        BY DEF Upgraded, NotUpgraded
    <2>2. Upgraded' \intersect NotUpgraded' = {}
        BY DEF Upgraded, NotUpgraded
    <2>3. Cardinality((Upgraded \union NotUpgraded)') = Known' /\ Known' \in Nat
        BY <2>1, <2>2, DisjointSum, IndexSets DEF Known
    <2> QED BY <1>4, <2>3
<1>6. Cardinality(AgentVMs) \in Nat /\ (Cardinality(AgentVMs) = 0 => AgentVMs = {})
    BY AgentVMsCounted
<1>7. CASE Cardinality(AgentVMs) > 0
    <2>1. AgentCount' = Count + 1
        BY <1>1, <1>7 DEF AgentCount
    <2> QED BY <1>4, <1>5, <2>1, PoolAssumption DEF Fits
<1>8. CASE Cardinality(AgentVMs) = 0
    <2>1. AgentCount' = Count
        BY <1>1, <1>8 DEF AgentCount
    <2>2. AgentVMs = {}
        BY <1>6, <1>8
    <2>3. CASE force
        <3>1. Stock(snap, force) = {}
            BY <2>2, <2>3 DEF AgentVMs, Stock
        <3>2. Cardinality(Stock(snap, force)) = 0
            BY <3>1, FS_EmptySet
        <3> QED BY <1>5, <2>1, <3>2, PoolAssumption
    <2>4. CASE ~force
        <3>1. \A i \in Index : snap[i] \notin OldStates
            BY <2>2 DEF AgentVMs
        <3>2. Cardinality(Stock(snap, force)) <= Count
            BY <2>4, <3>1 DEF Fits
        <3> QED BY <1>4, <1>5, <2>1, <3>2, PoolAssumption
    <2> QED BY <2>3, <2>4
<1> QED BY <1>6, <1>7, <1>8

\* The counters follow the map through every step of the two loops.
LEMMA CountedStep == PoolInv /\ Truth /\ NotOverfull /\ Counted /\ [Next]_vars => Counted'
<1> SUFFICES ASSUME PoolInv, Truth, NotOverfull, Counted, [Next]_vars PROVE Counted'
    OBVIOUS
<1>a. /\ Upgraded \in SUBSET Index /\ NotUpgraded \in SUBSET Index
      /\ Cardinality(Upgraded) \in Nat /\ Cardinality(NotUpgraded) \in Nat
      /\ Cardinality(NotUpgraded) = 0 <=> NotUpgraded = {}
    <2>1. Upgraded \in SUBSET Index /\ NotUpgraded \in SUBSET Index
        BY DEF Upgraded, NotUpgraded
    <2> QED BY <2>1, IndexSets
<1>b. upCount \in Nat /\ toBe \in Nat /\ cur \in Index /\ view \in [Index -> VMStatus] /\ Count \in Nat
    BY PoolAssumption DEF PoolInv, TypeOK
<1>c. ASSUME UNCHANGED <<view, upCount, toBe, agreed>>,
             pc' = pc \/ pc' \in {"idle", "success"}
      PROVE  Counted'
    <2>1. Upgraded' = Upgraded /\ NotUpgraded' = NotUpgraded /\ AgentCount' = AgentCount
        BY <1>c DEF Upgraded, NotUpgraded, AgentCount
    <2>2. Known' = Known /\ Spare' = Spare
        BY <2>1 DEF Known, Spare
    <2> QED BY <1>c, <2>1, <2>2 DEF Counted, CountersRight, EnoughKnown, NoneTooMany, Replacing
<1>d. ASSUME pc' = "idle" PROVE Counted'
    BY <1>d DEF Counted, CountersRight, EnoughKnown, NoneTooMany, Replacing
<1>1. CASE ListVirtualMachines
    <2>1. Upgraded' = {} /\ upCount' = 0 /\ pc' = "scan"
        BY <1>1 DEF ListVirtualMachines, Upgraded
    <2> QED BY <2>1, FS_EmptySet DEF Counted, CountersRight, EnoughKnown, NoneTooMany, Replacing
<1>2. CASE NoteAgentVMs
    <2>1. Upgraded' = Upgraded
        BY <1>2, <1>b DEF NoteAgentVMs, Upgraded, AgentVMs, Truth, ListingTrue, OldStates
    <2>2. NotUpgraded' = AgentVMs
        BY <1>2, <1>b DEF NoteAgentVMs, NotUpgraded, AgentVMs, PoolInv, ScanComplete
    <2>3. /\ pc = "scan" /\ pc' = "fill" /\ upCount' = upCount
          /\ toBe' = Cardinality(AgentVMs) /\ agreed' = agreed
        BY <1>2 DEF NoteAgentVMs, ghost
    <2>4. Known' = upCount' + toBe'
        BY <2>1, <2>2, <2>3 DEF Counted, CountersRight, Known
    <2>5. agreed => Known' <= AgentCount'
        BY <1>2, <2>3, ListedFit DEF NotOverfull
    <2>6. NoneTooMany'
        BY <2>3, <2>4, <2>5 DEF NoneTooMany, Replacing
    <2> QED BY <2>1, <2>2, <2>3, <2>6 DEF Counted, CountersRight, EnoughKnown, Replacing
<1>3. CASE CreateMissing
    <2>1. /\ pc = "fill" /\ pc' = "validateNew" /\ upCount + toBe < AgentCount
          /\ view' = view /\ upCount' = upCount /\ toBe' = toBe /\ agreed' = agreed
        BY <1>3 DEF CreateMissing, ghost
    <2>2. Upgraded' = Upgraded /\ NotUpgraded' = NotUpgraded /\ AgentCount' = AgentCount
        BY <2>1 DEF Upgraded, NotUpgraded, AgentCount
    <2> QED BY <2>1, <2>2 DEF Counted, CountersRight, EnoughKnown, NoneTooMany, Replacing
<1>4. CASE ValidateNew
    <2>1. /\ pc = "validateNew" /\ pc' = "fill" /\ upCount' = upCount + 1 /\ toBe' = toBe
          /\ view' = [view EXCEPT ![cur] = "upgraded"] /\ view[cur] = "none"
        BY <1>4 DEF ValidateNew, Truth, NewInHand
    <2>2. Upgraded' = Upgraded \union {cur} /\ cur \notin Upgraded /\ NotUpgraded' = NotUpgraded
        BY <1>b, <2>1 DEF Upgraded, NotUpgraded
    <2>3. Cardinality(Upgraded') = Cardinality(Upgraded) + 1
        BY <1>a, <1>b, <2>2, OneMore
    <2>4. upCount' + toBe' <= AgentCount'
        <3>1. AgentCount' = AgentCount /\ AgentCount \in Nat
            BY <1>b, <2>1 DEF AgentCount
        <3>2. upCount + toBe < AgentCount
            BY <2>1 DEF Counted, CountersRight
        <3> QED BY <1>b, <2>1, <3>1, <3>2
    <2> QED BY <2>1, <2>2, <2>3, <2>4 DEF Counted, CountersRight, EnoughKnown, NoneTooMany, Replacing
<1>5. CASE Filled
    <2>1. /\ pc = "fill" /\ pc' \in {"success", "upgrade"} /\ upCount' = 0 /\ toBe' = toBe
          /\ view' = view /\ upCount + toBe >= AgentCount
          /\ toBe = 0 => pc' = "success"
          /\ agreed' = agreed
        BY <1>5 DEF Filled, ghost
    <2>2. Upgraded' = Upgraded /\ NotUpgraded' = NotUpgraded
        BY <2>1 DEF Upgraded, NotUpgraded
    <2>3. Known = upCount + toBe /\ toBe = Cardinality(NotUpgraded)
        BY <2>1 DEF Known, Counted, CountersRight
    <2>4. toBe > 0 => AgentCount = Count + Spare
        BY <1>a, <2>3 DEF AgentCount, Spare
    <2>5. Known' = Known /\ Spare' = Spare
        BY <2>2 DEF Known, Spare
    <2>6. CountersRight'
        BY <1>a, <2>1, <2>2, <2>3 DEF CountersRight, Replacing
    <2>7. EnoughKnown'
        BY <1>b, <2>1, <2>3, <2>4, <2>5 DEF EnoughKnown, Replacing
    <2>8. NoneTooMany'
        BY <1>b, <2>1, <2>3, <2>4, <2>5 DEF Counted, NoneTooMany, Replacing
    <2> QED BY <2>6, <2>7, <2>8 DEF Counted
<1>6. CASE CopyProperties \/ CopyAgain
    <2>1. /\ pc = pc' \/ (pc \in {"upgrade", "copy"} /\ pc' \in {"copy", "delete"})
          /\ view' = view /\ upCount' = upCount /\ toBe' = toBe /\ agreed' = agreed
        BY <1>6, CopyStep
    <2>2. Upgraded' = Upgraded /\ NotUpgraded' = NotUpgraded /\ AgentCount' = AgentCount
        BY <2>1 DEF Upgraded, NotUpgraded, AgentCount
    <2>3. Known' = Known /\ Spare' = Spare
        BY <2>2 DEF Known, Spare
    <2> QED BY <2>1, <2>2, <2>3 DEF Counted, CountersRight, EnoughKnown, NoneTooMany, Replacing
<1>7. CASE DeleteOld
    <2>1. pc = "delete" /\ toBe' = toBe /\ cur \in NotUpgraded /\ agreed' = agreed
        BY <1>7, <1>b DEF DeleteOld, PoolInv, InHand, NotUpgraded, ghost
    <2>2. /\ Cardinality(NotUpgraded) + upCount = toBe /\ Cardinality(NotUpgraded) >= 1
          /\ Spare = 1 /\ Known >= Count + 1 /\ (agreed => Known <= Count + 1)
        BY <1>a, <2>1 DEF Counted, CountersRight, EnoughKnown, NoneTooMany, Replacing, Spare
    <2>3. CASE upCount = toBe - 1
        <3>1. /\ view' = [view EXCEPT ![cur] = "none"] /\ upCount' = upCount + 1
              /\ pc' = "upgrade"
            BY <1>7, <2>3 DEF DeleteOld
        <3>2. Upgraded' = Upgraded /\ NotUpgraded' = NotUpgraded \ {cur}
            BY <1>b, <2>1, <3>1 DEF Upgraded, NotUpgraded
        <3>3. Cardinality(NotUpgraded') = Cardinality(NotUpgraded) - 1
            BY <1>a, <2>1, <3>2, OneLess
        <3>4. Cardinality(NotUpgraded') = 0
            BY <1>a, <1>b, <2>2, <2>3, <3>3
        <3>5. NotUpgraded' = {}
            <4>1. NotUpgraded' \in SUBSET Index
                BY <1>a, <3>2
            <4> QED BY <3>4, <4>1, IndexSets
        <3>6. Known' = Known - 1 /\ Spare' = 0
            BY <1>a, <3>2, <3>3, <3>5 DEF Known, Spare
        <3>7. Known \in Nat
            BY <1>a DEF Known
        <3> QED BY <1>a, <1>b, <2>1, <2>2, <3>1, <3>2, <3>3, <3>6, <3>7 DEF Counted, CountersRight,
                   EnoughKnown, NoneTooMany, Replacing
    <2>4. CASE upCount # toBe - 1
        <3>1. view' = view /\ upCount' = upCount /\ pc' = "recreate"
            BY <1>7, <2>4 DEF DeleteOld
        <3>2. Upgraded' = Upgraded /\ NotUpgraded' = NotUpgraded
            BY <3>1 DEF Upgraded, NotUpgraded
        <3>3. Known' = Known /\ Spare' = Spare
            BY <3>2 DEF Known, Spare
        <3>4. upCount + 2 <= toBe
            BY <1>a, <1>b, <2>2, <2>4
        <3> QED BY <2>1, <2>2, <3>1, <3>2, <3>3, <3>4 DEF Counted, CountersRight, EnoughKnown,
                   NoneTooMany, Replacing
    <2> QED BY <2>3, <2>4
<1>8. CASE DeleteNotFound
    BY <1>d, <1>8 DEF DeleteNotFound
<1>9. CASE CreateAgain
    <2>1. /\ pc = "recreate" /\ pc' = "validate" /\ view' = view /\ upCount' = upCount /\ toBe' = toBe
          /\ agreed' = agreed
        BY <1>9 DEF CreateAgain, local, ghost
    <2>2. Upgraded' = Upgraded /\ NotUpgraded' = NotUpgraded /\ AgentCount' = AgentCount
        BY <2>1 DEF Upgraded, NotUpgraded, AgentCount
    <2>3. Known' = Known /\ Spare' = Spare
        BY <2>2 DEF Known, Spare
    <2> QED BY <2>1, <2>2, <2>3 DEF Counted, CountersRight, EnoughKnown, NoneTooMany, Replacing
<1>10. CASE Validate
    <2>1. /\ pc = "validate" /\ pc' = "upgrade" /\ upCount' = upCount + 1 /\ toBe' = toBe
          /\ view' = [view EXCEPT ![cur] = "upgraded"] /\ view[cur] = "notUpgraded"
          /\ agreed' = agreed
        BY <1>10 DEF Validate, PoolInv, InHand, ghost
    <2>2. /\ Upgraded' = Upgraded \union {cur} /\ cur \notin Upgraded
          /\ NotUpgraded' = NotUpgraded \ {cur} /\ cur \in NotUpgraded
        BY <1>b, <2>1 DEF Upgraded, NotUpgraded
    <2>3. /\ Cardinality(Upgraded') = Cardinality(Upgraded) + 1
          /\ Cardinality(NotUpgraded') = Cardinality(NotUpgraded) - 1
        BY <1>a, <1>b, <2>2, OneMore, OneLess
    <2>4. Known' = Known /\ Spare = 1
        BY <1>a, <2>2, <2>3 DEF Known, Spare
    <2>5. CountersRight'
        BY <1>a, <1>b, <2>1, <2>3 DEF Counted, CountersRight, Replacing
    <2>6. Spare' = 1
        <3>1. Cardinality(NotUpgraded') >= 1
            BY <1>a, <1>b, <2>1, <2>3 DEF Counted, CountersRight, Replacing
        <3>2. NotUpgraded' # {}
            BY <3>1, FS_EmptySet
        <3> QED BY <3>2 DEF Spare
    <2> QED BY <2>1, <2>4, <2>5, <2>6 DEF Counted, EnoughKnown, NoneTooMany, Replacing
<1>11. CASE PoolUpgraded
    BY <1>c, <1>11 DEF PoolUpgraded, local, ghost
<1>12. CASE Scan
    <2>1. PICK i \in Index : CountUpgraded(i) \/ DeleteFailed(i) \/ Ignore(i)
        BY <1>12 DEF Scan
    <2>2. CASE CountUpgraded(i)
        <3>1. /\ pc = "scan" /\ pc' = "scan" /\ upCount' = upCount + 1
              /\ view' = [view EXCEPT ![i] = "upgraded"] /\ view[i] = "none"
            BY <2>2 DEF CountUpgraded, Truth, ListingTrue
        <3>2. Upgraded' = Upgraded \union {i} /\ i \notin Upgraded
            BY <1>b, <3>1 DEF Upgraded
        <3>3. Cardinality(Upgraded') = Cardinality(Upgraded) + 1
            BY <1>a, <3>2, OneMore
        <3> QED BY <3>1, <3>3 DEF Counted, CountersRight, EnoughKnown, NoneTooMany, Replacing
    <2>3. CASE DeleteFailed(i)
        BY <1>c, <2>3 DEF DeleteFailed, ghost
    <2>4. CASE Ignore(i)
        <3>1. /\ pc = "scan" /\ pc' = "scan" /\ upCount' = upCount
              /\ view' = [view EXCEPT ![i] = "ignored"] /\ view[i] = "none"
            BY <2>4 DEF Ignore, Truth, ListingTrue
        <3>2. Upgraded' = Upgraded
            BY <1>b, <3>1 DEF Upgraded
        <3> QED BY <3>1, <3>2 DEF Counted, CountersRight, EnoughKnown, NoneTooMany, Replacing
    <2> QED BY <2>1, <2>2, <2>3, <2>4
<1>13. CASE Abort
    BY <1>d, <1>13 DEF Abort
<1>14. ASSUME NEW i \in Index, BecomesReady(i) \/ Settles(i) PROVE Counted'
    BY <1>c, <1>14 DEF BecomesReady, Settles, local, ghost
<1>15. CASE UNCHANGED vars
    BY <1>c, <1>15 DEF vars, local, ghost
<1> QED BY <1>1, <1>2, <1>3, <1>4, <1>5, <1>6, <1>7, <1>8, <1>9, <1>10, <1>11, <1>12, <1>13, <1>14,
           <1>15
        DEF Next, Command, Finish

\* Taking a VM away keeps the pool within its size: the VM to replace that
\* allowed one more is still there, or is the one that has gone.
LEMMA FitsWithout ==
    ASSUME NEW s, NEW t, NEW f, Fits(s, f), Stock(t, f) \subseteq Stock(s, f),
           \/ \A i \in Index : s[i] \in OldStates => t[i] \in OldStates
           \/ \E i \in Index : s[i] \in OldStates /\ t[i] = "absent"
    PROVE  Fits(t, f)
<1>1. Stock(s, f) \in SUBSET Index /\ Stock(t, f) \in SUBSET Index
    BY DEF Stock
<1>2. /\ Cardinality(Stock(t, f)) <= Cardinality(Stock(s, f))
      /\ Cardinality(Stock(s, f)) \in Nat /\ Cardinality(Stock(t, f)) \in Nat
    BY <1>1, NotMore, IndexSets
<1>3. CASE \A i \in Index : s[i] \in OldStates => t[i] \in OldStates
    BY <1>2, <1>3, PoolAssumption DEF Fits
<1>4. ASSUME NEW i \in Index, s[i] \in OldStates, t[i] = "absent"
      PROVE  Fits(t, f)
    <2>1. i \in Stock(s, f) /\ Stock(t, f) \in SUBSET (Stock(s, f) \ {i})
        BY <1>4 DEF Stock, OldStates
    <2>2. Cardinality(Stock(s, f) \ {i}) = Cardinality(Stock(s, f)) - 1
        BY <1>1, <2>1, OneLess
    <2>3. Stock(s, f) \ {i} \in SUBSET Index
        BY <1>1
    <2>4. Cardinality(Stock(t, f)) <= Cardinality(Stock(s, f) \ {i})
        BY <2>1, <2>3, NotMore
    <2> QED BY <1>2, <2>2, <2>4, PoolAssumption DEF Fits
<1> QED BY <1>3, <1>4

\* A deployment keeps the pool within its size, however it ends: agentVMs
\* holds every VM that counts, and too few of them.
LEMMA FitsWithNew ==
    ASSUME PoolInv, Truth, Counted, agreed, NEW j \in Index, NEW a \in Alive,
           \/ pc = "fill" /\ upCount + toBe < AgentCount /\ j = AvailableIndex
           \/ pc = "recreate" /\ j = cur
    PROVE  Fits([vm EXCEPT ![j] = a], force)
<1> DEFINE t == [vm EXCEPT ![j] = a]
           K == Upgraded \union NotUpgraded
<1>1. K \in SUBSET Index /\ Cardinality(K) = Known /\ Known \in Nat
    BY KnownCounts
<1>2. Count \in Nat /\ upCount \in Nat /\ toBe \in Nat /\ vm \in [Index -> VMStates] /\ force \in BOOLEAN
    BY PoolAssumption DEF PoolInv, TypeOK
<1>3. Stock(t, force) \in SUBSET (K \union {j}) /\ Stock(t, force) \in SUBSET Index
    BY <1>2 DEF Stock, Upgraded, NotUpgraded, PoolInv, ViewComplete, Truth, ViewTrue, Loops,
       VMStatus, TypeOK
<1>4. ASSUME NEW k \in NotUpgraded, k # j, ~force
      PROVE  t[k] \in OldStates \/ k \notin Stock(t, force)
    <2>1. k \notin InDoubt /\ k \in Index /\ pc \in Loops /\ view[k] = "notUpgraded"
        BY <1>4 DEF InDoubt, Loops, NotUpgraded
    <2>2. vm[k] \in OldStates \union {"absent"}
        BY <1>4, <2>1 DEF Truth, ViewTrue
    <2> QED BY <1>2, <1>4, <2>1, <2>2 DEF Stock
<1>5. CASE pc = "fill" /\ upCount + toBe < AgentCount /\ j = AvailableIndex
    <2>1. j \notin K /\ Known = upCount + toBe /\ toBe = Cardinality(NotUpgraded)
        BY <1>5, AvailableIndexIsFree DEF InUse, Upgraded, NotUpgraded, Counted, CountersRight, Known
    <2>2. Cardinality(K \union {j}) = Known + 1 /\ K \union {j} \in SUBSET Index
        BY <1>1, <2>1, OneMore
    <2>3. Cardinality(Stock(t, force)) <= Known + 1 /\ Cardinality(Stock(t, force)) \in Nat
        BY <1>3, <2>2, NotMore, IndexSets
    <2>4. CASE toBe = 0
        BY <1>1, <1>2, <1>5, <2>1, <2>3, <2>4 DEF AgentCount, Fits
    <2>5. CASE toBe # 0
        <3>1. Known + 1 <= Count + 1
            BY <1>1, <1>2, <1>5, <2>1, <2>5 DEF AgentCount
        <3>2. PICK k \in NotUpgraded : TRUE
            BY <2>1, <2>5, FS_EmptySet
        <3>3. CASE force \/ t[k] \in OldStates
            BY <1>1, <1>2, <2>3, <3>1, <3>2, <3>3 DEF Fits, NotUpgraded
        <3>4. CASE ~force /\ t[k] \notin OldStates
            <4>1. k \in K \union {j} /\ k # j
                BY <2>1, <3>2
            <4>2. Stock(t, force) \in SUBSET ((K \union {j}) \ {k})
                BY <1>3, <1>4, <3>4, <4>1
            <4>3. Cardinality((K \union {j}) \ {k}) = Known
                BY <1>1, <2>2, <4>1, OneLess
            <4>4. (K \union {j}) \ {k} \in SUBSET Index
                BY <2>2
            <4>5. Cardinality(Stock(t, force)) <= Known
                BY <4>2, <4>3, <4>4, NotMore
            <4> QED BY <1>1, <1>2, <2>3, <3>1, <4>5 DEF Fits
        <3> QED BY <3>3, <3>4
    <2> QED BY <2>4, <2>5
<1>6. CASE pc = "recreate" /\ j = cur
    <2>1. cur \in NotUpgraded
        BY <1>6 DEF PoolInv, InHand, NotUpgraded
    <2>2. Known <= Count + 1 /\ Cardinality(NotUpgraded) + upCount = toBe /\ upCount + 2 <= toBe
        BY <1>6, <2>1 DEF Counted, CountersRight, NoneTooMany, Replacing, Spare
    <2>3. Stock(t, force) \in SUBSET K
        BY <1>3, <1>6, <2>1
    <2>4. Cardinality(Stock(t, force)) <= Known /\ Cardinality(Stock(t, force)) \in Nat
        BY <1>1, <1>3, <2>3, NotMore, IndexSets
    <2>5. PICK k \in NotUpgraded : k # cur
        <3>1. NotUpgraded \in SUBSET Index
            BY DEF NotUpgraded
        <3>2. Cardinality(NotUpgraded \ {cur}) = Cardinality(NotUpgraded) - 1 /\ Cardinality(NotUpgraded) \in Nat
            BY <2>1, <3>1, OneLess, IndexSets
        <3>3. Cardinality(NotUpgraded \ {cur}) # 0
            BY <1>2, <2>2, <3>2
        <3>4. NotUpgraded \ {cur} # {}
            BY <3>3, FS_EmptySet
        <3> QED BY <3>4
    <2>6. CASE force \/ t[k] \in OldStates
        BY <1>1, <1>2, <2>2, <2>4, <2>5, <2>6 DEF Fits, NotUpgraded
    <2>7. CASE ~force /\ t[k] \notin OldStates
        <3>1. Stock(t, force) \in SUBSET (K \ {k}) /\ k \in K
            BY <1>4, <1>6, <2>3, <2>5, <2>7
        <3>2. Cardinality(K \ {k}) = Known - 1
            BY <1>1, <3>1, OneLess
        <3>3. K \ {k} \in SUBSET Index
            BY <1>1
        <3>4. Cardinality(Stock(t, force)) <= Known - 1
            BY <3>1, <3>2, <3>3, NotMore
        <3> QED BY <1>1, <1>2, <2>2, <2>4, <3>4 DEF Fits
    <2> QED BY <2>6, <2>7
<1> QED BY <1>5, <1>6

\* No step leaves more VMs than the pool needs.
LEMMA FitsStep ==
    ASSUME PoolInv, Truth, Counted, NotOverfull, [Next]_vars, agreed'
    PROVE  Fits(vm', force')
<1>a. agreed => Fits(vm, force)
    BY DEF NotOverfull
<1>b. ASSUME vm' = vm, force' = force, agreed' = agreed
      PROVE  Fits(vm', force')
    BY <1>a, <1>b
<1>c. vm \in [Index -> VMStates] /\ todo \subseteq Index /\ cur \in Index
    BY DEF PoolInv, TypeOK
<1>d. ASSUME NEW i \in Index, vm' = [vm EXCEPT ![i] = "absent"], force' = force, agreed' = agreed
      PROVE  Fits(vm', force')
    <2>1. Fits(vm, force)
        BY <1>a, <1>d
    <2>2. Stock(vm', force) \subseteq Stock(vm, force)
        BY <1>d, <1>c DEF Stock
    <2>3. \/ \A k \in Index : vm[k] \in OldStates => vm'[k] \in OldStates
          \/ \E k \in Index : vm[k] \in OldStates /\ vm'[k] = "absent"
        BY <1>d, <1>c
    <2> QED BY <1>d, <2>1, <2>2, <2>3, FitsWithout
<1>1. CASE ListVirtualMachines
    <2>1. vm' = vm /\ agreed /\ force' = force
        BY <1>1 DEF ListVirtualMachines, cloud
    <2> QED BY <1>a, <2>1
<1>2. CASE NoteAgentVMs
    BY <1>b, <1>2 DEF NoteAgentVMs, cloud, local, copying, ghost
<1>3. CASE CreateMissing
    <2>1. /\ pc = "fill" /\ upCount + toBe < AgentCount /\ AvailableIndex <= MaxIndex
          /\ vm' = [vm EXCEPT ![AvailableIndex] = "succeeded"] /\ force' = force /\ agreed' = agreed
        BY <1>3 DEF CreateMissing, Created, ghost
    <2>2. AvailableIndex \in Index
        BY <2>1, AvailableIndexIsFree, PoolAssumption DEF Index
    <2> QED BY <2>1, <2>2, FitsWithNew DEF Alive
<1>4. CASE ValidateNew
    BY <1>b, <1>4 DEF ValidateNew, cloud, local, copying, ghost
<1>5. CASE Filled
    BY <1>b, <1>5 DEF Filled, cloud, local, copying, ghost
<1>6. CASE CopyProperties \/ CopyAgain
    BY <1>b, <1>6, CopyStep
<1>7. CASE DeleteOld
    <2>1. vm' = [vm EXCEPT ![cur] = "absent"] /\ force' = force /\ agreed' = agreed
        BY <1>7 DEF DeleteOld, Removed, ghost
    <2> QED BY <1>d, <2>1, <1>c
<1>8. CASE DeleteNotFound
    BY <1>b, <1>8 DEF DeleteNotFound, Forgotten, cloud, local, copying, ghost
<1>9. CASE CreateAgain
    <2>1. /\ pc = "recreate" /\ vm' = [vm EXCEPT ![cur] = "succeeded"]
          /\ force' = force /\ agreed' = agreed
        BY <1>9 DEF CreateAgain, Created, local, ghost
    <2> QED BY <1>c, <2>1, FitsWithNew DEF Alive
<1>10. CASE Validate
    BY <1>b, <1>10 DEF Validate, cloud, ghost
<1>11. CASE PoolUpgraded
    BY <1>b, <1>11 DEF PoolUpgraded, cloud, local, copying, ghost
<1>12. CASE Scan
    <2>1. PICK i \in Index : CountUpgraded(i) \/ DeleteFailed(i) \/ Ignore(i)
        BY <1>12 DEF Scan
    <2>2. CASE CountUpgraded(i) \/ Ignore(i)
        BY <1>b, <2>2 DEF CountUpgraded, Ignore, cloud, ghost
    <2>3. CASE DeleteFailed(i)
        <3>1. vm' = [vm EXCEPT ![i] = "absent"] /\ force' = force /\ agreed' = agreed
            BY <2>3 DEF DeleteFailed, Removed, ghost
        <3> QED BY <1>d, <3>1
    <2> QED BY <2>1, <2>2, <2>3
<1>13. CASE Abort
    <2>1. force' = force /\ agreed' = agreed
        BY <1>13 DEF Abort, Forgotten
    <2>2. ASSUME NEW i \in Index, HalfDeleted(i), vm[i] # "absent"
          PROVE  Fits(vm', force')
        <3>1. CASE vm' = [vm EXCEPT ![i] = "absent"]
            BY <1>d, <2>1, <3>1
        <3>2. CASE vm' = [vm EXCEPT ![i] = Deleting(i)]
            <4>1. Fits(vm, force)
                BY <1>a, <2>1
            <4>2. Stock(vm', force) \subseteq Stock(vm, force)
                BY <1>c, <2>2, <3>2 DEF Stock, Deleting, OldStates
            <4>3. \A k \in Index : vm[k] \in OldStates => vm'[k] \in OldStates
                BY <1>c, <3>2 DEF Deleting, OldStates
            <4> QED BY <2>1, <4>1, <4>2, <4>3, FitsWithout
        <3> QED BY <2>2, <3>1, <3>2 DEF HalfDeleted, Removed
    <2>3. ASSUME NEW i \in Index, HalfCreated(i),
                 \/ pc = "fill" /\ upCount + toBe < AgentCount /\ i = AvailableIndex
                 \/ pc = "recreate" /\ i = cur
          PROVE  Fits(vm', force')
        <3>1. PICK a \in Alive : vm' = [vm EXCEPT ![i] = a]
            BY <2>3 DEF HalfCreated, Created, Alive
        <3> QED BY <2>1, <2>3, <3>1, FitsWithNew
    <2>4. CASE UNCHANGED cloud \/ HalfCopied \/ UNCHANGED <<vm, ready, props>>
        <3>1. vm' = vm
            BY <2>4 DEF cloud, HalfCopied
        <3> QED BY <1>b, <2>1, <3>1
    <2>5. CASE pc = "scan" /\ \E i \in todo : snap[i] = "failed" /\ vm[i] # "absent" /\ HalfDeleted(i)
        BY <1>c, <2>2, <2>5
    <2>6. CASE /\ pc = "fill" /\ upCount + toBe < AgentCount
               /\ AvailableIndex <= MaxIndex /\ HalfCreated(AvailableIndex)
        <3>1. AvailableIndex \in Index
            BY <2>6, AvailableIndexIsFree, PoolAssumption DEF Index
        <3> QED BY <2>3, <2>6, <3>1
    <2>7. CASE pc \in {"validateNew", "validate"} /\ ~ready[cur] /\ HalfDeleted(cur)
        <3>1. vm[cur] # "absent"
            BY <2>7 DEF Truth, NewInHand
        <3> QED BY <1>c, <2>2, <2>7, <3>1
    <2>8. CASE pc = "delete" /\ vm[cur] # "absent" /\ HalfDeleted(cur)
        BY <1>c, <2>2, <2>8
    <2>9. CASE pc = "recreate" /\ HalfCreated(cur)
        BY <1>c, <2>3, <2>9
    <2> QED BY <1>13, <2>4, <2>5, <2>6, <2>7, <2>8, <2>9 DEF Abort, LeftBehind
<1>14. ASSUME NEW i \in Index, BecomesReady(i) \/ Settles(i)
       PROVE  Fits(vm', force')
    <2>1. force' = force /\ agreed' = agreed /\ Fits(vm, force)
        BY <1>a, <1>14 DEF BecomesReady, Settles, local, ghost
    <2>2. CASE BecomesReady(i)
        BY <2>1, <2>2 DEF BecomesReady
    <2>3. CASE vm[i] = "creating" /\ vm' \in {[vm EXCEPT ![i] = s] : s \in {"succeeded", "failed"}}
        <3>1. Stock(vm', force) \subseteq Stock(vm, force)
            BY <1>c, <2>3 DEF Stock
        <3>2. \A k \in Index : vm[k] \in OldStates => vm'[k] \in OldStates
            BY <1>c, <2>3 DEF OldStates
        <3> QED BY <2>1, <3>1, <3>2, FitsWithout
    <2>4. CASE vm' = [vm EXCEPT ![i] = "absent"]
        BY <1>d, <2>1, <2>4
    <2> QED BY <1>14, <2>2, <2>3, <2>4 DEF Settles
<1>15. CASE UNCHANGED vars
    <2>1. vm' = vm /\ force' = force /\ agreed' = agreed
        BY <1>15 DEF vars, cloud, local, copying, ghost
    <2> QED BY <1>b, <2>1
<1> QED BY <1>1, <1>2, <1>3, <1>4, <1>5, <1>6, <1>7, <1>8, <1>9, <1>10, <1>11, <1>12, <1>13, <1>14,
           <1>15
        DEF Next, Command, Finish

\* A listing is as long as the pool allows, since it shows what there is.
LEMMA NotOverfullStep ==
    ASSUME PoolInv, Truth, Counted, NotOverfull, [Next]_vars
    PROVE  NotOverfull'
<1>1. SUFFICES ASSUME agreed' PROVE Fits(vm', force') /\ (pc' = "scan" => Fits(snap', force'))
    BY DEF NotOverfull
<1>2. Fits(vm', force')
    BY <1>1, FitsStep
<1>3. CASE ListVirtualMachines
    <2>1. snap' = vm /\ vm' = vm
        BY <1>3 DEF ListVirtualMachines, cloud
    <2> QED BY <1>2, <2>1
<1>4. CASE ~ListVirtualMachines /\ pc' = "scan"
    <2>1. pc = "scan" /\ snap' = snap /\ force' = force /\ agreed' = agreed
        BY <1>4, CopyStep DEF Next, Command, Finish, Scan, CountUpgraded, DeleteFailed, Ignore, NoteAgentVMs,
            CreateMissing, ValidateNew, Filled, DeleteOld, DeleteNotFound, CreateAgain,
            Validate, PoolUpgraded, Abort, BecomesReady, Settles, vars, local, ghost
    <2> QED BY <1>1, <1>2, <2>1 DEF NotOverfull
<1> QED BY <1>2, <1>3, <1>4

\* The counters and the size of the pool are right throughout.
LEMMA InductiveCounts == Spec => [](Truth /\ Counted /\ NotOverfull)
<1>1. Init => Truth /\ Counted
    BY DEF Init, Truth, ReadyExists, ListingTrue, ViewTrue, NewInHand, Loops,
           Counted, CountersRight, EnoughKnown, NoneTooMany, Replacing
<1>2. Init => NotOverfull
    <2> SUFFICES ASSUME Init PROVE Fits(vm, force) /\ pc # "scan"
        BY DEF NotOverfull
    <2>1. Original \subseteq Index /\ IsFiniteSet(Original) /\ Cardinality(Original) = Count
        BY FS_Interval, PoolAssumption DEF Original, Index
    <2>2. Stock(vm, force) \in SUBSET Original
        BY DEF Init, Stock
    <2>3. Cardinality(Stock(vm, force)) <= Count
        BY <2>1, <2>2, NotMore
    <2> QED BY <2>3 DEF Init, Fits
<1>3. PoolInv /\ Truth /\ Counted /\ NotOverfull /\ [Next]_vars => (Truth /\ Counted /\ NotOverfull)'
    BY ReadyStep, ListingStep, ViewTrueStep, CountedStep, NotOverfullStep DEF Truth
<1> QED BY <1>1, <1>2, <1>3, Inductive, PTL DEF Spec

\* When agentVMs has nothing left to replace, it holds the VMs of the pool and
\* no others.
LEMMA SettledAreUpgraded ==
    ASSUME PoolInv, Truth, pc \in {"fill", "upgrade"}, NotUpgraded = {}
    PROVE  Cardinality(Settled) = Known
<1>1. Settled = Upgraded
    BY DEF Settled, Upgraded, NotUpgraded, PoolInv, TypeOK, ViewComplete, Truth, ViewTrue, Loops,
       Alive, OldStates, VMStatus
<1>2. Upgraded \in SUBSET Index
    BY DEF Upgraded
<1> QED BY <1>1, <1>2, FS_EmptySet, IndexSets DEF Known

\* An upgrade that reports success leaves as many VMs as the profile asks for,
\* whatever failed runs left and as long as the runs agree on --force: no node
\* is lost, and the extra node is not left over.
THEOREM PoolCountRestored == Spec => []SuccessRestoresCount
<1>1. Init => SuccessRestoresCount
    BY DEF Init, SuccessRestoresCount
<1>2. ASSUME PoolInv, Truth, Counted, SuccessRestoresCount, [Next]_vars
      PROVE  SuccessRestoresCount'
    <2> SUFFICES ASSUME pc' = "success", agreed' PROVE Cardinality(Settled') = Count
        BY DEF SuccessRestoresCount
    <2>1. CASE Filled
        <3>1. /\ pc = "fill" /\ toBe = 0 /\ vm' = vm /\ agreed /\ upCount + toBe >= AgentCount
            BY <2>1 DEF Filled, cloud, ghost
        <3>2. NotUpgraded = {}
            BY <1>2, <3>1 DEF PoolInv, NothingToUpgrade, NotUpgraded
        <3>3. Known = upCount + toBe /\ upCount + toBe <= AgentCount /\ AgentCount = Count
            BY <1>2, <3>1 DEF Counted, CountersRight, NoneTooMany, AgentCount, Known
        <3>4. Cardinality(Settled) = Known
            BY <1>2, <3>1, <3>2, SettledAreUpgraded
        <3>5. Settled' = Settled
            BY <3>1 DEF Settled
        <3>6. upCount \in Nat /\ toBe \in Nat /\ Count \in Nat
            BY <1>2, PoolAssumption DEF PoolInv, TypeOK
        <3> QED BY <3>1, <3>3, <3>4, <3>5, <3>6
    <2>2. CASE PoolUpgraded
        <3>1. pc = "upgrade" /\ NotUpgraded = {} /\ vm' = vm /\ agreed
            BY <2>2 DEF PoolUpgraded, cloud, ghost
        <3>2. Known >= Count + 0 /\ Known <= Count + 0 /\ Known \in Nat
            BY <1>2, <3>1, KnownCounts DEF Counted, EnoughKnown, NoneTooMany, Replacing, Spare
        <3>3. Cardinality(Settled) = Known
            BY <1>2, <3>1, SettledAreUpgraded
        <3>4. Settled' = Settled
            BY <3>1 DEF Settled
        <3> QED BY <3>2, <3>3, <3>4, PoolAssumption
    <2>3. CASE pc = "success"
        <3>1. agreed /\ (vm' = vm \/ \E i \in Index : Settles(i))
            BY <1>2, <2>3, CopyStep DEF Next, Command, Finish, ListVirtualMachines, Scan, CountUpgraded,
               DeleteFailed,
               Ignore, NoteAgentVMs, CreateMissing, ValidateNew, Filled, DeleteOld,
               DeleteNotFound, CreateAgain, Validate, PoolUpgraded, Abort, BecomesReady, Settles, vars,
               cloud, local, copying, ghost
        <3>2. Settled' = Settled
            BY <1>2, <3>1 DEF Settled, Settles, PoolInv, TypeOK
        <3> QED BY <1>2, <2>3, <3>1, <3>2 DEF SuccessRestoresCount
    <2>4. Filled \/ PoolUpgraded \/ pc = "success"
        BY <1>2, CopyStep DEF Next, Command, Finish, ListVirtualMachines, Scan, CountUpgraded, DeleteFailed,
           Ignore, NoteAgentVMs, CreateMissing, ValidateNew, DeleteOld,
           DeleteNotFound, CreateAgain, Validate, Abort, BecomesReady, Settles, vars
    <2> QED BY <2>1, <2>2, <2>3, <2>4
<1> QED BY <1>1, <1>2, Inductive, InductiveCounts, PTL DEF Spec

-----------------------------------------------------------------------------
(* The new nodes that wait for properties, and the goroutines that copy them *)

Members(s)  == {s[k] : k \in 1..Len(s)}
Distinct(s) == \A j, k \in 1..Len(s) : s[j] = s[k] => j = k

\* A node with properties is on a VM that is not being created or deleted, and so
\* is one that is cordoned.
CarriersLive ==
    \A i \in Index :
        /\ props[i] # Nobody => vm[i] \in {"old", "succeeded"} /\ i \notin InDoubt
        /\ i \in cordoned => vm[i] # "absent" /\ i \notin InDoubt

\* newCreatedVMs holds each new node once, ready and without properties.
FreshBare ==
    /\ \A x \in Members(fresh) :
          props[x] = Nobody /\ view[x] = "upgraded" /\ vm[x] = "succeeded" /\ ready[x]
    /\ Distinct(fresh)
    /\ pc \in {"idle", "scan"} => fresh = <<>>

\* A goroutine that copies does so to a new node that waits no more; its source is
\* the VM in hand, or that one's replacement.
CopierPairs ==
    /\ copiers # {} => pc \in Replacing \union {"success"}
    /\ \A c \in copiers :
          /\ view[c[2]] = "upgraded" /\ vm[c[2]] = "succeeded"
          /\ c[2] \notin Members(fresh)
          /\ view[c[1]] = "notUpgraded" => c[1] = cur /\ pc \in {"delete", "recreate", "validate"}
          /\ pc = "delete" /\ c[1] = cur => props[c[2]] \in {Nobody, props[cur]}

CopyInv == CarriersLive /\ FreshBare /\ CopierPairs

\* The elements of a sequence that grows at its end or loses its head.
LEMMA MembersAppend ==
    ASSUME NEW s \in Seq(Index), NEW x \in Index
    PROVE  /\ Members(Append(s, x)) = Members(s) \union {x}
           /\ Distinct(s) /\ x \notin Members(s) => Distinct(Append(s, x))
<1>1. /\ Len(Append(s, x)) = Len(s) + 1 /\ Len(s) \in Nat
      /\ \A k \in 1..Len(s) : Append(s, x)[k] = s[k]
      /\ Append(s, x)[Len(s) + 1] = x
    BY AppendProperties, LenProperties
<1>2. 1..(Len(s) + 1) = 1..Len(s) \union {Len(s) + 1}
    BY <1>1
<1>3. Members(Append(s, x)) = Members(s) \union {x}
    BY <1>1, <1>2 DEF Members
<1>4. ASSUME Distinct(s), x \notin Members(s) PROVE Distinct(Append(s, x))
    BY <1>1, <1>2, <1>4 DEF Members, Distinct
<1> QED BY <1>3, <1>4

LEMMA MembersTail ==
    ASSUME NEW s \in Seq(Index), s # <<>>
    PROVE  /\ Head(s) \in Members(s) /\ Head(s) \in Index
           /\ Members(Tail(s)) \subseteq Members(s)
           /\ Distinct(s) => Distinct(Tail(s)) /\ Head(s) \notin Members(Tail(s))
<1>1. /\ Len(s) \in Nat \ {0} /\ Head(s) = s[1] /\ Head(s) \in Index
      /\ Len(Tail(s)) = Len(s) - 1
      /\ \A k \in 1..Len(Tail(s)) : Tail(s)[k] = s[k + 1]
    BY HeadTailProperties, EmptySeq, LenProperties
<1>2. \A k \in 1..Len(Tail(s)) : k + 1 \in 1..Len(s) /\ k + 1 # 1
    BY <1>1
<1>3. 1 \in 1..Len(s)
    BY <1>1
<1>4. Head(s) \in Members(s) /\ Members(Tail(s)) \subseteq Members(s)
    BY <1>1, <1>2, <1>3 DEF Members
<1>5. ASSUME Distinct(s) PROVE Distinct(Tail(s)) /\ Head(s) \notin Members(Tail(s))
    <2>1. Head(s) \notin Members(Tail(s))
        BY <1>1, <1>2, <1>3, <1>5 DEF Members, Distinct
    <2>2. ASSUME NEW j \in 1..Len(Tail(s)), NEW k \in 1..Len(Tail(s)), Tail(s)[j] = Tail(s)[k]
          PROVE  j = k
        <3>1. j + 1 = k + 1
            BY <1>1, <1>2, <1>5, <2>2 DEF Distinct
        <3> QED BY <3>1
    <2> QED BY <2>1, <2>2 DEF Distinct
<1> QED BY <1>1, <1>4, <1>5

LEMMA MembersEmpty == Members(<<>>) = {} /\ Distinct(<<>>)
BY EmptySeq DEF Members, Distinct

\* A copy hands the properties of the VM in hand to one new node, which is not the
\* VM itself, or ends with nothing handed over.
LEMMA CopyCases ==
    ASSUME PoolInv, CopyInv, CopyProperties \/ CopyAgain
    PROVE  \/ /\ pc = "upgrade" /\ pc' \in {"copy", "delete"} /\ cur' \in NotUpgraded
              /\ props' = props /\ fresh' = fresh /\ copiers' = copiers
              /\ givenUp' = givenUp /\ recopied' = recopied
              /\ pc' = "delete" => cordoned' = cordoned /\ (preserve => fresh = <<>>)
              /\ pc' = "copy" => /\ Head(fresh) \in Members(fresh)
                                 /\ cordoned' \in {cordoned, cordoned \union {Head(fresh)}}
           \/ /\ pc = "copy" /\ pc' = "delete" /\ cur' = cur /\ Head(fresh) \in Members(fresh)
              /\ fresh' = Tail(fresh) /\ copiers' = copiers \union {<<cur, Head(fresh)>>}
              /\ recopied' = recopied
              /\ \/ /\ props' = Handed(Head(fresh)) /\ cordoned' = cordoned \ {Head(fresh)}
                    /\ givenUp' = givenUp
                 \/ /\ props' \in {props, Handed(Head(fresh))} /\ cordoned' = cordoned
                    /\ givenUp' = givenUp + 1
           \/ /\ pc' = pc /\ cur' = cur /\ fresh' = fresh /\ pc # "idle" /\ givenUp' = givenUp
              /\ \E c \in copiers :
                    /\ cordoned' = cordoned \ {c[2]}
                    /\ \/ /\ pc = "delete" /\ cur = c[1] /\ props' = Handed(c[2])
                          /\ copiers' = copiers /\ recopied' = recopied
                       \/ /\ props' \in {props, [props EXCEPT ![c[2]] = Nobody]}
                          /\ copiers' = copiers \ {c} /\ recopied' = recopied + 1
<1>1. fresh # <<>> => Head(fresh) \in Members(fresh)
    BY MembersTail DEF PoolInv, TypeOK
<1>2. pc = "copy" => fresh # <<>>
    BY DEF PoolInv, TypeOK
<1>3. CASE StartCopy
    BY <1>1, <1>3 DEF StartCopy, copying, ghost
<1>4. CASE CopyDone
    BY <1>1, <1>2, <1>4 DEF CopyDone, EndCopy
<1>5. CASE CopyGivenUp
    BY <1>1, <1>2, <1>5 DEF CopyGivenUp, EndCopy
<1>6. CASE CopyAgain
    BY <1>6 DEF CopyAgain, local
<1> QED BY <1>3, <1>4, <1>5, <1>6 DEF CopyProperties

\* Properties stay on VMs that are neither created nor deleted.
LEMMA CarriersStep ==
    ASSUME PoolInv, Truth, CopyInv, [Next]_vars
    PROVE  CarriersLive'
<1> USE DEF TypeOK, cloud, local, copying, ghost, VMStates, OldStates, NewStates, VMStatus, Removed, Created,
        Deleting, PoolInv, CopyInv, CarriersLive, InDoubt
<1>1. CASE ListVirtualMachines
    BY <1>1 DEF ListVirtualMachines
<1>2. CASE NoteAgentVMs
    BY <1>2 DEF NoteAgentVMs
<1>3. CASE CreateMissing
    <2>1. PICK j \in Index : j = AvailableIndex /\ view[j] = "none"
        BY <1>3, AvailableIndexIsFree, PoolAssumption DEF CreateMissing, Index, InUse
    <2>2. /\ pc = "fill" /\ pc' = "validateNew" /\ cur' = j /\ props' = props /\ cordoned' = cordoned
          /\ vm' = [vm EXCEPT ![j] = "succeeded"]
        BY <1>3, <2>1 DEF CreateMissing
    <2>3. vm[j] = "absent"
        BY <2>1, <2>2 DEF ViewComplete, Loops
    <2> QED BY <2>1, <2>2, <2>3
<1>4. CASE ValidateNew
    BY <1>4 DEF ValidateNew
<1>5. CASE Filled
    BY <1>5 DEF Filled
<1>6. CASE CopyProperties \/ CopyAgain
    <2>1. vm' = vm /\ ((pc' = pc /\ cur' = cur) \/ pc' \in {"copy", "delete"})
        BY <1>6, CopyStep
    <2>2. \A i \in Index : i \in cordoned' => i \in cordoned \/ (i \in Members(fresh) /\ pc' = "copy")
        BY <1>6, CopyCases
    <2>3. \A i \in Index : props'[i] # Nobody =>
             \/ props[i] # Nobody
             \/ pc' = "delete" /\ (i \in Members(fresh) \/ \E c \in copiers : i = c[2])
        BY <1>6, CopyCases DEF Handed
    <2> QED BY <2>1, <2>2, <2>3 DEF FreshBare, CopierPairs
<1>7. CASE DeleteOld
    BY <1>7 DEF DeleteOld
<1>8. CASE DeleteNotFound
    BY <1>8 DEF DeleteNotFound
<1>9. CASE CreateAgain
    BY <1>9 DEF CreateAgain
<1>10. CASE Validate
    BY <1>10 DEF Validate
<1>11. CASE PoolUpgraded
    BY <1>11 DEF PoolUpgraded
<1>12. CASE Scan
    BY <1>12 DEF Scan, CountUpgraded, DeleteFailed, Ignore
<1>13. CASE Abort
    <2>1. pc' = "idle" /\ LeftBehind
        BY <1>13 DEF Abort
    <2>2. CASE UNCHANGED cloud
        BY <2>1, <2>2
    <2>3. ASSUME NEW i \in Index, HalfDeleted(i) PROVE CarriersLive'
        BY <2>1, <2>3 DEF HalfDeleted
    <2>4. ASSUME NEW i \in Index, HalfCreated(i), vm[i] = "absent" PROVE CarriersLive'
        BY <2>1, <2>4 DEF HalfCreated
    <2>5. CASE pc = "fill" /\ AvailableIndex <= MaxIndex /\ HalfCreated(AvailableIndex)
        <3>1. PICK j \in Index : j = AvailableIndex /\ view[j] = "none"
            BY <2>5, AvailableIndexIsFree, PoolAssumption DEF Index, InUse
        <3>2. vm[j] = "absent"
            BY <2>5, <3>1 DEF ViewComplete, Loops
        <3> QED BY <2>4, <2>5, <3>1, <3>2
    <2>6. CASE pc = "copy" /\ HalfCopied
        <3>1. Head(fresh) \in Members(fresh) /\ Head(fresh) \in Index
            BY <2>6, MembersTail
        <3> QED BY <2>1, <2>6, <3>1 DEF HalfCopied, Handed, FreshBare
    <2>7. CASE /\ pc = "delete" /\ vm[cur] # "absent" /\ cordoned' = cordoned \union {cur}
               /\ UNCHANGED <<vm, ready, props>>
        BY <2>1, <2>7
    <2>8. CASE pc = "recreate" /\ HalfCreated(cur)
        BY <2>4, <2>8 DEF InHand
    <2> HIDE DEF CarriersLive, InDoubt, Removed, Created, Deleting, VMStates
    <2> QED BY <2>1, <2>2, <2>3, <2>5, <2>6, <2>7, <2>8 DEF LeftBehind
<1>14. ASSUME NEW i \in Index, BecomesReady(i) \/ Settles(i) PROVE CarriersLive'
    BY <1>14 DEF BecomesReady, Settles
<1>15. CASE UNCHANGED vars
    BY <1>15 DEF vars
<1> QED BY <1>1, <1>2, <1>3, <1>4, <1>5, <1>6, <1>7, <1>8, <1>9, <1>10, <1>11, <1>12, <1>13, <1>14,
           <1>15
        DEF Next, Command, Finish

\* A new node waits, untouched, until a copy begins.
LEMMA FreshStep ==
    ASSUME PoolInv, Truth, CopyInv, [Next]_vars
    PROVE  FreshBare'
<1>a. fresh \in Seq(Index) /\ cur \in Index
    BY DEF PoolInv, TypeOK
<1>b. ASSUME fresh' = <<>> PROVE FreshBare'
    BY <1>b, MembersEmpty DEF FreshBare
<1>c. ASSUME fresh' = fresh, pc' \in {"idle", "scan"} => fresh = <<>>,
             \A x \in Members(fresh) : /\ props'[x] = props[x] /\ view'[x] = view[x]
                                       /\ vm'[x] = vm[x] /\ (ready[x] => ready'[x])
      PROVE  FreshBare'
    BY <1>c DEF FreshBare, CopyInv
<1>d. ASSUME fresh' = Append(fresh, cur), cur \notin Members(fresh), pc' \notin {"idle", "scan"},
             UNCHANGED cloud, view' = [view EXCEPT ![cur] = "upgraded"],
             props[cur] = Nobody, vm[cur] = "succeeded", ready[cur]
      PROVE  FreshBare'
    <2>1. Members(fresh') = Members(fresh) \union {cur} /\ Distinct(fresh')
        BY <1>a, <1>d, MembersAppend DEF FreshBare, CopyInv
    <2> QED BY <1>a, <1>d, <2>1 DEF FreshBare, CopyInv, cloud, PoolInv, TypeOK
<1>e. \A x \in Members(fresh) : x \in Index
    BY <1>a DEF Members
<1> USE DEF TypeOK, cloud, local, copying, ghost, VMStates, OldStates, NewStates, VMStatus, Removed, Created,
        PoolInv
<1>1. CASE ListVirtualMachines
    BY <1>b, <1>1 DEF ListVirtualMachines
<1>2. CASE NoteAgentVMs
    BY <1>b, <1>2 DEF NoteAgentVMs, CopyInv, FreshBare
<1>3. CASE CreateMissing
    <2>1. PICK j \in Index : j = AvailableIndex /\ view[j] = "none"
        BY <1>3, AvailableIndexIsFree, PoolAssumption DEF CreateMissing, Index, InUse
    <2>2. j \notin Members(fresh)
        BY <2>1 DEF CopyInv, FreshBare
    <2> QED BY <1>3, <1>c, <1>e, <2>1, <2>2 DEF CreateMissing
<1>4. CASE ValidateNew
    BY <1>d, <1>4 DEF ValidateNew, Truth, NewInHand, CopyInv, FreshBare, CarriersLive, InDoubt
<1>5. CASE Filled
    BY <1>c, <1>5 DEF Filled
<1>6. CASE CopyProperties \/ CopyAgain
    <2>1. vm' = vm /\ ready' = ready /\ view' = view
        BY <1>6, CopyStep
    <2>2. CASE /\ fresh' = Tail(fresh) /\ pc = "copy" /\ pc' = "delete"
               /\ props' \in {props, Handed(Head(fresh))}
        <3>1. /\ Members(fresh') \subseteq Members(fresh) /\ Distinct(fresh')
              /\ Head(fresh) \notin Members(fresh')
            BY <1>a, <2>2, MembersTail DEF CopyInv, FreshBare
        <3>2. \A x \in Members(fresh') : props'[x] = props[x]
            BY <1>e, <2>2, <3>1 DEF Handed
        <3> QED BY <2>1, <2>2, <3>1, <3>2 DEF CopyInv, FreshBare
    <2>3. CASE fresh' = fresh
        <3>1. \A x \in Members(fresh) : props'[x] = props[x]
            BY <1>6, <1>e, <2>3, CopyCases DEF CopyInv, CopierPairs, Handed
        <3>2. pc' \in {"idle", "scan"} => pc' = pc
            BY <1>6, CopyStep
        <3> QED BY <1>c, <2>1, <2>3, <3>1, <3>2 DEF CopyInv, FreshBare
    <2> QED BY <1>6, <2>2, <2>3, CopyCases
<1>7. CASE DeleteOld
    <2>1. cur \notin Members(fresh)
        BY <1>7 DEF DeleteOld, InHand, CopyInv, FreshBare
    <2> QED BY <1>7, <1>c, <1>e, <2>1 DEF DeleteOld
<1>8. CASE DeleteNotFound
    BY <1>b, <1>8 DEF DeleteNotFound, Forgotten
<1>9. CASE CreateAgain
    <2>1. cur \notin Members(fresh)
        BY <1>9 DEF CreateAgain, InHand, CopyInv, FreshBare
    <2> QED BY <1>9, <1>c, <1>e, <2>1 DEF CreateAgain
<1>10. CASE Validate
    BY <1>d, <1>10 DEF Validate, Truth, NewInHand, InHand, CopyInv, FreshBare, CarriersLive, InDoubt
<1>11. CASE PoolUpgraded
    BY <1>c, <1>11 DEF PoolUpgraded
<1>12. CASE Scan
    BY <1>b, <1>12 DEF Scan, CountUpgraded, DeleteFailed, Ignore, CopyInv, FreshBare
<1>13. CASE Abort
    BY <1>b, <1>13 DEF Abort, Forgotten
<1>14. ASSUME NEW i \in Index, BecomesReady(i) \/ Settles(i) PROVE FreshBare'
    BY <1>c, <1>e, <1>14 DEF BecomesReady, Settles, CopyInv, FreshBare
<1>15. CASE UNCHANGED vars
    BY <1>c, <1>15 DEF vars, CopyInv, FreshBare
<1> QED BY <1>1, <1>2, <1>3, <1>4, <1>5, <1>6, <1>7, <1>8, <1>9, <1>10, <1>11, <1>12, <1>13, <1>14,
           <1>15
        DEF Next, Command, Finish

\* A goroutine keeps its source and its destination apart from what the run does.
LEMMA CopiersStep ==
    ASSUME PoolInv, Truth, CopyInv, [Next]_vars
    PROVE  CopierPairs'
<1>a. \A c \in copiers : c[1] \in Index /\ c[2] \in Index
    BY DEF PoolInv, TypeOK
<1>b. ASSUME copiers' = {} PROVE CopierPairs'
    BY <1>b DEF CopierPairs
<1>c. ASSUME copiers' = copiers, pc \notin Replacing \union {"success"} PROVE CopierPairs'
    <2>1. copiers = {}
        BY <1>c DEF CopyInv, CopierPairs
    <2> QED BY <1>b, <1>c, <2>1
<1>d. fresh \in Seq(Index) /\ cur \in Index /\ view \in [Index -> VMStatus]
      /\ vm \in [Index -> VMStates]
    BY DEF PoolInv, TypeOK
<1> USE DEF Removed, Created, cloud, local, copying, ghost
<1>1. CASE ListVirtualMachines
    BY <1>b, <1>1 DEF ListVirtualMachines
<1>2. CASE NoteAgentVMs \/ CreateMissing \/ ValidateNew \/ Filled
    BY <1>c, <1>2 DEF NoteAgentVMs, CreateMissing, ValidateNew, Filled, Replacing
<1>6. CASE CopyProperties \/ CopyAgain
    <2>1. vm' = vm /\ view' = view /\ (pc = "copy" => view[cur] = "notUpgraded")
        BY <1>6, CopyStep DEF PoolInv, InHand
    <2>2. CASE /\ pc = "upgrade" /\ pc' \in {"copy", "delete"} /\ cur' \in NotUpgraded
               /\ props' = props /\ fresh' = fresh /\ copiers' = copiers
        BY <2>1, <2>2 DEF CopyInv, CopierPairs, NotUpgraded, Replacing
    <2>3. CASE /\ pc = "copy" /\ pc' = "delete" /\ cur' = cur /\ Head(fresh) \in Members(fresh)
               /\ fresh' = Tail(fresh) /\ copiers' = copiers \union {<<cur, Head(fresh)>>}
               /\ props' \in {props, Handed(Head(fresh))}
        <3>1. /\ Head(fresh) \notin Members(fresh') /\ Members(fresh') \subseteq Members(fresh)
              /\ Head(fresh) \in Index
            <4>1. fresh # <<>>
                BY <2>3 DEF PoolInv, TypeOK
            <4> QED BY <1>d, <2>3, <4>1, MembersTail DEF CopyInv, FreshBare
        <3>2. /\ view[Head(fresh)] = "upgraded" /\ vm[Head(fresh)] = "succeeded"
              /\ props[Head(fresh)] = Nobody /\ Head(fresh) # cur
            BY <2>1, <2>3 DEF CopyInv, FreshBare
        <3>3. props'[Head(fresh)] \in {Nobody, props'[cur]}
            BY <1>d, <2>3, <3>1, <3>2 DEF Handed, PoolInv, TypeOK
        <3>4. \A c \in copiers : c[1] # cur /\ view[c[1]] # "notUpgraded"
            BY <2>1, <2>3 DEF CopyInv, CopierPairs
        <3>5. \A c \in copiers' : c \in copiers \/ (c[1] = cur /\ c[2] = Head(fresh))
            BY <2>3
        <3> QED BY <2>1, <2>3, <3>1, <3>2, <3>3, <3>4, <3>5 DEF CopyInv, CopierPairs, Replacing
    <2>4. CASE /\ pc' = pc /\ cur' = cur /\ fresh' = fresh
               /\ \E d \in copiers :
                     \/ /\ pc = "delete" /\ cur = d[1] /\ props' = Handed(d[2])
                        /\ copiers' = copiers
                     \/ /\ props' \in {props, [props EXCEPT ![d[2]] = Nobody]}
                        /\ copiers' = copiers \ {d}
        <3>1. PICK d \in copiers :
                     \/ /\ pc = "delete" /\ cur = d[1] /\ props' = Handed(d[2])
                        /\ copiers' = copiers
                     \/ /\ props' \in {props, [props EXCEPT ![d[2]] = Nobody]}
                        /\ copiers' = copiers \ {d}
            BY <2>4
        <3>2. ASSUME NEW c \in copiers', pc' = "delete", c[1] = cur'
              PROVE  props'[c[2]] \in {Nobody, props'[cur']}
            <4>1. c \in copiers
                BY <3>1, <3>2
            <4>2. view[cur] = "notUpgraded" /\ props \in [Index -> Index \union {Nobody}]
                BY <2>4, <3>2 DEF PoolInv, TypeOK, InHand
            <4>3. d[2] # cur
                BY <4>2 DEF CopyInv, CopierPairs
            <4>4. props[c[2]] \in {Nobody, props[cur]}
                BY <2>4, <3>2, <4>1 DEF CopyInv, CopierPairs
            <4> QED BY <1>a, <1>d, <2>4, <3>1, <4>1, <4>2, <4>3, <4>4 DEF Handed
        <3>3. copiers' \subseteq copiers
            BY <3>1
        <3> QED BY <2>1, <2>4, <3>2, <3>3 DEF CopyInv, CopierPairs
    <2> QED BY <1>6, <2>2, <2>3, <2>4, CopyCases
<1>7. CASE DeleteOld
    BY <1>a, <1>d, <1>7 DEF DeleteOld, PoolInv, InHand, CopyInv, CopierPairs, Replacing
<1>8. CASE DeleteNotFound
    BY <1>b, <1>8 DEF DeleteNotFound, Forgotten
<1>9. CASE CreateAgain
    BY <1>a, <1>d, <1>9 DEF CreateAgain, PoolInv, InHand, CopyInv, CopierPairs, Replacing
<1>10. CASE Validate
    <2>1. Members(fresh') = Members(fresh) \union {cur}
        BY <1>10, <1>d, MembersAppend DEF Validate
    <2> QED BY <1>a, <1>d, <1>10, <2>1 DEF Validate, PoolInv, InHand, CopyInv, CopierPairs, Replacing
<1>11. CASE PoolUpgraded
    BY <1>11 DEF PoolUpgraded, CopyInv, CopierPairs, Replacing
<1>12. CASE Scan
    BY <1>c, <1>12 DEF Scan, CountUpgraded, DeleteFailed, Ignore, Replacing
<1>13. CASE Abort
    BY <1>b, <1>13 DEF Abort, Forgotten
<1>14. ASSUME NEW i \in Index, BecomesReady(i) \/ Settles(i) PROVE CopierPairs'
    BY <1>a, <1>d, <1>14 DEF BecomesReady, Settles, CopyInv, CopierPairs
<1>15. CASE UNCHANGED vars
    BY <1>15 DEF vars, CopyInv, CopierPairs
<1> QED BY <1>1, <1>2, <1>6, <1>7, <1>8, <1>9, <1>10, <1>11, <1>12, <1>13, <1>14, <1>15
        DEF Next, Command, Finish

\* The waiting nodes and the goroutines are as described throughout.
LEMMA InductiveCopy == Spec => []CopyInv
<1>1. Init => CopyInv
    <2> SUFFICES ASSUME Init PROVE CopyInv
        OBVIOUS
    <2>1. FreshBare /\ CopierPairs
        BY MembersEmpty DEF Init, FreshBare, CopierPairs
    <2>2. CarriersLive
        BY DEF Init, CarriersLive, InDoubt
    <2> QED BY <2>1, <2>2 DEF CopyInv
<1>2. PoolInv /\ Truth /\ CopyInv /\ [Next]_vars => CopyInv'
    BY CarriersStep, FreshStep, CopiersStep DEF CopyInv
<1> QED BY <1>1, <1>2, Inductive, InductiveCounts, PTL DEF Spec

-----------------------------------------------------------------------------
(* The nodes that serve *)

\* A node that serves on a VM no run is about to delete for having failed.
Good == {i \in Index : ready[i] /\ vm[i] \in {"old", "succeeded"}} \ cordoned

\* The new node that a copy in progress keeps cordoned.
Waiting == IF pc = "copy" THEN {Head(fresh)} ELSE {}

\* The VMs that exist, or that the run counts on.
Held == {i \in Index : \/ vm[i] # "absent"
                       \/ pc = "scan" /\ snap[i] # "absent"
                       \/ pc \in Loops /\ view[i] \in {"upgraded", "notUpgraded"}}

Broken == Held \ (Good \union InDoubt \union Waiting)

\* Every VM that is counted on and does not serve was left by a failed run, or
\* by a copy that was given up.
Faults == aborts + givenUp
BrokenCharged == Cardinality(Broken) <= Faults

GoodKept == Cardinality(Good) >= Count - Faults

\* A step breaks no VM, unless it ends the run or gives up a copy, and then at
\* most one.
LEMMA BrokenStep ==
    ASSUME PoolInv, Truth, CopyInv, [Next]_vars
    PROVE  \/ Faults' = Faults /\ Broken' \subseteq Broken
           \/ Faults' = Faults + 1 /\ \E i \in Index : Broken' \subseteq Broken \union {i}
<1> USE DEF TypeOK, cloud, local, copying, ghost, VMStates, OldStates, NewStates, VMStatus, Removed, Created,
        Deleting, PoolInv, Alive, Broken, Held, Good, InDoubt, Waiting, Loops, Faults
<1>1. CASE ListVirtualMachines
    BY <1>1 DEF ListVirtualMachines
<1>2. CASE NoteAgentVMs
    BY <1>2 DEF NoteAgentVMs, AgentVMs, ScanComplete, Truth, ListingTrue
<1>3. CASE CreateMissing
    BY <1>3 DEF CreateMissing
<1>4. CASE ValidateNew
    BY <1>4 DEF ValidateNew, Truth, NewInHand, CopyInv, CarriersLive
<1>5. CASE Filled
    BY <1>5 DEF Filled
<1>6. CASE CopyProperties \/ CopyAgain
    <2>1. vm' = vm /\ ready' = ready /\ view' = view /\ snap' = snap /\ aborts' = aborts
        BY <1>6, CopyStep
    <2>2. /\ Held' \subseteq Held
          /\ \A i \in Held' \ Held : FALSE
        BY <1>6, <2>1, CopyStep
    <2>3. fresh # <<>> =>
             /\ Head(fresh) \in Index /\ ready[Head(fresh)] /\ vm[Head(fresh)] = "succeeded"
        BY MembersTail DEF CopyInv, FreshBare
    <2> QED BY <1>6, <2>1, <2>2, <2>3, CopyCases
<1>7. CASE DeleteOld
    BY <1>7 DEF DeleteOld, InHand
<1>8. CASE DeleteNotFound
    BY <1>8 DEF DeleteNotFound, Forgotten
<1>9. CASE CreateAgain
    BY <1>9 DEF CreateAgain, InHand
<1>10. CASE Validate
    BY <1>10 DEF Validate, Truth, NewInHand, CopyInv, CarriersLive
<1>11. CASE PoolUpgraded
    BY <1>11 DEF PoolUpgraded
<1>12. CASE Scan
    BY <1>12 DEF Scan, CountUpgraded, DeleteFailed, Ignore, Truth, ListingTrue
<1>13. CASE Abort
    <2>1. Faults' = Faults + 1
        BY <1>13 DEF Abort
    <2>2. pc = "copy" => Head(fresh) \in Index
        BY MembersTail
    <2>3. ASSUME NEW i \in Index, InDoubt \union Waiting \subseteq {i},
                 \A j \in Index \ {i} : /\ vm'[j] = vm[j] /\ ready'[j] = ready[j]
                                        /\ j \in cordoned' <=> j \in cordoned
          PROVE  Broken' \subseteq Broken \union {i}
        <3>1. SUFFICES ASSUME NEW j \in Broken', j # i PROVE j \in Broken
            OBVIOUS
        <3>2. j \in Index /\ vm'[j] # "absent" /\ j \notin Good'
            BY <1>13, <3>1 DEF Abort
        <3>3. j \in Held /\ j \notin Good
            <4>1. vm'[j] = vm[j] /\ ready'[j] = ready[j] /\ (j \in cordoned' <=> j \in cordoned)
                BY <2>3, <3>1, <3>2
            <4> QED BY <3>2, <4>1
        <3>4. j \notin InDoubt /\ j \notin Waiting
            BY <2>3, <3>1
        <3> HIDE DEF Held, Good, InDoubt, Waiting
        <3> QED BY <3>3, <3>4
    <2>4. ASSUME NEW i \in Index, HalfDeleted(i) \/ HalfCreated(i), InDoubt \union Waiting \subseteq {i}
          PROVE  Broken' \subseteq Broken \union {i}
        <3>1. \A j \in Index \ {i} : /\ vm'[j] = vm[j] /\ ready'[j] = ready[j]
                                     /\ j \in cordoned' <=> j \in cordoned
            BY <2>4 DEF HalfDeleted, HalfCreated
        <3> HIDE DEF Broken, InDoubt, Waiting
        <3> QED BY <2>3, <2>4, <3>1
    <2>5. AvailableIndex <= MaxIndex => AvailableIndex \in Index
        BY AvailableIndexIsFree, PoolAssumption DEF Index
    <2>6. CASE UNCHANGED cloud \/ HalfCopied
        <3>1. PICK i \in Index : InDoubt \union Waiting \subseteq {i}
            BY <2>2
        <3>2. UNCHANGED <<vm, ready, cordoned>>
            BY <2>6 DEF HalfCopied
        <3>3. Broken' \subseteq Broken \union {i}
            BY <2>3, <3>1, <3>2 DEF Removed
        <3> QED BY <2>1, <3>3
    <2>7. CASE /\ pc = "scan"
               /\ \E i \in todo : snap[i] = "failed" /\ vm[i] # "absent" /\ HalfDeleted(i)
        BY <2>1, <2>4, <2>7
    <2>8. CASE pc = "fill" /\ AvailableIndex <= MaxIndex /\ HalfCreated(AvailableIndex)
        BY <2>1, <2>4, <2>5, <2>8
    <2>9. CASE pc \in {"validateNew", "validate", "delete"} /\ HalfDeleted(cur)
        BY <2>1, <2>4, <2>9
    <2>10. CASE /\ pc = "delete" /\ cordoned' = cordoned \union {cur}
                /\ UNCHANGED <<vm, ready, props>>
        BY <2>1, <2>3, <2>10
    <2>11. CASE pc = "recreate" /\ HalfCreated(cur)
        BY <2>1, <2>4, <2>11
    <2> HIDE DEF Broken, Held, Good, Removed, Created
    <2> QED BY <1>13, <2>6, <2>7, <2>8, <2>9, <2>10, <2>11 DEF Abort, LeftBehind
<1>14. ASSUME NEW i \in Index, BecomesReady(i) \/ Settles(i)
       PROVE  Faults' = Faults /\ Broken' \subseteq Broken
    BY <1>14 DEF BecomesReady, Settles
<1>15. CASE UNCHANGED vars
    BY <1>15 DEF vars
<1> QED BY <1>1, <1>2, <1>3, <1>4, <1>5, <1>6, <1>7, <1>8, <1>9, <1>10, <1>11, <1>12, <1>13, <1>14,
           <1>15
        DEF Next, Command, Finish

\* A step takes a node from the pool only to copy properties to it or to delete
\* its VM, and a run that ends takes at most one.
LEMMA GoodStep ==
    ASSUME PoolInv, Truth, CopyInv, [Next]_vars
    PROVE  \/ Faults' \in {Faults, Faults + 1} /\ Good \subseteq Good'
           \/ /\ Faults' = Faults /\ pc \in {"upgrade", "delete"} /\ NotUpgraded # {}
              /\ \E i \in Index : Good \ {i} \subseteq Good'
           \/ Faults' = Faults + 1 /\ \E i \in Index : Good \ {i} \subseteq Good'
<1>a. aborts \in Nat /\ givenUp \in Nat
    BY PoolAssumption DEF PoolInv, TypeOK
<1> USE <1>a DEF cloud, local, copying, ghost, VMStates, OldStates, NewStates, VMStatus, Removed,
        Created, Deleting, Good, Faults
<1>b. vm \in [Index -> VMStates] /\ ready \in [Index -> BOOLEAN] /\ cur \in Index /\ todo \subseteq Index
    BY DEF PoolInv, TypeOK
<1>1. CASE ListVirtualMachines \/ NoteAgentVMs \/ ValidateNew \/ Filled
    BY <1>1 DEF ListVirtualMachines, NoteAgentVMs, ValidateNew, Filled
<1>3. CASE CreateMissing
    BY <1>b, <1>3 DEF CreateMissing
<1>6. CASE CopyProperties \/ CopyAgain
    <2>1. vm' = vm /\ ready' = ready /\ aborts' = aborts
        BY <1>6, CopyStep
    <2>2. \A x \in Members(fresh) : x \in Index
        BY DEF Members, PoolInv, TypeOK
    <2> QED BY <1>6, <2>1, <2>2, CopyCases
<1>7. CASE DeleteOld
    <2>1. pc = "delete" /\ cur \in NotUpgraded
        BY <1>b, <1>7 DEF DeleteOld, PoolInv, InHand, NotUpgraded
    <2> QED BY <1>b, <1>7, <2>1 DEF DeleteOld
<1>8. CASE DeleteNotFound \/ PoolUpgraded \/ Validate
    BY <1>8 DEF DeleteNotFound, PoolUpgraded, Validate
<1>9. CASE CreateAgain
    BY <1>b, <1>9 DEF CreateAgain
<1>12. CASE Scan
    BY <1>b, <1>12 DEF Scan, CountUpgraded, DeleteFailed, Ignore, Truth, ListingTrue
<1>13. CASE Abort
    <2>1. Faults' = Faults + 1
        BY <1>13 DEF Abort
    <2>2. ASSUME NEW i \in Index, HalfDeleted(i) PROVE Good \ {i} \subseteq Good'
        BY <1>b, <2>2 DEF HalfDeleted
    <2>3. ASSUME NEW i \in Index, HalfCreated(i) PROVE Good \ {i} \subseteq Good'
        BY <1>b, <2>3 DEF HalfCreated
    <2>4. AvailableIndex <= MaxIndex => AvailableIndex \in Index
        BY AvailableIndexIsFree, PoolAssumption DEF Index
    <2>5. \/ UNCHANGED <<vm, ready, cordoned>>
          \/ \E i \in Index : HalfDeleted(i) \/ HalfCreated(i)
          \/ cordoned' = cordoned \union {cur} /\ UNCHANGED <<vm, ready>>
        <3> HIDE DEF Removed, Created
        <3> QED BY <1>b, <1>13, <2>4 DEF Abort, LeftBehind, HalfCopied
    <2>6. \E i \in Index : Good \ {i} \subseteq Good'
        BY <1>b, <2>2, <2>3, <2>5
    <2> QED BY <2>1, <2>6
<1>14. ASSUME NEW i \in Index, BecomesReady(i) \/ Settles(i)
       PROVE  Faults' = Faults /\ Good \subseteq Good'
    BY <1>b, <1>14 DEF BecomesReady, Settles
<1>15. CASE UNCHANGED vars
    BY <1>15 DEF vars
<1> QED BY <1>1, <1>3, <1>6, <1>7, <1>8, <1>9, <1>12, <1>13, <1>14, <1>15
        DEF Next, Command, Finish

\* Before a VM is deleted for its replacement, and before a new node is cordoned
\* to get its properties, one node more than needed serves, but for the faults.
LEMMA SpareBeforeDelete ==
    ASSUME PoolInv, Counted, BrokenCharged, pc \in {"upgrade", "delete"}, NotUpgraded # {}
    PROVE  Cardinality(Good) >= Count + 1 - Faults
<1>1. /\ Upgraded \in SUBSET Index /\ NotUpgraded \in SUBSET Index
      /\ Good \in SUBSET Index /\ Broken \in SUBSET Index
    BY DEF Upgraded, NotUpgraded, Good, Broken, Held
<1>2. /\ IsFiniteSet(Upgraded) /\ IsFiniteSet(NotUpgraded)
      /\ IsFiniteSet(Good) /\ IsFiniteSet(Broken)
      /\ Cardinality(Good) \in Nat /\ Cardinality(Broken) \in Nat
      /\ Cardinality(Upgraded) \in Nat /\ Cardinality(NotUpgraded) \in Nat
      /\ Cardinality(Good \intersect Broken) \in Nat
    <2>1. Good \intersect Broken \in SUBSET Index
        BY <1>1
    <2> QED BY <1>1, <2>1, IndexSets
<1>3. Cardinality(Upgraded \union NotUpgraded) = Known
    BY KnownCounts
<1>4. Known >= Count + 1
    BY DEF Counted, EnoughKnown, Replacing, Spare
<1>5. Upgraded \union NotUpgraded \subseteq Good \union Broken
    BY DEF Upgraded, NotUpgraded, Broken, Held, InDoubt, Waiting, Loops
<1>6. Cardinality(Upgraded \union NotUpgraded) <= Cardinality(Good \union Broken)
    <2>1. Good \union Broken \in SUBSET Index
        BY <1>1
    <2> QED BY <1>5, <2>1, NotMore
<1>7. Cardinality(Good \union Broken)
         = Cardinality(Good) + Cardinality(Broken) - Cardinality(Good \intersect Broken)
    BY <1>2, FS_Union
<1>8. Count \in Nat /\ Faults \in Nat /\ Known \in Nat
    BY <1>2, PoolAssumption DEF PoolInv, TypeOK, Known, Faults
<1> QED BY <1>2, <1>3, <1>4, <1>6, <1>7, <1>8 DEF BrokenCharged

\* Every node that does not serve is charged to a failed run or a copy given up.
LEMMA InductiveServing == Spec => [](BrokenCharged /\ GoodKept)
<1>1. Init => BrokenCharged /\ GoodKept
    <2> SUFFICES ASSUME Init PROVE BrokenCharged /\ GoodKept
        OBVIOUS
    <2>1. Broken = {} /\ Faults = 0
        <3>1. \A i \in Index : vm[i] # "absent" => i \in Good
            BY DEF Init, Good
        <3>2. \A i \in Index : i \in Held => vm[i] # "absent"
            BY DEF Init, Held, Loops
        <3>3. Held \subseteq Good
            BY <3>1, <3>2 DEF Held
        <3> QED BY <3>3 DEF Init, Broken, Faults
    <2>2. Good = Original
        <3>1. Original \subseteq Index
            BY PoolAssumption DEF Original, Index
        <3>2. \A i \in Index : i \in Good <=> i \in Original
            BY DEF Init, Good
        <3> QED BY <3>1, <3>2 DEF Good
    <2>3. Cardinality(Original) = Count
        BY FS_Interval, PoolAssumption DEF Original
    <2> QED BY <2>1, <2>2, <2>3, FS_EmptySet, PoolAssumption DEF BrokenCharged, GoodKept
<1>2. ASSUME PoolInv, PoolInv', Truth, Counted, CopyInv, BrokenCharged, GoodKept, [Next]_vars
      PROVE  (BrokenCharged /\ GoodKept)'
    <2>1. /\ Broken \in SUBSET Index /\ Broken' \in SUBSET Index
          /\ Good \in SUBSET Index /\ Good' \in SUBSET Index
        BY DEF Broken, Held, Good
    <2>2. /\ Cardinality(Broken) \in Nat /\ Cardinality(Broken') \in Nat
          /\ Cardinality(Good) \in Nat /\ Cardinality(Good') \in Nat
          /\ Faults \in Nat /\ Count \in Nat
        <3>1. Count \in Nat /\ aborts \in Nat /\ givenUp \in Nat
            BY <1>2, PoolAssumption DEF PoolInv, TypeOK
        <3>2. Faults \in Nat
            BY <3>1 DEF Faults
        <3> QED BY <2>1, <3>1, <3>2, IndexSets
    <2>3. BrokenCharged'
        <3>1. CASE Faults' = Faults /\ Broken' \subseteq Broken
            BY <1>2, <2>1, <2>2, <3>1, NotMore DEF BrokenCharged
        <3>2. ASSUME NEW i \in Index, Faults' = Faults + 1, Broken' \subseteq Broken \union {i}
              PROVE  BrokenCharged'
            <4>1. Cardinality(Broken \union {i}) <= Cardinality(Broken) + 1
                <5>1. CASE i \in Broken
                    <6>1. Broken \union {i} = Broken
                        BY <5>1
                    <6>2. Cardinality(Broken) <= Cardinality(Broken) + 1
                        BY <2>2
                    <6> QED BY <6>1, <6>2
                <5>2. CASE i \notin Broken
                    BY <2>1, <2>2, <5>2, OneMore
                <5> QED BY <5>1, <5>2
            <4>2. Broken \union {i} \in SUBSET Index
                BY <2>1
            <4>3. Cardinality(Broken') <= Cardinality(Broken \union {i}) /\ Cardinality(Broken \union {i}) \in Nat
                BY <3>2, <4>2, NotMore, IndexSets
            <4> QED BY <1>2, <2>2, <3>2, <4>1, <4>3 DEF BrokenCharged
        <3> QED BY <1>2, <3>1, <3>2, BrokenStep
    <2>4. ASSUME NEW i \in Index, Good \ {i} \subseteq Good'
          PROVE  Cardinality(Good') >= Cardinality(Good) - 1
        <3>1. Good \ {i} \in SUBSET Index
            BY <2>1
        <3>2. Cardinality(Good \ {i}) <= Cardinality(Good') /\ Cardinality(Good \ {i}) \in Nat
            BY <2>1, <2>4, <3>1, NotMore, IndexSets
        <3>3. Cardinality(Good \ {i}) >= Cardinality(Good) - 1
            <4>1. CASE i \in Good
                BY <2>1, <2>2, <4>1, OneLess
            <4>2. CASE i \notin Good
                <5>1. Good \ {i} = Good
                    BY <4>2
                <5> QED BY <2>2, <5>1
            <4> QED BY <4>1, <4>2
        <3> QED BY <2>2, <3>2, <3>3
    <2>5. GoodKept'
        <3>1. CASE Faults' \in {Faults, Faults + 1} /\ Good \subseteq Good'
            BY <1>2, <2>1, <2>2, <3>1, NotMore DEF GoodKept
        <3>2. CASE /\ Faults' = Faults /\ pc \in {"upgrade", "delete"} /\ NotUpgraded # {}
                   /\ \E i \in Index : Good \ {i} \subseteq Good'
            <4>1. Cardinality(Good') >= Cardinality(Good) - 1
                BY <2>4, <3>2
            <4>2. Cardinality(Good) >= Count + 1 - Faults
                BY <1>2, <3>2, SpareBeforeDelete
            <4> QED BY <2>2, <3>2, <4>1, <4>2 DEF GoodKept
        <3>3. ASSUME NEW i \in Index, Faults' = Faults + 1, Good \ {i} \subseteq Good'
              PROVE  GoodKept'
            <4>1. Cardinality(Good') >= Cardinality(Good) - 1
                BY <2>4, <3>3
            <4> QED BY <1>2, <2>2, <3>3, <4>1 DEF GoodKept
        <3> QED BY <1>2, <3>1, <3>2, <3>3, GoodStep
    <2> QED BY <2>3, <2>5
<1> QED BY <1>1, <1>2, Inductive, InductiveCounts, InductiveCopy, PTL DEF Spec

\* However often the upgrade of the pool fails and is repeated, with and
\* without --force, as many nodes serve as the profile asks for, less one for
\* each failed run and for each copy of properties that was given up: the extra
\* node is in place before a VM is deleted or a new node cordoned.
THEOREM PoolServes == Spec => []PoolKeepsServing
<1>1. PoolInv /\ GoodKept => PoolKeepsServing
    <2> SUFFICES ASSUME PoolInv, GoodKept PROVE PoolKeepsServing
        OBVIOUS
    <2>1. Serving \in SUBSET Index /\ Good \in SUBSET Serving
        BY DEF Serving, Good
    <2>2. Cardinality(Good) <= Cardinality(Serving)
        BY <2>1, NotMore
    <2>3. Cardinality(Good) \in Nat /\ Cardinality(Serving) \in Nat
        BY <2>1, IndexSets
    <2>4. Count \in Nat /\ aborts \in Nat /\ givenUp \in Nat
        BY PoolAssumption DEF PoolInv, TypeOK
    <2> QED BY <2>2, <2>3, <2>4 DEF GoodKept, PoolKeepsServing, Faults
<1> QED BY <1>1, Inductive, InductiveServing, PTL

-----------------------------------------------------------------------------
(* The custom properties *)

FirstVM == [i \in Index |-> IF i \in Original THEN "old" ELSE "absent"]

\* The first run creates the extra node and puts it first in newCreatedVMs; in
\* every run, each VM that is replaced adds its replacement.
FirstRun ==
    /\ runs = 0 => pc = "idle" /\ vm = FirstVM
    /\ runs = 1 /\ pc = "scan" => snap = FirstVM /\ todo = {} /\ upCount = 0
    /\ runs = 1 /\ pc \in {"fill", "validateNew"} => toBe = Count /\ upCount = Len(fresh)
    /\ pc = "upgrade" /\ NotUpgraded # {} /\ (runs = 1 \/ upCount > 0) => fresh # <<>>

\* The properties no node will have once the VM in hand is deleted.
InJeopardy(i) == pc = "delete" /\ i = cur
Doomed == {o \in Original : \A i \in Index : props[i] = o => InJeopardy(i)}

\* A later run may still replace a VM before a new node waits for its properties.
Chance == IF /\ runs > 1
             /\ \/ pc \in {"scan", "fill", "validateNew"}
                \/ pc \in {"upgrade", "copy"} /\ upCount = 0
          THEN 1 ELSE 0

\* Every loss is charged to a run other than the first, to a copy that was given
\* up, or to one done again too late.
Charges == runs + givenUp + recopied
Charged == preserve /\ Doomed # {} => Cardinality(Doomed) + Chance < Charges

\* The first run is as described.
LEMMA FirstRunStep ==
    ASSUME PoolInv, Truth, Counted, Counted', CopyInv, FirstRun, [Next]_vars
    PROVE  FirstRun'
<1>a. /\ runs \in Nat /\ upCount \in Nat /\ toBe \in Nat /\ fresh \in Seq(Index) /\ cur \in Index
      /\ vm \in [Index -> VMStates] /\ Count \in Nat \ {0} /\ Len(fresh) \in Nat
      /\ view \in [Index -> VMStatus]
    BY PoolAssumption, LenProperties DEF PoolInv, TypeOK
<1>b. ASSUME UNCHANGED <<runs, vm>>, runs # 0 \/ pc' = pc,
             pc' \notin {"scan", "fill", "validateNew", "upgrade"}
      PROVE  FirstRun'
    BY <1>b DEF FirstRun
<1>c. ASSUME UNCHANGED <<pc, runs, snap, todo, upCount, toBe, fresh, view>>,
             runs = 0 => vm' = vm
      PROVE  FirstRun'
    <2>1. NotUpgraded' = NotUpgraded
        BY <1>c DEF NotUpgraded
    <2> QED BY <1>c, <2>1 DEF FirstRun
<1>d. pc # "idle" => runs # 0
    BY DEF FirstRun
<1> USE DEF cloud, local, copying, ghost, FirstRun
<1>1. CASE ListVirtualMachines
    <2>1. pc' = "scan" /\ runs' = runs + 1 /\ snap' = vm /\ upCount' = 0
        BY <1>1 DEF ListVirtualMachines
    <2>2. ASSUME runs = 0 PROVE todo' = {}
        <3>1. \A i \in Index : vm[i] \in {"old", "absent"}
            BY <2>2 DEF FirstVM
        <3>2. PICK f \in Forces : todo' = {i \in Index : ~f /\ vm[i] \in NewStates}
            BY <1>1 DEF ListVirtualMachines
        <3> QED BY <3>1, <3>2 DEF NewStates
    <2>3. runs' # 0 /\ (runs' = 1 => runs = 0)
        BY <1>a, <2>1
    <2> QED BY <2>1, <2>2, <2>3 DEF FirstRun
<1>2. CASE NoteAgentVMs
    <2>1. /\ pc = "scan" /\ pc' = "fill" /\ runs' = runs /\ upCount' = upCount
          /\ toBe' = Cardinality(AgentVMs) /\ fresh' = fresh
        BY <1>2 DEF NoteAgentVMs
    <2>2. Len(fresh) = 0
        BY <2>1, EmptySeq DEF CopyInv, FreshBare
    <2>3. ASSUME runs = 1 PROVE Cardinality(AgentVMs) = Count
        <3>1. Original \subseteq Index
            BY PoolAssumption DEF Original, Index
        <3>2. \A i \in Index : i \in AgentVMs <=> i \in Original
            BY <2>1, <2>3 DEF AgentVMs, FirstVM, OldStates
        <3>3. AgentVMs = Original
            BY <3>1, <3>2 DEF AgentVMs
        <3> QED BY <3>3, FS_Interval, PoolAssumption DEF Original
    <2> QED BY <1>d, <2>1, <2>2, <2>3
<1>3. CASE CreateMissing
    BY <1>d, <1>3 DEF CreateMissing
<1>4. CASE ValidateNew
    <2>1. Len(fresh') = Len(fresh) + 1
        BY <1>a, <1>4, AppendProperties DEF ValidateNew
    <2> QED BY <1>d, <1>4, <2>1 DEF ValidateNew
<1>5. CASE Filled
    <2>1. /\ pc = "fill" /\ pc' \in {"success", "upgrade"} /\ fresh' = fresh /\ upCount' = 0
          /\ runs' = runs /\ upCount + toBe >= AgentCount
        BY <1>5 DEF Filled
    <2>2. ASSUME runs = 1 PROVE fresh # <<>>
        <3>1. toBe = Count /\ upCount = Len(fresh)
            BY <2>1, <2>2
        <3>2. AgentCount = Count + 1
            BY <1>a, <3>1 DEF AgentCount
        <3>3. Len(fresh) # 0
            BY <1>a, <2>1, <3>1, <3>2
        <3> QED BY <3>3, EmptySeq
    <2>3. ~(upCount' > 0)
        BY <2>1
    <2> QED BY <1>d, <2>1, <2>2, <2>3
<1>6. CASE CopyProperties \/ CopyAgain
    <2>1. UNCHANGED <<vm, runs, snap, todo, view, upCount, toBe>>
        BY <1>6, CopyStep
    <2>2. CASE pc' = pc
        <3>1. fresh' = fresh
            BY <1>6, <2>2, CopyCases
        <3> QED BY <1>c, <2>1, <2>2, <3>1
    <2>3. CASE pc' # pc
        <3>1. pc' \in {"copy", "delete"} /\ pc # "idle"
            BY <1>6, <2>3, CopyStep
        <3> QED BY <1>b, <1>d, <2>1, <3>1
    <2> QED BY <2>2, <2>3
<1>7. CASE DeleteOld
    <2>1. pc = "delete" /\ pc' \in {"upgrade", "recreate"} /\ runs' = runs /\ toBe' = toBe
        BY <1>7 DEF DeleteOld
    <2>2. ASSUME pc' = "upgrade" PROVE NotUpgraded' = {}
        <3>1. upCount = toBe - 1 /\ upCount' = upCount + 1
            BY <1>7, <2>2 DEF DeleteOld
        <3>2. Cardinality(NotUpgraded') + upCount' = toBe'
            BY <2>2 DEF Counted, CountersRight, Replacing
        <3>3. NotUpgraded' \in SUBSET Index
            BY DEF NotUpgraded
        <3>4. Cardinality(NotUpgraded') \in Nat
            BY <3>3, IndexSets
        <3>5. Cardinality(NotUpgraded') = 0
            BY <1>a, <2>1, <3>1, <3>2, <3>4
        <3> QED BY <3>3, <3>5, IndexSets
    <2> QED BY <1>d, <2>1, <2>2
<1>8. CASE DeleteNotFound
    BY <1>b, <1>d, <1>8 DEF DeleteNotFound
<1>9. CASE CreateAgain
    BY <1>d, <1>9 DEF CreateAgain
<1>10. CASE Validate
    <2>1. fresh' # <<>>
        BY <1>a, <1>10, AppendProperties DEF Validate
    <2> QED BY <1>d, <1>10, <2>1 DEF Validate
<1>11. CASE PoolUpgraded
    BY <1>b, <1>d, <1>11 DEF PoolUpgraded
<1>12. CASE Scan
    BY <1>d, <1>12 DEF Scan, CountUpgraded, DeleteFailed, Ignore
<1>13. CASE Abort
    BY <1>d, <1>13 DEF Abort
<1>14. ASSUME NEW i \in Index, BecomesReady(i) \/ Settles(i) PROVE FirstRun'
    <2>1. runs = 0 => vm' = vm
        BY <1>14 DEF BecomesReady, Settles, FirstVM
    <2> QED BY <1>c, <1>14, <2>1 DEF BecomesReady, Settles
<1>15. CASE UNCHANGED vars
    BY <1>c, <1>15 DEF vars
<1> QED BY <1>1, <1>2, <1>3, <1>4, <1>5, <1>6, <1>7, <1>8, <1>9, <1>10, <1>11, <1>12, <1>13, <1>14,
           <1>15
        DEF Next, Command, Finish

\* A step keeps all properties that are not in jeopardy, but for those of x.
KeepsBut(x) ==
    \A i \in Index : props[i] \notin {Nobody, x} /\ ~InJeopardy(i) =>
        \E j \in Index : props'[j] = props[i] /\ ~InJeopardy(j)'

\* Then x is all that becomes doomed.
LEMMA DoomedGrows ==
    ASSUME NEW x, KeepsBut(x)
    PROVE  Doomed' \subseteq Doomed \union {x}
<1>1. SUFFICES ASSUME NEW o \in Original, \A i \in Index : props'[i] = o => InJeopardy(i)', o # x,
                      NEW i \in Index, props[i] = o, ~InJeopardy(i)
               PROVE  FALSE
    BY DEF Doomed
<1>2. o # Nobody
    BY <1>1, PoolAssumption DEF Original, Nobody
<1> QED BY <1>1, <1>2 DEF KeepsBut

\* Properties are lost when the VM that has them is deleted before they were
\* copied, or when a copy is given up or done again too late; each of these is
\* charged.
LEMMA LossStep ==
    ASSUME PoolInv, Truth, CopyInv, FirstRun, preserve, [Next]_vars
    PROVE  \/ KeepsBut(Nobody) /\ Chance' <= Chance /\ Charges' = Charges
           \/ KeepsBut(Nobody) /\ Chance = 0 /\ Charges' = Charges + 1
           \/ /\ Chance = 1 /\ Chance' = 0 /\ Charges' = Charges /\ runs > 1
              /\ \E x \in Index \union {Nobody} : KeepsBut(x)
           \/ /\ Chance' <= Chance /\ Charges' = Charges + 1 /\ runs # 0
              /\ \E x \in Index \union {Nobody} : KeepsBut(x)
<1>a. /\ runs \in Nat /\ givenUp \in Nat /\ recopied \in Nat /\ upCount \in Nat
      /\ props \in [Index -> Index \union {Nobody}] /\ cur \in Index /\ todo \subseteq Index
      /\ vm \in [Index -> VMStates]
    BY DEF PoolInv, TypeOK
<1>b. ASSUME \A i \in Index : props[i] # Nobody /\ ~InJeopardy(i) => props'[i] = props[i],
             pc' # "delete" \/ (pc' = pc /\ cur' = cur)
      PROVE  KeepsBut(Nobody)
    BY <1>b DEF KeepsBut, InJeopardy
<1>c. Chance \in {0, 1} /\ Chance' \in {0, 1}
    BY DEF Chance
<1>d. pc # "idle" => runs # 0
    BY DEF FirstRun
<1>e. ASSUME UNCHANGED <<runs, givenUp, recopied>> PROVE Charges' = Charges
    BY <1>e DEF Charges
<1>f. ASSUME UNCHANGED <<pc, runs, upCount>> PROVE Chance' = Chance
    BY <1>f DEF Chance
<1>g. ASSUME pc' \notin {"scan", "fill", "validateNew", "upgrade", "copy"} PROVE Chance' <= Chance
    <2>1. Chance' = 0
        BY <1>g DEF Chance
    <2> QED BY <1>c, <2>1
<1>h. ASSUME NEW i \in Index, vm[i] \notin {"old", "succeeded"} \/ i \in InDoubt PROVE props[i] = Nobody
    BY <1>h DEF CopyInv, CarriersLive
<1> USE DEF Removed, Created, cloud, local, copying, ghost
<1>1. CASE ListVirtualMachines
    <2>1. props' = props /\ pc' = "scan" /\ pc = "idle" /\ Charges' = Charges + 1
        BY <1>1, <1>a DEF ListVirtualMachines, Charges
    <2>2. KeepsBut(Nobody)
        BY <1>b, <2>1
    <2> QED BY <2>1, <2>2 DEF Chance
<1>2. CASE NoteAgentVMs \/ CreateMissing \/ ValidateNew
    <2>1. /\ props' = props /\ pc' \in {"fill", "validateNew"} /\ pc \in {"scan", "fill", "validateNew"}
          /\ runs' = runs /\ givenUp' = givenUp /\ recopied' = recopied
        BY <1>2 DEF NoteAgentVMs, CreateMissing, ValidateNew
    <2>2. KeepsBut(Nobody)
        BY <1>b, <2>1
    <2>3. Chance' = Chance
        BY <2>1 DEF Chance
    <2> QED BY <1>c, <1>e, <2>1, <2>2, <2>3
<1>5. CASE Filled
    <2>1. /\ props' = props /\ pc' \in {"success", "upgrade"} /\ pc = "fill"
          /\ runs' = runs /\ givenUp' = givenUp /\ recopied' = recopied
        BY <1>5 DEF Filled
    <2>2. KeepsBut(Nobody)
        BY <1>b, <2>1
    <2>3. Chance' <= Chance
        BY <2>1 DEF Chance
    <2> QED BY <1>e, <2>1, <2>2, <2>3
<1>6. CASE CopyProperties \/ CopyAgain
    <2>1. runs' = runs /\ upCount' = upCount /\ view' = view
        BY <1>6, CopyStep
    <2>2. CASE pc = "upgrade" /\ pc' = "copy"
        <3>1. props' = props /\ givenUp' = givenUp /\ recopied' = recopied
            BY <1>6, <2>2, CopyCases
        <3>2. KeepsBut(Nobody)
            BY <1>b, <2>2, <3>1
        <3>3. Chance' = Chance
            BY <2>1, <2>2 DEF Chance
        <3> QED BY <1>c, <1>e, <2>1, <3>1, <3>2, <3>3
    <2>3. CASE pc = "upgrade" /\ pc' = "delete"
        <3>1. /\ props' = props /\ givenUp' = givenUp /\ recopied' = recopied
              /\ cur' \in NotUpgraded /\ fresh = <<>>
            BY <1>6, <2>3, CopyCases
        <3>2. runs # 0 /\ runs # 1 /\ ~(upCount > 0)
            BY <1>d, <2>3, <3>1 DEF FirstRun
        <3>3. Chance = 1 /\ Chance' = 0 /\ runs > 1
            BY <1>a, <2>3, <3>2 DEF Chance
        <3>4. cur' \in Index
            BY <3>1 DEF NotUpgraded
        <3>5. KeepsBut(props[cur'])
            BY <3>1 DEF KeepsBut, InJeopardy
        <3>6. props[cur'] \in Index \union {Nobody}
            BY <1>a, <3>4
        <3> QED BY <1>e, <2>1, <3>1, <3>3, <3>5, <3>6
    <2>4. CASE pc = "copy" /\ pc' = "delete"
        <3>1. /\ Head(fresh) \in Members(fresh) /\ cur' = cur /\ recopied' = recopied
              /\ \/ props' = Handed(Head(fresh)) /\ givenUp' = givenUp
                 \/ props' \in {props, Handed(Head(fresh))} /\ givenUp' = givenUp + 1
            BY <1>6, <2>4, CopyCases
        <3>2. Head(fresh) \in Index /\ props[Head(fresh)] = Nobody /\ Head(fresh) # cur
            <4>1. fresh \in Seq(Index) /\ fresh # <<>>
                BY <2>4 DEF PoolInv, TypeOK
            <4> QED BY <2>4, <3>1, <4>1, MembersTail DEF CopyInv, FreshBare, PoolInv, InHand
        <3>3. Chance' <= Chance
            BY <1>g, <2>4
        <3>4. CASE props' = Handed(Head(fresh)) /\ givenUp' = givenUp
            <4>1. KeepsBut(Nobody)
                BY <1>a, <2>4, <3>1, <3>2, <3>4 DEF KeepsBut, InJeopardy, Handed
            <4> QED BY <1>e, <2>1, <3>1, <3>3, <3>4, <4>1
        <3>5. CASE props' \in {props, Handed(Head(fresh))} /\ givenUp' = givenUp + 1
            <4>1. KeepsBut(props[cur])
                BY <1>a, <2>4, <3>1, <3>2, <3>5 DEF KeepsBut, InJeopardy, Handed
            <4>2. Charges' = Charges + 1
                BY <1>a, <2>1, <3>1, <3>5 DEF Charges
            <4>3. props[cur] \in Index \union {Nobody}
                BY <1>a
            <4> QED BY <1>d, <2>4, <3>3, <4>1, <4>2, <4>3
        <3> QED BY <3>1, <3>4, <3>5
    <2>5. CASE pc' = pc
        <3>1. PICK c \in copiers :
                 /\ cur' = cur /\ pc # "idle" /\ givenUp' = givenUp
                 /\ \/ /\ pc = "delete" /\ cur = c[1] /\ props' = Handed(c[2])
                       /\ recopied' = recopied
                    \/ /\ props' \in {props, [props EXCEPT ![c[2]] = Nobody]}
                       /\ recopied' = recopied + 1
            BY <1>6, <2>5, CopyCases
        <3>2. c[2] \in Index
            BY DEF PoolInv, TypeOK
        <3>3. Chance' <= Chance
            BY <1>c, <1>f, <2>1, <2>5
        <3>4. CASE pc = "delete" /\ cur = c[1] /\ props' = Handed(c[2]) /\ recopied' = recopied
            <4>1. c[2] # cur /\ props[c[2]] \in {Nobody, props[cur]}
                BY <3>4 DEF CopyInv, CopierPairs, PoolInv, InHand
            <4>2. KeepsBut(Nobody)
                BY <1>a, <2>5, <3>1, <3>2, <3>4, <4>1 DEF KeepsBut, InJeopardy, Handed
            <4> QED BY <1>e, <2>1, <3>1, <3>3, <3>4, <4>2
        <3>5. CASE props' \in {props, [props EXCEPT ![c[2]] = Nobody]} /\ recopied' = recopied + 1
            <4>1. KeepsBut(props[c[2]])
                BY <1>a, <2>5, <3>1, <3>2, <3>5 DEF KeepsBut, InJeopardy
            <4>2. Charges' = Charges + 1
                BY <1>a, <2>1, <3>1, <3>5 DEF Charges
            <4>3. props[c[2]] \in Index \union {Nobody}
                BY <1>a, <3>2
            <4> QED BY <1>d, <3>1, <3>3, <4>1, <4>2, <4>3
        <3> QED BY <3>1, <3>4, <3>5
    <2> QED BY <1>6, <2>2, <2>3, <2>4, <2>5, CopyStep
<1>7. CASE DeleteOld
    <2>1. /\ pc = "delete" /\ pc' \in {"upgrade", "recreate"} /\ props' = [props EXCEPT ![cur] = Nobody]
          /\ runs' = runs /\ givenUp' = givenUp /\ recopied' = recopied
          /\ pc' = "upgrade" => upCount' = upCount + 1
        BY <1>7 DEF DeleteOld
    <2>2. KeepsBut(Nobody)
        BY <1>a, <1>b, <2>1 DEF InJeopardy
    <2>3. Chance' = 0
        BY <1>a, <2>1 DEF Chance
    <2> QED BY <1>c, <1>e, <2>1, <2>2, <2>3
<1>8. CASE DeleteNotFound \/ CreateAgain \/ PoolUpgraded
    <2>1. /\ props' = props /\ pc' \in {"idle", "validate", "success"}
          /\ runs' = runs /\ givenUp' = givenUp /\ recopied' = recopied
        BY <1>8 DEF DeleteNotFound, CreateAgain, PoolUpgraded
    <2>2. KeepsBut(Nobody)
        BY <1>b, <2>1
    <2> QED BY <1>e, <1>g, <2>1, <2>2
<1>10. CASE Validate
    <2>1. /\ props' = props /\ pc' = "upgrade" /\ upCount' = upCount + 1
          /\ runs' = runs /\ givenUp' = givenUp /\ recopied' = recopied
        BY <1>10 DEF Validate
    <2>2. KeepsBut(Nobody)
        BY <1>b, <2>1
    <2>3. Chance' = 0
        BY <1>a, <2>1 DEF Chance
    <2> QED BY <1>c, <1>e, <2>1, <2>2, <2>3
<1>12. CASE Scan
    <2>1. PICK i \in Index : CountUpgraded(i) \/ DeleteFailed(i) \/ Ignore(i)
        BY <1>12 DEF Scan
    <2>2. /\ pc = "scan" /\ pc' = "scan" /\ runs' = runs /\ givenUp' = givenUp /\ recopied' = recopied
          /\ \/ props' = props
             \/ snap[i] = "failed" /\ vm[i] # "absent" /\ props' = [props EXCEPT ![i] = Nobody]
        BY <2>1 DEF CountUpgraded, DeleteFailed, Ignore
    <2>3. props' = props
        <3>1. ASSUME snap[i] = "failed" PROVE props[i] = Nobody
            BY <1>h, <2>2, <3>1 DEF Truth, ListingTrue
        <3> QED BY <1>a, <2>2, <3>1
    <2>4. KeepsBut(Nobody)
        BY <1>b, <2>2, <2>3
    <2>5. Chance' = Chance
        BY <2>2 DEF Chance
    <2> QED BY <1>c, <1>e, <2>2, <2>4, <2>5
<1>13. CASE Abort
    <2>1. /\ pc' = "idle" /\ LeftBehind
          /\ runs' = runs /\ givenUp' = givenUp /\ recopied' = recopied
        BY <1>13 DEF Abort
    <2>2. \A i \in Index : props[i] # Nobody /\ ~InJeopardy(i) => props'[i] = props[i]
        <3>1. CASE UNCHANGED props
            BY <3>1
        <3>2. CASE pc = "scan" /\ \E i \in todo : snap[i] = "failed" /\ vm[i] # "absent" /\ HalfDeleted(i)
            <4>1. PICK i \in todo : snap[i] = "failed" /\ vm[i] # "absent" /\ HalfDeleted(i)
                BY <3>2
            <4>2. props[i] = Nobody /\ props' = [props EXCEPT ![i] = Nobody]
                BY <1>a, <1>h, <3>2, <4>1 DEF Truth, ListingTrue, HalfDeleted
            <4> QED BY <1>a, <4>2
        <3>3. CASE pc \in {"validateNew", "validate"} /\ HalfDeleted(cur)
            <4>1. props[cur] = Nobody /\ props' = [props EXCEPT ![cur] = Nobody]
                BY <1>a, <1>h, <3>3 DEF InDoubt, HalfDeleted
            <4> QED BY <1>a, <4>1
        <3>4. CASE pc = "copy" /\ HalfCopied
            <4>1. fresh \in Seq(Index) /\ fresh # <<>>
                BY <3>4 DEF PoolInv, TypeOK
            <4>2. props[Head(fresh)] = Nobody /\ Head(fresh) \in Index
                BY <4>1, MembersTail DEF CopyInv, FreshBare
            <4> QED BY <1>a, <3>4, <4>2 DEF HalfCopied, Handed
        <3>5. CASE pc = "delete" /\ HalfDeleted(cur)
            BY <1>a, <3>5 DEF HalfDeleted, InJeopardy
        <3> QED BY <2>1, <3>1, <3>2, <3>3, <3>4, <3>5 DEF LeftBehind, HalfCreated
    <2>3. KeepsBut(Nobody)
        BY <1>b, <2>1, <2>2
    <2> QED BY <1>e, <1>g, <2>1, <2>3
<1>14. ASSUME NEW i \in Index, BecomesReady(i) \/ Settles(i)
       PROVE  KeepsBut(Nobody) /\ Chance' <= Chance /\ Charges' = Charges
    <2>1. UNCHANGED <<props, pc, cur, upCount, runs, givenUp, recopied>>
        BY <1>14 DEF BecomesReady, Settles
    <2> QED BY <1>b, <1>c, <1>e, <1>f, <2>1
<1>15. CASE UNCHANGED vars
    <2>1. UNCHANGED <<props, pc, cur, upCount, runs, givenUp, recopied>>
        BY <1>15 DEF vars
    <2> QED BY <1>b, <1>c, <1>e, <1>f, <2>1
<1> QED BY <1>1, <1>2, <1>5, <1>6, <1>7, <1>8, <1>10, <1>12, <1>13, <1>14, <1>15
        DEF Next, Command, Finish

\* One more element, at most.
LEMMA AtMostOneMore ==
    ASSUME NEW S \in SUBSET Index, NEW T \in SUBSET Index, NEW x, T \subseteq S \union {x}
    PROVE  Cardinality(T) <= Cardinality(S) + 1
<1>1. Cardinality(S) \in Nat /\ Cardinality(T) \in Nat
    BY IndexSets
<1>2. CASE x \in Index
    <2>1. S \union {x} \in SUBSET Index
        BY <1>2
    <2>2. Cardinality(T) <= Cardinality(S \union {x}) /\ Cardinality(S \union {x}) \in Nat
        BY <2>1, NotMore, IndexSets
    <2>3. CASE x \in S
        <3>1. S \union {x} = S
            BY <2>3
        <3> QED BY <1>1, <2>2, <3>1
    <2>4. CASE x \notin S
        BY <1>1, <1>2, <2>2, <2>4, OneMore
    <2> QED BY <2>3, <2>4
<1>3. CASE x \notin Index
    <2>1. T \in SUBSET S
        BY <1>3
    <2> QED BY <1>1, <2>1, NotMore
<1> QED BY <1>2, <1>3

\* All losses stay charged.
LEMMA ChargedStep ==
    ASSUME PoolInv, Truth, CopyInv, FirstRun, Charged, [Next]_vars, preserve' = preserve
    PROVE  Charged'
<1>1. SUFFICES ASSUME preserve, Doomed' # {} PROVE Cardinality(Doomed') + Chance' < Charges'
    BY DEF Charged
<1>2. Doomed \in SUBSET Index /\ Doomed' \in SUBSET Index
    BY PoolAssumption DEF Doomed, Original, Index
<1>3. /\ Cardinality(Doomed) \in Nat /\ Cardinality(Doomed') \in Nat
      /\ Doomed = {} => Cardinality(Doomed) = 0
    BY <1>2, IndexSets
<1>4. runs \in Nat /\ givenUp \in Nat /\ recopied \in Nat
    BY DEF PoolInv, TypeOK
<1>5. Charges \in Nat /\ Charges >= runs /\ Chance \in {0, 1} /\ Chance' \in {0, 1}
      /\ (Chance = 1 => runs > 1)
    BY <1>4 DEF Charges, Chance
<1>6. ASSUME NEW x, Doomed' \subseteq Doomed \union {x}
      PROVE  Cardinality(Doomed') <= Cardinality(Doomed) + 1
    BY <1>2, <1>6, AtMostOneMore
<1>7. ASSUME KeepsBut(Nobody)
      PROVE  Doomed # {} /\ Cardinality(Doomed') <= Cardinality(Doomed)
    <2>1. Nobody \notin Original
        BY PoolAssumption DEF Original, Nobody
    <2>2. Doomed' \in SUBSET Doomed
        BY <1>7, <2>1, DoomedGrows DEF Doomed
    <2> QED BY <1>1, <1>2, <2>2, NotMore
<1>8. CASE KeepsBut(Nobody) /\ Chance' <= Chance /\ Charges' = Charges
    BY <1>1, <1>3, <1>5, <1>7, <1>8 DEF Charged
<1>9. CASE KeepsBut(Nobody) /\ Chance = 0 /\ Charges' = Charges + 1
    BY <1>1, <1>3, <1>5, <1>7, <1>9 DEF Charged
<1>10. CASE /\ Chance = 1 /\ Chance' = 0 /\ Charges' = Charges /\ runs > 1
            /\ \E x \in Index \union {Nobody} : KeepsBut(x)
    <2>1. Cardinality(Doomed') <= Cardinality(Doomed) + 1
        BY <1>6, <1>10, DoomedGrows
    <2>2. CASE Doomed = {}
        BY <1>3, <1>4, <1>5, <1>10, <2>1, <2>2
    <2>3. CASE Doomed # {}
        BY <1>1, <1>3, <1>5, <1>10, <2>1, <2>3 DEF Charged
    <2> QED BY <2>2, <2>3
<1>11. CASE /\ Chance' <= Chance /\ Charges' = Charges + 1 /\ runs # 0
            /\ \E x \in Index \union {Nobody} : KeepsBut(x)
    <2>1. Cardinality(Doomed') <= Cardinality(Doomed) + 1
        BY <1>6, <1>11, DoomedGrows
    <2>2. CASE Doomed = {}
        BY <1>3, <1>4, <1>5, <1>11, <2>1, <2>2
    <2>3. CASE Doomed # {}
        BY <1>1, <1>3, <1>5, <1>11, <2>1, <2>3 DEF Charged
    <2> QED BY <2>2, <2>3
<1> QED BY <1>1, <1>8, <1>9, <1>10, <1>11, LossStep

\* PreserveNodesProperties is part of the definition of the pool.
LEMMA PreserveStep == [Next]_vars => preserve' = preserve
BY CopyStep DEF Next, Command, Finish, ListVirtualMachines, Scan, CountUpgraded, DeleteFailed, Ignore,
   NoteAgentVMs, CreateMissing, ValidateNew, Filled, DeleteOld, DeleteNotFound, CreateAgain, Validate,
   PoolUpgraded, Abort, BecomesReady, Settles, vars, copying

\* However often the upgrade of the pool fails and is repeated, the custom
\* properties of the old nodes are on the new ones: the first run loses none,
\* every later run those of at most one node, and every copy that is given up
\* or done again under a name that was reused at most one more.
THEOREM PoolPropertiesKept == Spec => []PropertiesSurvive
<1>1. Init => FirstRun /\ Charged
    <2> SUFFICES ASSUME Init PROVE FirstRun /\ Charged
        OBVIOUS
    <2>1. FirstRun
        BY DEF Init, FirstRun, FirstVM
    <2>2. \A o \in Original : o \in Index /\ props[o] = o /\ ~InJeopardy(o)
        BY PoolAssumption DEF Init, Original, Index, InJeopardy
    <2>3. Doomed = {}
        BY <2>2 DEF Doomed
    <2> QED BY <2>1, <2>3 DEF Charged
<1>2. /\ PoolInv /\ Truth /\ Counted /\ Counted' /\ CopyInv /\ FirstRun /\ Charged
      /\ [Next]_vars
      => (FirstRun /\ Charged)'
    BY FirstRunStep, ChargedStep, PreserveStep
<1>3. PoolInv /\ Charged => PropertiesSurvive
    <2> SUFFICES ASSUME PoolInv, Charged, preserve, Lost # {}
                 PROVE  Cardinality(Lost) < runs + givenUp + recopied
        BY DEF PropertiesSurvive
    <2>1. Lost \in SUBSET Doomed /\ Doomed \in SUBSET Index /\ Lost \in SUBSET Index
        BY PoolAssumption DEF Lost, Doomed, Original, Index
    <2>2. Cardinality(Lost) <= Cardinality(Doomed)
        BY <2>1, NotMore
    <2>3. Cardinality(Lost) \in Nat /\ Cardinality(Doomed) \in Nat
        BY <2>1, IndexSets
    <2>4. runs \in Nat /\ givenUp \in Nat /\ recopied \in Nat /\ Chance \in {0, 1}
        BY DEF PoolInv, TypeOK, Chance
    <2>5. Cardinality(Doomed) + Chance < Charges
        BY <2>1 DEF Charged
    <2> QED BY <2>2, <2>3, <2>4, <2>5 DEF Charges
<1> QED BY <1>1, <1>2, <1>3, Inductive, InductiveCounts, InductiveCopy, PTL DEF Spec

-----------------------------------------------------------------------------
(***************************************************************************)
(* The node property copier, which the upgrade of a pool starts for each   *)
(* pair of nodes.  For a channel of any capacity and any number of rounds: *)
(* the goroutine that outlives its caller never takes back what the caller *)
(* was told, and undoes no label or annotation that others wrote.          *)
(***************************************************************************)
\* The goroutine starts when the drain of the new node is over, so the drain
\* cordons no node that a round has uncordoned.
StartsAfterDrain ==
    /\ copier = "off" <=> caller = "drain"
    /\ caller = "drain" => ch = 0 /\ ~told

\* A node read under the old name is there, and the original one has its taints.
ReadOriginal(o) == o.is = "original" => "custom" \in o.taints
OriginalRead ==
    /\ ReadOriginal(old)
    /\ copier \in {"getNew", "update"} => read.old.is # "gone" /\ ReadOriginal(read.old)

\* A copy of the new node that the API server will accept is the new node.
CurrentCopy == copier \in {"update", "uncordon"} /\ current => read.new = new

\* The custom label comes from the old node only.
LabelFromOld == new.custom \in {"none", Copied}

CopiedOver == mixed \/ HasCustom

\* From the update of a round on the properties are there, and from its second
\* update on the new node takes pods; both stay so in the rounds that follow.
RoundsAccumulate ==
    /\ copier = "uncordon" => CopiedOver
    /\ copier = "send" \/ ch > 0 \/ told => CopiedOver /\ ~new.unschedulable

CopierInv ==
    /\ CopyTypeOK /\ StartsAfterDrain /\ OriginalRead /\ CurrentCopy /\ LabelFromOld
    /\ RoundsAccumulate

-----------------------------------------------------------------------------
\* A merge adds to a node and takes nothing from it but its taints.
LEMMA MergeAdds ==
    ASSUME NEW o \in OldNodes, NEW n \in NewNodes, o.is # "gone", ReadOriginal(o),
           n.custom \in {"none", Copied}
    PROVE  /\ Merged(o, n) \in NewNodes
           /\ Merged(o, n).others = n.others
           /\ Merged(o, n).shared = n.shared
           /\ Merged(o, n).unschedulable = n.unschedulable
           /\ Merged(o, n).custom \in {"none", Copied}
           /\ o.is = "original" => /\ "custom" \in Merged(o, n).taints
                                   /\ Merged(o, n).custom = Copied
           /\ o.is # "original" => o.is = "replacement"
BY DEF Merged, OldNodes, NewNodes, LabelValues, Taints, Own, Copied, ReadOriginal

\* The program starts inside the invariant.
LEMMA CopierStarts == CopyInit => CopierInv
<1> SUFFICES ASSUME CopyInit PROVE CopierInv OBVIOUS
<1>1. CopyTypeOK
    <2>1. old \in OldNodes /\ NoNode \in OldNodes BY DEF CopyInit, OldNodes, NoNode, Taints
    <2>2. new \in NewNodes BY DEF CopyInit, NewNodes, LabelValues, Taints, Own, Copied
    <2>3. read \in [old: OldNodes, new: NewNodes] BY <2>1, <2>2 DEF CopyInit
    <2>4. ch \in 0..ChanCapacity BY CopierAssumption DEF CopyInit
    <2>5. told \in BOOLEAN /\ current \in BOOLEAN /\ mixed \in BOOLEAN
        BY Zenon DEF CopyInit
    <2>6. /\ caller \in {"drain", "wait", "ok", "givenup", "deleted", "recreated"}
          /\ copier \in {"off", "getOld", "getNew", "update", "uncordon", "send"}
        BY DEF CopyInit
    <2> QED BY <2>1, <2>2, <2>3, <2>4, <2>5, <2>6, Zenon DEF CopyTypeOK
<1>2. StartsAfterDrain /\ OriginalRead /\ CurrentCopy /\ LabelFromOld
    BY DEF CopyInit, StartsAfterDrain, OriginalRead, ReadOriginal, CurrentCopy, LabelFromOld
<1>3. RoundsAccumulate BY DEF CopyInit, RoundsAccumulate
<1> QED BY <1>1, <1>2, <1>3 DEF CopierInv

\* Every step keeps the invariant.
LEMMA CopierStep == CopierInv /\ [CopyNext]_copyVars => CopierInv'
<1> SUFFICES ASSUME CopierInv, [CopyNext]_copyVars PROVE CopierInv' OBVIOUS
<1> USE CopierAssumption DEF CopierInv, CopyTypeOK, StartsAfterDrain, OriginalRead, ReadOriginal, CurrentCopy,
        LabelFromOld, RoundsAccumulate, CopiedOver, HasCustom, NoNode, OldNodes, NewNodes,
        LabelValues, Taints, Own, Copied, goroutine
<1>1. CASE Drain BY <1>1 DEF Drain
<1>2. CASE ReceiveCopied BY <1>2 DEF ReceiveCopied
<1>3. CASE GiveUp BY <1>3 DEF GiveUp
<1>4. CASE OldDeleted BY <1>4 DEF OldDeleted
<1>5. CASE SameNameAgain BY <1>5 DEF SameNameAgain
<1>6. CASE GetOld BY <1>6 DEF GetOld
<1>7. CASE GetNew BY <1>7 DEF GetNew
<1>8. CASE Update
    <2>1. new' = Merged(read.old, new) BY <1>8 DEF Update, Accepted
    <2>2. mixed' = (mixed \/ read.old.is = "replacement") /\ copier' = "uncordon"
        BY <1>8 DEF Update
    <2>3. /\ read.old \in OldNodes /\ read.old.is # "gone" /\ ReadOriginal(read.old)
          /\ new \in NewNodes /\ new.custom \in {"none", Copied}
        BY <1>8 DEF Update
    <2>4. CopiedOver'
        <3>1. CASE read.old.is = "original" BY <2>1, <2>3, <3>1, MergeAdds
        <3>2. CASE read.old.is # "original" BY <2>2, <2>3, <3>2, MergeAdds
        <3> QED BY <3>1, <3>2
    <2> QED BY <1>8, <2>1, <2>3, <2>4, MergeAdds DEF Update
<1>9. CASE Uncordon
    <2>1. new' = [new EXCEPT !.unschedulable = FALSE] BY <1>9 DEF Uncordon, Accepted
    <2>2. new' \in NewNodes /\ ~new'.unschedulable /\ LabelFromOld' BY <2>1
    <2>3. CopiedOver' BY <1>9, <2>1 DEF Uncordon
    <2> QED BY <1>9, <2>2, <2>3 DEF Uncordon
<1>10. CASE Send BY <1>10 DEF Send
<1>11. CASE Retry BY <1>11 DEF Retry
<1>12. CASE OthersWrite
    <2>1. new' \in NewNodes /\ LabelFromOld' /\ new'.unschedulable = new.unschedulable
        BY <1>12 DEF OthersWrite
    <2>2. CopiedOver => CopiedOver' BY <1>12 DEF OthersWrite
    <2>3. CopyTypeOK'
        <3>1. current' = FALSE /\ UNCHANGED <<old, caller, told, copier, read, ch, mixed>>
            BY <1>12 DEF OthersWrite
        <3>2. current' \in BOOLEAN BY <3>1, Zenon
        <3> HIDE DEF NewNodes, OldNodes
        <3> QED BY <2>1, <3>1, <3>2
    <2>4. StartsAfterDrain' /\ OriginalRead' /\ CurrentCopy' BY <1>12, <2>1 DEF OthersWrite
    <2>5. RoundsAccumulate'
        <3> HIDE DEF CopiedOver
        <3> QED BY <1>12, <2>1, <2>2 DEF OthersWrite
    <2> QED BY <2>1, <2>3, <2>4, <2>5
<1>13. CASE ReplacementStarted BY <1>13 DEF ReplacementStarted
<1>14. CASE UNCHANGED copyVars BY <1>14 DEF copyVars
<1> QED BY <1>1, <1>2, <1>3, <1>4, <1>5, <1>6, <1>7, <1>8, <1>9, <1>10, <1>11, <1>12,
           <1>13, <1>14 DEF CopyNext, Caller, Copier

-----------------------------------------------------------------------------
\* The two nodes, the goroutine's copies of them and the channel keep their types.
THEOREM CopierTypes == CopySpec => []CopyTypeOK
<1>1. CopierInv => CopyTypeOK BY DEF CopierInv
<1> QED BY <1>1, CopierStarts, CopierStep, PTL DEF CopySpec

\* What copyCustomPropertiesToNewNode reports to its caller stays true however
\* often the goroutine that it leaves behind copies again.
THEOREM ReportedCopyStays == CopySpec => []HandedOver
<1>1. CopierInv => HandedOver
    BY DEF CopierInv, RoundsAccumulate, CopiedOver, HandedOver
<1> QED BY <1>1, CopierStarts, CopierStep, PTL DEF CopySpec

\* Neither update of a round undoes a label or an annotation of the new node,
\* because the API server refuses a copy that is out of date; its taints, which
\* are replaced as a whole, lose a custom one only to the replacement's.
THEOREM CopierOnlyReplacesTaints == CopySpec => OnlyTaintsReplaced
<1>1. ASSUME CopierInv, [CopyNext]_copyVars
      PROVE  [/\ new.others => new'.others
              /\ new'.shared = new.shared
              /\ new.custom = Copied => new'.custom = Copied
              /\ "custom" \in new.taints \ new'.taints => read.old.is = "replacement"]_copyVars
    <2>1. CASE Update
        <3>1. new' = Merged(read.old, new)
            BY <1>1, <2>1 DEF Update, Accepted, CopierInv, CurrentCopy
        <3>2. /\ read.old \in OldNodes /\ read.old.is # "gone" /\ ReadOriginal(read.old)
              /\ new \in NewNodes /\ new.custom \in {"none", Copied}
            BY <1>1, <2>1 DEF Update, CopierInv, CopyTypeOK, OriginalRead, LabelFromOld
        <3>3. new.custom = Copied => new'.custom = Copied
            BY <3>1, <3>2 DEF Merged, NewNodes, Copied
        <3> QED BY <3>1, <3>2, <3>3, MergeAdds
    <2>2. CASE Uncordon
        BY <1>1, <2>2 DEF Uncordon, Accepted, CopierInv, CurrentCopy, CopyTypeOK, NewNodes
    <2>3. CASE Drain \/ OthersWrite
        <3>1. new \in NewNodes BY <1>1 DEF CopierInv, CopyTypeOK
        <3>2. CASE Drain BY <2>3, <3>1, <3>2 DEF Drain, NewNodes
        <3>3. CASE OthersWrite BY <2>3, <3>1, <3>3 DEF OthersWrite, NewNodes
        <3> QED BY <2>3, <3>2, <3>3
    <2>4. CASE ~(Update \/ Uncordon \/ Drain \/ OthersWrite)
        <3>1. new' = new \/ UNCHANGED copyVars
            BY <1>1, <2>4 DEF CopyNext, Caller, Copier, ReceiveCopied, GiveUp, OldDeleted,
                SameNameAgain, GetOld, GetNew, Send, Retry, ReplacementStarted
        <3> QED BY <3>1 DEF copyVars
    <2> QED BY <2>1, <2>2, <2>3, <2>4
<1> QED BY <1>1, CopierStarts, CopierStep, PTL DEF CopySpec, OnlyTaintsReplaced

=============================================================================
