-------------------------- MODULE ScalePoolProofs --------------------------
(***************************************************************************)
(* For a pool of any size, any sequence of runs with any counts and any    *)
(* failures: a scale-down deletes nothing before all is drained, never     *)
(* goes below the count asked for, and a success means that count.         *)
(***************************************************************************)
EXTENDS ScalePool, FiniteSetTheorems, WellFoundedInduction, TLAPS

\* A run starts without results, and deploys only what it has listed VMs for.
ListedFirst ==
    /\ pc = "list" => recvd = {}
    /\ pc = "deploy" => indexes # {}

\* While drainNodes goes on, the results it received are good.
DrainedSoFar ==
    /\ pc = "drain" => \A i \in recvd : drain[i] = "ok"
    /\ pc = "delete" => \A i \in Draining : drain[i] = "ok"

\* In a calm run Azure is not busy with any VM but those whose deletion the run
\* itself has seen fail.
NothingLate ==
    calm => /\ pc \in {"list", "drain", "closing", "deploy", "save"} => late = NoJobs
            /\ pc = "idle" /\ outcome = "ok" => late = NoJobs
            /\ pc = "delete" =>
                  \A i \in Index : late[i] # "none" => late[i] = "going" /\ del[i] = "err"

\* In a calm run the pool is what was listed, and then less the VMs that were
\* chosen and whose deletion has returned.
Chosen == VMsToDelete(indexes, want)
PoolAsListed ==
    calm => /\ pc \in {"drain", "closing"} => /\ vms = indexes
                                              /\ want < Cardinality(indexes)
                                              /\ Draining = Chosen
            /\ pc = "delete" => /\ want < Cardinality(indexes)
                                /\ \A i \in Index : del[i] # "none" <=> i \in Chosen
                                /\ vms \subseteq indexes
                                /\ \A i \in indexes \ vms : del[i] \in {"ok", "err"}
                                /\ \A i \in vms : del[i] # "ok"
            /\ pc = "deploy" => /\ vms = indexes /\ vms # {}
                                /\ Cardinality(vms) < want
            /\ pc = "save" => Cardinality(vms) = want

ScaleInv ==
    TypeOK /\ ListedFirst /\ DrainedSoFar /\ NothingLate /\ PoolAsListed /\ SuccessMeansWanted

-----------------------------------------------------------------------------
(* Counting *)

\* A set of VMs of the pool is finite.
LEMMA PoolFinite ==
    ASSUME NEW S \in SUBSET Index
    PROVE  /\ IsFiniteSet(S) /\ Cardinality(S) \in Nat
           /\ \A T \in SUBSET S : Cardinality(T) <= Cardinality(S)
<1>1. IsFiniteSet(Index) BY FS_Interval, ScaleAssumption DEF Index
<1>2. IsFiniteSet(S) BY <1>1, FS_Subset
<1> QED BY <1>2, FS_Subset, FS_CardinalityType

\* How many VMs of S have a lower index: every number below the size of S, once.
Rank(S) == [i \in S |-> Cardinality({j \in S : j < i})]
LEMMA RankCounts ==
    ASSUME NEW S \in SUBSET Index
    PROVE  /\ Rank(S) \in Injection(S, 0..(Cardinality(S) - 1))
           /\ Rank(S) \in Surjection(S, 0..(Cardinality(S) - 1))
<1> DEFINE Below(i) == {j \in S : j < i}
<1>0. S \subseteq Int /\ IsFiniteSet(S) /\ Cardinality(S) \in Nat
    BY PoolFinite, ScaleAssumption DEF Index
<1>1. \A i \in S : Below(i) \in SUBSET Index /\ Cardinality(Below(i)) \in Nat
    BY PoolFinite
<1>2. ASSUME NEW i \in S
      PROVE  Cardinality(Below(i)) \in 0..(Cardinality(S) - 1)
    <2>1. IsFiniteSet(S \ {i}) /\ Cardinality(S \ {i}) = Cardinality(S) - 1
        BY <1>0, FS_RemoveElement
    <2>2. Below(i) \in SUBSET (S \ {i}) BY <1>0
    <2>3. Cardinality(Below(i)) <= Cardinality(S \ {i}) BY <2>1, <2>2, FS_Subset
    <2> QED BY <1>0, <1>1, <2>1, <2>3
<1>3. ASSUME NEW i \in S, NEW k \in S, i < k
      PROVE  Cardinality(Below(i)) < Cardinality(Below(k))
    <2>1. IsFiniteSet(Below(i)) /\ IsFiniteSet(Below(k)) BY <1>1, PoolFinite
    <2>2. i \notin Below(i) BY <1>0
    <2>3. Cardinality(Below(i) \union {i}) = Cardinality(Below(i)) + 1
        BY <2>1, <2>2, FS_AddElement
    <2>4. Below(i) \union {i} \in SUBSET Below(k)
        <3>1. ASSUME NEW j \in Below(i) \union {i} PROVE j \in S /\ j < k
            BY <1>0, <1>3, <3>1
        <3> QED BY <3>1
    <2>5. Cardinality(Below(i) \union {i}) <= Cardinality(Below(k))
        BY <2>1, <2>4, FS_Subset
    <2> QED BY <1>1, <2>3, <2>5
<1>4. ASSUME NEW i \in S, NEW k \in S, Cardinality(Below(i)) = Cardinality(Below(k))
      PROVE  i = k
    BY <1>0, <1>1, <1>3, <1>4
<1>5. Rank(S) \in Injection(S, 0..(Cardinality(S) - 1))
    <2> DEFINE R == Rank(S)
               T == 0..(Cardinality(S) - 1)
    <2>1. R \in [S -> T] BY <1>2 DEF Rank
    <2>2. \A i, k \in S : R[i] = R[k] => i = k BY <1>4 DEF Rank
    <2> HIDE DEF R, T
    <2>3. R \in Injection(S, T) BY <2>1, <2>2 DEF Injection, IsInjective
    <2> QED BY <2>3 DEF R, T
<1>6. IsFiniteSet(0..(Cardinality(S) - 1)) /\ Cardinality(0..(Cardinality(S) - 1)) = Cardinality(S)
    BY <1>0, FS_Interval
<1> QED BY <1>5, <1>6, FS_Injection

\* Deleting the VMs that vmsToDelete chooses leaves exactly as many as asked for.
LEMMA ChosenLeavesWanted ==
    ASSUME NEW S \in SUBSET Index, NEW n \in Nat, n <= Cardinality(S)
    PROVE  Cardinality(S \ VMsToDelete(S, n)) = n
<1> DEFINE K == S \ VMsToDelete(S, n)
           f == [i \in K |-> Rank(S)[i]]
<1>0. Cardinality(S) \in Nat BY PoolFinite
<1>1. Rank(S) \in [S -> 0..(Cardinality(S) - 1)] BY RankCounts DEF Injection, IsInjective
<1>2. K = {i \in S : Rank(S)[i] < n}
    BY <1>0, <1>1 DEF VMsToDelete, Rank
<1>3. f \in [K -> 0..(n - 1)] BY <1>0, <1>1, <1>2
<1>4. \A i, k \in K : f[i] = f[k] => i = k
    <2>1. \A i, k \in S : Rank(S)[i] = Rank(S)[k] => i = k BY RankCounts DEF Injection, IsInjective
    <2>2. K \subseteq S OBVIOUS
    <2>3. \A i \in K : f[i] = Rank(S)[i] OBVIOUS
    <2> HIDE DEF K, f
    <2> QED BY <2>1, <2>2, <2>3
<1>5. ASSUME NEW r \in 0..(n - 1) PROVE \E i \in K : f[i] = r
    <2>1. r \in 0..(Cardinality(S) - 1) BY <1>0
    <2>2. PICK i \in S : Rank(S)[i] = r BY <2>1, RankCounts DEF Surjection
    <2>3. i \in K BY <1>2, <2>2
    <2> QED BY <2>2, <2>3
<1> HIDE DEF f, K
<1>6. f \in Injection(K, 0..(n - 1)) BY <1>3, <1>4 DEF Injection, IsInjective
<1>7. f \in Surjection(K, 0..(n - 1)) BY <1>3, <1>5 DEF Surjection
<1>8. IsFiniteSet(0..(n - 1)) /\ Cardinality(0..(n - 1)) = n BY FS_Interval
<1>9. Cardinality(K) = n BY <1>6, <1>7, <1>8, FS_Injection
<1> QED BY <1>9 DEF K

\* A set of VMs that is not empty has a highest index.
LEMMA HighestIndex ==
    ASSUME NEW S \in SUBSET Index, S # {}
    PROVE  \E i \in S : \A j \in S : j <= i
<1> DEFINE Gaps == {MaxIndex - i : i \in S}
<1>0. \A i \in S : MaxIndex - i \in Nat BY ScaleAssumption DEF Index
<1>1. Gaps \subseteq Nat /\ Gaps # {} BY <1>0
<1>2. PICK g \in Gaps : \A h \in Gaps : ~(<<h, g>> \in OpToRel(<, Nat))
    <2> HIDE DEF Gaps
    <2> QED BY <1>1, WFMin, NatLessThanWellFounded
<1>3. \A h \in Gaps : ~(h < g) BY <1>1, <1>2 DEF OpToRel
<1>4. PICK i \in S : g = MaxIndex - i OBVIOUS
<1>5. ASSUME NEW j \in S PROVE j <= i
    <2>1. ~(MaxIndex - j < MaxIndex - i) BY <1>3, <1>4
    <2> QED BY <2>1, ScaleAssumption DEF Index
<1> QED BY <1>5

\* A deployment adds as many VMs as are missing, above the highest index.
LEMMA DeployAddsMissing ==
    ASSUME indexes \in SUBSET Index, indexes # {}, want \in Nat, Current < want,
           CountForTemplate - 1 <= MaxIndex
    PROVE  /\ NewVMs \subseteq Index
           /\ NewVMs \intersect indexes = {}
           /\ Cardinality(indexes \union NewVMs) = want
<1>1. Highest \in indexes /\ \A j \in indexes : j <= Highest
    <2>1. \E i \in indexes : \A j \in indexes : j <= i BY HighestIndex
    <2> QED BY <2>1 DEF Highest
<1>2. Highest \in Nat /\ indexes \subseteq Nat BY <1>1 DEF Index
<1>3. IsFiniteSet(indexes) /\ Current \in Nat BY PoolFinite DEF Current
<1>4. CountForTemplate = want + Highest + 1 - Current
    <2>1. CASE Highest # 0 BY <2>1 DEF CountForTemplate
    <2>2. CASE Highest = 0
        <3>1. \A j \in indexes : j = 0
            <4>1. ASSUME NEW j \in indexes PROVE j = 0
                <5>1. j \in Nat /\ j <= 0 BY <1>1, <1>2, <2>2
                <5> QED BY <5>1
            <4> QED BY <4>1
        <3>2. indexes = {0} BY <1>1, <2>2, <3>1
        <3>3. Current = 1 BY <3>2, FS_Singleton DEF Current
        <3> QED BY <2>2, <3>3 DEF CountForTemplate
    <2> QED BY <2>1, <2>2
<1>5. NewVMs = (Highest + 1)..(want + Highest - Current) BY <1>2, <1>3, <1>4 DEF NewVMs
<1>6. NewVMs \subseteq Index BY <1>2, <1>3, <1>4, <1>5, ScaleAssumption DEF Index
<1>7. NewVMs \intersect indexes = {}
    <2>1. ASSUME NEW j \in NewVMs, j \in indexes PROVE FALSE
        <3>1. j <= Highest /\ j \in Nat BY <1>1, <1>2, <2>1
        <3>2. Highest + 1 <= j BY <1>2, <1>3, <1>5, <2>1
        <3> QED BY <1>2, <3>1, <3>2
    <2> QED BY <2>1
<1>8. IsFiniteSet(NewVMs) /\ Cardinality(NewVMs) = want - Current
    BY <1>2, <1>3, <1>5, FS_Interval
<1>9. Cardinality(indexes \union NewVMs) = Current + (want - Current) - 0
    <2>1. indexes \intersect NewVMs = {} BY <1>7
    <2> QED BY <1>3, <1>8, <2>1, FS_Union, FS_EmptySet DEF Current
<1> QED BY <1>3, <1>6, <1>7, <1>9

-----------------------------------------------------------------------------
(* The invariant *)

\* The pool as it was deployed.
LEMMA ScaleInit ==
    ASSUME Init
    PROVE  ScaleInv
<1>1. TypeOK
    <2>1. calm \in BOOLEAN BY Zenon DEF Init
    <2>2. vms \subseteq Index BY ScaleAssumption DEF Init, Index
    <2>3. /\ late \in [Index -> {"none", "coming", "going"}]
          /\ drain \in [Index -> Jobs] /\ del \in [Index -> Jobs]
        BY DEF Init, NoJobs, Jobs
    <2> QED BY <2>1, <2>2, <2>3, ScaleAssumption DEF Init, TypeOK, Phases
<1> QED BY <1>1
        DEF Init, ScaleInv, ListedFirst, DrainedSoFar, NothingLate, PoolAsListed, SuccessMeansWanted

\* Every step keeps the types.
LEMMA ScaleTypeStep ==
    ASSUME TypeOK, ListedFirst, [Next]_vars
    PROVE  TypeOK' /\ ListedFirst'
<1> USE ScaleAssumption DEF TypeOK, Phases, Jobs, cluster, local, NoJobs, Draining, ListedFirst
<1>1. CASE Start
    <2>1. calm' \in BOOLEAN BY <1>1, Zenon DEF Start
    <2>2. runs' \in 0..MaxRuns BY <1>1 DEF Start
    <2> QED BY <1>1, <2>1, <2>2 DEF Start
<1>2. CASE ListVirtualMachines
    <2>1. recvd = {} /\ drain' \in [Index -> Jobs]
        BY <1>2 DEF ListVirtualMachines
    <2>2. pc' \in Phases /\ outcome' \in {"none", "ok", "error"}
        BY <1>2 DEF ListVirtualMachines, Ends
    <2>3. pc' # "list" /\ (pc' = "deploy" => indexes' # {})
        BY <1>2 DEF ListVirtualMachines, Ends
    <2>4. /\ indexes' = vms /\ recvd' = {}
          /\ UNCHANGED <<vms, late, saved, want, del, runs, calm>>
        BY <1>2, <2>1 DEF ListVirtualMachines
    <2> QED BY <2>1, <2>2, <2>3, <2>4
<1>3. ASSUME NEW i \in Index, DrainEnds(i) PROVE TypeOK' /\ ListedFirst'
    BY <1>3 DEF DrainEnds
<1>4. ASSUME NEW i \in Index, ReceiveErr(i) \/ ReceiveOk(i) PROVE TypeOK' /\ ListedFirst'
    BY <1>4 DEF ReceiveErr, ReceiveOk
<1>5. CASE Closed BY <1>5 DEF Closed, Ends
<1>6. CASE AllDrained BY <1>6 DEF AllDrained
<1>7. ASSUME NEW i \in Index, DeleteEnds(i) PROVE TypeOK' /\ ListedFirst'
    <2>1. vms' \subseteq Index /\ late' \in [Index -> {"none", "coming", "going"}]
          /\ del' \in [Index -> Jobs]
        BY <1>7 DEF DeleteEnds
    <2> QED BY <1>7, <2>1 DEF DeleteEnds
<1>8. CASE AllDeleted BY <1>8 DEF AllDeleted, Ends
<1>9. CASE DeployTemplate
    <2>1. NewVMs \subseteq Index
        <3>1. \E i \in indexes : \A j \in indexes : j <= i
            BY <1>9, HighestIndex DEF DeployTemplate
        <3>2. Highest \in indexes BY <3>1 DEF Highest
        <3>3. Highest \in Nat BY <3>2 DEF Index
        <3>4. CountForTemplate \in Int /\ CountForTemplate - 1 <= MaxIndex
            BY <1>9, <3>3, PoolFinite DEF DeployTemplate, CountForTemplate, Current
        <3> QED BY <3>3, <3>4 DEF NewVMs, Index
    <2> QED BY <1>9, <2>1 DEF DeployTemplate, Ends
<1>10. CASE SaveAPIModel BY <1>10 DEF SaveAPIModel, Ends
<1>11. CASE Killed BY <1>11 DEF Killed, Ends
<1>12. ASSUME NEW i \in Index, Settles(i) PROVE TypeOK' /\ ListedFirst'
    BY <1>12 DEF Settles
<1>13. CASE Stop \/ UNCHANGED vars BY <1>13 DEF Stop, vars
<1> QED BY <1>1, <1>2, <1>3, <1>4, <1>5, <1>6, <1>7, <1>8, <1>9, <1>10, <1>11, <1>12, <1>13
        DEF Next, Goroutines, Main

\* Every step keeps what is known of the drains.
LEMMA DrainedStep ==
    ASSUME TypeOK, ListedFirst, DrainedSoFar, [Next]_vars
    PROVE  DrainedSoFar'
<1> USE DEF TypeOK, ListedFirst, DrainedSoFar, Draining, cluster, local, Jobs
<1>1. CASE Start BY <1>1 DEF Start
<1>2. CASE ListVirtualMachines BY <1>2 DEF ListVirtualMachines, Ends
<1>3. ASSUME NEW i \in Index, DrainEnds(i) PROVE DrainedSoFar'
    BY <1>3 DEF DrainEnds
<1>4. ASSUME NEW i \in Index, ReceiveErr(i) \/ ReceiveOk(i) PROVE DrainedSoFar'
    BY <1>4 DEF ReceiveErr, ReceiveOk
<1>5. CASE Closed BY <1>5 DEF Closed, Ends
<1>6. CASE AllDrained BY <1>6 DEF AllDrained
<1>7. ASSUME NEW i \in Index, DeleteEnds(i) PROVE DrainedSoFar'
    BY <1>7 DEF DeleteEnds
<1>8. CASE AllDeleted BY <1>8 DEF AllDeleted, Ends
<1>9. CASE DeployTemplate BY <1>9 DEF DeployTemplate, Ends
<1>10. CASE SaveAPIModel BY <1>10 DEF SaveAPIModel, Ends
<1>11. CASE Killed BY <1>11 DEF Killed, Ends
<1>12. ASSUME NEW i \in Index, Settles(i) PROVE DrainedSoFar'
    BY <1>12 DEF Settles
<1>13. CASE Stop \/ UNCHANGED vars BY <1>13 DEF Stop, vars
<1> QED BY <1>1, <1>2, <1>3, <1>4, <1>5, <1>6, <1>7, <1>8, <1>9, <1>10, <1>11, <1>12, <1>13
        DEF Next, Goroutines, Main

\* Every step of a calm run keeps what is known of Azure and of the pool.
LEMMA CalmStep ==
    ASSUME ScaleInv, [Next]_vars
    PROVE  NothingLate' /\ PoolAsListed' /\ SuccessMeansWanted'
<1> USE DEF ScaleInv, NothingLate, PoolAsListed, SuccessMeansWanted, cluster, local
<1> DEFINE Goal == NothingLate' /\ PoolAsListed' /\ SuccessMeansWanted'
<1>0. TypeOK /\ indexes \subseteq Index /\ vms \subseteq Index BY DEF TypeOK
<1>1. CASE Start BY <1>1 DEF Start
<1>2. CASE ListVirtualMachines
    <2>1. calm' = calm /\ late' = late /\ vms' = vms /\ want' = want /\ indexes' = vms
        BY <1>2 DEF ListVirtualMachines
    <2>2. calm => late = NoJobs BY <1>2 DEF ListVirtualMachines
    <2>3. ASSUME Ends("error") PROVE Goal BY <2>1, <2>3 DEF Ends
    <2>4. ASSUME Ends("ok"), Cardinality(vms) = want PROVE Goal BY <2>1, <2>2, <2>4 DEF Ends
    <2>5. ASSUME Cardinality(vms) > want, pc' = "drain",
                 drain' = [i \in Index |-> IF i \in VMsToDelete(vms, want)
                                           THEN "running" ELSE "none"]
          PROVE  Goal
        <3>1. VMsToDelete(vms, want) \subseteq Index BY <1>0 DEF VMsToDelete
        <3>2. Draining' = Chosen' BY <2>1, <2>5, <3>1 DEF Draining, Chosen
        <3>3. want' < Cardinality(indexes') BY <1>0, <2>1, <2>5
        <3> QED BY <2>1, <2>2, <2>5, <3>2, <3>3
    <2>6. ASSUME vms # {}, Cardinality(vms) < want, pc' = "deploy" PROVE Goal
        BY <2>1, <2>2, <2>6
    <2> QED BY <1>2, <2>3, <2>4, <2>5, <2>6 DEF ListVirtualMachines
<1>3. ASSUME NEW i \in Index, DrainEnds(i) PROVE Goal
    <2>1. /\ pc = "drain" /\ UNCHANGED <<cluster, pc, want, indexes, outcome, calm>>
          /\ \E r \in {"ok", "err"} : drain[i] = "running" /\ drain' = [drain EXCEPT ![i] = r]
        BY <1>3 DEF DrainEnds
    <2>2. Draining' = Draining BY <1>0, <2>1 DEF Draining, TypeOK
    <2>3. Chosen' = Chosen BY <2>1 DEF Chosen
    <2> QED BY <2>1, <2>2, <2>3
<1>4. ASSUME NEW i \in Index, ReceiveErr(i) \/ ReceiveOk(i) PROVE Goal
    <2>1. /\ pc = "drain" /\ pc' \in {"drain", "closing"}
          /\ UNCHANGED <<cluster, want, indexes, drain, outcome, calm>>
        BY <1>4 DEF ReceiveErr, ReceiveOk
    <2>2. Draining' = Draining /\ Chosen' = Chosen BY <2>1 DEF Draining, Chosen
    <2> QED BY <2>1, <2>2
<1>5. CASE Closed BY <1>5 DEF Closed, Ends
<1>6. CASE AllDrained
    <2>1. /\ pc = "drain" /\ pc' = "delete" /\ UNCHANGED <<cluster, want, indexes, calm>>
          /\ del' = [i \in Index |-> IF i \in Draining THEN "running" ELSE "none"]
        BY <1>6 DEF AllDrained
    <2>2. calm => /\ vms = indexes /\ want < Cardinality(indexes)
                  /\ \A i \in Index : del'[i] # "none" <=> i \in Chosen
        BY <2>1
    <2>3. Chosen' = Chosen BY <2>1 DEF Chosen
    <2>4. \A i \in Index : del'[i] # "ok" BY <2>1
    <2>5. calm => late = NoJobs BY <2>1
    <2>6. PoolAsListed' BY <1>0, <2>1, <2>2, <2>3, <2>4
    <2>7. NothingLate' BY <2>1, <2>5 DEF NoJobs
    <2> QED BY <2>1, <2>6, <2>7
<1>7. ASSUME NEW i \in Index, DeleteEnds(i) PROVE Goal
    <2>1. pc = "delete" /\ del[i] = "running"
          /\ UNCHANGED <<pc, want, indexes, outcome, calm>>
        BY <1>7 DEF DeleteEnds
    <2>2. /\ vms' \in {vms, vms \ {i}}
          /\ \/ vms' = vms \ {i} /\ del' = [del EXCEPT ![i] = "ok"] /\ UNCHANGED late
             \/ del' = [del EXCEPT ![i] = "err"]
                /\ (UNCHANGED late \/ late' = [late EXCEPT ![i] = "going"])
        BY <1>7 DEF DeleteEnds
    <2>3. Chosen' = Chosen BY <2>1 DEF Chosen
    <2>4. NothingLate' BY <2>1, <2>2 DEF TypeOK
    <2>5. PoolAsListed' BY <1>0, <2>1, <2>2, <2>3 DEF TypeOK
    <2> QED BY <2>1, <2>4, <2>5
<1>8. CASE AllDeleted
    <2>1. /\ pc = "delete" /\ \A i \in Index : del[i] # "running"
          /\ UNCHANGED <<cluster, local, calm>>
        BY <1>8 DEF AllDeleted
    <2>2. CASE \E i \in Index : del[i] = "err"
        BY <1>8, <2>1, <2>2 DEF AllDeleted, Ends
    <2>3. CASE ~\E i \in Index : del[i] = "err"
        <3>1. pc' = "save" BY <1>8, <2>3 DEF AllDeleted
        <3>2. ASSUME calm PROVE late = NoJobs
            <4>1. \A i \in Index : late[i] = "none" BY <2>1, <2>3, <3>2
            <4> QED BY <4>1 DEF TypeOK, NoJobs
        <3>3. ASSUME calm PROVE Cardinality(vms) = want
            <4>1. vms = indexes \ Chosen
                <5>1. \A i \in Index : del[i] \in {"none", "ok"} BY <2>1, <2>3 DEF TypeOK, Jobs
                <5>2. ASSUME NEW i \in vms PROVE i \in indexes \ Chosen
                    BY <1>0, <2>1, <3>3, <5>1
                <5>3. ASSUME NEW i \in indexes \ Chosen PROVE i \in vms
                    BY <1>0, <2>1, <3>3, <5>1
                <5> QED BY <5>2, <5>3
            <4>2. want \in Nat BY ScaleAssumption DEF TypeOK
            <4>3. Cardinality(indexes) \in Nat BY <1>0, PoolFinite
            <4>4. want <= Cardinality(indexes) BY <2>1, <3>3, <4>2, <4>3
            <4> QED BY <1>0, <4>1, <4>2, <4>4, ChosenLeavesWanted DEF Chosen
        <3> QED BY <2>1, <3>1, <3>2, <3>3
    <2> QED BY <2>2, <2>3
<1>9. CASE DeployTemplate
    <2>1. pc = "deploy" /\ UNCHANGED <<calm, want>> BY <1>9 DEF DeployTemplate
    <2>2. CASE vms' = vms \union NewVMs /\ pc' = "save" /\ UNCHANGED <<late, outcome>>
        <3>1. ASSUME calm PROVE Cardinality(vms') = want
            <4>1. vms = indexes /\ indexes # {} /\ Current < want BY <2>1, <3>1 DEF Current
            <4>2. want \in Nat BY ScaleAssumption DEF TypeOK
            <4> QED BY <1>0, <1>9, <2>2, <4>1, <4>2, DeployAddsMissing DEF DeployTemplate
        <3> QED BY <2>1, <2>2, <3>1
    <2>3. CASE Ends("error") BY <2>3 DEF Ends
    <2> QED BY <1>9, <2>2, <2>3 DEF DeployTemplate
<1>10. CASE SaveAPIModel BY <1>10 DEF SaveAPIModel, Ends
<1>11. CASE Killed BY <1>11 DEF Killed, Ends
<1>12. ASSUME NEW i \in Index, Settles(i) PROVE Goal
    <2>1. /\ late[i] # "none" /\ late' = [late EXCEPT ![i] = "none"]
          /\ vms' = IF late[i] = "coming" THEN vms \union {i} ELSE vms \ {i}
          /\ UNCHANGED <<pc, local, outcome, calm>>
        BY <1>12 DEF Settles
    <2>2. late # NoJobs BY <2>1 DEF NoJobs
    <2>3. Chosen' = Chosen BY <2>1 DEF Chosen
    <2>4. CASE calm /\ pc = "delete"
        <3>1. late[i] = "going" /\ del[i] = "err" /\ vms' = vms \ {i} BY <2>1, <2>4
        <3>2. NothingLate' BY <2>1, <2>4 DEF TypeOK
        <3>3. PoolAsListed' BY <2>1, <2>3, <2>4, <3>1
        <3> QED BY <2>1, <2>4, <3>2, <3>3
    <2>5. CASE ~calm BY <2>1, <2>5
    <2>6. CASE calm /\ pc # "delete"
        <3>1. pc = "idle" /\ outcome # "ok" BY <2>2, <2>6 DEF TypeOK, Phases
        <3> QED BY <2>1, <2>6, <3>1
    <2> QED BY <2>4, <2>5, <2>6
<1>13. CASE Stop \/ UNCHANGED vars
    <2>1. Draining' = Draining /\ Chosen' = Chosen
        BY <1>13 DEF Stop, vars, Draining, Chosen
    <2> QED BY <1>13, <2>1 DEF Stop, vars
<1> QED BY <1>1, <1>2, <1>3, <1>4, <1>5, <1>6, <1>7, <1>8, <1>9, <1>10, <1>11, <1>12, <1>13
        DEF Next, Goroutines, Main

\* Every step keeps the invariant.
LEMMA ScaleStep ==
    ASSUME ScaleInv, [Next]_vars
    PROVE  ScaleInv'
<1>1. TypeOK' /\ ListedFirst' BY ScaleTypeStep DEF ScaleInv
<1>2. DrainedSoFar' BY DrainedStep DEF ScaleInv
<1> QED BY <1>1, <1>2, CalmStep DEF ScaleInv

-----------------------------------------------------------------------------
\* Pool, API model and the running command keep their types.
THEOREM ScaleTypes == Spec => []TypeOK
<1>1. ScaleInv => TypeOK BY DEF ScaleInv
<1> QED BY <1>1, ScaleInit, ScaleStep, PTL DEF Spec

\* A run of scaleCmd that reports success leaves the count asked for: the loop
\* over the highest indices deletes exactly the surplus, and the template's
\* count, which allows for holes, creates exactly what is missing.
THEOREM ScaleSuccess == Spec => []SuccessMeansWanted
<1>1. ScaleInv => SuccessMeansWanted BY DEF ScaleInv
<1> QED BY <1>1, ScaleInit, ScaleStep, PTL DEF Spec

\* While a scale-down is under way, the VMs that were not chosen are there, and
\* they are as many as were asked for.
THEOREM ScaleDownStopsAtWanted == Spec => []NeverBelowWanted
<1>1. ASSUME ScaleInv, calm, pc \in {"drain", "closing", "delete"}
      PROVE  Cardinality(vms) >= want
    <2>0. want \in Nat BY <1>1, ScaleAssumption DEF ScaleInv, TypeOK
    <2>1. indexes \in SUBSET Index /\ vms \in SUBSET Index BY <1>1 DEF ScaleInv, TypeOK
    <2>2. Cardinality(indexes) \in Nat /\ Cardinality(vms) \in Nat BY <2>1, PoolFinite
    <2>3. want < Cardinality(indexes) BY <1>1 DEF ScaleInv, PoolAsListed
    <2>4. CASE pc \in {"drain", "closing"}
        BY <1>1, <2>0, <2>2, <2>3, <2>4 DEF ScaleInv, PoolAsListed
    <2>5. CASE pc = "delete"
        <3>1. indexes \ Chosen \in SUBSET vms
            <4>1. ASSUME NEW i \in indexes, i \notin Chosen, i \notin vms PROVE FALSE
                BY <1>1, <2>1, <2>5, <4>1 DEF ScaleInv, PoolAsListed
            <4> QED BY <4>1
        <3>2. Cardinality(indexes \ Chosen) <= Cardinality(vms) BY <2>1, <3>1, PoolFinite
        <3>3. Cardinality(indexes \ Chosen) = want
            BY <2>0, <2>1, <2>2, <2>3, ChosenLeavesWanted DEF Chosen
        <3> QED BY <2>0, <2>2, <3>2, <3>3
    <2> QED BY <1>1, <2>4, <2>5
<1>2. ScaleInv => NeverBelowWanted BY <1>1 DEF NeverBelowWanted
<1> QED BY <1>2, ScaleInit, ScaleStep, PTL DEF Spec

\* drainNodes is all or nothing: a VM starts to go only when every node that was
\* to be drained in the run has been.
THEOREM DrainBeforeDelete == Spec => DrainedBeforeDeleted
<1>1. ASSUME ScaleInv, [Next]_vars
      PROVE  [Leaving' \ Leaving # {} => \A i \in Draining : drain[i] = "ok"]_vars
    <2> USE DEF Leaving, cluster, local
    <2>0. late \in [Index -> {"none", "coming", "going"}] BY <1>1 DEF ScaleInv, TypeOK
    <2>1. CASE pc = "delete" BY <1>1, <2>1 DEF ScaleInv, DrainedSoFar
    <2>2. CASE pc # "delete"
        <3> SUFFICES Leaving' \subseteq Leaving \/ UNCHANGED vars OBVIOUS
        <3>1. ASSUME UNCHANGED <<vms, late>> PROVE Leaving' \subseteq Leaving BY <3>1
        <3>2. CASE DeployTemplate BY <2>0, <3>2 DEF DeployTemplate
        <3>3. CASE Killed BY <2>0, <2>2, <3>3 DEF Killed
        <3>4. ASSUME NEW i \in Index, Settles(i) PROVE Leaving' \subseteq Leaving
            BY <2>0, <3>4 DEF Settles
        <3>5. CASE Start \/ ListVirtualMachines \/ Closed \/ AllDrained \/ AllDeleted
                   \/ SaveAPIModel
            BY <3>1, <3>5
            DEF Start, ListVirtualMachines, Closed, AllDrained, AllDeleted, SaveAPIModel
        <3>6. ASSUME NEW i \in Index, DrainEnds(i) \/ ReceiveErr(i) \/ ReceiveOk(i)
              PROVE  Leaving' \subseteq Leaving
            BY <3>1, <3>6 DEF DrainEnds, ReceiveErr, ReceiveOk
        <3> QED BY <1>1, <2>2, <3>2, <3>3, <3>4, <3>5, <3>6
                DEF Next, Goroutines, Main, Stop, DeleteEnds
    <2> QED BY <2>1, <2>2
<1> QED BY <1>1, ScaleInit, ScaleStep, PTL DEF Spec, DrainedBeforeDeleted

=============================================================================
