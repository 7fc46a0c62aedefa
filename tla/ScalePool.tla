----------------------------- MODULE ScalePool -----------------------------
(***************************************************************************)
(* The scale command for an agent pool of an availability set: scaleCmd.run,*)
(* drainNodes and saveAPIModel (cmd/scale.go). Its runs follow one another; *)
(* each may fail or be killed anywhere and leaves behind the VMs, the API   *)
(* model file, and what Azure has begun and nobody waits for any more.     *)
(* Draining a node is modelled in NodeDrain, deleting VMs in VMDelete: here *)
(* a drain succeeds or fails, and a deletion removes the VM or not.         *)
(***************************************************************************)
EXTENDS Integers, FiniteSets

CONSTANTS StartCount,  \* Count of the pool when it was deployed
          Wants,       \* values of --new-node-count
          MaxIndex,    \* bound on the indices of the pool's VM names
          MaxRuns      \* bound on the runs of the command

ASSUME ScaleAssumption ==
    /\ StartCount \in Nat \ {0}
    /\ Wants \in SUBSET (Nat \ {0})
    /\ MaxIndex \in Nat /\ StartCount <= MaxIndex + 1
    /\ MaxRuns \in Nat

Index == 0..MaxIndex

VARIABLES
    vms,       \* indices of the pool's VMs
    late,      \* VMs that Azure will still create or delete
    saved,     \* Count in the API model file
    pc,        \* where the run is
    want,      \* newDesiredAgentCount
    indexes,   \* the indices listed at the start of the run
    drain,     \* the goroutines of drainNodes
    recvd,     \* nodes whose result was received from errChan
    del,       \* the goroutines of ScaleDownVMs
    outcome,   \* how the last run ended
    runs,      \* runs started
    calm       \* Azure was done with the earlier runs when this one began

cluster == <<vms, late, saved>>
local   == <<want, indexes, drain, recvd, del>>
vars    == <<cluster, pc, local, outcome, runs, calm>>

Phases == {"idle", "list", "drain", "closing", "delete", "deploy", "save"}
Jobs   == {"none", "running", "ok", "err"}

TypeOK ==
    /\ vms \subseteq Index
    /\ late \in [Index -> {"none", "coming", "going"}]
    /\ saved \in Wants \union {StartCount}
    /\ pc \in Phases
    /\ want \in Wants \union {StartCount}
    /\ indexes \subseteq Index
    /\ drain \in [Index -> Jobs]
    /\ recvd \subseteq {i \in Index : drain[i] # "none"}
    /\ del \in [Index -> Jobs]
    /\ outcome \in {"none", "ok", "error"}
    /\ runs \in 0..MaxRuns
    /\ calm \in BOOLEAN

NoJobs == [i \in Index |-> "none"]

Init ==
    /\ vms = 0..(StartCount - 1) /\ late = NoJobs /\ saved = StartCount
    /\ pc = "idle" /\ want = StartCount
    /\ indexes = {} /\ drain = NoJobs /\ recvd = {} /\ del = NoJobs
    /\ outcome = "none" /\ runs = 0 /\ calm = TRUE

Current == Cardinality(indexes)
Highest == CHOOSE i \in indexes : \A j \in indexes : j <= i

Ends(how) == pc' = "idle" /\ outcome' = how

-----------------------------------------------------------------------------

\* A new run. Everything of the last one is gone but the cluster.
Start ==
    /\ pc = "idle" /\ runs < MaxRuns
    /\ want' \in Wants
    /\ pc' = "list" /\ outcome' = "none"
    /\ drain' = NoJobs /\ recvd' = {} /\ del' = NoJobs
    /\ runs' = runs + 1 /\ calm' = (late = NoJobs)
    /\ UNCHANGED <<cluster, indexes>>

\* Mistakes: the loop's last index is one too high, or one too low.
VMsToDeleteOneFewer(all, n) == {i \in all : Cardinality({j \in all : j < i}) > n}
VMsToDeleteOneMore(all, n) == {i \in all : Cardinality({j \in all : j < i}) >= n - 1}

\* vmsToDelete: the VMs at the highest indices, all but want of them.
VMsToDelete(all, n) == {i \in all : Cardinality({j \in all : j < i}) >= n}

\* ListVirtualMachines and the comparison that follows: nothing to do, scale
\* down, or scale up. No VM of the pool, after ten attempts, is an error.
ListVirtualMachines ==
    /\ pc = "list"
    /\ indexes' = vms
    /\ \/ /\ vms = {}
          /\ Ends("error") /\ UNCHANGED drain
       \/ /\ vms # {} /\ Cardinality(vms) = want
          /\ Ends("ok") /\ UNCHANGED drain
       \/ /\ Cardinality(vms) > want
          /\ pc' = "drain"
          /\ drain' = [i \in Index |-> IF i \in VMsToDelete(vms, want)
                                       THEN "running" ELSE "none"]
          /\ UNCHANGED outcome
       \/ /\ vms # {} /\ Cardinality(vms) < want
          /\ pc' = "deploy" /\ UNCHANGED <<drain, outcome>>
    /\ UNCHANGED <<cluster, want, recvd, del, runs, calm>>

-----------------------------------------------------------------------------
(* Scaling down *)

Draining == {i \in Index : drain[i] # "none"}

\* SafelyDrainNode returns in its goroutine, which sends what it returned.
DrainEnds(i) ==
    /\ pc = "drain" /\ drain[i] = "running"
    /\ \E r \in {"ok", "err"} : drain' = [drain EXCEPT ![i] = r]
    /\ UNCHANGED <<cluster, pc, want, indexes, recvd, del, outcome, runs, calm>>

\* Mistake: the error is logged and the loop goes on.
ReceiveErrIgnored(i) ==
    /\ pc = "drain" /\ i \in Draining \ recvd /\ drain[i] = "err"
    /\ recvd' = recvd \union {i}
    /\ UNCHANGED <<cluster, pc, want, indexes, drain, del, outcome, runs, calm>>

\* The first error ends drainNodes, which closes errChan.
ReceiveErr(i) ==
    /\ pc = "drain" /\ i \in Draining \ recvd /\ drain[i] = "err"
    /\ recvd' = recvd \union {i}
    /\ pc' = "closing"
    /\ UNCHANGED <<cluster, want, indexes, drain, del, outcome, runs, calm>>

ReceiveOk(i) ==
    /\ pc = "drain" /\ i \in Draining \ recvd /\ drain[i] = "ok"
    /\ recvd' = recvd \union {i}
    /\ UNCHANGED <<cluster, pc, want, indexes, drain, del, outcome, runs, calm>>

\* The run returns the error, unless a goroutine that is still draining sends
\* on the closed channel first and panics. Either way the process ends.
Closed == pc = "closing" /\ Ends("error") /\ UNCHANGED <<cluster, local, runs, calm>>

\* Mistake: one result more than there are nodes is waited for.
AllDrainedAndOneMore ==
    /\ pc = "drain" /\ Cardinality(recvd) > Cardinality(Draining)
    /\ pc' = "delete"
    /\ del' = [i \in Index |-> IF i \in Draining THEN "running" ELSE "none"]
    /\ UNCHANGED <<cluster, want, indexes, drain, recvd, outcome, runs, calm>>

AllDrained ==
    /\ pc = "drain" /\ recvd = Draining
    /\ pc' = "delete"
    /\ del' = [i \in Index |-> IF i \in Draining THEN "running" ELSE "none"]
    /\ UNCHANGED <<cluster, want, indexes, drain, recvd, outcome, runs, calm>>

\* CleanDeleteVirtualMachine returns in its goroutine: the VM is gone, or it
\* failed and the VM is gone, stays or will go.
DeleteEnds(i) ==
    /\ pc = "delete" /\ del[i] = "running"
    /\ \/ vms' = vms \ {i} /\ del' = [del EXCEPT ![i] = "ok"] /\ UNCHANGED late
       \/ vms' \in {vms, vms \ {i}} /\ del' = [del EXCEPT ![i] = "err"] /\ UNCHANGED late
       \/ i \in vms /\ late' = [late EXCEPT ![i] = "going"]
          /\ del' = [del EXCEPT ![i] = "err"] /\ UNCHANGED vms
    /\ UNCHANGED <<saved, pc, want, indexes, drain, recvd, outcome, runs, calm>>

\* ScaleDownVMs waits for all results.
AllDeleted ==
    /\ pc = "delete" /\ \A i \in Index : del[i] # "running"
    /\ IF \E i \in Index : del[i] = "err"
       THEN Ends("error")
       ELSE pc' = "save" /\ UNCHANGED outcome
    /\ UNCHANGED <<cluster, local, runs, calm>>

-----------------------------------------------------------------------------
(* Scaling up *)

\* The template generates a range of indices; holes below the highest index
\* make the count larger than the number of VMs asked for.
CountForTemplate ==
    IF Highest # 0 THEN want + Highest + 1 - Current ELSE want
NewVMs == (Highest + 1)..(CountForTemplate - 1)

DeployTemplate ==
    /\ pc = "deploy" /\ CountForTemplate - 1 <= MaxIndex
    /\ \/ vms' = vms \union NewVMs /\ pc' = "save" /\ UNCHANGED <<late, outcome>>
       \/ /\ \E made, coming \in SUBSET NewVMs :
                /\ vms' = vms \union made
                /\ late' = [i \in Index |-> IF i \in coming \ made THEN "coming" ELSE late[i]]
          /\ Ends("error")
    /\ UNCHANGED <<saved, local, runs, calm>>

-----------------------------------------------------------------------------

\* saveAPIModel writes Count to the file, or fails before it does.
SaveAPIModel ==
    /\ pc = "save"
    /\ \/ saved' = want /\ Ends("ok")
       \/ UNCHANGED saved /\ Ends("error")
    /\ UNCHANGED <<vms, late, local, runs, calm>>

\* The process is killed, or another step that changes nothing fails. Any of
\* the deletions under way may still complete.
Killed ==
    /\ pc # "idle"
    /\ \E going \in SUBSET {i \in vms : pc = "delete" /\ del[i] = "running"} :
          late' = [i \in Index |-> IF i \in going THEN "going" ELSE late[i]]
    /\ Ends("error")
    /\ UNCHANGED <<vms, saved, local, runs, calm>>

\* Azure completes what nobody waits for.
Settles(i) ==
    /\ late[i] # "none"
    /\ vms' = IF late[i] = "coming" THEN vms \union {i} ELSE vms \ {i}
    /\ late' = [late EXCEPT ![i] = "none"]
    /\ UNCHANGED <<saved, pc, local, outcome, runs, calm>>

Goroutines == \E i \in Index : DrainEnds(i) \/ DeleteEnds(i)

Main ==
    \/ ListVirtualMachines
    \/ \E i \in Index : ReceiveErr(i) \/ ReceiveOk(i)
    \/ Closed \/ AllDrained \/ AllDeleted \/ DeployTemplate \/ SaveAPIModel

Stop == pc = "idle" /\ runs = MaxRuns /\ UNCHANGED vars

Next == Start \/ Goroutines \/ Main \/ Killed \/ Stop \/ \E i \in Index : Settles(i)

Spec == Init /\ [][Next]_vars

\* Drains and deletions return (DrainReturns in NodeDrain, the deadlines of
\* deletevm.go) and the command goes on.
FairSpec == Spec /\ WF_vars(Main) /\ \A i \in Index : WF_vars(DrainEnds(i) \/ DeleteEnds(i))

-----------------------------------------------------------------------------
(* Properties *)

\* A run that reports success leaves as many VMs as were asked for, also when
\* earlier runs left holes or half a deployment, if Azure was done with them
\* when it began.
SuccessMeansWanted ==
    calm /\ pc = "idle" /\ outcome = "ok" => Cardinality(vms) = want

\* Scaling down never takes the pool below the count asked for, whichever
\* deletions fail, unless Azure is still deleting VMs for an earlier run.
NeverBelowWanted ==
    calm /\ pc \in {"drain", "closing", "delete"} => Cardinality(vms) >= want

\* No VM's deletion begins before all the nodes that are to go have been
\* drained in the same run: a failed drain leaves the pool as it was.
Leaving == {i \in Index : i \notin vms \/ late[i] = "going"}
DrainedBeforeDeleted ==
    [][Leaving' \ Leaving # {} => \A i \in Draining : drain[i] = "ok"]_vars

\* A run ends by itself: drainNodes and ScaleDownVMs wait for no result that
\* is not sent.
RunEnds == (pc # "idle") ~> (pc = "idle")

=============================================================================
