-------------------------- MODULE UpgradeAgentPool --------------------------
(***************************************************************************)
(* The upgrade of one agent pool: the iteration of upgradeAgentPools in    *)
(* upgrader.go over a pool, with UpgradeAgentNode (upgradeagentnode.go)    *)
(* and the enumeration of the pool's VMs (upgradecluster.go).              *)
(*                                                                         *)
(* As in UpgradeMasters the command fails or is killed anywhere and is run *)
(* again until it succeeds. The VMs' provisioning states are read once, at *)
(* the start of a run, and used after the masters have been upgraded.      *)
(*                                                                         *)
(* The copy of a node's custom properties is modelled in PropertyCopier,   *)
(* here only what it does to the pool: the new node is cordoned while it   *)
(* waits for them, and the goroutine that copies outlives its caller.  A   *)
(* Node object is taken to go with its VM.                                 *)
(***************************************************************************)
EXTENDS Integers, Sequences, FiniteSets

CONSTANTS Count,      \* AgentPoolProfile.Count
          MaxIndex,   \* bound on the indices of the pool's VM names
          Forces,     \* the values --force is given
          MaxAborts,  \* bound on failed or killed runs
          MaxFlaws    \* bound on copies given up or done again too late

ASSUME PoolAssumption ==
    /\ Count \in Nat \ {0}
    /\ MaxIndex \in Nat
    /\ Count <= MaxIndex
    /\ Forces \in SUBSET BOOLEAN
    /\ MaxAborts \in Nat
    /\ MaxFlaws \in Nat

Index == 0..MaxIndex
Nobody == -1

VARIABLES
    vm,       \* the pool's VMs by index
    ready,    \* the node is Ready and serves workload
    props,    \* whose custom annotations, labels and taints the node carries
    cordoned, \* the nodes that are unschedulable
    pc,       \* where the command is
    snap,     \* the VMs as ListVirtualMachines returned them
    force,    \* UpgradeCluster.Force of this run; at first, of the first
    todo,     \* UpgradedAgentVMs not visited yet
    view,     \* agentVMs, the map from index to vmInfo
    upCount,  \* upgradedCount
    toBe,     \* toBeUpgradedCount
    fresh,    \* newCreatedVMs
    cur,      \* index of the VM being created or replaced
    preserve, \* AgentPoolProfile.PreserveNodesProperties
    copiers,  \* goroutines that copy properties: from which name to which
    aborts,   \* runs that failed or were killed
    runs,     \* runs so far
    givenUp,  \* copies that were not done in time, which is only a warning
    recopied, \* copies done again, from the VM that took the old name
    agreed    \* all runs were given the same --force

cloud == <<vm, ready, props, cordoned>>
local == <<snap, force, todo, view, upCount, toBe, fresh, cur>>
copying == <<preserve, copiers>>
ghost == <<aborts, runs, givenUp, recopied, agreed>>
vars  == <<cloud, pc, local, copying, ghost>>

OldStates == {"old", "oldDeleting"}
NewStates == {"creating", "succeeded", "failed", "deleting"}
VMStates  == {"absent"} \union OldStates \union NewStates
VMStatus  == {"none", "upgraded", "ignored", "notUpgraded"}
Phases    == {"idle", "scan", "fill", "validateNew", "upgrade", "copy",
              "delete", "recreate", "validate", "success"}

TypeOK ==
    /\ vm \in [Index -> VMStates]
    /\ ready \in [Index -> BOOLEAN]
    /\ props \in [Index -> Index \union {Nobody}]
    /\ cordoned \subseteq Index
    /\ pc \in Phases
    /\ snap \in [Index -> VMStates]
    /\ force \in BOOLEAN
    /\ todo \subseteq Index
    /\ view \in [Index -> VMStatus]
    /\ upCount \in Nat
    /\ toBe \in Nat
    /\ fresh \in Seq(Index) /\ (pc = "copy" => fresh # <<>>)
    /\ cur \in Index
    /\ preserve \in BOOLEAN
    /\ copiers \subseteq Index \X Index
    /\ aborts \in 0..MaxAborts
    /\ runs \in Nat
    /\ givenUp \in Nat
    /\ recopied \in Nat
    /\ agreed \in BOOLEAN

Original == 0..(Count - 1)

Init ==
    /\ vm = [i \in Index |-> IF i \in Original THEN "old" ELSE "absent"]
    /\ ready = [i \in Index |-> i \in Original]
    /\ props = [i \in Index |-> IF i \in Original THEN i ELSE Nobody]
    /\ cordoned = {}
    /\ pc = "idle"
    /\ snap = [i \in Index |-> "absent"]
    /\ force \in Forces
    /\ todo = {}
    /\ view = [i \in Index |-> "none"]
    /\ upCount = 0
    /\ toBe = 0
    /\ fresh = <<>>
    /\ cur = 0
    /\ preserve \in BOOLEAN
    /\ copiers = {}
    /\ aborts = 0
    /\ runs = 0
    /\ givenUp = 0
    /\ recopied = 0
    /\ agreed = TRUE

-----------------------------------------------------------------------------
(* The cloud: a VM is removed with its node, or created without properties *)

Deleting(i) == IF vm[i] \in OldStates THEN "oldDeleting" ELSE "deleting"

Removed(i, state) ==
    /\ vm' = [vm EXCEPT ![i] = state]
    /\ ready' = [ready EXCEPT ![i] = FALSE]
    /\ props' = [props EXCEPT ![i] = Nobody]
    /\ cordoned' = cordoned \ {i}

Created(i, state) ==
    /\ vm' = [vm EXCEPT ![i] = state]
    /\ UNCHANGED <<ready, props, cordoned>>

\* What a process knows, and its goroutines, end with it.
Forgotten ==
    /\ snap' = [i \in Index |-> "absent"]
    /\ todo' = {}
    /\ view' = [i \in Index |-> "none"]
    /\ upCount' = 0
    /\ toBe' = 0
    /\ fresh' = <<>>
    /\ cur' = 0
    /\ copiers' = {}
    /\ UNCHANGED force

-----------------------------------------------------------------------------
(* Which VMs are there *)

\* setNodesToUpgrade: VMs tagged with the goal version are UpgradedAgentVMs,
\* the others AgentVMs; with --force all are AgentVMs.
ListVirtualMachines ==
    /\ pc = "idle"
    /\ snap' = vm
    /\ \E f \in Forces :
          /\ force' = f
          /\ agreed' = (agreed /\ f = force)
          /\ todo' = {i \in Index : ~f /\ vm[i] \in NewStates}
    /\ view' = [i \in Index |-> "none"]
    /\ upCount' = 0
    /\ toBe' = 0
    /\ fresh' = <<>>
    /\ pc' = "scan"
    /\ copiers' = {}
    /\ runs' = runs + 1
    /\ UNCHANGED <<cloud, cur, preserve, aborts, givenUp, recopied>>

\* An upgraded VM that was being created, updated or had succeeded counts.
CountUpgraded(i) ==
    /\ pc = "scan" /\ i \in todo
    /\ snap[i] \in {"creating", "succeeded"}
    /\ view' = [view EXCEPT ![i] = "upgraded"]
    /\ upCount' = upCount + 1
    /\ todo' = todo \ {i}
    /\ UNCHANGED <<cloud, pc, snap, force, toBe, fresh, cur, copying, ghost>>

\* Mistake: a VM that failed is waited for.
DeleteFailedAwaited(i) ==
    /\ pc = "scan" /\ i \in todo
    /\ snap[i] = "failed"
    /\ UNCHANGED vars

\* One whose provisioning failed is deleted, without a drain, and not counted.
DeleteFailed(i) ==
    /\ pc = "scan" /\ i \in todo
    /\ snap[i] = "failed"
    /\ vm[i] # "absent"
    /\ Removed(i, "absent")
    /\ todo' = todo \ {i}
    /\ UNCHANGED <<pc, snap, force, view, upCount, toBe, fresh, cur, copying, ghost>>

\* One that is being deleted keeps its index and is not counted.
Ignore(i) ==
    /\ pc = "scan" /\ i \in todo
    /\ snap[i] = "deleting"
    /\ view' = [view EXCEPT ![i] = "ignored"]
    /\ todo' = todo \ {i}
    /\ UNCHANGED <<cloud, pc, snap, force, upCount, toBe, fresh, cur, copying, ghost>>

AgentVMs == {i \in Index : \/ snap[i] \in OldStates
                           \/ force /\ snap[i] # "absent"}

NoteAgentVMs ==
    /\ pc = "scan" /\ todo = {}
    /\ view' = [i \in Index |-> IF i \in AgentVMs THEN "notUpgraded" ELSE view[i]]
    /\ toBe' = Cardinality(AgentVMs)
    /\ snap' = [i \in Index |-> "absent"]
    /\ pc' = "fill"
    /\ UNCHANGED <<cloud, force, todo, upCount, fresh, cur, copying, ghost>>

-----------------------------------------------------------------------------
(* Create the missing VMs, and one more while there are VMs to upgrade *)

\* Mistake: no extra node takes the load of the one being replaced.
NoExtraNode == Count

AgentCount == IF toBe > 0 THEN Count + 1 ELSE Count

\* Mistake: a VM that is ignored does not keep its index.
InUseUnlessIgnored == {i \in Index : view[i] \in {"upgraded", "notUpgraded"}}

\* getAvailableIndex: the lowest unused index below the highest used one, or
\* the one after it.
InUse == {i \in Index : view[i] # "none"}
AvailableIndex ==
    LET highest == CHOOSE i \in InUse \union {0} : \A j \in InUse : j <= i
        gaps    == {i \in 0..(highest - 1) : i \notin InUse}
    IN  IF gaps = {} THEN highest + 1
                     ELSE CHOOSE i \in gaps : \A j \in gaps : i <= j

CreateMissing ==
    /\ pc = "fill"
    /\ upCount + toBe < AgentCount
    /\ AvailableIndex <= MaxIndex
    /\ cur' = AvailableIndex
    /\ Created(AvailableIndex, "succeeded")
    /\ pc' = "validateNew"
    /\ UNCHANGED <<snap, force, todo, view, upCount, toBe, fresh, copying, ghost>>

ValidateNew ==
    /\ pc = "validateNew"
    /\ ready[cur]
    /\ fresh' = Append(fresh, cur)
    /\ view' = [view EXCEPT ![cur] = "upgraded"]
    /\ upCount' = upCount + 1
    /\ pc' = "fill"
    /\ UNCHANGED <<cloud, snap, force, todo, toBe, cur, copying, ghost>>

\* upgradedCount is reset for the loop that follows.
Filled ==
    /\ pc = "fill"
    /\ upCount + toBe >= AgentCount
    /\ upCount' = 0
    /\ pc' = IF toBe = 0 THEN "success" ELSE "upgrade"
    /\ UNCHANGED <<cloud, snap, force, todo, view, toBe, fresh, cur, copying, ghost>>

-----------------------------------------------------------------------------
(* Replace the VMs one by one, in the order the map happens to yield them *)

NotUpgraded == {i \in Index : view[i] = "notUpgraded"}

\* The next VM to replace. Unless PreserveNodesProperties is false, the properties
\* of its node go to the first new node that has none yet, which is cordoned and
\* drained before; an error of that drain, with or without the cordon, is only a
\* warning.
StartCopy ==
    /\ pc = "upgrade"
    /\ cur' \in NotUpgraded
    /\ IF preserve /\ fresh # <<>>
       THEN /\ pc' = "copy"
            /\ cordoned' \in {cordoned, cordoned \union {Head(fresh)}}
       ELSE /\ pc' = "delete"
            /\ UNCHANGED cordoned
    /\ UNCHANGED <<vm, ready, props, snap, force, todo, view, upCount, toBe, fresh,
                   copying, ghost>>

Handed(d) == [props EXCEPT ![d] = props[cur]]

\* The goroutine is never told to stop.
EndCopy ==
    /\ pc = "copy"
    /\ fresh' = Tail(fresh)
    /\ copiers' = copiers \union {<<cur, Head(fresh)>>}
    /\ pc' = "delete"
    /\ UNCHANGED <<vm, ready, snap, force, todo, view, upCount, toBe, cur, preserve,
                   aborts, runs, recopied, agreed>>

\* The properties are written, and in a second update the node is uncordoned.
CopyDone ==
    /\ EndCopy
    /\ props' = Handed(Head(fresh))
    /\ cordoned' = cordoned \ {Head(fresh)}
    /\ UNCHANGED givenUp

\* The copy takes too long, or fails again and again: a warning, and the new node
\* stays as it is, with or without the properties.
CopyGivenUp ==
    /\ EndCopy
    /\ givenUp + recopied < MaxFlaws
    /\ props' \in {props, Handed(Head(fresh))}
    /\ givenUp' = givenUp + 1
    /\ UNCHANGED cordoned

\* A goroutine whose caller has gone on copies once more. Until the old node is
\* deleted this completes a copy that was given up; after it, the node of that
\* name is the replacement, whose taints take the place of the copied ones (if
\* it has any).
CopyAgain ==
    /\ pc # "idle"
    /\ \E c \in copiers :
          /\ vm[c[1]] # "absent"
          /\ cordoned' = cordoned \ {c[2]}
          /\ IF pc = "delete" /\ cur = c[1]
             THEN /\ props' = Handed(c[2])
                  /\ UNCHANGED <<copiers, recopied>>
             ELSE /\ givenUp + recopied < MaxFlaws
                  /\ props' \in {props, [props EXCEPT ![c[2]] = Nobody]}
                  /\ copiers' = copiers \ {c}
                  /\ recopied' = recopied + 1
    /\ UNCHANGED <<vm, ready, pc, local, preserve, aborts, runs, givenUp, agreed>>

CopyProperties == StartCopy \/ CopyDone \/ CopyGivenUp

\* Mistake: the comparison that spares the last VM is off by one.
DeleteOldNeverLast ==
    /\ pc = "delete"
    /\ vm[cur] # "absent"
    /\ Removed(cur, "absent")
    /\ IF upCount = toBe
       THEN /\ view' = [view EXCEPT ![cur] = "none"]
            /\ upCount' = upCount + 1
            /\ pc' = "upgrade"
       ELSE /\ pc' = "recreate"
            /\ UNCHANGED <<view, upCount>>
    /\ UNCHANGED <<snap, force, todo, toBe, fresh, cur, copying, ghost>>

\* DeleteNode drains first and ignores an error of the drain. The last VM is
\* not created again: the extra node stays in its place.
DeleteOld ==
    /\ pc = "delete"
    /\ vm[cur] # "absent"
    /\ Removed(cur, "absent")
    /\ IF upCount = toBe - 1
       THEN /\ view' = [view EXCEPT ![cur] = "none"]
            /\ upCount' = upCount + 1
            /\ pc' = "upgrade"
       ELSE /\ pc' = "recreate"
            /\ UNCHANGED <<view, upCount>>
    /\ UNCHANGED <<snap, force, todo, toBe, fresh, cur, copying, ghost>>

\* The VM has gone since it was listed: GetVirtualMachine fails, and the run.
DeleteNotFound ==
    /\ \/ pc = "delete" /\ vm[cur] = "absent"
       \/ pc = "scan" /\ \E i \in todo : snap[i] = "failed" /\ vm[i] = "absent"
    /\ pc' = "idle"
    /\ Forgotten
    /\ UNCHANGED <<cloud, preserve, ghost>>

CreateAgain ==
    /\ pc = "recreate"
    /\ Created(cur, "succeeded")
    /\ pc' = "validate"
    /\ UNCHANGED <<local, copying, ghost>>

\* Mistake: the new node is not remembered for the next copy.
ValidateForgotten ==
    /\ pc = "validate"
    /\ ready[cur]
    /\ view' = [view EXCEPT ![cur] = "upgraded"]
    /\ upCount' = upCount + 1
    /\ pc' = "upgrade"
    /\ UNCHANGED <<cloud, snap, force, todo, toBe, fresh, cur, copying, ghost>>

Validate ==
    /\ pc = "validate"
    /\ ready[cur]
    /\ fresh' = Append(fresh, cur)
    /\ view' = [view EXCEPT ![cur] = "upgraded"]
    /\ upCount' = upCount + 1
    /\ pc' = "upgrade"
    /\ UNCHANGED <<cloud, snap, force, todo, toBe, cur, copying, ghost>>

\* Mistake: the loop ends with the last VM not upgraded.
PoolUpgradedButOne ==
    /\ pc = "upgrade"
    /\ Cardinality(NotUpgraded) <= 1
    /\ pc' = "success"
    /\ UNCHANGED <<cloud, local, copying, ghost>>

PoolUpgraded ==
    /\ pc = "upgrade"
    /\ NotUpgraded = {}
    /\ pc' = "success"
    /\ UNCHANGED <<cloud, local, copying, ghost>>

-----------------------------------------------------------------------------
(* A run fails or is killed *)

\* What a deletion of VM i can leave when it does not complete, what a copy that
\* has not uncordoned the new node yet, and what a creation: Validate deletes a
\* node that is not ready in time.
HalfDeleted(i) == Removed(i, "absent") \/ Removed(i, Deleting(i))
HalfCopied == props' = Handed(Head(fresh)) /\ UNCHANGED <<vm, ready, cordoned>>
HalfCreated(i) == \E s \in {"creating", "succeeded", "failed"} : Created(i, s)

LeftBehind ==
    \/ UNCHANGED cloud
    \/ /\ pc = "scan"
       /\ \E i \in todo : snap[i] = "failed" /\ vm[i] # "absent" /\ HalfDeleted(i)
    \/ /\ pc = "fill" /\ upCount + toBe < AgentCount
       /\ AvailableIndex <= MaxIndex
       /\ HalfCreated(AvailableIndex)
    \/ pc \in {"validateNew", "validate"} /\ ~ready[cur] /\ HalfDeleted(cur)
    \/ pc = "copy" /\ HalfCopied
    \/ /\ pc = "delete" /\ vm[cur] # "absent"
       /\ \/ HalfDeleted(cur)
          \/ cordoned' = cordoned \union {cur} /\ UNCHANGED <<vm, ready, props>>
    \/ pc = "recreate" /\ HalfCreated(cur)

Abort ==
    /\ pc \notin {"idle", "success"}
    /\ aborts < MaxAborts
    /\ LeftBehind
    /\ aborts' = aborts + 1
    /\ pc' = "idle"
    /\ Forgotten
    /\ UNCHANGED <<preserve, runs, givenUp, recopied, agreed>>

-----------------------------------------------------------------------------
(* The cloud goes on by itself *)

\* kubelet on a VM at the new version reports Ready.
BecomesReady(i) ==
    /\ vm[i] \in {"creating", "succeeded", "failed"}
    /\ ~ready[i]
    /\ ready' = [ready EXCEPT ![i] = TRUE]
    /\ UNCHANGED <<vm, props, cordoned, pc, local, copying, ghost>>

\* A deployment or deletion that was not waited for ends.
Settles(i) ==
    /\ \/ /\ vm[i] = "creating"
          /\ vm' \in {[vm EXCEPT ![i] = s] : s \in {"succeeded", "failed"}}
          /\ UNCHANGED cordoned
       \/ /\ vm[i] \in {"deleting", "oldDeleting"}
          /\ vm' = [vm EXCEPT ![i] = "absent"]
          /\ cordoned' = cordoned \ {i}
    /\ UNCHANGED <<ready, props, pc, local, copying, ghost>>

Scan == \E i \in Index : CountUpgraded(i) \/ DeleteFailed(i) \/ Ignore(i)

Command ==
    \/ ListVirtualMachines \/ Scan \/ NoteAgentVMs
    \/ CreateMissing \/ ValidateNew \/ Filled
    \/ CopyProperties \/ DeleteOld \/ DeleteNotFound \/ CreateAgain \/ Validate
    \/ PoolUpgraded

Finish == pc = "success" /\ UNCHANGED vars

Next == Command \/ CopyAgain \/ Abort \/ Finish
        \/ \E i \in Index : BecomesReady(i) \/ Settles(i)

Spec == Init /\ [][Next]_vars

(***************************************************************************)
(* The operator repeats the command, failures are finitely many, and the   *)
(* cloud finishes what it was asked to do.                                 *)
(***************************************************************************)
FairSpec ==
    /\ Spec
    /\ WF_vars(Command)
    /\ \A i \in Index : WF_vars(BecomesReady(i)) /\ WF_vars(Settles(i))

-----------------------------------------------------------------------------
(* Properties *)

Serving == {i \in Index : ready[i]} \ cordoned
Settled == {i \in Index : vm[i] \notin {"absent", "deleting", "oldDeleting"}}

\* The extra node "take[s] on the load from upgrading nodes": the pool keeps all
\* its nodes ready and open to workload. Each failed run costs at most one of
\* them, and so does each copy that was given up, which leaves the new node
\* cordoned.
PoolKeepsServing == Cardinality(Serving) >= Count - aborts - givenUp

\* Success means no VM at the old version, with or without --force.
SuccessMeansUpgraded ==
    pc = "success" => \A i \in Index : vm[i] \notin OldStates

\* Success means the pool has the VMs its profile asks for, none missing and
\* none left over, also after failed runs that agree on --force.
SuccessRestoresCount == pc = "success" /\ agreed => Cardinality(Settled) = Count

\* A CreateNode never deploys over a VM of the pool that exists: a running
\* node is replaced only after it was drained and deleted.
NeverDeploysOverVM ==
    /\ pc = "recreate" => vm[cur] = "absent"
    /\ pc = "fill" /\ upCount + toBe < AgentCount /\ AvailableIndex <= MaxIndex
          => vm[AvailableIndex] = "absent"

Lost == {o \in Original : \A i \in Index : props[i] # o}

\* The custom properties of every old node are on some node, while VMs are
\* replaced, after failed and killed runs, and in the end. The first run loses
\* none. Each later one may lose those of one node: it finds the extra node of
\* the run before and creates none the first copy could go to. Others are lost
\* only with a copy that was given up or done again under the same name.
PropertiesSurvive ==
    preserve /\ Lost # {} => Cardinality(Lost) < runs + givenUp + recopied

\* Repeating the command after every failure ends in success.
RetryConverges == <>(pc = "success")

=============================================================================
