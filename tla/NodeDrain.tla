------------------------------ MODULE NodeDrain ------------------------------
(***************************************************************************)
(* Cordon and drain of one node, pkg/operations/cordondrainvm.go.          *)
(*                                                                         *)
(* The actors are the caller (SafelyDrainNodeWithClient and the collector  *)
(* loop of evictPods), one goroutine per pod started by evictPods, and the *)
(* cluster: writers of the node object other than this program, the        *)
(* scheduler, the kubelet that ends terminating pods, and whoever else     *)
(* deletes pods.                                                           *)
(***************************************************************************)
EXTENDS Naturals, FiniteSets

CONSTANTS Pods,              \* every pod the cluster may run
          Filtered,          \* the mirror and DaemonSet pods of the node
          CordonMaxRetries,  \* cordonMaxRetries, 5 in the code
          DrainTimeout,      \* drainOperation.timeout, in ticks
          MaxForeignWrites   \* bound on updates of the node by others

ASSUME DrainAssumption ==
    /\ IsFiniteSet(Pods)
    /\ Filtered \subseteq Pods
    /\ CordonMaxRetries \in Nat \ {0}
    /\ DrainTimeout \in Nat \ {0}
    /\ MaxForeignWrites \in Nat

VARIABLES
    resourceVersion,  \* of the node object in the API server
    unschedulable,    \* node.Spec.Unschedulable in the API server
    pod,              \* pods as the API server knows them
    pc,               \* where the caller is
    attempt,          \* the cordon loop's i
    readVersion,      \* resourceVersion of the copy GetNode returned
    nodeRef,          \* the node handed to drainOperation
    targets,          \* pods getPodsForDeletion returned
    todo,             \* pods deletePods has not visited yet
    routine,          \* the eviction goroutines
    cancelled,        \* ctx of evictPods is done
    doneCh,           \* pods whose `true` is buffered in doneCh
    received,         \* pods whose `true` the collector has counted
    errCh,            \* errors buffered in errCh (capacity 1)
    idle,             \* ticks since the collector's last select
    misread           \* history: pods whose wait ended on a failed Get

cluster   == <<resourceVersion, unschedulable, pod>>
cordonVars == <<attempt, readVersion, nodeRef>>
evictVars == <<routine, cancelled, doneCh, received, errCh, idle, misread>>
drainVars == <<cluster, pc, cordonVars, targets, todo, evictVars>>

PodStates     == {"pending", "running", "terminating", "gone"}
RoutineStates == {"none", "check", "evict", "sleep", "wait", "sendErr", "end"}
CallerStates  == {"getNode", "updateNode", "list", "dispatch", "collect",
                  "delete", "waitDelete", "ok", "err"}

Returned == pc \in {"ok", "err"}
OnNode(p) == pod[p] \in {"running", "terminating"}

DrainTypeOK ==
    /\ resourceVersion \in Nat
    /\ unschedulable \in BOOLEAN
    /\ pod \in [Pods -> PodStates]
    /\ pc \in CallerStates
    /\ attempt \in 0..CordonMaxRetries
    /\ readVersion \in Nat
    /\ nodeRef \in {"none", "node", "empty"}
    /\ targets \subseteq Pods
    /\ todo \subseteq Pods
    /\ routine \in [Pods -> RoutineStates]
    /\ cancelled \in BOOLEAN
    /\ doneCh \subseteq Pods
    /\ received \subseteq Pods
    /\ errCh \in 0..1
    /\ idle \in 0..DrainTimeout
    /\ misread \subseteq Pods

DrainInit ==
    /\ resourceVersion = 0
    /\ unschedulable \in BOOLEAN
    /\ pod \in [Pods -> {"pending", "running"}]
    /\ \A p \in Filtered : pod[p] = "running"
    /\ pc = "getNode"
    /\ attempt = 0
    /\ readVersion = 0
    /\ nodeRef = "none"
    /\ targets = {}
    /\ todo = {}
    /\ routine = [p \in Pods |-> "none"]
    /\ cancelled = FALSE
    /\ doneCh = {}
    /\ received = {}
    /\ errCh = 0
    /\ idle = 0
    /\ misread = {}

-----------------------------------------------------------------------------
(* The cordon loop *)

\* client.GetNode; an error ends the drain.
GetNode ==
    /\ pc = "getNode"
    /\ \/ pc' = "updateNode" /\ readVersion' = resourceVersion
       \/ pc' = "err" /\ UNCHANGED readVersion
    /\ UNCHANGED <<cluster, attempt, nodeRef, targets, todo, evictVars>>

\* client.UpdateNode accepted: the loop breaks.
CordonAccepted ==
    /\ pc = "updateNode"
    /\ readVersion = resourceVersion
    /\ unschedulable' = TRUE
    /\ resourceVersion' = resourceVersion + 1
    /\ nodeRef' = "node"
    /\ pc' = "list"
    /\ UNCHANGED <<pod, attempt, readVersion, targets, todo, evictVars>>

\* The API server refuses a copy that is out of date. `node` is then the empty
\* object UpdateNode returned; the loop goes on, or is left after the last try.
CordonConflict ==
    /\ pc = "updateNode"
    /\ readVersion # resourceVersion
    /\ attempt' = attempt + 1
    /\ nodeRef' = "empty"
    /\ pc' = IF attempt + 1 < CordonMaxRetries THEN "getNode" ELSE "list"
    /\ UNCHANGED <<cluster, readVersion, targets, todo, evictVars>>

\* Any other error of UpdateNode is returned.
CordonError ==
    /\ pc = "updateNode"
    /\ pc' = "err"
    /\ UNCHANGED <<cluster, cordonVars, targets, todo, evictVars>>

-----------------------------------------------------------------------------
(* Which pods, and how *)

\* ListPods selects on spec.nodeName, which is "" for the empty node object:
\* the field selector then matches the pods no node runs.
ListedPods ==
    {p \in Pods : IF nodeRef = "node" THEN OnNode(p) ELSE pod[p] = "pending"}

\* getPodsForDeletion: the listed pods that pass both filters.
PodsForDeletion == ListedPods \ Filtered

ListPods ==
    /\ pc = "list"
    /\ \/ /\ targets' = PodsForDeletion
          /\ pc' = IF PodsForDeletion = {} THEN "ok" ELSE "dispatch"
       \/ pc' = "err" /\ UNCHANGED targets
    /\ UNCHANGED <<cluster, cordonVars, todo, evictVars>>

\* SupportEviction decides between evictPods, deletePods and giving up.
Dispatch ==
    /\ pc = "dispatch"
    /\ \/ /\ pc' = "collect"
          /\ routine' = [p \in Pods |-> IF p \in targets THEN "check" ELSE "none"]
          /\ UNCHANGED todo
       \/ /\ pc' = "delete"
          /\ todo' = targets
          /\ UNCHANGED routine
       \/ /\ pc' = "err"
          /\ UNCHANGED <<todo, routine>>
    /\ UNCHANGED <<cluster, cordonVars, targets, cancelled, doneCh, received,
                   errCh, idle, misread>>

\* What a granted eviction or a deletion does to a pod: a pod that runs is
\* terminated by its kubelet, one that no node runs is removed at once.
Deleted(p) == CASE pod[p] = "pending" -> "gone"
                [] pod[p] = "running" -> "terminating"
                [] OTHER              -> pod[p]

-----------------------------------------------------------------------------
(* evictPods: the goroutine of pod p *)

\* select { case <-ctx.Done(): return  default: }
CheckContext(p) ==
    /\ routine[p] = "check"
    /\ routine' = [routine EXCEPT ![p] = IF cancelled THEN "end" ELSE "evict"]
    /\ UNCHANGED <<cluster, pc, cordonVars, targets, todo, cancelled, doneCh,
                   received, errCh, idle, misread>>

\* client.EvictPod answers: granted, not found, refused by a disruption budget
\* (429) or failed.
EvictGranted(p) ==
    /\ routine[p] = "evict"
    /\ pod[p] # "gone"
    /\ pod' = [pod EXCEPT ![p] = Deleted(p)]
    /\ routine' = [routine EXCEPT ![p] = "wait"]
    /\ UNCHANGED <<resourceVersion, unschedulable, pc, cordonVars, targets,
                   todo, cancelled, doneCh, received, errCh, idle, misread>>

EvictNotFound(p) ==
    /\ routine[p] = "evict"
    /\ pod[p] = "gone"
    /\ doneCh' = doneCh \union {p}
    /\ routine' = [routine EXCEPT ![p] = "end"]
    /\ UNCHANGED <<cluster, pc, cordonVars, targets, todo, cancelled,
                   received, errCh, idle, misread>>

EvictTooManyRequests(p) ==
    /\ routine[p] = "evict"
    /\ pod[p] # "gone"
    /\ routine' = [routine EXCEPT ![p] = "sleep"]
    /\ UNCHANGED <<cluster, pc, cordonVars, targets, todo, cancelled, doneCh,
                   received, errCh, idle, misread>>

EvictError(p) ==
    /\ routine[p] = "evict"
    /\ routine' = [routine EXCEPT ![p] = "sendErr"]
    /\ UNCHANGED <<cluster, pc, cordonVars, targets, todo, cancelled, doneCh,
                   received, errCh, idle, misread>>

\* time.Sleep(5 * time.Second), then the loop again.
WakeUp(p) ==
    /\ routine[p] = "sleep"
    /\ routine' = [routine EXCEPT ![p] = "check"]
    /\ UNCHANGED <<cluster, pc, cordonVars, targets, todo, cancelled, doneCh,
                   received, errCh, idle, misread>>

\* Mistake: an accepted eviction is reported without waiting for the pod.
NotWaitedForPod(p) ==
    /\ routine[p] = "wait"
    /\ doneCh' = doneCh \union {p}
    /\ routine' = [routine EXCEPT ![p] = "end"]
    /\ UNCHANGED <<cluster, pc, cordonVars, targets, todo, cancelled,
                   received, errCh, idle, misread>>

\* WaitForDelete of the one pod sees that it is gone, and the goroutine reports.
WaitedForPod(p) ==
    /\ routine[p] = "wait"
    /\ pod[p] = "gone"
    /\ doneCh' = doneCh \union {p}
    /\ routine' = [routine EXCEPT ![p] = "end"]
    /\ UNCHANGED <<cluster, pc, cordonVars, targets, todo, cancelled,
                   received, errCh, idle, misread>>

\* A Get that fails, for whatever reason, comes with an empty Pod, whose UID is
\* not the pod's: WaitForDelete takes the pod for evicted, and `err` is not
\* looked at.
WaitMisread(p) ==
    /\ routine[p] = "wait"
    /\ misread' = misread \union {p}
    /\ doneCh' = doneCh \union {p}
    /\ routine' = [routine EXCEPT ![p] = "end"]
    /\ UNCHANGED <<cluster, pc, cordonVars, targets, todo, cancelled,
                   received, errCh, idle>>

\* WaitForDelete fails: the client's timeout ended the poll.
WaitTimedOut(p) ==
    /\ routine[p] = "wait"
    /\ routine' = [routine EXCEPT ![p] = "sendErr"]
    /\ UNCHANGED <<cluster, pc, cordonVars, targets, todo, cancelled, doneCh,
                   received, errCh, idle, misread>>

\* errCh <- err, which blocks while the buffer of one is full.
SendErr(p) ==
    /\ routine[p] = "sendErr"
    /\ errCh = 0
    /\ errCh' = 1
    /\ routine' = [routine EXCEPT ![p] = "end"]
    /\ UNCHANGED <<cluster, pc, cordonVars, targets, todo, cancelled, doneCh,
                   received, idle, misread>>

Goroutine(p) ==
    \/ CheckContext(p) \/ EvictGranted(p) \/ EvictNotFound(p)
    \/ EvictTooManyRequests(p) \/ EvictError(p) \/ WakeUp(p)
    \/ WaitedForPod(p) \/ WaitMisread(p) \/ WaitTimedOut(p) \/ SendErr(p)

-----------------------------------------------------------------------------
(* evictPods: the collector. Returning runs the deferred cancel(). *)

ReceiveErr ==
    /\ pc = "collect"
    /\ errCh = 1
    /\ errCh' = 0
    /\ pc' = "err"
    /\ cancelled' = TRUE
    /\ UNCHANGED <<cluster, cordonVars, targets, todo, routine, doneCh,
                   received, idle, misread>>

\* Every receive starts a new select, hence a new time.After.
ReceiveDone ==
    /\ pc = "collect"
    /\ \E p \in doneCh :
          /\ doneCh' = doneCh \ {p}
          /\ received' = received \union {p}
    /\ idle' = 0
    /\ IF Cardinality(received') = Cardinality(targets)
       THEN pc' = "ok" /\ cancelled' = TRUE
       ELSE UNCHANGED <<pc, cancelled>>
    /\ UNCHANGED <<cluster, cordonVars, targets, todo, routine, errCh, misread>>

\* Mistake: the select has no time.After case.
NeverTimedOut == FALSE

TimedOut ==
    /\ pc = "collect"
    /\ idle = DrainTimeout
    /\ pc' = "err"
    /\ cancelled' = TRUE
    /\ UNCHANGED <<cluster, cordonVars, targets, todo, routine, doneCh,
                   received, errCh, idle, misread>>

\* Time passes while the collector is blocked in its select.
Tick ==
    /\ pc = "collect"
    /\ idle < DrainTimeout
    /\ idle' = idle + 1
    /\ UNCHANGED <<cluster, pc, cordonVars, targets, todo, routine, cancelled,
                   doneCh, received, errCh, misread>>

-----------------------------------------------------------------------------
(* deletePods *)

\* DeletePod of each pod in turn; NotFound is ignored, other errors end it.
DeletePod ==
    /\ pc = "delete"
    /\ \E p \in todo :
          /\ pod' = [pod EXCEPT ![p] = Deleted(p)]
          /\ todo' = todo \ {p}
          /\ pc' = IF todo' = {} THEN "waitDelete" ELSE "delete"
    /\ UNCHANGED <<resourceVersion, unschedulable, cordonVars, targets, evictVars>>

DeletePodError ==
    /\ pc = "delete"
    /\ pc' = "err"
    /\ UNCHANGED <<cluster, cordonVars, targets, todo, evictVars>>

\* WaitForDelete of all of them: done when each is gone or a Get of it failed,
\* or the client's timeout.
WaitForDelete ==
    /\ pc = "waitDelete"
    /\ \/ \E unread \in SUBSET targets :
             /\ \A p \in targets \ unread : pod[p] = "gone"
             /\ misread' = unread
             /\ pc' = "ok"
       \/ pc' = "err" /\ UNCHANGED misread
    /\ UNCHANGED <<cluster, cordonVars, targets, todo, routine, cancelled, doneCh,
                   received, errCh, idle>>

Caller ==
    \/ GetNode \/ CordonAccepted \/ CordonConflict \/ CordonError
    \/ ListPods \/ Dispatch
    \/ ReceiveErr \/ ReceiveDone \/ TimedOut
    \/ DeletePod \/ DeletePodError \/ WaitForDelete

-----------------------------------------------------------------------------
(* The cluster *)

\* The kubelet, a controller or a user updates the node object.
ForeignWrite ==
    /\ resourceVersion < MaxForeignWrites
    /\ resourceVersion' = resourceVersion + 1
    /\ UNCHANGED <<unschedulable, pod, pc, cordonVars, targets, todo, evictVars>>

\* The scheduler binds a pod to the node unless the node is cordoned.
Bind(p) ==
    /\ pod[p] = "pending"
    /\ ~unschedulable
    /\ pod' = [pod EXCEPT ![p] = "running"]
    /\ UNCHANGED <<resourceVersion, unschedulable, pc, cordonVars, targets,
                   todo, evictVars>>

\* The kubelet ends a pod that was asked to terminate.
PodStops(p) ==
    /\ pod[p] = "terminating"
    /\ pod' = [pod EXCEPT ![p] = "gone"]
    /\ UNCHANGED <<resourceVersion, unschedulable, pc, cordonVars, targets,
                   todo, evictVars>>

\* A workload pod is deleted by someone else.
ForeignDelete(p) ==
    /\ p \notin Filtered
    /\ pod[p] \in {"pending", "running"}
    /\ pod' = [pod EXCEPT ![p] = Deleted(p)]
    /\ UNCHANGED <<resourceVersion, unschedulable, pc, cordonVars, targets,
                   todo, evictVars>>

Cluster ==
    \/ ForeignWrite
    \/ \E p \in Pods : Bind(p) \/ PodStops(p) \/ ForeignDelete(p)

DrainNext == Caller \/ Tick \/ Cluster \/ \E p \in Pods : Goroutine(p)

DrainSpec == DrainInit /\ [][DrainNext]_drainVars

(***************************************************************************)
(* Go schedules every runnable goroutine, timers fire, and calls to the    *)
(* API server return. Nothing is assumed of the scheduler, of the other    *)
(* writers, or of an eviction ever being granted.                          *)
(***************************************************************************)
FairDrainSpec ==
    /\ DrainSpec
    /\ WF_drainVars(Caller)
    /\ WF_drainVars(Tick)
    /\ \A p \in Pods : WF_drainVars(Goroutine(p))

-----------------------------------------------------------------------------
(* Properties *)

\* A drain that cordoned the node and returned nil leaves no workload pod running
\* on it that was not asked to stop: not one that was bound while the cordon was
\* retried, not one a disruption budget kept. And none is still stopping when the
\* drain returns - not one whose eviction was only accepted, not one that was
\* already terminating - unless a Get failed while it was waited for, which
\* WaitForDelete takes for the pod being gone.
DrainedMeansStopped ==
    (pc = "ok" /\ nodeRef = "node") =>
        \A p \in Pods \ Filtered :
            /\ pod[p] # "running"
            /\ pod[p] = "terminating" => p \in misread

\* The drain returns, even when a disruption budget refuses every eviction, and
\* the retry loops of its goroutines end then: none keeps evicting for a drain
\* its caller has given up.
DrainReturns ==
    /\ <>Returned
    /\ cancelled ~> (\A p \in Pods : routine[p] \notin {"check", "evict", "sleep"})

=============================================================================
