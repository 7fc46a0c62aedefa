--------------------------- MODULE VMDeleteProofs ---------------------------
(***************************************************************************)
(* For every set of VMs, whatever their properties, and any number of      *)
(* calls: ScaleDownVMs lists its failures, a VM is whole until it is       *)
(* deleted, and ScaleDownVMs implements BatchDelete. The invariant says    *)
(* for each step of CleanDeleteVirtualMachine what is gone by then.        *)
(*                                                                         *)
(* Then the same for cordon and drain (NodeDrain), with which every        *)
(* deletion of a node starts.                                              *)
(***************************************************************************)
EXTENDS VMDelete, NodeDrain, FiniteSetTheorems, TLAPS

\* Only a managed identity has role assignments.
NoIdentityNoRoles == \A v \in VMs : ~info[v].identity => roles[v] = {}

\* What is gone when a goroutine has come to a step.
NICGone(v)  == info[v].nic => v \notin nic
DiskGone(v) == HasNamedDisk(v) => v \notin disk

Progress(v) ==
    /\ job[v] \in {"nic", "disk", "list", "roles", "ok"} => v \notin exists
    /\ job[v] \in {"disk", "list", "roles", "ok"} => NICGone(v)
    /\ job[v] \in {"list", "roles", "ok"} => DiskGone(v)
    /\ job[v] = "roles" => roles[v] \subseteq listed[v]
    /\ job[v] = "ok" => roles[v] = {}

\* What was received is what was sent.
Collected ==
    result # "killed" =>
        \A v \in got : job[v] \in {"ok", "err"} /\ (job[v] = "err" => v \in failed)

ReturnedRight ==
    /\ call = "running" => result = "none"
    /\ result \in {"nil", "failed"} => got = req
    /\ result = "nil" => failed = {}

\* Nothing is deleted that nobody asked for.
OnlyAsked ==
    /\ deleting \subseteq asked
    /\ \A v \in VMs : job[v] # "none" => v \in asked

IInv ==
    /\ TypeOK
    /\ NoIdentityNoRoles
    /\ \A v \in VMs : Progress(v)
    /\ Collected
    /\ ReturnedRight
    /\ OnlyAsked
    /\ WholeUntilDeleted

LEMMA InitTypeOK == Init => TypeOK
  <1> SUFFICES ASSUME Init PROVE TypeOK
    OBVIOUS
  <1>1. /\ roles \in [VMs -> SUBSET Roles] /\ info \in [VMs -> Infos]
        /\ job \in [VMs -> Jobs] /\ listed \in [VMs -> SUBSET Roles]
    BY DEF Init, Jobs
  <1>2. /\ exists \subseteq VMs /\ deleting \subseteq exists
        /\ nic \subseteq VMs /\ disk \subseteq VMs
        /\ req \subseteq VMs /\ got \subseteq req /\ failed \subseteq got
        /\ asked \subseteq VMs
    BY DEF Init
  <1>3. /\ call \in {"idle", "running"}
        /\ result \in {"none", "nil", "failed", "killed"}
        /\ calls \in 0..MaxCalls
    BY VMDeleteAssumption DEF Init
  <1> QED BY <1>1, <1>2, <1>3, Zenon DEF TypeOK

LEMMA InitIInv == Init => IInv
  <1> SUFFICES ASSUME Init PROVE IInv
    OBVIOUS
  <1>1. TypeOK
    BY InitTypeOK
  <1>2. NoIdentityNoRoles /\ WholeUntilDeleted
    BY DEF Init, NoIdentityNoRoles, WholeUntilDeleted
  <1>3. \A v \in VMs : Progress(v)
    BY DEF Init, Progress
  <1>4. Collected /\ ReturnedRight /\ OnlyAsked
    BY DEF Init, Collected, ReturnedRight, OnlyAsked
  <1> QED BY <1>1, <1>2, <1>3, <1>4 DEF IInv

LEMMA TypeStep == TypeOK /\ [Next]_vars => TypeOK'
<1> SUFFICES ASSUME TypeOK, [Next]_vars PROVE TypeOK'
    OBVIOUS
<1> USE DEF TypeOK, Jobs, cloud, main
<1>1. ASSUME NEW vmNames \in (SUBSET exists) \ {{}}, ScaleDownVMs(vmNames) PROVE TypeOK'
    BY <1>1, VMDeleteAssumption DEF ScaleDownVMs
<1>2. ASSUME NEW v \in VMs, CleanDeleteVirtualMachine(v) PROVE TypeOK'
    <2>1. CASE GetVirtualMachine(v) BY <2>1 DEF GetVirtualMachine, Goto
    <2>2. CASE GetFails(v) BY <2>2 DEF GetFails, Goto
    <2>3. CASE DeleteVirtualMachine(v) BY <2>3 DEF DeleteVirtualMachine, Goto
    <2>4. CASE DeleteVMFails(v) BY <2>4 DEF DeleteVMFails, Goto
    <2>5. CASE DeleteNetworkInterface(v) BY <2>5 DEF DeleteNetworkInterface, Goto
    <2>6. CASE DeleteNICFails(v) BY <2>6 DEF DeleteNICFails, Goto
    <2>7. CASE DeleteDisk(v) BY <2>7 DEF DeleteDisk, Goto
    <2>8. CASE DeleteDiskFails(v) BY <2>8 DEF DeleteDiskFails, Goto
    <2>9. CASE ListRoleAssignments(v) BY <2>9 DEF ListRoleAssignments, Goto
    <2>10. CASE ListRolesFails(v) BY <2>10 DEF ListRolesFails, Goto
    <2>11. CASE DeleteRoleAssignment(v) BY <2>11 DEF DeleteRoleAssignment, Goto
    <2>12. CASE DeleteRoleFails(v) BY <2>12 DEF DeleteRoleFails, Goto
    <2>13. CASE RolesDeleted(v) BY <2>13 DEF RolesDeleted, Goto
    <2> QED BY <1>2, <2>1, <2>2, <2>3, <2>4, <2>5, <2>6, <2>7, <2>8, <2>9, <2>10, <2>11, <2>12, <2>13
        DEF CleanDeleteVirtualMachine
<1>3. ASSUME NEW v \in VMs, Vanish(v) PROVE TypeOK'
    BY <1>3 DEF Vanish
<1>4. ASSUME NEW v \in VMs, Receive(v) PROVE TypeOK'
    <2>1. got' \subseteq req' /\ failed' \subseteq got'
        BY <1>4 DEF Receive
    <2> QED BY <1>4, <2>1 DEF Receive
<1>5. CASE Return
    <2>1. result' \in {"nil", "failed"}
        BY <1>5 DEF Return
    <2> QED BY <1>5, <2>1 DEF Return
<1>6. CASE Killed
    BY <1>6 DEF Killed
<1>7. CASE UNCHANGED vars
    BY <1>7 DEF vars
<1> QED BY <1>1, <1>2, <1>3, <1>4, <1>5, <1>6, <1>7 DEF Next, Collect, Stop

\* Each step finds gone what the steps before it deleted, and deletes its own.
LEMMA ProgressStep == IInv /\ [Next]_vars => (NoIdentityNoRoles /\ \A w \in VMs : Progress(w))'
<1> SUFFICES ASSUME IInv, [Next]_vars PROVE (NoIdentityNoRoles /\ \A w \in VMs : Progress(w))'
    OBVIOUS
<1> USE DEF IInv, TypeOK, Jobs, Goto, cloud, main, NoIdentityNoRoles, Progress, NICGone, DiskGone,
        HasNamedDisk
<1>1. ASSUME NEW vmNames \in (SUBSET exists) \ {{}}, ScaleDownVMs(vmNames)
      PROVE  (NoIdentityNoRoles /\ \A w \in VMs : Progress(w))'
    BY <1>1 DEF ScaleDownVMs
<1>2. ASSUME NEW v \in VMs, CleanDeleteVirtualMachine(v)
      PROVE  (NoIdentityNoRoles /\ \A w \in VMs : Progress(w))'
    <2>1. CASE GetVirtualMachine(v) BY <2>1 DEF GetVirtualMachine
    <2>2. CASE GetFails(v) BY <2>2 DEF GetFails
    <2>3. CASE DeleteVirtualMachine(v) BY <2>3 DEF DeleteVirtualMachine
    <2>4. CASE DeleteVMFails(v) BY <2>4 DEF DeleteVMFails
    <2>5. CASE DeleteNetworkInterface(v) BY <2>5 DEF DeleteNetworkInterface
    <2>6. CASE DeleteNICFails(v) BY <2>6 DEF DeleteNICFails
    <2>7. CASE DeleteDisk(v) BY <2>7 DEF DeleteDisk
    <2>8. CASE DeleteDiskFails(v) BY <2>8 DEF DeleteDiskFails
    <2>9. CASE ListRoleAssignments(v) BY <2>9 DEF ListRoleAssignments
    <2>10. CASE ListRolesFails(v) BY <2>10 DEF ListRolesFails
    <2>11. CASE DeleteRoleAssignment(v) BY <2>11 DEF DeleteRoleAssignment
    <2>12. CASE DeleteRoleFails(v) BY <2>12 DEF DeleteRoleFails
    <2>13. CASE RolesDeleted(v) BY <2>13 DEF RolesDeleted
    <2> QED BY <1>2, <2>1, <2>2, <2>3, <2>4, <2>5, <2>6, <2>7, <2>8, <2>9, <2>10, <2>11, <2>12, <2>13
        DEF CleanDeleteVirtualMachine
<1>3. ASSUME NEW v \in VMs, Vanish(v) PROVE (NoIdentityNoRoles /\ \A w \in VMs : Progress(w))'
    BY <1>3 DEF Vanish
<1>4. ASSUME NEW v \in VMs, Receive(v) PROVE (NoIdentityNoRoles /\ \A w \in VMs : Progress(w))'
    BY <1>4 DEF Receive
<1>5. CASE Return
    BY <1>5 DEF Return
<1>6. CASE Killed
    BY <1>6 DEF Killed
<1>7. CASE UNCHANGED vars
    BY <1>7 DEF vars
<1> QED BY <1>1, <1>2, <1>3, <1>4, <1>5, <1>6, <1>7 DEF Next, Collect, Stop

\* Parts are deleted only of VMs that are gone.
LEMMA WholeStep == IInv /\ [Next]_vars => WholeUntilDeleted'
<1> SUFFICES ASSUME IInv, [Next]_vars PROVE WholeUntilDeleted'
    OBVIOUS
<1> USE DEF IInv, TypeOK, Jobs, Goto, cloud, main, WholeUntilDeleted, Progress
<1>1. ASSUME NEW vmNames \in (SUBSET exists) \ {{}}, ScaleDownVMs(vmNames) PROVE WholeUntilDeleted'
    BY <1>1 DEF ScaleDownVMs
<1>2. ASSUME NEW v \in VMs, CleanDeleteVirtualMachine(v) PROVE WholeUntilDeleted'
    <2>1. CASE GetVirtualMachine(v) BY <2>1 DEF GetVirtualMachine
    <2>2. CASE GetFails(v) BY <2>2 DEF GetFails
    <2>3. CASE DeleteVirtualMachine(v) BY <2>3 DEF DeleteVirtualMachine
    <2>4. CASE DeleteVMFails(v) BY <2>4 DEF DeleteVMFails
    <2>5. CASE DeleteNetworkInterface(v) BY <2>5 DEF DeleteNetworkInterface
    <2>6. CASE DeleteNICFails(v) BY <2>6 DEF DeleteNICFails
    <2>7. CASE DeleteDisk(v) BY <2>7 DEF DeleteDisk
    <2>8. CASE DeleteDiskFails(v) BY <2>8 DEF DeleteDiskFails
    <2>9. CASE ListRoleAssignments(v) BY <2>9 DEF ListRoleAssignments
    <2>10. CASE ListRolesFails(v) BY <2>10 DEF ListRolesFails
    <2>11. CASE DeleteRoleAssignment(v) BY <2>11 DEF DeleteRoleAssignment
    <2>12. CASE DeleteRoleFails(v) BY <2>12 DEF DeleteRoleFails
    <2>13. CASE RolesDeleted(v) BY <2>13 DEF RolesDeleted
    <2> QED BY <1>2, <2>1, <2>2, <2>3, <2>4, <2>5, <2>6, <2>7, <2>8, <2>9, <2>10, <2>11, <2>12, <2>13
        DEF CleanDeleteVirtualMachine
<1>3. ASSUME NEW v \in VMs, Vanish(v) PROVE WholeUntilDeleted'
    BY <1>3 DEF Vanish
<1>4. ASSUME NEW v \in VMs, Receive(v) PROVE WholeUntilDeleted'
    BY <1>4 DEF Receive
<1>5. CASE Return
    BY <1>5 DEF Return
<1>6. CASE Killed
    BY <1>6 DEF Killed
<1>7. CASE UNCHANGED vars
    BY <1>7 DEF vars
<1> QED BY <1>1, <1>2, <1>3, <1>4, <1>5, <1>6, <1>7 DEF Next, Collect, Stop

\* Results are received once sent, and a call returns when it has them all.
LEMMA CollectedStep == IInv /\ [Next]_vars => (Collected /\ ReturnedRight)'
<1> SUFFICES ASSUME IInv, [Next]_vars PROVE (Collected /\ ReturnedRight)'
    OBVIOUS
<1> USE DEF IInv, TypeOK, Jobs, Goto, cloud, main, Collected, ReturnedRight
<1>1. ASSUME NEW vmNames \in (SUBSET exists) \ {{}}, ScaleDownVMs(vmNames)
      PROVE  (Collected /\ ReturnedRight)'
    BY <1>1 DEF ScaleDownVMs
<1>2. ASSUME NEW v \in VMs, CleanDeleteVirtualMachine(v) PROVE (Collected /\ ReturnedRight)'
    <2>1. CASE GetVirtualMachine(v) BY <2>1 DEF GetVirtualMachine
    <2>2. CASE GetFails(v) BY <2>2 DEF GetFails
    <2>3. CASE DeleteVirtualMachine(v) BY <2>3 DEF DeleteVirtualMachine
    <2>4. CASE DeleteVMFails(v) BY <2>4 DEF DeleteVMFails
    <2>5. CASE DeleteNetworkInterface(v) BY <2>5 DEF DeleteNetworkInterface
    <2>6. CASE DeleteNICFails(v) BY <2>6 DEF DeleteNICFails
    <2>7. CASE DeleteDisk(v) BY <2>7 DEF DeleteDisk
    <2>8. CASE DeleteDiskFails(v) BY <2>8 DEF DeleteDiskFails
    <2>9. CASE ListRoleAssignments(v) BY <2>9 DEF ListRoleAssignments
    <2>10. CASE ListRolesFails(v) BY <2>10 DEF ListRolesFails
    <2>11. CASE DeleteRoleAssignment(v) BY <2>11 DEF DeleteRoleAssignment
    <2>12. CASE DeleteRoleFails(v) BY <2>12 DEF DeleteRoleFails
    <2>13. CASE RolesDeleted(v) BY <2>13 DEF RolesDeleted
    <2> QED BY <1>2, <2>1, <2>2, <2>3, <2>4, <2>5, <2>6, <2>7, <2>8, <2>9, <2>10, <2>11, <2>12, <2>13
        DEF CleanDeleteVirtualMachine
<1>3. ASSUME NEW v \in VMs, Vanish(v) PROVE (Collected /\ ReturnedRight)'
    BY <1>3 DEF Vanish
<1>4. ASSUME NEW v \in VMs, Receive(v) PROVE (Collected /\ ReturnedRight)'
    BY <1>4 DEF Receive
<1>5. CASE Return
    BY <1>5 DEF Return
<1>6. CASE Killed
    BY <1>6 DEF Killed
<1>7. CASE UNCHANGED vars
    BY <1>7 DEF vars
<1> QED BY <1>1, <1>2, <1>3, <1>4, <1>5, <1>6, <1>7 DEF Next, Collect, Stop

\* Goroutines and unfinished deletions belong to requested VMs.
LEMMA AskedStep == IInv /\ [Next]_vars => OnlyAsked'
<1> SUFFICES ASSUME IInv, [Next]_vars PROVE OnlyAsked'
    OBVIOUS
<1> USE DEF IInv, TypeOK, Jobs, Goto, cloud, main, OnlyAsked
<1>1. ASSUME NEW vmNames \in (SUBSET exists) \ {{}}, ScaleDownVMs(vmNames) PROVE OnlyAsked'
    BY <1>1 DEF ScaleDownVMs
<1>2. ASSUME NEW v \in VMs, CleanDeleteVirtualMachine(v) PROVE OnlyAsked'
    <2>1. CASE GetVirtualMachine(v) BY <2>1 DEF GetVirtualMachine
    <2>2. CASE GetFails(v) BY <2>2 DEF GetFails
    <2>3. CASE DeleteVirtualMachine(v) BY <2>3 DEF DeleteVirtualMachine
    <2>4. CASE DeleteVMFails(v) BY <2>4 DEF DeleteVMFails
    <2>5. CASE DeleteNetworkInterface(v) BY <2>5 DEF DeleteNetworkInterface
    <2>6. CASE DeleteNICFails(v) BY <2>6 DEF DeleteNICFails
    <2>7. CASE DeleteDisk(v) BY <2>7 DEF DeleteDisk
    <2>8. CASE DeleteDiskFails(v) BY <2>8 DEF DeleteDiskFails
    <2>9. CASE ListRoleAssignments(v) BY <2>9 DEF ListRoleAssignments
    <2>10. CASE ListRolesFails(v) BY <2>10 DEF ListRolesFails
    <2>11. CASE DeleteRoleAssignment(v) BY <2>11 DEF DeleteRoleAssignment
    <2>12. CASE DeleteRoleFails(v) BY <2>12 DEF DeleteRoleFails
    <2>13. CASE RolesDeleted(v) BY <2>13 DEF RolesDeleted
    <2> QED BY <1>2, <2>1, <2>2, <2>3, <2>4, <2>5, <2>6, <2>7, <2>8, <2>9, <2>10, <2>11, <2>12, <2>13
        DEF CleanDeleteVirtualMachine
<1>3. ASSUME NEW v \in VMs, Vanish(v) PROVE OnlyAsked'
    BY <1>3 DEF Vanish
<1>4. ASSUME NEW v \in VMs, Receive(v) PROVE OnlyAsked'
    BY <1>4 DEF Receive
<1>5. CASE Return
    BY <1>5 DEF Return
<1>6. CASE Killed
    BY <1>6 DEF Killed
<1>7. CASE UNCHANGED vars
    BY <1>7 DEF vars
<1> QED BY <1>1, <1>2, <1>3, <1>4, <1>5, <1>6, <1>7 DEF Next, Collect, Stop

LEMMA Inductive == Spec => []IInv
<1>1. IInv /\ [Next]_vars => IInv'
    BY TypeStep, ProgressStep, WholeStep, CollectedStep, AskedStep DEF IInv
<1> QED BY InitIInv, <1>1, PTL DEF Spec

-----------------------------------------------------------------------------
\* The states of ScaleDownVMs are well formed.
THEOREM VMDeleteTypeCorrect == Spec => []TypeOK
BY Inductive, PTL DEF IInv

\* For every request: when ScaleDownVMs returns, each VM of which anything
\* known is left is in the list of failures (scaledownagentpool.go).
THEOREM FailuresListed == Spec => []FailuresAreListed
<1>1. IInv => FailuresAreListed
    <2> SUFFICES ASSUME IInv, result \in {"nil", "failed"},
                        NEW v \in req, Leftover(v)
                 PROVE  v \in failed
        BY DEF FailuresAreListed
    <2>1. v \in VMs /\ v \in got /\ result # "killed"
        BY DEF IInv, TypeOK, ReturnedRight
    <2>2. job[v] # "ok"
        BY <2>1 DEF IInv, Progress, NICGone, DiskGone, Leftover
    <2> QED BY <2>1, <2>2 DEF IInv, Collected
<1> QED BY <1>1, Inductive, PTL

\* A VM that exists has its NIC, its disk and its role assignments, whatever
\* calls failed, were killed or were repeated (deletevm.go).
THEOREM VMWholeUntilDeleted == Spec => []WholeUntilDeleted
<1>1. IInv => WholeUntilDeleted
    BY DEF IInv
<1> QED BY <1>1, Inductive, PTL

-----------------------------------------------------------------------------
LEMMA RefineInit == Init => Batch!Init
BY DEF Init, Batch!Init

\* Every step is one of BatchDelete or changes nothing it can see.
LEMMA RefineStep == IInv /\ [Next]_vars => [Batch!Next]_(Batch!vars)
<1> SUFFICES ASSUME IInv, [Next]_vars PROVE Batch!Next \/ UNCHANGED Batch!vars
    OBVIOUS
<1> USE DEF cloud, main, Goto
<1>1. ASSUME NEW vmNames \in (SUBSET exists) \ {{}}, ScaleDownVMs(vmNames) PROVE Batch!Call
    BY <1>1 DEF ScaleDownVMs, Batch!Call
<1>2. ASSUME NEW v \in VMs, CleanDeleteVirtualMachine(v)
      PROVE  Batch!Remove \/ UNCHANGED Batch!vars
    <2>1. v \in asked
        BY <1>2 DEF IInv, OnlyAsked, CleanDeleteVirtualMachine, GetVirtualMachine,
            GetFails, DeleteVirtualMachine, DeleteVMFails, DeleteNetworkInterface,
            DeleteNICFails, DeleteDisk, DeleteDiskFails, ListRoleAssignments,
            ListRolesFails, DeleteRoleAssignment, DeleteRoleFails, RolesDeleted
    <2>2. UNCHANGED main
        BY <1>2 DEF CleanDeleteVirtualMachine, GetVirtualMachine,
            GetFails, DeleteVirtualMachine, DeleteVMFails, DeleteNetworkInterface,
            DeleteNICFails, DeleteDisk, DeleteDiskFails, ListRoleAssignments,
            ListRolesFails, DeleteRoleAssignment, DeleteRoleFails, RolesDeleted
    <2>3. exists' = exists \/ exists' = exists \ {v}
        BY <1>2 DEF CleanDeleteVirtualMachine, GetVirtualMachine,
            GetFails, DeleteVirtualMachine, DeleteVMFails, DeleteNetworkInterface,
            DeleteNICFails, DeleteDisk, DeleteDiskFails, ListRoleAssignments,
            ListRolesFails, DeleteRoleAssignment, DeleteRoleFails, RolesDeleted
    <2> QED BY <2>1, <2>2, <2>3 DEF Batch!Remove, Batch!vars
<1>3. ASSUME NEW v \in VMs, Vanish(v) PROVE Batch!Remove
    BY <1>3 DEF Vanish, Batch!Remove, IInv, OnlyAsked
<1>4. ASSUME NEW v \in VMs, Receive(v) PROVE UNCHANGED Batch!vars
    BY <1>4 DEF Receive, Batch!vars, IInv, ReturnedRight
<1>5. CASE Return
    <2>1. result # "killed" /\ result' # "killed" /\ failed' = failed
        BY <1>5 DEF Return, IInv, ReturnedRight
    <2>2. req \intersect exists \subseteq failed
        BY <1>5, <2>1 DEF Return, IInv, TypeOK, Collected, Progress
    <2>3. failed \in SUBSET req
        BY DEF IInv, TypeOK
    <2> QED BY <1>5, <2>1, <2>2, <2>3 DEF Return, Batch!Next, Batch!Return
<1>6. CASE Killed
    BY <1>6 DEF Killed, Batch!Next, Batch!Die
<1>7. CASE UNCHANGED vars
    BY <1>7 DEF vars, Batch!vars
<1> QED BY <1>1, <1>2, <1>3, <1>4, <1>5, <1>6, <1>7
        DEF Next, Collect, Stop, Batch!Next

\* What ScaleDownVMs and its goroutines do to the VMs is what BatchDelete
\* promises to the scale command.
THEOREM VMDeleteRefinesBatch == Spec => ImplementsBatchDelete
BY RefineInit, RefineStep, Inductive, PTL DEF Spec, ImplementsBatchDelete, Batch!Spec

-----------------------------------------------------------------------------
(***************************************************************************)
(* Cordon and drain, which come before the deletion of a node's VM.  A     *)
(* drain that cordoned its node and returned nil left no pod running on it *)
(* and none stopping whose wait saw no failed Get, for any set of pods, any *)
(* number of cordon retries and any timeout.                               *)
(***************************************************************************)
BeforeEviction == {"getNode", "updateNode", "list", "dispatch"}
AfterList      == {"dispatch", "collect", "delete", "waitDelete", "ok"}

\* No goroutine exists, and nothing was reported, before evictPods starts.
NothingStarted ==
    pc \in BeforeEviction =>
        /\ doneCh = {}
        /\ received = {}
        /\ \A p \in Pods : routine[p] = "none"

\* A pod that was asked to stop, and one whose wait may have ended.
Stopping(p) == pod[p] \in {"terminating", "gone"}
Settled(p)  == pod[p] = "gone" \/ (pod[p] = "terminating" /\ p \in misread)

\* Goroutines exist for the listed pods only, one that waits has asked its pod to
\* stop, and a pod is reported gone only when it is, or when a Get failed.
ReportsAreTrue ==
    /\ \A p \in Pods : routine[p] # "none" => p \in targets
    /\ \A p \in Pods : routine[p] = "wait" => Stopping(p)
    /\ \A p \in doneCh \union received : p \in targets /\ Settled(p)

\* deletePods runs without goroutines, and has asked every pod to stop that it
\* has visited.
VisitedAreStopping ==
    pc \in {"delete", "waitDelete"} =>
        /\ doneCh = {} /\ received = {}
        /\ \A p \in Pods : routine[p] = "none"
        /\ \A p \in targets : p \in todo \/ Stopping(p)
        /\ pc = "waitDelete" => todo = {}

\* Once the cordon is in place, the list taken afterwards stays complete.
ListIsComplete ==
    nodeRef = "node" =>
        /\ unschedulable
        /\ pc \in AfterList => \A p \in Pods \ Filtered : OnNode(p) => p \in targets

\* nil is returned only when every listed pod is gone, or a Get of it failed.
OkMeansSettled == pc = "ok" => \A p \in targets : Settled(p)

\* The cordon loop is entered with a try left.
TriesLeft == pc \in {"getNode", "updateNode"} => attempt < CordonMaxRetries

DrainTypeInv == DrainTypeOK /\ TriesLeft
DrainInv ==
    /\ DrainTypeInv /\ NothingStarted /\ ReportsAreTrue /\ VisitedAreStopping
    /\ ListIsComplete /\ OkMeansSettled

-----------------------------------------------------------------------------
\* The drain's state stays well formed: in particular the cordon loop makes no
\* more than cordonMaxRetries attempts and errCh never holds two errors.
LEMMA DrainTypeStep == DrainTypeInv /\ [DrainNext]_drainVars => DrainTypeInv'
<1> SUFFICES ASSUME DrainTypeInv, [DrainNext]_drainVars PROVE DrainTypeInv'
    OBVIOUS
<1> USE DrainAssumption DEF DrainTypeInv, DrainTypeOK, TriesLeft, PodStates,
        RoutineStates, CallerStates,
        cluster, cordonVars, evictVars
<1>1. CASE Caller
    <2>1. CASE GetNode BY <2>1 DEF GetNode
    <2>2. CASE CordonAccepted BY <2>2 DEF CordonAccepted
    <2>3. CASE CordonConflict BY <2>3 DEF CordonConflict
    <2>4. CASE CordonError BY <2>4 DEF CordonError
    <2>5. CASE ListPods BY <2>5 DEF ListPods, PodsForDeletion, ListedPods
    <2>6. CASE Dispatch BY <2>6 DEF Dispatch
    <2>7. CASE ReceiveErr BY <2>7 DEF ReceiveErr
    <2>8. CASE ReceiveDone
        <3>1. cancelled' \in BOOLEAN /\ pc' \in {"ok", "collect"}
            BY <2>8, Zenon DEF ReceiveDone
        <3> QED BY <2>8, <3>1 DEF ReceiveDone
    <2>9. CASE TimedOut BY <2>9 DEF TimedOut
    <2>10. CASE DeletePod BY <2>10 DEF DeletePod, Deleted
    <2>11. CASE DeletePodError BY <2>11 DEF DeletePodError
    <2>12. CASE WaitForDelete BY <2>12 DEF WaitForDelete
    <2> QED BY <1>1, <2>1, <2>2, <2>3, <2>4, <2>5, <2>6, <2>7, <2>8, <2>9,
               <2>10, <2>11, <2>12 DEF Caller
<1>2. CASE Tick BY <1>2 DEF Tick
<1>3. CASE Cluster BY <1>3 DEF Cluster, ForeignWrite, Bind, PodStops,
        ForeignDelete, Deleted
<1>4. ASSUME NEW p \in Pods, Goroutine(p) PROVE DrainTypeInv'
    BY <1>4 DEF Goroutine, CheckContext, EvictGranted, EvictNotFound,
        EvictTooManyRequests, EvictError, WakeUp, WaitedForPod, WaitMisread, WaitTimedOut,
        SendErr, Deleted
<1>5. CASE UNCHANGED drainVars BY <1>5 DEF drainVars
<1> QED BY <1>1, <1>2, <1>3, <1>4, <1>5 DEF DrainNext

\* A pod that is gone never comes back, one that stops never runs again, and while the node is cordoned no pod
\* appears on it.
LEMMA PodStep ==
    ASSUME DrainTypeOK, DrainNext
    PROVE  \A p \in Pods : /\ pod[p] = "gone" => pod'[p] = "gone"
                           /\ Stopping(p) => Stopping(p)'
                           /\ unschedulable /\ OnNode(p)' => OnNode(p)
<1> USE DEF DrainTypeOK, PodStates, OnNode, Stopping, cluster, cordonVars, evictVars, Deleted
<1>1. CASE Caller
    <2>1. CASE DeletePod BY <2>1 DEF DeletePod
    <2> QED BY <1>1, <2>1 DEF Caller, GetNode, CordonAccepted, CordonConflict,
            CordonError, ListPods, Dispatch, ReceiveErr, ReceiveDone, TimedOut,
            DeletePodError, WaitForDelete
<1>2. CASE Tick BY <1>2 DEF Tick
<1>3. CASE Cluster BY <1>3 DEF Cluster, ForeignWrite, Bind, PodStops, ForeignDelete
<1>4. ASSUME NEW q \in Pods, Goroutine(q) 
      PROVE \A p \in Pods : /\ pod[p] = "gone" => pod'[p] = "gone"
                            /\ Stopping(p) => Stopping(p)'
                            /\ unschedulable /\ OnNode(p)' => OnNode(p)
    <2>1. CASE EvictGranted(q) BY <2>1 DEF EvictGranted
    <2> QED BY <1>4, <2>1 DEF Goroutine, CheckContext, EvictNotFound, EvictError,
            EvictTooManyRequests, WakeUp, WaitedForPod, WaitMisread, WaitTimedOut, SendErr
<1> QED BY <1>1, <1>2, <1>3, <1>4 DEF DrainNext

\* One step of the drain or of the cluster keeps the invariant.
LEMMA DrainStep == DrainInv /\ [DrainNext]_drainVars => DrainInv'
<1> SUFFICES ASSUME DrainInv, [DrainNext]_drainVars PROVE DrainInv'
    OBVIOUS
<1>1. DrainTypeOK /\ DrainTypeInv' BY DrainTypeStep DEF DrainInv, DrainTypeInv
<1>2. CASE UNCHANGED drainVars
    BY <1>1, <1>2 DEF DrainInv, drainVars, cluster, cordonVars, evictVars, DrainTypeOK,
        NothingStarted, ReportsAreTrue, VisitedAreStopping, ListIsComplete,
        OkMeansSettled, Settled, Stopping, OnNode
<1>3. ASSUME DrainNext
      PROVE  /\ NothingStarted'
             /\ ReportsAreTrue'
             /\ VisitedAreStopping'
             /\ ListIsComplete'
             /\ OkMeansSettled'
    <2>0. \A p \in Pods : /\ pod[p] = "gone" => pod'[p] = "gone"
                          /\ Stopping(p) => Stopping(p)'
                          /\ unschedulable /\ OnNode(p)' => OnNode(p)
        BY <1>1, <1>3, PodStep
    <2> USE <1>1, <2>0 DEF DrainInv, DrainTypeOK, NothingStarted, ReportsAreTrue,
            VisitedAreStopping, Settled, Stopping, PodStates, ListIsComplete, OkMeansSettled,
            BeforeEviction, AfterList, cluster, cordonVars, evictVars
    <2>1. CASE GetNode BY <2>1 DEF GetNode, OnNode
    <2>2. CASE CordonAccepted BY <2>2 DEF CordonAccepted, OnNode
    <2>3. CASE CordonConflict BY <2>3 DEF CordonConflict, OnNode
    <2>4. CASE CordonError BY <2>4 DEF CordonError, OnNode
    <2>5. CASE ListPods BY <2>5 DEF ListPods, PodsForDeletion, ListedPods, OnNode
    <2>6. CASE Dispatch BY <2>6 DEF Dispatch, OnNode
    <2>7. CASE ReceiveErr BY <2>7 DEF ReceiveErr, OnNode
    <2>8. CASE ReceiveDone
        <3>1. PICK p \in doneCh : /\ doneCh' = doneCh \ {p}
                                  /\ received' = received \union {p}
            BY <2>8 DEF ReceiveDone
        <3>2. received' \subseteq targets BY <3>1
        <3>3. IsFiniteSet(targets) BY FS_Subset, DrainAssumption DEF DrainTypeInv, DrainTypeOK
        <3>4. Cardinality(received') = Cardinality(targets) => received' = targets
            BY <3>2, <3>3, FS_Subset
        <3>5. NothingStarted' /\ ReportsAreTrue' /\ VisitedAreStopping' /\ ListIsComplete'
            BY <2>8, <3>1 DEF ReceiveDone, OnNode
        <3>6. OkMeansSettled' BY <2>8, <3>1, <3>4 DEF ReceiveDone
        <3> QED BY <3>5, <3>6
    <2>9. CASE TimedOut BY <2>9 DEF TimedOut, OnNode
    <2>10. CASE DeletePod BY <2>10 DEF DeletePod, Deleted
    <2>11. CASE DeletePodError BY <2>11 DEF DeletePodError, OnNode
    <2>12. CASE WaitForDelete BY <2>12 DEF WaitForDelete, OnNode
    <2>13. CASE Tick BY <2>13 DEF Tick, OnNode
    <2>14. CASE Cluster
        BY <2>14 DEF Cluster, ForeignWrite, Bind, PodStops, ForeignDelete
    <2>15. ASSUME NEW p \in Pods, Goroutine(p)
           PROVE  /\ NothingStarted'
                  /\ ReportsAreTrue'
                  /\ VisitedAreStopping'
                  /\ ListIsComplete'
                  /\ OkMeansSettled'
        <3>1. routine[p] # "none" /\ p \in targets /\ pc \notin BeforeEviction
            BY <2>15 DEF Goroutine, CheckContext, EvictGranted, EvictNotFound,
                EvictTooManyRequests, EvictError, WakeUp, WaitedForPod,
                WaitMisread, WaitTimedOut, SendErr
        <3>2. CASE CheckContext(p) BY <3>1, <3>2 DEF CheckContext
        <3>3. CASE EvictGranted(p) BY <3>1, <3>3 DEF EvictGranted, Deleted
        <3>4. CASE EvictNotFound(p) BY <3>1, <3>4 DEF EvictNotFound
        <3>5. CASE EvictTooManyRequests(p) BY <3>1, <3>5 DEF EvictTooManyRequests
        <3>6. CASE EvictError(p) BY <3>1, <3>6 DEF EvictError
        <3>7. CASE WakeUp(p) BY <3>1, <3>7 DEF WakeUp
        <3>8. CASE WaitedForPod(p) BY <3>1, <3>8 DEF WaitedForPod
        <3>9. CASE WaitMisread(p) BY <3>1, <3>9 DEF WaitMisread
        <3>10. CASE WaitTimedOut(p) BY <3>1, <3>10 DEF WaitTimedOut
        <3>11. CASE SendErr(p) BY <3>1, <3>11 DEF SendErr
        <3> QED BY <2>15, <3>2, <3>3, <3>4, <3>5, <3>6, <3>7, <3>8, <3>9, <3>10, <3>11
                DEF Goroutine
    <2> QED BY <1>3, <2>1, <2>2, <2>3, <2>4, <2>5, <2>6, <2>7, <2>8, <2>9,
            <2>10, <2>11, <2>12, <2>13, <2>14, <2>15 DEF DrainNext, Caller
<1> QED BY <1>1, <1>2, <1>3 DEF DrainInv

LEMMA DrainStarts == DrainInit => DrainInv
<1> SUFFICES ASSUME DrainInit PROVE DrainInv
    OBVIOUS
<1>1. DrainTypeInv
    <2>1. pod \in [Pods -> PodStates] BY DEF DrainInit, PodStates
    <2>2. unschedulable \in BOOLEAN BY DEF DrainInit
    <2>3. routine \in [Pods -> RoutineStates] BY DEF DrainInit, RoutineStates
    <2>4. /\ pc \in CallerStates /\ nodeRef \in {"none", "node", "empty"}
          /\ cancelled \in BOOLEAN
        BY DEF DrainInit, CallerStates
    <2>5. /\ targets \subseteq Pods /\ todo \subseteq Pods
          /\ doneCh \subseteq Pods /\ received \subseteq Pods /\ misread \subseteq Pods
        BY DEF DrainInit
    <2>6. /\ resourceVersion \in Nat /\ attempt \in 0..CordonMaxRetries
          /\ readVersion \in Nat /\ errCh \in 0..1 /\ idle \in 0..DrainTimeout
        BY DrainAssumption DEF DrainInit
    <2>7. TriesLeft BY DrainAssumption DEF DrainInit, TriesLeft
    <2> QED BY <2>1, <2>2, <2>3, <2>4, <2>5, <2>6, <2>7, Zenon
            DEF DrainTypeInv, DrainTypeOK
<1>2. NothingStarted BY DEF DrainInit, NothingStarted
<1>3. ReportsAreTrue BY DEF DrainInit, ReportsAreTrue
<1>4. VisitedAreStopping BY DEF DrainInit, VisitedAreStopping
<1>5. ListIsComplete BY DEF DrainInit, ListIsComplete
<1>6. OkMeansSettled BY DEF DrainInit, OkMeansSettled
<1> QED BY <1>1, <1>2, <1>3, <1>4, <1>5, <1>6 DEF DrainInv

\* Type correctness of the drain.
THEOREM DrainTypeCorrect == DrainSpec => []DrainTypeOK
<1>1. DrainInit => DrainTypeInv BY DrainStarts DEF DrainInv
<1>2. DrainTypeInv => DrainTypeOK BY DEF DrainTypeInv
<1> QED BY <1>1, <1>2, DrainTypeStep, PTL DEF DrainSpec

\* A drain that cordoned the node and returned nil left no workload pod running,
\* and none still stopping but where a Get failed.
THEOREM DrainSound == DrainSpec => []DrainedMeansStopped
<1>1. DrainInv => DrainedMeansStopped
    BY DEF DrainInv, DrainedMeansStopped, ListIsComplete, OkMeansSettled, Settled,
        AfterList, OnNode
<1> QED BY <1>1, DrainStarts, DrainStep, PTL DEF DrainSpec

=============================================================================
