------------------------------ MODULE VMDelete ------------------------------
(***************************************************************************)
(* Deleting VMs with what belongs to them: CleanDeleteVirtualMachine       *)
(* (deletevm.go), run by one goroutine per VM in ScaleDownVMs              *)
(* (scaledownagentpool.go), whose caller lists the VMs that exist and      *)
(* calls it again after a failure.                                         *)
(***************************************************************************)
EXTENDS Integers, FiniteSets

CONSTANTS VMs,       \* the VMs of the pool
          Roles,     \* the role assignments of a VM's managed identity
          Infos,     \* what a VM's properties may say about its parts
          MaxCalls   \* bound on the calls of ScaleDownVMs

\* nic: NetworkInterfaces[0].ID is set; disk: OSDisk.Vhd, or a managed disk
\* with or without a name, or neither; identity: Identity.PrincipalID is set.
DiskKinds == {"vhd", "managed", "unnamed", "none"}
Info == [nic : BOOLEAN, disk : DiskKinds, identity : BOOLEAN]

ASSUME VMDeleteAssumption ==
    /\ IsFiniteSet(VMs)
    /\ Infos \in SUBSET Info
    /\ MaxCalls \in Nat

VARIABLES
    exists,    \* the VMs that exist
    deleting,  \* those that will go although the call failed
    nic,       \* VMs whose network interface exists
    disk,      \* VMs whose OS disk exists
    roles,     \* the role assignments left of each VM
    info,      \* the VMs' properties
    job,       \* where each goroutine is
    listed,    \* vmRoleAssignments still to be deleted
    req,       \* vmNames
    got,       \* VMs whose result was received from errChan
    failed,    \* failedVMDeletions
    call,      \* "idle", "running"
    result,    \* how the last call ended
    asked,     \* every VM ever requested
    calls      \* calls made

cloud == <<exists, deleting, nic, disk, roles, info>>
main  == <<req, got, failed, call, result, asked, calls>>
vars  == <<cloud, job, listed, main>>

Jobs == {"none", "get", "vm", "nic", "disk", "list", "roles", "ok", "err"}

TypeOK ==
    /\ exists \subseteq VMs /\ deleting \subseteq exists
    /\ nic \subseteq VMs /\ disk \subseteq VMs
    /\ roles \in [VMs -> SUBSET Roles]
    /\ info \in [VMs -> Infos]
    /\ job \in [VMs -> Jobs]
    /\ listed \in [VMs -> SUBSET Roles]
    /\ req \subseteq VMs /\ got \subseteq req /\ failed \subseteq got
    /\ asked \subseteq VMs
    /\ call \in {"idle", "running"}
    /\ result \in {"none", "nil", "failed", "killed"}
    /\ calls \in 0..MaxCalls

Init ==
    /\ exists = VMs /\ deleting = {} /\ nic = VMs /\ disk = VMs
    /\ info \in [VMs -> Infos]
    /\ roles = [v \in VMs |-> IF info[v].identity THEN Roles ELSE {}]
    /\ job = [v \in VMs |-> "none"]
    /\ listed = [v \in VMs |-> {}]
    /\ req = {} /\ got = {} /\ failed = {} /\ asked = {}
    /\ call = "idle" /\ result = "none" /\ calls = 0

-----------------------------------------------------------------------------
(* CleanDeleteVirtualMachine *)

Goto(v, step) == job' = [job EXCEPT ![v] = step]

GetVirtualMachine(v) ==
    /\ job[v] = "get"
    /\ v \in exists
    /\ info[v].disk # "none"
    /\ Goto(v, "vm")
    /\ UNCHANGED <<cloud, listed, main>>

\* The VM is not there, the call fails, or the VM has no usable OS disk.
GetFails(v) ==
    /\ job[v] = "get"
    /\ Goto(v, "err")
    /\ UNCHANGED <<cloud, listed, main>>

\* Mistake: BeginDelete is not followed by PollUntilDone.
DeleteNotAwaited(v) ==
    /\ job[v] = "vm"
    /\ deleting' = deleting \union ({v} \intersect exists)
    /\ Goto(v, IF info[v].nic THEN "nic" ELSE "disk")
    /\ UNCHANGED <<exists, nic, disk, roles, info, listed, main>>

\* Deleting a VM that has gone since succeeds.
DeleteVirtualMachine(v) ==
    /\ job[v] = "vm"
    /\ exists' = exists \ {v}
    /\ deleting' = deleting \ {v}
    /\ Goto(v, IF info[v].nic THEN "nic" ELSE "disk")
    /\ UNCHANGED <<nic, disk, roles, info, listed, main>>

\* Mistake: the error is dropped.
DeleteVMErrorDropped(v) ==
    /\ job[v] = "vm"
    /\ Goto(v, IF info[v].nic THEN "nic" ELSE "disk")
    /\ UNCHANGED <<cloud, listed, main>>

\* The request or the polling fails: the VM stays, has gone or will go.
DeleteVMFails(v) ==
    /\ job[v] = "vm"
    /\ \/ UNCHANGED <<exists, deleting>>
       \/ exists' = exists \ {v} /\ deleting' = deleting \ {v}
       \/ deleting' = deleting \union ({v} \intersect exists) /\ UNCHANGED exists
    /\ Goto(v, "err")
    /\ UNCHANGED <<nic, disk, roles, info, listed, main>>

DeleteNetworkInterface(v) ==
    /\ job[v] = "nic"
    /\ nic' = nic \ {v}
    /\ Goto(v, "disk")
    /\ UNCHANGED <<exists, deleting, disk, roles, info, listed, main>>

\* Mistake: the error is dropped.
NICErrorDropped(v) ==
    /\ job[v] = "nic"
    /\ \/ UNCHANGED nic
       \/ nic' = nic \ {v}
    /\ Goto(v, "disk")
    /\ UNCHANGED <<exists, deleting, disk, roles, info, listed, main>>

DeleteNICFails(v) ==
    /\ job[v] = "nic"
    /\ \/ UNCHANGED nic
       \/ nic' = nic \ {v}
    /\ Goto(v, "err")
    /\ UNCHANGED <<exists, deleting, disk, roles, info, listed, main>>

HasNamedDisk(v) == info[v].disk \in {"vhd", "managed"}

\* A managed disk without a name is left with a warning.
DeleteDisk(v) ==
    /\ job[v] = "disk"
    /\ disk' = IF HasNamedDisk(v) THEN disk \ {v} ELSE disk
    /\ Goto(v, IF info[v].identity THEN "list" ELSE "ok")
    /\ UNCHANGED <<exists, deleting, nic, roles, info, listed, main>>

DeleteDiskFails(v) ==
    /\ job[v] = "disk" /\ HasNamedDisk(v)
    /\ \/ UNCHANGED disk
       \/ disk' = disk \ {v}
    /\ Goto(v, "err")
    /\ UNCHANGED <<exists, deleting, nic, roles, info, listed, main>>

ListRoleAssignments(v) ==
    /\ job[v] = "list"
    /\ listed' = [listed EXCEPT ![v] = roles[v]]
    /\ Goto(v, "roles")
    /\ UNCHANGED <<cloud, main>>

ListRolesFails(v) ==
    /\ job[v] = "list"
    /\ Goto(v, "err")
    /\ UNCHANGED <<cloud, listed, main>>

DeleteRoleAssignment(v) ==
    /\ job[v] = "roles"
    /\ \E r \in listed[v] :
          /\ roles' = [roles EXCEPT ![v] = @ \ {r}]
          /\ listed' = [listed EXCEPT ![v] = @ \ {r}]
    /\ UNCHANGED <<exists, deleting, nic, disk, info, job, main>>

DeleteRoleFails(v) ==
    /\ job[v] = "roles"
    /\ \E r \in listed[v] : \/ UNCHANGED roles
                            \/ roles' = [roles EXCEPT ![v] = @ \ {r}]
    /\ Goto(v, "err")
    /\ UNCHANGED <<exists, deleting, nic, disk, info, listed, main>>

RolesDeleted(v) ==
    /\ job[v] = "roles" /\ listed[v] = {}
    /\ Goto(v, "ok")
    /\ UNCHANGED <<cloud, listed, main>>

-----------------------------------------------------------------------------
(* ScaleDownVMs *)

ScaleDownVMs(vmNames) ==
    /\ call = "idle" /\ calls < MaxCalls
    /\ req' = vmNames /\ got' = {} /\ failed' = {}
    /\ job' = [v \in VMs |-> IF v \in vmNames THEN "get" ELSE "none"]
    /\ call' = "running" /\ result' = "none"
    /\ asked' = asked \union vmNames
    /\ calls' = calls + 1
    /\ UNCHANGED <<cloud, listed>>

\* errChan holds a result per VM; a goroutine's last act is to send to it.
Receive(v) ==
    /\ call = "running"
    /\ v \in req \ got /\ job[v] \in {"ok", "err"}
    /\ got' = got \union {v}
    /\ failed' = IF job[v] = "err" THEN failed \union {v} ELSE failed
    /\ UNCHANGED <<cloud, job, listed, req, call, result, asked, calls>>

\* Mistake: the loop waits for one result more than there are.
ReturnAfterOneMore ==
    /\ call = "running" /\ Cardinality(got) > Cardinality(req)
    /\ call' = "idle"
    /\ result' = IF failed = {} THEN "nil" ELSE "failed"
    /\ UNCHANGED <<cloud, job, listed, req, got, failed, asked, calls>>

Return ==
    /\ call = "running" /\ got = req
    /\ call' = "idle"
    /\ result' = IF failed = {} THEN "nil" ELSE "failed"
    /\ UNCHANGED <<cloud, job, listed, req, got, failed, asked, calls>>

\* The process is killed with all its goroutines.
Killed ==
    /\ call = "running"
    /\ job' = [v \in VMs |-> "none"]
    /\ call' = "idle" /\ result' = "killed"
    /\ UNCHANGED <<cloud, listed, req, got, failed, asked, calls>>

-----------------------------------------------------------------------------

\* A deletion that nobody waits for any more completes.
Vanish(v) ==
    /\ v \in deleting
    /\ exists' = exists \ {v} /\ deleting' = deleting \ {v}
    /\ UNCHANGED <<nic, disk, roles, info, job, listed, main>>

CleanDeleteVirtualMachine(v) ==
    \/ GetVirtualMachine(v) \/ GetFails(v)
    \/ DeleteVirtualMachine(v) \/ DeleteVMFails(v)
    \/ DeleteNetworkInterface(v) \/ DeleteNICFails(v)
    \/ DeleteDisk(v) \/ DeleteDiskFails(v)
    \/ ListRoleAssignments(v) \/ ListRolesFails(v)
    \/ DeleteRoleAssignment(v) \/ DeleteRoleFails(v) \/ RolesDeleted(v)

Collect == Return \/ \E v \in VMs : Receive(v)

\* The caller has no further use for the command.
Stop == call = "idle" /\ (calls = MaxCalls \/ exists = {}) /\ UNCHANGED vars

Next ==
    \/ \E vmNames \in (SUBSET exists) \ {{}} : ScaleDownVMs(vmNames)
    \/ \E v \in VMs : CleanDeleteVirtualMachine(v) \/ Vanish(v)
    \/ Collect \/ Killed \/ Stop

Spec == Init /\ [][Next]_vars

\* Every goroutine goes on (each call has a deadline) and so does the caller.
FairSpec ==
    /\ Spec
    /\ \A v \in VMs : WF_vars(CleanDeleteVirtualMachine(v))
    /\ WF_vars(Collect)

-----------------------------------------------------------------------------
(* Properties *)

Leftover(v) ==
    \/ v \in exists
    \/ info[v].nic /\ v \in nic
    \/ HasNamedDisk(v) /\ v \in disk
    \/ roles[v] # {}

\* "Returns a list with details on each failure" (scaledownagentpool.go:19):
\* when ScaleDownVMs returns, a VM of which anything known is left is in it.
FailuresAreListed ==
    result \in {"nil", "failed"} =>
        \A v \in req : Leftover(v) => v \in failed

\* A VM is never stripped of its NIC, disk or role assignments while it is
\* there, also when an earlier call left it half deleted.
WholeUntilDeleted ==
    \A v \in exists : /\ v \in nic /\ v \in disk
                      /\ info[v].identity => roles[v] = Roles

\* ScaleDownVMs returns: nobody waits for a result that is not sent.
CallReturns == (call = "running") ~> (call = "idle")

\* ScaleDownVMs keeps the promise of BatchDelete; a killed call reports none.
Batch == INSTANCE BatchDelete
    WITH running <- (call = "running"),
         failed  <- IF result = "killed" THEN req
                    ELSE IF call = "running" THEN {} ELSE failed

ImplementsBatchDelete == Batch!Spec

=============================================================================
