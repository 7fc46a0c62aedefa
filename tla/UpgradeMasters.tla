--------------------------- MODULE UpgradeMasters ---------------------------
(***************************************************************************)
(* The control plane half of `upgrade`: UpgradeCluster.UpgradeCluster up   *)
(* to RunUpgrade (upgradecluster.go), Upgrader.upgradeMasterNodes          *)
(* (upgrader.go) and UpgradeMasterNode (upgrademasternode.go).             *)
(*                                                                         *)
(* The command is run, fails or is killed at any point, and is run again   *)
(* with the same arguments until it reports success. Everything but the    *)
(* cloud's VMs and the nodes' conditions is lost between two runs.         *)
(***************************************************************************)
EXTENDS Integers, FiniteSets

CONSTANTS N,             \* MasterProfile.Count
          Forces,        \* the values --force is given
          ListCanFail,   \* listing the control plane nodes may fail throughout
          MaxAborts      \* bound on failed or killed runs

ASSUME MastersAssumption ==
    /\ N \in Nat \ {0}
    /\ Forces \in SUBSET BOOLEAN
    /\ ListCanFail \in BOOLEAN
    /\ MaxAborts \in Nat

Masters == 0..(N - 1)

VARIABLES
    vm,         \* the master VMs by index: "absent", or by orchestrator tag
    ready,      \* the node's Ready condition in the API server
    pc,         \* where the command is
    force,      \* UpgradeCluster.Force of this run
    toUpgrade,  \* ClusterTopology.MasterVMs still to visit
    upgraded,   \* ClusterTopology.UpgradedMasterVMs
    existing,   \* existingMastersIndex
    missing,    \* mastersToCreate still to do
    cur,        \* index of the master being replaced
    aborts      \* runs that failed or were killed after the check

cloud == <<vm, ready>>
local == <<force, toUpgrade, upgraded, existing, missing, cur>>
vars  == <<cloud, pc, local, aborts>>

VMStates == {"absent", "old", "new"}
Phases   == {"idle", "check", "create", "upgrade", "recreate", "validate", "success"}

Down == {i \in Masters : ~ready[i]}

TypeOK ==
    /\ vm \in [Masters -> VMStates]
    /\ ready \in [Masters -> BOOLEAN]
    /\ pc \in Phases
    /\ force \in BOOLEAN
    /\ toUpgrade \subseteq Masters
    /\ upgraded \subseteq Masters
    /\ existing \subseteq Masters
    /\ missing \in 0..N
    /\ cur \in Masters
    /\ aborts \in 0..MaxAborts

Init ==
    /\ vm = [i \in Masters |-> "old"]
    /\ ready = [i \in Masters |-> TRUE]
    /\ pc = "idle"
    /\ force = FALSE
    /\ toUpgrade = {}
    /\ upgraded = {}
    /\ existing = {}
    /\ missing = 0
    /\ cur = 0
    /\ aborts = 0

-----------------------------------------------------------------------------
(* UpgradeCluster: enumerate the VMs, then check the upgraded masters *)

\* setNodesToUpgrade sorts the VMs by the version in their orchestrator tag;
\* with --force every VM is to be upgraded, whatever its version.
Listed(f) == {i \in Masters : IF f THEN vm[i] # "absent" ELSE vm[i] = "old"}
Finished(f) == {i \in Masters : ~f /\ vm[i] = "new"}

SetNodesToUpgrade ==
    /\ pc = "idle"
    /\ \E f \in Forces :
          /\ force' = f
          /\ toUpgrade' = Listed(f)
          /\ upgraded' = Finished(f)
    /\ pc' = "check"
    /\ UNCHANGED <<cloud, existing, missing, cur, aborts>>

\* checkControlPlaneNodesStatus counts the upgraded masters last seen NotReady.
NotReadyCount == Cardinality(upgraded \intersect Down)

\* The run stops; nothing was touched.
CheckRefuses ==
    /\ pc = "check"
    /\ NotReadyCount > 1
    /\ pc' = "idle"
    /\ UNCHANGED <<cloud, local, aborts>>

\* The check passes also without a client, and when no listing ever succeeded.
\* upgradeMasterNodes then counts the masters it has to create; the indices it
\* takes for existing are those of MasterVMs.
CheckPasses ==
    /\ pc = "check"
    /\ NotReadyCount <= 1 \/ ListCanFail
    /\ existing' = toUpgrade
    /\ missing' = N - Cardinality(toUpgrade) - Cardinality(upgraded)
    /\ pc' = "create"
    /\ UNCHANGED <<cloud, force, toUpgrade, upgraded, cur, aborts>>

-----------------------------------------------------------------------------
(* upgradeMasterNodes *)

\* Mistake: masterCount is set to the index, not to the index plus one, and
\* the template's copy loop from masterOffset to masterCount is empty.
DeployedNothing(i) == vm

\* A deployment for index i leaves an existing VM as it is and creates a
\* missing one, whose node is not ready yet.
Deployed(i) == [vm EXCEPT ![i] = IF vm[i] = "absent" THEN "new" ELSE vm[i]]

\* The lowest index that existingMastersIndex does not hold.
IndexToCreate ==
    CHOOSE i \in Masters \ existing : \A j \in Masters \ existing : i <= j

\* CreateNode for a missing master. Validate is given an empty name and skips
\* the wait for the node.
CreateMissing ==
    /\ pc = "create"
    /\ missing > 0
    /\ vm' = Deployed(IndexToCreate)
    /\ existing' = existing \union {IndexToCreate}
    /\ missing' = missing - 1
    /\ UNCHANGED <<ready, pc, force, toUpgrade, upgraded, cur, aborts>>

NoneMissing ==
    /\ pc = "create"
    /\ missing = 0
    /\ pc' = "upgrade"
    /\ UNCHANGED <<cloud, local, aborts>>

\* The next of MasterVMs, in the order ARM listed them: DeleteNode, which does
\* not drain. The node object stays and turns NotReady.
DeleteNode ==
    /\ pc = "upgrade"
    /\ \E i \in toUpgrade :
          /\ vm' = [vm EXCEPT ![i] = "absent"]
          /\ ready' = [ready EXCEPT ![i] = FALSE]
          /\ toUpgrade' = toUpgrade \ {i}
          /\ cur' = i
    /\ pc' = "recreate"
    /\ UNCHANGED <<force, upgraded, existing, missing, aborts>>

CreateNode ==
    /\ pc = "recreate"
    /\ vm' = Deployed(cur)
    /\ pc' = "validate"
    /\ UNCHANGED <<ready, local, aborts>>

\* Mistake: the next master is taken without waiting for this one.
NotValidated ==
    /\ pc = "validate"
    /\ pc' = "upgrade"
    /\ UNCHANGED <<cloud, local, aborts>>

\* Validate has seen the node Ready.
Validate ==
    /\ pc = "validate"
    /\ ready[cur]
    /\ pc' = "upgrade"
    /\ UNCHANGED <<cloud, local, aborts>>

\* Mistake: the loop ends one master early.
AllButOneUpgraded ==
    /\ pc = "upgrade"
    /\ Cardinality(toUpgrade) <= 1
    /\ pc' = "success"
    /\ UNCHANGED <<cloud, local, aborts>>

AllUpgraded ==
    /\ pc = "upgrade"
    /\ toUpgrade = {}
    /\ pc' = "success"
    /\ UNCHANGED <<cloud, local, aborts>>

-----------------------------------------------------------------------------
(* A run fails or is killed *)

\* What can be left behind at this point: nothing more (killed, a call that
\* had no effect, Validate's timeout), a deployment that failed or was not
\* waited for, or a VM that was deleted before the rest of the deletion failed.
LeftBehind ==
    \/ UNCHANGED cloud
    \/ pc = "create" /\ missing > 0 /\ vm' = Deployed(IndexToCreate) /\ UNCHANGED ready
    \/ pc = "recreate" /\ vm' = Deployed(cur) /\ UNCHANGED ready
    \/ /\ pc = "upgrade"
       /\ \E i \in toUpgrade : /\ vm' = [vm EXCEPT ![i] = "absent"]
                               /\ ready' = [ready EXCEPT ![i] = FALSE]

Abort ==
    /\ pc \in {"create", "upgrade", "recreate", "validate"}
    /\ aborts < MaxAborts
    /\ LeftBehind
    /\ aborts' = aborts + 1
    /\ pc' = "idle"
    /\ UNCHANGED local

\* kubelet: the node of a VM at the new version becomes Ready in its own time.
BecomesReady(i) ==
    /\ vm[i] = "new"
    /\ ~ready[i]
    /\ ready' = [ready EXCEPT ![i] = TRUE]
    /\ UNCHANGED <<vm, pc, local, aborts>>

Command ==
    \/ SetNodesToUpgrade \/ CheckRefuses \/ CheckPasses
    \/ CreateMissing \/ NoneMissing
    \/ DeleteNode \/ CreateNode \/ Validate \/ AllUpgraded

Finish == pc = "success" /\ UNCHANGED vars

Next == Command \/ Abort \/ Finish \/ \E i \in Masters : BecomesReady(i)

Spec == Init /\ [][Next]_vars

(***************************************************************************)
(* The operator runs the command again until it succeeds, as upgrade.md    *)
(* tells them to, failures are finitely many (MaxAborts), and every new    *)
(* node becomes Ready.                                                     *)
(***************************************************************************)
FairSpec ==
    /\ Spec
    /\ WF_vars(Command)
    /\ \A i \in Masters : WF_vars(BecomesReady(i))

-----------------------------------------------------------------------------
(* Properties *)

\* An upgrade takes down one master at a time, and each failed or killed run
\* costs at most one more: in particular no quorum is lost in a first run.
OneMasterDownPerAbort == Cardinality(Down) <= aborts + 1

\* Success means that no master is left at the old version, whatever the
\* earlier runs left behind.
SuccessLeavesNoOldMaster == pc = "success" => \A i \in Masters : vm[i] # "old"

\* Running the command again after every failure ends in success.
RetryConverges == <>(pc = "success")

\* "Reconstructing names of missing master VMs for recreation during upgrade":
\* success means that every master exists again.
SuccessMeansComplete == pc = "success" => \A i \in Masters : vm[i] # "absent"

=============================================================================
