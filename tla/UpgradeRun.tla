----------------------------- MODULE UpgradeRun -----------------------------
(***************************************************************************)
(* The `upgrade` command as a whole (cmd/upgrade.go), around the modules   *)
(* of its parts: the target version is checked against the saved API       *)
(* model, every VM against the target, the upgraded masters for readiness, *)
(* the cluster autoscaler is paused, masters and then agent pools are      *)
(* replaced, the autoscaler is resumed and the API model is saved.         *)
(*                                                                         *)
(* Commands with any target and any flags follow each other; each may fail *)
(* or be killed at any point. `scale` may replace agents in between.       *)
(* Replacing one VM is one step here: UpgradeMasters and UpgradeAgentPool  *)
(* model it in detail.                                                     *)
(***************************************************************************)
EXTENDS Versions, FiniteSets

CONSTANTS Masters, Agents, Pools,
          PoolOf,          \* the pool of each agent
          Table,           \* the versions the build knows, see Versions
          FirstVersion,    \* the version the cluster was created with
          Forces,          \* the values --force is given
          Replicas,        \* replicas of the autoscaler before the first run
          GateSteps,       \* listings of the status stream
          Attempts         \* tries to write the autoscaler's deployment

NoPool == "none"

ASSUME RunAssumption ==
    /\ IsFiniteSet(Masters) /\ Masters # {}
    /\ Masters \intersect Agents = {}
    /\ PoolOf \in [Agents -> Pools] /\ NoPool \notin Pools
    /\ DOMAIN Table \subseteq (Nat \X Int)
    /\ FirstVersion \in DOMAIN Table
    /\ Forces \subseteq BOOLEAN
    /\ Replicas \in Nat \ {0}
    /\ GateSteps \in Nat \ {0}
    /\ Attempts \in Nat \ {0}

VARIABLES
    ver,       \* the version of each VM, as its orchestrator tag says
    replicas,  \* of the cluster-autoscaler deployment
    saved,     \* the version in apimodel.json
    zero,      \* pools with Count 0 in the API model
    pc,        \* where the command is
    run,       \* what the running command holds in memory
    forced,    \* some command used --force
    unresumed, \* some command was killed or could not write the deployment at its end
    lost       \* some pause took effect and was reported failed

cluster == <<ver, replicas, saved, zero>>
history == <<forced, unresumed, lost>>
vars    == <<cluster, pc, run, history>>

VMs == Masters \union Agents
Versions == DOMAIN Table
Phases == {"idle", "list", "gate", "pause", "masters", "pools", "resume", "save"}

\* goal, force, cpo: --upgrade-version, --force, --control-plane-only;
\* client: whether a Kubernetes client could be made; masters, done: MasterVMs
\* still to replace, UpgradedMasterVMs; agents, pools, pool: AgentVMs still to
\* replace, pools not begun, the one at work; seen: upgradedNotReadyCount;
\* tries: of the stream, then of the autoscaler's update; paused, count: the
\* deferred resume is registered, for so many replicas; ok: what is returned.
Runs ==
    [goal: Versions, force: BOOLEAN, cpo: BOOLEAN, client: BOOLEAN,
     masters: SUBSET Masters, done: SUBSET Masters, agents: SUBSET Agents,
     pools: SUBSET Pools, pool: Pools \union {NoPool},
     seen: 0..Cardinality(Masters), tries: 0..(GateSteps + Attempts),
     paused: BOOLEAN, count: 0..Replicas, ok: BOOLEAN]

NewRun(goal, force, cpo, client) ==
    [goal |-> goal, force |-> force, cpo |-> cpo, client |-> client,
     masters |-> {}, done |-> {}, agents |-> {}, pools |-> {}, pool |-> NoPool,
     seen |-> 0, tries |-> 0, paused |-> FALSE, count |-> 0, ok |-> FALSE]

NoRun == NewRun(FirstVersion, FALSE, FALSE, FALSE)

TypeOK ==
    /\ ver \in [VMs -> Versions]
    /\ replicas \in 0..Replicas
    /\ saved \in Versions
    /\ zero \subseteq Pools
    /\ pc \in Phases
    /\ run \in Runs
    /\ pc = "idle" => run = NoRun
    /\ forced \in BOOLEAN /\ unresumed \in BOOLEAN /\ lost \in BOOLEAN

Init ==
    /\ ver = [v \in VMs |-> FirstVersion]
    /\ replicas = Replicas
    /\ saved = FirstVersion
    /\ zero \in SUBSET Pools
    /\ pc = "idle"
    /\ run = NoRun
    /\ forced = FALSE /\ unresumed = FALSE /\ lost = FALSE

\* The process ends, and with it all it held in memory.
Exit == pc' = "idle" /\ run' = NoRun

-----------------------------------------------------------------------------
(* cmd/upgrade.go: load the API model, check the target *)

\* validateTargetVersion
ValidTarget(goal) == goal \in UpgradesOf(saved, Table)

Start ==
    /\ pc = "idle"
    /\ \E goal \in Versions, f \in Forces, cpo \in BOOLEAN, c \in BOOLEAN :
          /\ f \/ ValidTarget(goal)
          /\ run' = NewRun(goal, f, cpo, c)
          /\ forced' = (forced \/ f)
    /\ pc' = "list"
    /\ UNCHANGED <<cluster, unresumed, lost>>

-----------------------------------------------------------------------------
(* UpgradeCluster: sort the VMs, or refuse *)

\* Mistake: only the masters are compared with the target.
UpgradableMasters ==
    \A v \in Masters : ver[v] # run.goal => run.goal \in UpgradesOf(ver[v], Table)

\* Every VM that is not at the goal can be upgraded to it, agents too when
\* only the control plane is upgraded.
Upgradable ==
    \A v \in VMs : ver[v] # run.goal => run.goal \in UpgradesOf(ver[v], Table)

Outdated == {v \in VMs : run.force \/ ver[v] # run.goal}

SetNodesToUpgrade ==
    /\ pc = "list"
    /\ run.force \/ Upgradable
    /\ run' = [run EXCEPT !.masters = Masters \intersect Outdated,
                          !.done    = Masters \ Outdated,
                          !.agents  = Agents \intersect Outdated,
                          !.pools   = {PoolOf[a] : a \in Agents}]
    /\ pc' = "gate"
    /\ UNCHANGED <<cluster, history>>

\* The listing fails, or a VM cannot be upgraded.
ListFails ==
    /\ pc = "list"
    /\ Exit
    /\ UNCHANGED <<cluster, history>>

-----------------------------------------------------------------------------
(* checkControlPlaneNodesStatus and its stream                             *)
(*                                                                         *)
(* A listing and its way through the unbuffered channel are one step: one  *)
(* that the deadline overtakes is never received. Its sender then stays    *)
(* blocked in the channel, which nobody waits for.                         *)

Checking == pc = "gate" /\ run.client /\ run.done # {}

PassGate ==
    /\ pc' = "pause"
    /\ run' = [run EXCEPT !.done = {}, !.seen = 0, !.tries = 0]

GateSkipped ==
    /\ pc = "gate"
    /\ ~run.client \/ run.done = {}
    /\ PassGate
    /\ UNCHANGED <<cluster, history>>

\* A report is received: any of the upgraded masters may be NotReady just now.
\* When none is the stream is closed; otherwise they get some extra time.
GateReport ==
    /\ Checking
    /\ run.tries < GateSteps
    /\ \E notReady \in SUBSET run.done :
          IF notReady = {} THEN PassGate
          ELSE /\ run' = [run EXCEPT !.seen = Cardinality(notReady), !.tries = @ + 1]
               /\ UNCHANGED pc
    /\ UNCHANGED <<cluster, history>>

GateListFails ==
    /\ Checking
    /\ run.tries < GateSteps
    /\ run' = [run EXCEPT !.tries = @ + 1]
    /\ UNCHANGED <<cluster, pc, history>>

\* Mistake: only the reports end the check.
GateNoDeadline ==
    /\ Checking
    /\ run.tries < GateSteps
    /\ IF run.seen > 1 THEN Exit ELSE PassGate
    /\ UNCHANGED <<cluster, history>>

\* The deadline passes, or the stream is closed: the count last received
\* decides, 0 when none was.
GateEnds ==
    /\ Checking
    /\ IF run.seen > 1 THEN Exit ELSE PassGate
    /\ UNCHANGED <<cluster, history>>

-----------------------------------------------------------------------------
(* The autoscaler *)

PauseSkipped ==
    /\ pc = "pause"
    /\ run.cpo
    /\ pc' = "masters"
    /\ UNCHANGED <<cluster, run, history>>

\* SetClusterAutoscalerReplicaCount(0): get the deployment, note its replicas,
\* write it back with 0.
Paused ==
    /\ pc = "pause"
    /\ ~run.cpo /\ run.client
    /\ run.tries < Attempts
    /\ replicas' = 0
    /\ run' = [run EXCEPT !.paused = TRUE, !.count = replicas, !.tries = 0]
    /\ pc' = "masters"
    /\ UNCHANGED <<ver, saved, zero, history>>

\* A try fails before or after the write took effect, and the next one reads
\* the deployment again.
PauseTryFails ==
    /\ pc = "pause"
    /\ ~run.cpo /\ run.client
    /\ run.tries < Attempts
    /\ run' = [run EXCEPT !.tries = @ + 1]
    /\ \/ UNCHANGED <<replicas, lost>>
       \/ replicas' = 0 /\ lost' = TRUE
    /\ UNCHANGED <<ver, saved, zero, pc, forced, unresumed>>

NotPaused == pc = "pause" /\ ~run.cpo /\ (~run.client \/ run.tries = Attempts)

GoOnUnpaused == pc' = "masters" /\ run' = [run EXCEPT !.tries = 0]

\* All tries failed, or there is no client: an error, or with --force no pause.
PauseFails ==
    /\ NotPaused
    /\ IF run.force THEN GoOnUnpaused ELSE Exit
    /\ UNCHANGED <<cluster, history>>

-----------------------------------------------------------------------------
(* RunUpgrade *)

\* RunUpgrade returns; the deferred resume is next.
Unwind(ok) ==
    /\ pc' = "resume"
    /\ run' = [run EXCEPT !.masters = {}, !.agents = {}, !.pools = {}, !.pool = NoPool, !.ok = ok]

UpgradeMaster(m) ==
    /\ pc = "masters"
    /\ m \in run.masters
    /\ ver' = [ver EXCEPT ![m] = run.goal]
    /\ run' = [run EXCEPT !.masters = @ \ {m}]
    /\ UNCHANGED <<replicas, saved, zero, pc, history>>

MastersUpgraded ==
    /\ pc = "masters"
    /\ run.masters = {}
    /\ IF run.cpo THEN Unwind(TRUE) ELSE pc' = "pools" /\ UNCHANGED run
    /\ UNCHANGED <<cluster, history>>

BetweenPools == pc = "pools" /\ run.pool = NoPool

\* upgradeAgentPools takes the pools in the order of a Go map.
NextPool(p) ==
    /\ BetweenPools
    /\ p \in run.pools \ zero
    /\ run' = [run EXCEPT !.pool = p, !.pools = @ \ {p}]
    /\ UNCHANGED <<cluster, pc, history>>

\* "Agent pool is empty": the whole function returns.
EmptyPool ==
    /\ BetweenPools
    /\ run.pools \intersect zero # {}
    /\ Unwind(TRUE)
    /\ UNCHANGED <<cluster, history>>

UpgradeAgent(a) ==
    /\ pc = "pools"
    /\ a \in run.agents
    /\ PoolOf[a] = run.pool
    /\ ver' = [ver EXCEPT ![a] = run.goal]
    /\ run' = [run EXCEPT !.agents = @ \ {a}]
    /\ UNCHANGED <<replicas, saved, zero, pc, history>>

PoolUpgraded ==
    /\ pc = "pools"
    /\ run.pool # NoPool
    /\ \A a \in run.agents : PoolOf[a] # run.pool
    /\ run' = [run EXCEPT !.pool = NoPool]
    /\ UNCHANGED <<cluster, pc, history>>

\* Mistake: the loop over the pools ends after the first one.
OnePoolUpgraded ==
    /\ BetweenPools
    /\ run.pools # Pools
    /\ Unwind(TRUE)
    /\ UNCHANGED <<cluster, history>>

AllPoolsUpgraded ==
    /\ BetweenPools
    /\ run.pools = {}
    /\ Unwind(TRUE)
    /\ UNCHANGED <<cluster, history>>

\* What a replacement that is cut short leaves: nothing changed, or the VM
\* created at the goal version and not validated.
LeftBehind ==
    \/ UNCHANGED ver
    \/ \E v \in VMs : /\ \/ pc = "masters" /\ v \in run.masters
                         \/ pc = "pools" /\ v \in run.agents /\ PoolOf[v] = run.pool
                      /\ ver' = [ver EXCEPT ![v] = run.goal]

\* RunUpgrade fails: pod security policies, a deployment, a deletion, a
\* validation or a deadline.
UpgradeFails ==
    /\ pc \in {"masters", "pools"}
    /\ LeftBehind
    /\ Unwind(FALSE)
    /\ UNCHANGED <<replicas, saved, zero, history>>

-----------------------------------------------------------------------------
(* The deferred resume, and the save *)

AfterResume == IF run.ok THEN pc' = "save" /\ UNCHANGED run ELSE Exit

\* Mistake: the autoscaler is resumed only after a successful upgrade.
ResumeOnSuccess ==
    /\ pc = "resume"
    /\ replicas' = IF run.paused /\ run.ok THEN run.count ELSE replicas
    /\ AfterResume
    /\ UNCHANGED <<ver, saved, zero, history>>

Resume ==
    /\ pc = "resume"
    /\ replicas' = IF run.paused THEN run.count ELSE replicas
    /\ AfterResume
    /\ UNCHANGED <<ver, saved, zero, history>>

\* Every try fails; that is only logged.
ResumeFails ==
    /\ pc = "resume"
    /\ run.paused
    /\ AfterResume
    /\ unresumed' = TRUE
    /\ UNCHANGED <<cluster, forced, lost>>

\* The command reports success when the API model is written.
SaveAPIModel ==
    /\ pc = "save"
    /\ saved' \in {saved, run.goal}
    /\ Exit
    /\ UNCHANGED <<ver, replicas, zero, history>>

-----------------------------------------------------------------------------
(* Kills, and the world between two commands *)

Kill ==
    /\ pc # "idle"
    /\ LeftBehind
    /\ unresumed' = TRUE
    /\ Exit
    /\ UNCHANGED <<replicas, saved, zero, forced, lost>>

\* scale removes an agent and later adds one, from the saved API model.
ScaledAway(a) ==
    /\ pc = "idle"
    /\ ver' = [ver EXCEPT ![a] = saved]
    /\ UNCHANGED <<replicas, saved, zero, pc, run, history>>

Command ==
    \/ SetNodesToUpgrade \/ ListFails
    \/ GateSkipped \/ GateReport \/ GateListFails \/ GateEnds
    \/ PauseSkipped \/ Paused \/ PauseTryFails \/ PauseFails
    \/ \E m \in Masters : UpgradeMaster(m)
    \/ MastersUpgraded
    \/ \E p \in Pools : NextPool(p)
    \/ EmptyPool
    \/ \E a \in Agents : UpgradeAgent(a)
    \/ PoolUpgraded \/ AllPoolsUpgraded \/ UpgradeFails
    \/ Resume \/ ResumeFails \/ SaveAPIModel

Next ==
    \/ Start \/ Command \/ Kill
    \/ \E a \in Agents : ScaledAway(a)

Spec == Init /\ [][Next]_vars

(***************************************************************************)
(* A command that was started goes on: each of its calls has a deadline.   *)
(* The context of checkControlPlaneNodesStatus expires.                    *)
(***************************************************************************)
FairSpec == Spec /\ WF_vars(Command)

-----------------------------------------------------------------------------
(* Properties *)

\* "you should not run a newer version of Kubernetes on a node than is running
\* on the control plane": through any sequence of commands without --force,
\* failed, killed or complete, and of scalings from the saved API model, no
\* agent is ahead of a master, and none is behind by more than one upgrade that
\* the build offers. The version in apimodel.json, from which scale creates
\* VMs, is not ahead of a master either.
SkewWithinOneUpgrade ==
    ~forced => \A m \in Masters :
        /\ NewerOrSame(ver[m], saved)
        /\ \A a \in Agents : ver[m] = ver[a] \/ ver[m] \in UpgradesOf(ver[a], Table)

\* A command that reports success has upgraded all it was to upgrade, unless
\* the API model counts no agents in some pool that has them.
SuccessMeansGoal ==
    (pc = "save" /\ zero = {}) =>
        \A v \in VMs : ver[v] = run.goal \/ (run.cpo /\ v \in Agents)

\* When no command was killed and no answer about the deployment was wrong, the
\* autoscaler has its replicas back after every command, however it ended.
AutoscalerRestored == (pc = "idle" /\ ~unresumed /\ ~lost) => replicas = Replicas

\* Every command ends, although masters may flap while their status is read.
CommandEnds == (pc # "idle") ~> (pc = "idle")

=============================================================================
