-------------------------- MODULE UpgradeRunProofs --------------------------
(***************************************************************************)
(* For any cluster, any table of versions and any sequence of commands and *)
(* failures: the versions of masters and agents never drift apart by more  *)
(* than one upgrade, a success is one, and the autoscaler is given back    *)
(* its replicas.                                                           *)
(***************************************************************************)
EXTENDS UpgradeRun, FiniteSetTheorems, TLAPS

\* The lists of VMs to replace are complete: while a phase is under way, and
\* after it, the VMs it is responsible for are listed or at the goal.
MastersListed ==
    /\ pc \in {"gate", "pause", "masters"} =>
          \A m \in Masters : m \in run.masters \/ ver[m] = run.goal
    /\ pc = "pools" \/ (pc \in {"resume", "save"} /\ run.ok) =>
          \A m \in Masters : ver[m] = run.goal

AgentsListed ==
    /\ pc \in {"gate", "pause", "masters", "pools"} =>
          \A a \in Agents : a \in run.agents \/ ver[a] = run.goal
    /\ pc \in {"resume", "save"} /\ run.ok /\ ~run.cpo /\ zero = {} =>
          \A a \in Agents : ver[a] = run.goal

\* Every agent to replace is in the pool at work or in one not begun.
PoolsListed ==
    /\ pc \in {"gate", "pause", "masters", "pools"} =>
          \A a \in run.agents : PoolOf[a] \in run.pools \union {run.pool}
    /\ pc \in {"idle", "list", "gate", "pause", "masters", "resume", "save"} => run.pool = NoPool

PhasesInOrder ==
    /\ pc = "pools" => ~run.cpo
    /\ pc = "save" => run.ok
    /\ pc # "idle" /\ run.force => forced

\* Without --force: the target is an upgrade from the saved version, and, once
\* the VMs are sorted, from the version of every VM that is not at it.
GoalWithinOneUpgrade ==
    ~forced =>
        /\ pc # "idle" => run.goal \in UpgradesOf(saved, Table)
        /\ pc \notin {"idle", "list"} =>
              \A v \in VMs : ver[v] = run.goal \/ run.goal \in UpgradesOf(ver[v], Table)

\* Without --force: the masters are one upgrade at most ahead of the agents, and
\* of the version in apimodel.json that scale would create agents at.
MastersWithinOneUpgrade ==
    ~forced => \A m \in Masters :
        /\ ver[m] = saved \/ ver[m] \in UpgradesOf(saved, Table)
        /\ \A a \in Agents : ver[m] = ver[a] \/ ver[m] \in UpgradesOf(ver[a], Table)

\* Only a command that has paused the autoscaler, and has not resumed it yet,
\* holds its replicas.
PauseHeld == run.paused /\ pc \in {"masters", "pools", "resume"}
ReplicasKept ==
    /\ pc \in {"idle", "list", "gate", "pause"} => ~run.paused
    /\ ~unresumed /\ ~lost => IF PauseHeld THEN run.count = Replicas ELSE replicas = Replicas

Listed == MastersListed /\ AgentsListed /\ PoolsListed /\ PhasesInOrder
Skew == GoalWithinOneUpgrade /\ MastersWithinOneUpgrade
RunInv == TypeOK /\ Listed /\ Skew /\ ReplicasKept

-----------------------------------------------------------------------------
\* A version that is offered as an upgrade is known to the build and is newer.
LEMMA UpgradeIsNewer ==
    ASSUME NEW v \in Versions, NEW w \in UpgradesOf(v, Table)
    PROVE  w \in Versions /\ Newer(w, v)
BY DEF Versions, UpgradesOf, AvailableUpgrades, GetVersionsBetween, GetVersionsGt,
       GetVersionsLt, GetAllSupported

\* A new command is of its type, and so is the record of no command.
LEMMA NewRunType ==
    ASSUME NEW goal \in Versions, NEW force \in BOOLEAN, NEW cpo \in BOOLEAN,
           NEW client \in BOOLEAN
    PROVE  NewRun(goal, force, cpo, client) \in Runs
<1>1. Cardinality(Masters) \in Nat BY FS_CardinalityType, RunAssumption
<1> QED BY <1>1, RunAssumption DEF NewRun, Runs

LEMMA NoRunType == NoRun \in Runs
BY NewRunType, RunAssumption DEF NoRun, Versions

\* The counters and the pause of a command are of their types.
LEMMA CountersType ==
    ASSUME NEW r \in Runs, NEW n \in 0..Cardinality(Masters),
           NEW t \in 0..(GateSteps + Attempts), NEW c \in 0..Replicas
    PROVE  /\ [r EXCEPT !.seen = n, !.tries = t] \in Runs
           /\ [r EXCEPT !.done = {}, !.seen = n, !.tries = t] \in Runs
           /\ [r EXCEPT !.paused = TRUE, !.count = c, !.tries = t] \in Runs
<1>1. [r EXCEPT !.seen = n] \in Runs /\ [r EXCEPT !.done = {}] \in Runs
    BY DEF Runs
<1>2. [r EXCEPT !.paused = TRUE] \in Runs BY Zenon DEF Runs
<1> QED BY <1>1, <1>2 DEF Runs

\* The initial state.
LEMMA RunInit ==
    ASSUME Init
    PROVE  RunInv
<1>1. TypeOK
    <2>1. forced \in BOOLEAN /\ unresumed \in BOOLEAN /\ lost \in BOOLEAN
        BY Zenon DEF Init
    <2>2. ver \in [VMs -> Versions] /\ saved \in Versions
        BY RunAssumption DEF Init, Versions
    <2>3. replicas \in 0..Replicas BY RunAssumption DEF Init
    <2> QED BY <2>1, <2>2, <2>3, NoRunType DEF Init, TypeOK, Phases
<1>2. Listed
    BY DEF Init, Listed, MastersListed, AgentsListed, PoolsListed, PhasesInOrder, NoRun, NewRun
<1>3. Skew
    BY DEF Init, Skew, GoalWithinOneUpgrade, MastersWithinOneUpgrade, VMs
<1>4. ReplicasKept BY DEF Init, ReplicasKept, PauseHeld, NoRun, NewRun
<1> QED BY <1>1, <1>2, <1>3, <1>4 DEF RunInv

\* What a replacement that is cut short leaves is of a known version.
LEMMA LeftBehindType ==
    ASSUME TypeOK, LeftBehind
    PROVE  ver' \in [VMs -> Versions]
BY DEF TypeOK, LeftBehind, Runs

\* Every step keeps the types.
LEMMA RunTypeStep ==
    ASSUME TypeOK, [Next]_vars
    PROVE  TypeOK'
<1> USE RunAssumption DEF TypeOK, Phases, cluster, history
<1>0. Cardinality(Masters) \in Nat BY FS_CardinalityType
<1>1. CASE Start
    <2>1. PICK goal \in Versions, f \in Forces, cpo \in BOOLEAN, c \in BOOLEAN :
              run' = NewRun(goal, f, cpo, c) /\ forced' = (forced \/ f)
        BY <1>1 DEF Start
    <2>2. run' \in Runs BY <2>1, NewRunType
    <2>3. forced' \in BOOLEAN BY <2>1
    <2> QED BY <1>1, <2>2, <2>3 DEF Start
<1>2. CASE SetNodesToUpgrade
    <2>1. {PoolOf[a] : a \in Agents} \subseteq Pools OBVIOUS
    <2>2. run' \in Runs BY <1>2, <2>1 DEF SetNodesToUpgrade, Runs
    <2> QED BY <1>2, <2>2 DEF SetNodesToUpgrade
<1>3. CASE ListFails BY <1>3, NoRunType DEF ListFails, Exit
<1>4. ASSUME PassGate PROVE run' \in Runs /\ pc' = "pause"
    <2>1. 0 \in 0..Cardinality(Masters) /\ 0 \in 0..(GateSteps + Attempts) /\ 0 \in 0..Replicas
        BY <1>0
    <2> QED BY <1>4, <2>1, CountersType DEF PassGate
<1>5. CASE GateSkipped BY <1>4, <1>5 DEF GateSkipped
<1>6. CASE GateReport
    <2>1. PICK notReady \in SUBSET run.done :
              IF notReady = {} THEN PassGate
              ELSE /\ run' = [run EXCEPT !.seen = Cardinality(notReady), !.tries = @ + 1]
                   /\ UNCHANGED pc
        BY <1>6 DEF GateReport
    <2>2. CASE PassGate BY <1>4, <1>6, <2>2 DEF GateReport
    <2>3. CASE /\ run' = [run EXCEPT !.seen = Cardinality(notReady), !.tries = @ + 1]
               /\ UNCHANGED pc
        <3>1. run.done \subseteq Masters BY DEF Runs
        <3>2. Cardinality(notReady) \in 0..Cardinality(Masters)
            BY <3>1, <1>0, FS_Subset, FS_CardinalityType
        <3>3. run.tries < GateSteps /\ pc = "gate" BY <1>6 DEF GateReport, Checking
        <3>4. run.tries + 1 \in 0..(GateSteps + Attempts) BY <3>3 DEF Runs
        <3>5. run' \in Runs BY <2>3, <3>2, <3>4, CountersType
        <3> QED BY <1>6, <2>3, <3>3, <3>5 DEF GateReport
    <2> QED BY <2>1, <2>2, <2>3
<1>7. CASE GateListFails
    <2>1. run' \in Runs BY <1>7 DEF GateListFails, Runs
    <2> QED BY <1>7, <2>1 DEF GateListFails, Checking
<1>8. CASE GateEnds BY <1>4, <1>8, NoRunType DEF GateEnds, Exit
<1>9. CASE PauseSkipped BY <1>9 DEF PauseSkipped
<1>10. CASE Paused
    <2>1. 0 \in 0..(GateSteps + Attempts) /\ run.seen \in 0..Cardinality(Masters)
        BY DEF Runs
    <2>2. run' \in Runs BY <1>10, <2>1, CountersType DEF Paused
    <2> QED BY <1>10, <2>2 DEF Paused
<1>11. CASE PauseTryFails
    <2>1. run' \in Runs BY <1>11 DEF PauseTryFails, Runs
    <2>2. replicas' \in 0..Replicas /\ pc' = "pause" BY <1>11 DEF PauseTryFails
    <2>3. lost' \in BOOLEAN BY <1>11, Zenon DEF PauseTryFails
    <2> QED BY <1>11, <2>1, <2>2, <2>3 DEF PauseTryFails
<1>12. CASE PauseFails
    <2>1. GoOnUnpaused => run' \in Runs BY DEF GoOnUnpaused, Runs
    <2> QED BY <1>12, <2>1, NoRunType DEF PauseFails, GoOnUnpaused, Exit
<1>13. ASSUME NEW m \in Masters, UpgradeMaster(m) PROVE TypeOK'
    <2>1. run' \in Runs BY <1>13 DEF UpgradeMaster, Runs
    <2>2. ver' \in [VMs -> Versions] BY <1>13 DEF UpgradeMaster, Runs, VMs
    <2> QED BY <1>13, <2>1, <2>2 DEF UpgradeMaster
<1>14. ASSUME NEW ok \in BOOLEAN, Unwind(ok) PROVE run' \in Runs /\ pc' = "resume"
    BY <1>14 DEF Unwind, Runs
<1>15. CASE MastersUpgraded BY <1>14, <1>15 DEF MastersUpgraded
<1>16. ASSUME NEW p \in Pools, NextPool(p) PROVE TypeOK'
    <2>1. run' \in Runs BY <1>16 DEF NextPool, Runs
    <2> QED BY <1>16, <2>1 DEF NextPool, BetweenPools
<1>17. CASE EmptyPool BY <1>14, <1>17 DEF EmptyPool
<1>18. ASSUME NEW a \in Agents, UpgradeAgent(a) PROVE TypeOK'
    <2>1. run' \in Runs BY <1>18 DEF UpgradeAgent, Runs
    <2>2. ver' \in [VMs -> Versions] BY <1>18 DEF UpgradeAgent, Runs, VMs
    <2> QED BY <1>18, <2>1, <2>2 DEF UpgradeAgent
<1>19. CASE PoolUpgraded
    <2>1. run' \in Runs BY <1>19 DEF PoolUpgraded, Runs
    <2> QED BY <1>19, <2>1 DEF PoolUpgraded
<1>20. CASE AllPoolsUpgraded BY <1>14, <1>20 DEF AllPoolsUpgraded
<1>21. CASE UpgradeFails BY <1>14, <1>21, LeftBehindType DEF UpgradeFails
<1>22. CASE Resume
    <2>1. replicas' \in 0..Replicas BY <1>22 DEF Resume, Runs
    <2>2. run' \in Runs /\ pc' \in Phases /\ (pc' = "idle" => run' = NoRun)
        BY <1>22, NoRunType DEF Resume, AfterResume, Exit
    <2> QED BY <1>22, <2>1, <2>2 DEF Resume
<1>23. CASE ResumeFails
    <2>1. run' \in Runs /\ pc' \in Phases /\ (pc' = "idle" => run' = NoRun)
        BY <1>23, NoRunType DEF ResumeFails, AfterResume, Exit
    <2>2. unresumed' \in BOOLEAN BY <1>23, Zenon DEF ResumeFails
    <2> QED BY <1>23, <2>1, <2>2 DEF ResumeFails
<1>24. CASE SaveAPIModel
    <2>1. saved' \in Versions BY <1>24 DEF SaveAPIModel, Runs
    <2> QED BY <1>24, <2>1, NoRunType DEF SaveAPIModel, Exit
<1>25. CASE Kill
    <2>1. unresumed' \in BOOLEAN BY <1>25, Zenon DEF Kill
    <2> QED BY <1>25, <2>1, NoRunType, LeftBehindType DEF Kill, Exit
<1>26. ASSUME NEW a \in Agents, ScaledAway(a) PROVE TypeOK'
    BY <1>26 DEF ScaledAway, VMs
<1>27. CASE UNCHANGED vars BY <1>27 DEF vars
<1> QED BY <1>1, <1>2, <1>3, <1>5, <1>6, <1>7, <1>8, <1>9, <1>10, <1>11, <1>12, <1>13,
           <1>15, <1>16, <1>17, <1>18, <1>19, <1>20, <1>21, <1>22, <1>23, <1>24, <1>25,
           <1>26, <1>27 DEF Next, Command

\* Every step keeps the lists of what is still to replace.
LEMMA ListedStep ==
    ASSUME TypeOK, Listed, [Next]_vars
    PROVE  Listed'
<1> USE DEF Listed, MastersListed, AgentsListed, PoolsListed, PhasesInOrder, cluster, history
<1>0. run \in Runs /\ ver \in [VMs -> Versions] BY DEF TypeOK
<1>e. ASSUME pc' = "idle", run' = NoRun PROVE Listed'
    BY <1>e DEF NoRun, NewRun
<1>1. CASE Start
    <2>1. PICK goal \in Versions, f \in Forces, cpo \in BOOLEAN, c \in BOOLEAN :
              run' = NewRun(goal, f, cpo, c) /\ forced' = (forced \/ f)
        BY <1>1 DEF Start
    <2>2. pc' = "list" /\ run'.force = f /\ run'.pool = NoPool
        BY <1>1, <2>1 DEF Start, NewRun
    <2>3. run'.force => forced' BY <2>1, <2>2
    <2> QED BY <2>2, <2>3
<1>2. CASE SetNodesToUpgrade
    BY <1>0, <1>2, RunAssumption DEF SetNodesToUpgrade, Outdated, VMs, Runs
<1>3. CASE ListFails \/ Kill \/ SaveAPIModel
    BY <1>e, <1>3 DEF ListFails, Kill, SaveAPIModel, Exit
<1>4. ASSUME pc = "gate", PassGate, UNCHANGED <<cluster, history>> PROVE Listed'
    BY <1>0, <1>4 DEF PassGate, Runs
<1>5. CASE GateSkipped BY <1>4, <1>5 DEF GateSkipped
<1>6. CASE GateReport
    <2>1. CASE PassGate BY <1>4, <1>6, <2>1 DEF GateReport, Checking
    <2>2. CASE ~PassGate
        <3>1. pc = "gate" /\ pc' = "gate" /\ UNCHANGED <<cluster, history>>
            BY <1>6, <2>2 DEF GateReport, Checking
        <3>2. \E n \in {Cardinality(S) : S \in SUBSET run.done} :
                  run' = [run EXCEPT !.seen = n, !.tries = @ + 1]
            BY <1>6, <2>2 DEF GateReport
        <3> QED BY <1>0, <3>1, <3>2 DEF Runs
    <2> QED BY <2>1, <2>2
<1>7. CASE GateListFails BY <1>0, <1>7 DEF GateListFails, Checking, Runs
<1>8. CASE GateEnds BY <1>e, <1>4, <1>8 DEF GateEnds, Checking, Exit
<1>9. CASE PauseSkipped BY <1>9 DEF PauseSkipped
<1>10. CASE Paused BY <1>0, <1>10 DEF Paused, Runs
<1>11. CASE PauseTryFails BY <1>0, <1>11 DEF PauseTryFails, Runs
<1>12. CASE PauseFails
    <2>1. CASE GoOnUnpaused
        BY <1>0, <1>12, <2>1 DEF PauseFails, NotPaused, GoOnUnpaused, Runs
    <2>2. CASE Exit BY <1>e, <2>2 DEF Exit
    <2> QED BY <1>12, <2>1, <2>2 DEF PauseFails
<1>13. ASSUME NEW m \in Masters, UpgradeMaster(m) PROVE Listed'
    BY <1>0, <1>13, RunAssumption DEF UpgradeMaster, VMs, Runs
<1>14. CASE MastersUpgraded
    <2>1. \A m \in Masters : ver'[m] = run.goal BY <1>14 DEF MastersUpgraded
    <2>2. CASE run.cpo
        <3>1. /\ pc' = "resume" /\ UNCHANGED <<cluster, history>>
              /\ run'.goal = run.goal /\ run'.pool = NoPool
              /\ run'.cpo = run.cpo /\ run'.force = run.force
            BY <1>0, <1>14, <2>2 DEF MastersUpgraded, Unwind, Runs
        <3>2. pc # "idle" BY <1>14 DEF MastersUpgraded
        <3> QED BY <2>1, <2>2, <3>1, <3>2
    <2>3. CASE ~run.cpo
        BY <1>14, <2>1, <2>3 DEF MastersUpgraded
    <2> QED BY <2>2, <2>3
<1>15. ASSUME NEW p \in Pools, NextPool(p) PROVE Listed'
    <2>1. \A a \in run.agents : PoolOf[a] # NoPool BY <1>0, RunAssumption DEF Runs
    <2>2. /\ run' = [run EXCEPT !.pool = p, !.pools = @ \ {p}]
          /\ pc = "pools" /\ run.pool = NoPool /\ UNCHANGED <<cluster, pc, history>>
        BY <1>15 DEF NextPool, BetweenPools
    <2>3. \A a \in run'.agents : PoolOf[a] \in run'.pools \union {run'.pool}
        BY <1>0, <2>1, <2>2 DEF Runs
    <2> QED BY <1>0, <2>2, <2>3 DEF Runs
<1>16. CASE EmptyPool BY <1>0, <1>16 DEF EmptyPool, BetweenPools, Unwind, Runs
<1>17. ASSUME NEW a \in Agents, UpgradeAgent(a) PROVE Listed'
    BY <1>0, <1>17, RunAssumption DEF UpgradeAgent, VMs, Runs
<1>18. CASE PoolUpgraded BY <1>0, <1>18 DEF PoolUpgraded, Runs
<1>19. CASE AllPoolsUpgraded
    <2>1. run.agents = {}
        <3>1. ASSUME NEW a \in run.agents PROVE FALSE
            <4>1. PoolOf[a] \in Pools BY <1>0, RunAssumption DEF Runs
            <4>2. PoolOf[a] = NoPool BY <1>19 DEF AllPoolsUpgraded, BetweenPools
            <4> QED BY <4>1, <4>2, RunAssumption
        <3> QED BY <3>1
    <2> QED BY <1>0, <1>19, <2>1 DEF AllPoolsUpgraded, BetweenPools, Unwind, Runs
<1>20. CASE UpgradeFails
    BY <1>0, <1>20 DEF UpgradeFails, Unwind, Runs
<1>21. CASE Resume \/ ResumeFails
    <2>1. CASE run.ok
        BY <1>21, <2>1 DEF Resume, ResumeFails, AfterResume
    <2>2. CASE ~run.ok
        BY <1>e, <1>21, <2>2 DEF Resume, ResumeFails, AfterResume, Exit
    <2> QED BY <2>1, <2>2
<1>22. ASSUME NEW a \in Agents, ScaledAway(a) PROVE Listed'
    BY <1>22 DEF ScaledAway
<1>23. CASE UNCHANGED vars BY <1>23 DEF vars
<1> QED BY <1>1, <1>2, <1>3, <1>5, <1>6, <1>7, <1>8, <1>9, <1>10, <1>11, <1>12, <1>13,
           <1>14, <1>15, <1>16, <1>17, <1>18, <1>19, <1>20, <1>21, <1>22, <1>23
        DEF Next, Command

\* A step that leaves the cluster, the goal and --force alone keeps the versions
\* within one upgrade, if it ends the command or goes on in one whose VMs are
\* sorted.
LEMMA SkewIdles ==
    ASSUME Skew, UNCHANGED <<ver, saved, forced>>,
           \/ pc' = "idle"
           \/ pc \notin {"idle", "list"} /\ run'.goal = run.goal
    PROVE  Skew'
BY DEF Skew, GoalWithinOneUpgrade, MastersWithinOneUpgrade

\* A VM that its phase has listed may be replaced by one at the goal at any time.
LEMMA SkewReplace ==
    ASSUME TypeOK, Listed, Skew, pc \in {"masters", "pools"}, NEW v \in VMs,
           v \in Masters \/ pc = "pools",
           ver' = [ver EXCEPT ![v] = run.goal], UNCHANGED <<saved, forced>>,
           \/ pc' = "idle"
           \/ run'.goal = run.goal
    PROVE  Skew'
<1>0. ver \in [VMs -> Versions] BY DEF TypeOK
<1>1. ver'[v] = run.goal /\ \A w \in VMs : w # v => ver'[w] = ver[w] BY <1>0
<1>2. CASE forced BY <1>2 DEF Skew, GoalWithinOneUpgrade, MastersWithinOneUpgrade
<1>3. CASE ~forced
    <2>1. /\ run.goal \in UpgradesOf(saved, Table)
          /\ \A w \in VMs : ver[w] = run.goal \/ run.goal \in UpgradesOf(ver[w], Table)
        BY <1>3 DEF Skew, GoalWithinOneUpgrade
    <2>2. GoalWithinOneUpgrade' BY <1>1, <2>1 DEF GoalWithinOneUpgrade
    <2>3. CASE v \in Masters
        <3>1. \A a \in Agents : a \in VMs /\ ver'[a] = ver[a]
            BY <1>1, <2>3, RunAssumption DEF VMs
        <3>2. ASSUME NEW m \in Masters
              PROVE  /\ ver'[m] = saved \/ ver'[m] \in UpgradesOf(saved, Table)
                     /\ \A a \in Agents : ver'[m] = ver[a] \/ ver'[m] \in UpgradesOf(ver[a], Table)
            <4>1. CASE m = v BY <1>1, <2>1, <3>1, <4>1
            <4>2. CASE m # v
                BY <1>1, <1>3, <4>2 DEF Skew, MastersWithinOneUpgrade, VMs
            <4> QED BY <4>1, <4>2
        <3> QED BY <2>2, <3>1, <3>2 DEF Skew, MastersWithinOneUpgrade
    <2>4. CASE v \notin Masters
        <3>1. \A m \in Masters : ver[m] = run.goal BY <2>4 DEF Listed, MastersListed
        <3> QED BY <1>1, <1>3, <2>1, <2>2, <2>4, <3>1
                DEF Skew, MastersWithinOneUpgrade, VMs
    <2> QED BY <2>2, <2>3, <2>4 DEF Skew
<1> QED BY <1>2, <1>3

\* Every step keeps the versions within one upgrade.
LEMMA SkewStep ==
    ASSUME TypeOK, Listed, Skew, [Next]_vars
    PROVE  Skew'
<1> USE DEF cluster, history
<1>0. run \in Runs BY DEF TypeOK
<1>1. CASE Start
    <2>1. PICK goal \in Versions, f \in Forces, cpo \in BOOLEAN, c \in BOOLEAN :
              /\ f \/ ValidTarget(goal)
              /\ run' = NewRun(goal, f, cpo, c) /\ forced' = (forced \/ f)
        BY <1>1 DEF Start
    <2>2. pc' = "list" /\ UNCHANGED <<ver, saved>> /\ run'.goal = goal
        BY <1>1, <2>1 DEF Start, NewRun
    <2>3. ~forced' => ~forced /\ goal \in UpgradesOf(saved, Table)
        BY <2>1 DEF ValidTarget
    <2> QED BY <2>2, <2>3 DEF Skew, GoalWithinOneUpgrade, MastersWithinOneUpgrade
<1>2. CASE SetNodesToUpgrade
    <2>1. UNCHANGED <<ver, saved, forced>> /\ run'.goal = run.goal /\ pc = "list"
        BY <1>0, <1>2 DEF SetNodesToUpgrade, Runs
    <2>2. ~forced => Upgradable BY <1>2 DEF SetNodesToUpgrade, Listed, PhasesInOrder
    <2> QED BY <2>1, <2>2
            DEF Skew, GoalWithinOneUpgrade, MastersWithinOneUpgrade, Upgradable
<1>3. CASE ListFails BY <1>3, SkewIdles DEF ListFails, Exit
<1>4. CASE GateSkipped \/ GateReport \/ GateListFails \/ GateEnds
    <2>1. UNCHANGED <<ver, saved, forced>> /\ pc = "gate"
        BY <1>4 DEF GateSkipped, GateReport, GateListFails, GateEnds, Checking
    <2>2. PassGate => run'.goal = run.goal BY <1>0 DEF PassGate, Runs
    <2>3. pc' = "idle" \/ run'.goal = run.goal
        BY <1>0, <1>4, <2>2 DEF GateSkipped, GateReport, GateListFails, GateEnds, Exit, Runs
    <2> QED BY <2>1, <2>3, SkewIdles
<1>5. CASE PauseSkipped \/ Paused \/ PauseTryFails \/ PauseFails
    <2>1. UNCHANGED <<ver, saved, forced>> /\ pc = "pause"
        BY <1>5 DEF PauseSkipped, Paused, PauseTryFails, PauseFails, NotPaused
    <2>2. pc' = "idle" \/ run'.goal = run.goal
        BY <1>0, <1>5
        DEF PauseSkipped, Paused, PauseTryFails, PauseFails, GoOnUnpaused, Exit, Runs
    <2> QED BY <2>1, <2>2, SkewIdles
<1>6. ASSUME NEW m \in Masters, UpgradeMaster(m) PROVE Skew'
    <2>1. run'.goal = run.goal BY <1>0, <1>6 DEF UpgradeMaster, Runs
    <2> QED BY <1>6, <2>1, SkewReplace DEF UpgradeMaster, VMs
<1>7. CASE MastersUpgraded \/ EmptyPool \/ AllPoolsUpgraded \/ PoolUpgraded
    <2>1. UNCHANGED <<ver, saved, forced>> /\ pc \notin {"idle", "list"}
        BY <1>7 DEF MastersUpgraded, EmptyPool, AllPoolsUpgraded, PoolUpgraded, BetweenPools
    <2>2. run'.goal = run.goal
        BY <1>0, <1>7
        DEF MastersUpgraded, EmptyPool, AllPoolsUpgraded, PoolUpgraded, Unwind, Runs
    <2> QED BY <2>1, <2>2, SkewIdles
<1>8. ASSUME NEW p \in Pools, NextPool(p) PROVE Skew'
    <2>1. run'.goal = run.goal BY <1>0, <1>8 DEF NextPool, Runs
    <2> QED BY <1>8, <2>1, SkewIdles DEF NextPool, BetweenPools
<1>9. ASSUME NEW a \in Agents, UpgradeAgent(a) PROVE Skew'
    <2>1. run'.goal = run.goal BY <1>0, <1>9 DEF UpgradeAgent, Runs
    <2> QED BY <1>9, <2>1, SkewReplace DEF UpgradeAgent, VMs
<1>10. ASSUME LeftBehind, pc # "idle", UNCHANGED <<saved, forced>>,
              \/ pc' = "idle"
              \/ pc # "list" /\ run'.goal = run.goal
       PROVE  Skew'
    <2>1. CASE UNCHANGED ver BY <1>10, <2>1, SkewIdles
    <2>2. ASSUME NEW v \in VMs, ver' = [ver EXCEPT ![v] = run.goal],
                 \/ pc = "masters" /\ v \in run.masters
                 \/ pc = "pools" /\ v \in run.agents /\ PoolOf[v] = run.pool
          PROVE  Skew'
        <3>1. v \in Masters \/ pc = "pools" BY <1>0, <2>2 DEF Runs
        <3> QED BY <1>10, <2>2, <3>1, SkewReplace
    <2> QED BY <1>10, <2>1, <2>2 DEF LeftBehind
<1>11. CASE UpgradeFails
    <2>1. run'.goal = run.goal BY <1>0, <1>11 DEF UpgradeFails, Unwind, Runs
    <2> QED BY <1>10, <1>11, <2>1 DEF UpgradeFails
<1>12. CASE Kill BY <1>10, <1>12 DEF Kill, Exit
<1>13. CASE Resume \/ ResumeFails
    <2>1. UNCHANGED <<ver, saved, forced>> /\ pc = "resume" BY <1>13 DEF Resume, ResumeFails
    <2>2. pc' = "idle" \/ run'.goal = run.goal
        BY <1>13 DEF Resume, ResumeFails, AfterResume, Exit
    <2> QED BY <2>1, <2>2, SkewIdles
<1>14. CASE SaveAPIModel
    <2>1. pc' = "idle" /\ UNCHANGED <<ver, forced>> /\ saved' \in {saved, run.goal}
        BY <1>14 DEF SaveAPIModel, Exit
    <2>2. \A m \in Masters : ver[m] = run.goal
        BY <1>14 DEF SaveAPIModel, Listed, MastersListed, PhasesInOrder
    <2> QED BY <2>1, <2>2 DEF Skew, GoalWithinOneUpgrade, MastersWithinOneUpgrade
<1>15. ASSUME NEW a \in Agents, ScaledAway(a) PROVE Skew'
    <2>1. /\ ver'[a] = saved /\ \A w \in VMs : w # a => ver'[w] = ver[w]
          /\ \A m \in Masters : ver'[m] = ver[m]
        BY <1>15, RunAssumption DEF ScaledAway, TypeOK, VMs
    <2> QED BY <1>15, <2>1
            DEF ScaledAway, Skew, GoalWithinOneUpgrade, MastersWithinOneUpgrade, VMs
<1>16. CASE UNCHANGED vars
    BY <1>16 DEF vars, Skew, GoalWithinOneUpgrade, MastersWithinOneUpgrade
<1> QED BY <1>1, <1>2, <1>3, <1>4, <1>5, <1>6, <1>7, <1>8, <1>9, <1>11, <1>12, <1>13,
           <1>14, <1>15, <1>16 DEF Next, Command

\* Every step keeps count of the autoscaler's replicas.
LEMMA ReplicasStep ==
    ASSUME TypeOK, ReplicasKept, [Next]_vars
    PROVE  ReplicasKept'
<1> USE DEF ReplicasKept, PauseHeld, cluster, history
<1>0. run \in Runs BY DEF TypeOK
<1>1. CASE Start
    <2>1. pc' = "list" /\ ~run'.paused BY <1>1 DEF Start, NewRun
    <2> QED BY <1>1, <2>1 DEF Start
<1>2. CASE SetNodesToUpgrade BY <1>0, <1>2 DEF SetNodesToUpgrade, Runs
<1>e. ASSUME pc' = "idle", run' = NoRun, ~PauseHeld \/ unresumed',
             unresumed => unresumed', UNCHANGED <<replicas, lost>>
      PROVE  ReplicasKept'
    BY <1>e DEF NoRun, NewRun
<1>3. CASE ListFails BY <1>e, <1>3 DEF ListFails, Exit
<1>4. CASE GateSkipped \/ GateReport \/ GateListFails \/ GateEnds
    <2>1. pc = "gate" /\ UNCHANGED <<cluster, history>>
        BY <1>4 DEF GateSkipped, GateReport, GateListFails, GateEnds, Checking
    <2>2. PassGate => pc' = "pause" /\ run'.paused = run.paused BY <1>0 DEF PassGate, Runs
    <2>3. \/ pc' \in {"gate", "pause"} /\ run'.paused = run.paused
          \/ Exit
        BY <1>0, <1>4, <2>1, <2>2 DEF GateSkipped, GateReport, GateListFails, GateEnds, Runs
    <2> QED BY <1>e, <2>1, <2>3 DEF Exit
<1>5. CASE PauseSkipped BY <1>5 DEF PauseSkipped
<1>6. CASE Paused BY <1>0, <1>6 DEF Paused, Runs
<1>7. CASE PauseTryFails BY <1>0, <1>7 DEF PauseTryFails, Runs
<1>8. CASE PauseFails
    <2>1. CASE GoOnUnpaused
        BY <1>0, <1>8, <2>1 DEF PauseFails, NotPaused, GoOnUnpaused, Runs
    <2>2. CASE Exit BY <1>e, <1>8, <2>2 DEF PauseFails, NotPaused, Exit
    <2> QED BY <1>8, <2>1, <2>2 DEF PauseFails
<1>9. ASSUME pc \in {"masters", "pools"}, pc' \in {"masters", "pools", "resume"},
             run'.paused = run.paused, run'.count = run.count,
             UNCHANGED <<replicas, history>>
      PROVE  ReplicasKept'
    BY <1>9
<1>10. ASSUME NEW m \in Masters, UpgradeMaster(m) PROVE ReplicasKept'
    BY <1>0, <1>9, <1>10 DEF UpgradeMaster, Runs
<1>11. ASSUME NEW ok, Unwind(ok)
       PROVE  pc' = "resume" /\ run'.paused = run.paused /\ run'.count = run.count
    BY <1>0, <1>11 DEF Unwind, Runs
<1>12. CASE MastersUpgraded BY <1>9, <1>11, <1>12 DEF MastersUpgraded
<1>13. CASE EmptyPool \/ AllPoolsUpgraded
    BY <1>9, <1>11, <1>13 DEF EmptyPool, AllPoolsUpgraded, BetweenPools
<1>14. ASSUME NEW p \in Pools, NextPool(p) PROVE ReplicasKept'
    BY <1>0, <1>9, <1>14 DEF NextPool, BetweenPools, Runs
<1>15. ASSUME NEW a \in Agents, UpgradeAgent(a) PROVE ReplicasKept'
    BY <1>0, <1>9, <1>15 DEF UpgradeAgent, Runs
<1>16. CASE PoolUpgraded BY <1>0, <1>9, <1>16 DEF PoolUpgraded, Runs
<1>17. CASE UpgradeFails BY <1>9, <1>11, <1>17 DEF UpgradeFails
<1>18. CASE Resume
    <2>1. /\ pc = "resume" /\ UNCHANGED history
          /\ replicas' = IF run.paused THEN run.count ELSE replicas
        BY <1>18 DEF Resume
    <2>2. ~unresumed /\ ~lost => replicas' = Replicas BY <2>1
    <2>3. CASE run.ok BY <1>18, <2>1, <2>2, <2>3 DEF Resume, AfterResume
    <2>4. CASE ~run.ok
        BY <1>18, <2>1, <2>2, <2>4 DEF Resume, AfterResume, Exit, NoRun, NewRun
    <2> QED BY <2>3, <2>4
<1>19. CASE ResumeFails
    <2>1. CASE run.ok BY <1>19, <2>1 DEF ResumeFails, AfterResume
    <2>2. CASE ~run.ok BY <1>e, <1>19, <2>2 DEF ResumeFails, AfterResume, Exit
    <2> QED BY <2>1, <2>2
<1>20. CASE SaveAPIModel BY <1>e, <1>20 DEF SaveAPIModel, Exit
<1>21. CASE Kill BY <1>21 DEF Kill, Exit, NoRun, NewRun
<1>22. ASSUME NEW a \in Agents, ScaledAway(a) PROVE ReplicasKept'
    BY <1>22 DEF ScaledAway
<1>23. CASE UNCHANGED vars BY <1>23 DEF vars
<1> QED BY <1>1, <1>2, <1>3, <1>4, <1>5, <1>6, <1>7, <1>8, <1>10, <1>12, <1>13, <1>14,
           <1>15, <1>16, <1>17, <1>18, <1>19, <1>20, <1>21, <1>22, <1>23 DEF Next, Command

\* Every step keeps the invariant.
LEMMA RunStep ==
    ASSUME RunInv, [Next]_vars
    PROVE  RunInv'
BY RunTypeStep, ListedStep, SkewStep, ReplicasStep DEF RunInv

-----------------------------------------------------------------------------
\* Cluster, API model and the running command keep their types.
THEOREM RunTypes == Spec => []TypeOK
<1>1. RunInv => TypeOK BY DEF RunInv
<1> QED BY <1>1, RunInit, RunStep, PTL DEF Spec

\* validateTargetVersion and upgradable together, with masters before agents,
\* keep the agents at or one offered upgrade behind every master, and the saved
\* version behind every master, whatever commands without --force fail and where.
THEOREM SkewBounded == Spec => []SkewWithinOneUpgrade
<1>1. RunInv => SkewWithinOneUpgrade
    <2> SUFFICES ASSUME RunInv, ~forced, NEW m \in Masters
                 PROVE  /\ NewerOrSame(ver[m], saved)
                        /\ \A a \in Agents : \/ ver[m] = ver[a]
                                             \/ ver[m] \in UpgradesOf(ver[a], Table)
        BY DEF SkewWithinOneUpgrade
    <2>1. /\ ver[m] = saved \/ ver[m] \in UpgradesOf(saved, Table)
          /\ \A a \in Agents : ver[m] = ver[a] \/ ver[m] \in UpgradesOf(ver[a], Table)
        BY DEF RunInv, Skew, MastersWithinOneUpgrade
    <2>2. saved \in Versions BY DEF RunInv, TypeOK
    <2> QED BY <2>1, <2>2, UpgradeIsNewer DEF NewerOrSame
<1> QED BY <1>1, RunInit, RunStep, PTL DEF Spec

\* No agent ever runs a version newer than a master's while --force is not used.
THEOREM AgentsNeverAhead ==
    Spec => [](~forced => \A m \in Masters, a \in Agents : NewerOrSame(ver[m], ver[a]))
<1>1. RunInv => (~forced => \A m \in Masters, a \in Agents : NewerOrSame(ver[m], ver[a]))
    <2> SUFFICES ASSUME RunInv, ~forced, NEW m \in Masters, NEW a \in Agents
                 PROVE  NewerOrSame(ver[m], ver[a])
        OBVIOUS
    <2>1. ver[m] = ver[a] \/ ver[m] \in UpgradesOf(ver[a], Table)
        BY DEF RunInv, Skew, MastersWithinOneUpgrade
    <2>2. ver[a] \in Versions BY DEF RunInv, TypeOK, VMs
    <2> QED BY <2>1, <2>2, UpgradeIsNewer DEF NewerOrSame
<1> QED BY <1>1, RunInit, RunStep, PTL DEF Spec

\* The command reports success only when every VM it was to replace is at the
\* goal, in whatever order it took the pools, with or without --force.
THEOREM RunSuccess == Spec => []SuccessMeansGoal
<1>1. RunInv => SuccessMeansGoal
    BY DEF RunInv, Listed, MastersListed, AgentsListed, PhasesInOrder, SuccessMeansGoal, VMs
<1> QED BY <1>1, RunInit, RunStep, PTL DEF Spec

\* The deferred resume gives the autoscaler the replicas that the pause took,
\* also after an upgrade that failed.
THEOREM AutoscalerResumed == Spec => []AutoscalerRestored
<1>1. RunInv => AutoscalerRestored
    BY DEF RunInv, ReplicasKept, PauseHeld, AutoscalerRestored
<1> QED BY <1>1, RunInit, RunStep, PTL DEF Spec

=============================================================================
