------------------------- MODULE RotateCertsProofs -------------------------
(***************************************************************************)
(* For any set of agents, any number of runs and any failures: agents only *)
(* get certificates that all masters already use, and a run that succeeds  *)
(* leaves one certificate authority, whatever the runs before it left.     *)
(*                                                                         *)
(* Then the client whose calls rotate-certs makes while the API servers    *)
(* restart (CompositeClient).                                              *)
(***************************************************************************)
EXTENDS RotateCerts, CompositeClient, Sequences, FiniteSetTheorems, TLAPS

\* The steps that come after each result of a run was reached.
Mounted    == {"system", "save", "remove"}
Signed     == Mounted \union {"rollout"}
AgentsDone == Signed \union {"cleanupA", "nodesA", "tokens"}
Known      == AgentsDone \union {"distributeA", "backupA", "agent_certs"}
Proxied    == Known \union {"cleanup", "nodesDone", "podsDone", "list"}
Restarted  == Proxied \union {"vms", "nodesBack", "cp_proxy"}
OnDisk     == Restarted \union {"reboot"}
Past(steps) == run.pc \in steps \/ Succeeded

\* A step over the masters has done its work on those it visited, and all later
\* steps rely on its work on all of them.
MastersStaged ==
    /\ run.pc = "distribute" => \A m \in Masters \ run.todo : masters[m].staged = run.n
    /\ run.pc \in {"backup", "cp_certs"} => \A m \in Masters : masters[m].staged = run.n
MastersCopied ==
    /\ run.pc = "cp_certs" => \A m \in Masters \ run.todo : masters[m].disk = run.n
    /\ Past(OnDisk) => \A m \in Masters : masters[m].disk = run.n
MastersRestarted ==
    /\ run.pc = "reboot" => \A m \in Masters \ run.todo : masters[m].mem = run.n
    /\ Past(Restarted) => \A m \in Masters : masters[m].mem = run.n
ProxyRenewed ==
    Past(Proxied) \/ (run.pc = "cp_proxy" /\ 0 \notin run.todo) =>
        cluster.proxy = run.n /\ masters[0].proxy = run.n

\* The same for the agents that were listed.
AgentsStaged ==
    /\ run.pc = "distributeA" => \A a \in run.nodes \ run.todo : agents[a].staged = run.n
    /\ run.pc \in {"backupA", "agent_certs"} => \A a \in run.nodes : agents[a].staged = run.n
AgentsRotated ==
    /\ run.pc = "agent_certs" => \A a \in run.nodes \ run.todo : agents[a].mem = run.n
    /\ Past(AgentsDone) => \A a \in run.nodes : agents[a].mem = run.n

\* The agents that were listed are there, and are all there are while a run
\* keeps the autoscaler from adding any.
AgentsKnown ==
    /\ run.pc \in AgentSteps => run.todo \subseteq run.nodes
    /\ \A a \in run.nodes : agents[a].there
    /\ ~run.force /\ Past(Known) /\ run.pc # "off" =>
          \A a \in Agents : agents[a].there => a \in run.nodes
AutoscalerStopped ==
    ~run.force /\ run.pc \notin {"off", "pause"} /\ ~(run.pc = "resume" /\ run.err) =>
        cluster.autoscaler = 0

StoredLast ==
    /\ Past(Signed) => cluster.tokens = run.n
    /\ Past(Mounted) => cluster.mounted = run.n
    /\ Past({"remove"}) => files.model = run.n

MasterParts == MastersStaged /\ MastersCopied /\ MastersRestarted /\ ProxyRenewed
AgentParts == AgentsStaged /\ AgentsRotated /\ AgentsKnown /\ AutoscalerStopped
RotateInv == TypeOK /\ MasterParts /\ AgentParts /\ StoredLast

-----------------------------------------------------------------------------
(* The operators *)

Runs == [n: 0..MaxRuns, pc: Phases, todo: SUBSET (Masters \union Agents),
         nodes: SUBSET Agents, force: BOOLEAN, old: CAs, replicas: {0, 1},
         polls: 0..Successes, err: BOOLEAN]

\* The order of the steps.
LEMMA StepOrder ==
    /\ After["pause"] = "nodes" /\ After["nodes"] = "pods" /\ After["pods"] = "distribute"
    /\ After["distribute"] = "backup" /\ After["backup"] = "cp_certs"
    /\ After["cp_certs"] = "reboot" /\ After["reboot"] = "vms" /\ After["vms"] = "nodesBack"
    /\ After["nodesBack"] = "cp_proxy" /\ After["cp_proxy"] = "cleanup"
    /\ After["cleanup"] = "nodesDone" /\ After["nodesDone"] = "podsDone"
    /\ After["podsDone"] = "list" /\ After["list"] = "distributeA"
    /\ After["distributeA"] = "backupA" /\ After["backupA"] = "agent_certs"
    /\ After["agent_certs"] = "cleanupA" /\ After["cleanupA"] = "nodesA"
    /\ After["nodesA"] = "tokens" /\ After["tokens"] = "rollout"
    /\ After["rollout"] = "system" /\ After["system"] = "save" /\ After["save"] = "remove"
    /\ After["remove"] = "resume"
BY DEF After

LEMMA StepNames ==
    Phases = {"pause", "nodes", "pods", "distribute", "backup", "cp_certs", "reboot", "vms",
              "nodesBack", "cp_proxy", "cleanup", "nodesDone", "podsDone", "list",
              "distributeA", "backupA", "agent_certs", "cleanupA", "nodesA", "tokens",
              "rollout", "system", "save", "remove", "resume", "off"}
BY DEF Phases, After

\* The steps over masters and agents.
LEMMA NodesOf ==
    ASSUME NEW S
    PROVE  /\ Nodes("distribute", S) = Masters /\ Nodes("backup", S) = Masters
           /\ Nodes("cp_certs", S) = Masters /\ Nodes("reboot", S) = Masters
           /\ Nodes("cp_proxy", S) = Masters /\ Nodes("cleanup", S) = Masters
           /\ Nodes("distributeA", S) = S /\ Nodes("backupA", S) = S
           /\ Nodes("agent_certs", S) = S /\ Nodes("cleanupA", S) = S
BY DEF Nodes, MasterSteps, AgentSteps

\* Going to another step keeps all but the step and its counters.
LEMMA ToKeeps ==
    ASSUME NEW r \in Runs, NEW p \in Phases
    PROVE  /\ To(r, p) \in Runs
           /\ To(r, p).pc = p /\ To(r, p).todo = Nodes(p, r.nodes)
           /\ To(r, p).n = r.n /\ To(r, p).nodes = r.nodes /\ To(r, p).force = r.force
           /\ To(r, p).err = r.err /\ To(r, p).old = r.old /\ To(r, p).replicas = r.replicas
<1>1. Nodes(p, r.nodes) \subseteq Masters \union Agents BY DEF Nodes, Runs
<1>2. 0 \in 0..Successes BY RotateAssumption
<1> QED BY <1>1, <1>2 DEF To, Runs

\* A visit takes the node from the list, and goes on after the last one.
LEMMA VisitEffect ==
    ASSUME run \in Runs, NEW x \in run.todo, run.pc \in MasterSteps \union AgentSteps,
           VisitNode(x)
    PROVE  /\ run' \in Runs
           /\ run'.n = run.n /\ run'.nodes = run.nodes /\ run'.force = run.force
           /\ run'.err = run.err
           /\ \/ /\ run.todo = {x} /\ run'.pc = After[run.pc]
                 /\ run'.todo = Nodes(After[run.pc], run.nodes)
              \/ run'.pc = run.pc /\ run'.todo = run.todo \ {x}
<1>1. CASE run.todo = {x}
    <2>1. After[run.pc] \in Phases BY StepOrder, StepNames DEF MasterSteps, AgentSteps
    <2>2. run' = To(run, After[run.pc]) BY <1>1 DEF VisitNode
    <2> QED BY <1>1, <2>1, <2>2, ToKeeps
<1>2. CASE run.todo # {x}
    <2>1. run' = [run EXCEPT !.todo = @ \ {x}] BY <1>2 DEF VisitNode
    <2> QED BY <2>1 DEF Runs
<1> QED BY <1>1, <1>2

\* What a step does to a master.
LEMMA MasterEffect ==
    ASSUME TypeOK, NEW m \in Masters
    PROVE  /\ MasterNode(m).staged = (IF run.pc = "distribute" THEN run.n
                                      ELSE IF run.pc = "cleanup" THEN None ELSE masters[m].staged)
           /\ MasterNode(m).disk = (IF run.pc = "cp_certs" THEN masters[m].staged
                                    ELSE masters[m].disk)
           /\ MasterNode(m).mem = (IF run.pc = "reboot" THEN masters[m].disk ELSE masters[m].mem)
           /\ MasterNode(m).proxy = (IF run.pc # "cp_proxy" THEN masters[m].proxy
                                     ELSE IF m = 0 THEN run.n ELSE cluster.proxy)
           /\ (run.pc = "cp_certs" => masters[m].staged \in CAs) => MasterNode(m) \in MasterNodes
<1>1. /\ masters[m] \in MasterNodes /\ run.n \in CAs /\ cluster.proxy \in CAs
    BY DEF TypeOK, CAs
<1>2. DOMAIN masters[m] = {"disk", "mem", "bak", "staged", "proxy"} BY <1>1 DEF MasterNodes
<1> QED BY <1>1, <1>2 DEF MasterNode, MasterNodes, Copied, Backup, Maybe

\* What a step does to an agent.
LEMMA AgentEffect ==
    ASSUME TypeOK, NEW a \in Agents
    PROVE  /\ AgentNode(a).there = agents[a].there
           /\ AgentNode(a).staged = (IF run.pc = "distributeA" THEN run.n
                                     ELSE IF run.pc = "cleanupA" THEN None ELSE agents[a].staged)
           /\ AgentNode(a).mem = (IF run.pc = "agent_certs" THEN agents[a].staged
                                  ELSE agents[a].mem)
           /\ (run.pc = "agent_certs" => agents[a].staged \in CAs) => AgentNode(a) \in AgentNodes
<1>1. agents[a] \in AgentNodes /\ run.n \in CAs BY DEF TypeOK, CAs
<1> QED BY <1>1 DEF AgentNode, AgentNodes, Backup, Maybe

\* When all masters have loaded one authority, no other one is served.
LEMMA OneAuthority ==
    ASSUME NEW ca, NEW other, \A m \in Masters : masters[m].mem = ca, Serving(other)
    PROVE  other = ca
<1> SUFFICES ASSUME other # ca PROVE FALSE OBVIOUS
<1>1. {m \in Masters : masters[m].mem = other} = {} OBVIOUS
<1>2. Cardinality({m \in Masters : masters[m].mem = other}) = 0 BY <1>1, FS_EmptySet
<1>3. 2 * 0 > MasterCount BY <1>2 DEF Serving
<1> QED BY <1>3, RotateAssumption

-----------------------------------------------------------------------------
(* The invariant *)

\* The cluster before the first run.
LEMMA RotateInit ==
    ASSUME Init
    PROVE  RotateInv
<1>1. TypeOK
    <2>1. 0 \in CAs /\ 0 \in 0..MaxRuns /\ 0 \in 0..Successes BY RotateAssumption DEF CAs
    <2>2. run \in Runs
        <3>1. FALSE \in BOOLEAN OBVIOUS
        <3> QED BY <2>1, <3>1, StepNames DEF Init, Runs
    <2>3. files \in [model: CAs, backup: Maybe(CAs), output: Maybe(CAs)]
        BY <2>1 DEF Init, Maybe
    <2>4. masters \in [Masters -> MasterNodes] BY <2>1 DEF Init, MasterNodes, Maybe
    <2>5. agents \in [Agents -> AgentNodes] BY <2>1 DEF Init, AgentNodes, Maybe
    <2>6. cluster \in [proxy: CAs, tokens: CAs, mounted: CAs, autoscaler: {0, 1}]
        BY <2>1 DEF Init
    <2> QED BY <2>2, <2>3, <2>4, <2>5, <2>6 DEF TypeOK, Runs
<1>2. run.n = 0 /\ run.pc = "off" /\ run.nodes = {} BY DEF Init
<1>3. ~Succeeded BY <1>2 DEF Succeeded
<1>4. ~Past(OnDisk) /\ ~Past(Restarted) /\ ~Past(Proxied) /\ ~Past(Known) /\ ~Past(AgentsDone)
      /\ ~Past(Signed) /\ ~Past(Mounted) /\ ~Past({"remove"})
    BY <1>2, <1>3 DEF Past, OnDisk, Restarted, Proxied, Known, AgentsDone, Signed, Mounted
<1>5. MasterParts
    BY <1>2, <1>4
    DEF MasterParts, MastersStaged, MastersCopied, MastersRestarted, ProxyRenewed
<1>6. AgentParts
    BY <1>2, <1>4
    DEF AgentParts, AgentsStaged, AgentsRotated, AgentsKnown, AutoscalerStopped, AgentSteps
<1>7. StoredLast BY <1>4 DEF StoredLast
<1> QED BY <1>1, <1>5, <1>6, <1>7 DEF RotateInv

\* The certificates a step copies on a node were distributed to it.
LEMMA StagedTypes ==
    ASSUME RotateInv
    PROVE  /\ \A m \in Masters : MasterNode(m) \in MasterNodes
           /\ \A a \in run.todo : run.pc \in AgentSteps => a \in Agents /\ AgentNode(a) \in AgentNodes
           /\ \A a \in Agents : run.pc \in MasterSteps => AgentNode(a) \in AgentNodes
<1>0. TypeOK /\ run \in Runs /\ run.n \in CAs BY DEF RotateInv, TypeOK, Runs, CAs
<1>1. \A m \in Masters : MasterNode(m) \in MasterNodes
    <2>1. \A m \in Masters : run.pc = "cp_certs" => masters[m].staged \in CAs
        BY <1>0 DEF RotateInv, MasterParts, MastersStaged
    <2> QED BY <1>0, <2>1, MasterEffect
<1>2. ASSUME NEW a \in run.todo, run.pc \in AgentSteps
      PROVE  a \in Agents /\ AgentNode(a) \in AgentNodes
    <2>1. a \in run.nodes BY <1>2 DEF RotateInv, AgentParts, AgentsKnown
    <2>2. a \in Agents BY <1>0, <2>1 DEF Runs
    <2>3. run.pc = "agent_certs" => agents[a].staged \in CAs
        BY <1>0, <2>1 DEF RotateInv, AgentParts, AgentsStaged
    <2> QED BY <1>0, <2>2, <2>3, AgentEffect
<1>3. ASSUME NEW a \in Agents, run.pc \in MasterSteps PROVE AgentNode(a) \in AgentNodes
    BY <1>0, <1>3, AgentEffect DEF MasterSteps
<1> QED BY <1>1, <1>2, <1>3

\* A failed command keeps what it knows, and is marked as failed.
LEMMA FailKeeps ==
    ASSUME run \in Runs, NEW p \in {"resume", "off"}, run' = To([run EXCEPT !.err = TRUE], p)
    PROVE  /\ run' \in Runs /\ run'.err /\ run'.pc = p /\ run'.todo = {}
           /\ run'.n = run.n /\ run'.nodes = run.nodes /\ run'.force = run.force
<1> DEFINE r == [run EXCEPT !.err = TRUE]
<1>1. TRUE \in BOOLEAN OBVIOUS
<1>2. r.n = run.n /\ r.nodes = run.nodes /\ r.force = run.force /\ r.err = TRUE
    BY <1>1 DEF Runs
<1>3. r \in Runs BY <1>1 DEF Runs
<1>4. p \in Phases /\ Nodes(p, run.nodes) = {}
    BY StepNames DEF Nodes, MasterSteps, AgentSteps
<1> HIDE DEF r
<1>5. run' = To(r, p) BY DEF r
<1>6. /\ run' \in Runs /\ run'.pc = p /\ run'.todo = Nodes(p, r.nodes) /\ run'.n = r.n
      /\ run'.nodes = r.nodes /\ run'.force = r.force /\ run'.err = r.err
    BY <1>3, <1>4, <1>5, ToKeeps
<1>7. run'.err BY <1>2, <1>6
<1> QED BY <1>2, <1>4, <1>6, <1>7

\* The next step follows with all that the command knows.
LEMMA AdvanceKeeps ==
    ASSUME run \in Runs, run.pc \in DOMAIN After, Advance
    PROVE  /\ run' \in Runs /\ run'.pc = After[run.pc]
           /\ run'.todo = Nodes(After[run.pc], run.nodes)
           /\ run'.n = run.n /\ run'.nodes = run.nodes /\ run'.force = run.force
           /\ run'.err = run.err
<1>1. After[run.pc] \in Phases BY StepNames, StepOrder DEF After
<1> QED BY <1>1, ToKeeps DEF Advance

\* A new run knows nothing of the runs before it.
LEMMA StartEffect ==
    ASSUME TypeOK, Start
    PROVE  /\ run' \in Runs /\ run'.n = run.n + 1 /\ run'.nodes = {} /\ ~run'.err
           /\ IF run'.force THEN run'.pc = "distribute" /\ run'.todo = Masters
              ELSE run'.pc = "pause" /\ run'.todo = {}
<1>0. run \in Runs BY DEF TypeOK, Runs
<1>1. PICK force \in BOOLEAN :
          run' = To([run EXCEPT !.n = @ + 1, !.force = force, !.old = files.model,
                                !.replicas = 0, !.err = FALSE, !.nodes = {}],
                    IF force THEN "distribute" ELSE "pause")
    BY DEF Start
<1> DEFINE r == [run EXCEPT !.n = @ + 1, !.force = force, !.old = files.model,
                            !.replicas = 0, !.err = FALSE, !.nodes = {}]
           p == IF force THEN "distribute" ELSE "pause"
<1>2. /\ run.n + 1 \in 0..MaxRuns /\ files.model \in CAs /\ FALSE \in BOOLEAN
    BY <1>0, RotateAssumption DEF Start, Runs, TypeOK
<1>3. r \in Runs /\ r.n = run.n + 1 /\ r.nodes = {} /\ r.err = FALSE /\ r.force = force
    BY <1>0, <1>2 DEF Runs
<1>4. p \in Phases /\ Nodes(p, {}) = IF force THEN Masters ELSE {}
    BY StepNames DEF Nodes, MasterSteps, AgentSteps
<1> HIDE DEF r, p
<1>5. run' = To(r, p) BY <1>1 DEF r, p
<1>6. /\ run' \in Runs /\ run'.pc = p /\ run'.todo = Nodes(p, r.nodes) /\ run'.n = r.n
      /\ run'.nodes = r.nodes /\ run'.err = r.err /\ run'.force = r.force
    BY <1>3, <1>4, <1>5, ToKeeps
<1>7. ~run'.err BY <1>3, <1>6
<1> QED BY <1>3, <1>4, <1>6, <1>7 DEF p

\* Every step keeps the types.
LEMMA RotateTypeStep ==
    ASSUME RotateInv, [Next]_vars
    PROVE  TypeOK'
<1>0. TypeOK /\ run \in Runs BY DEF RotateInv, TypeOK, Runs
<1> USE DEF TypeOK
<1>r. ASSUME run' \in Runs, files' = files, masters' = masters, agents' = agents,
             cluster' \in [proxy: CAs, tokens: CAs, mounted: CAs, autoscaler: {0, 1}]
      PROVE  TypeOK'
    BY <1>0, <1>r DEF Runs
<1>1. CASE Start
    <2>1. run' \in Runs BY <1>0, <1>1, StartEffect
    <2>2. run.n + 1 \in CAs BY <1>0, <1>1, RotateAssumption DEF Start, Runs, CAs
    <2>3. files' \in [model: CAs, backup: Maybe(CAs), output: Maybe(CAs)]
        BY <1>0, <1>1, <2>2 DEF Start, Maybe
    <2> QED BY <1>0, <1>1, <2>1, <2>3 DEF Start, Runs
<1>2. CASE Pause
    <2> DEFINE r == [run EXCEPT !.replicas = cluster.autoscaler]
    <2>1. r \in Runs BY <1>0 DEF Runs
    <2>2. After.pause \in Phases BY StepNames DEF After
    <2>3. run' = To(r, After.pause) BY <1>2 DEF Pause
    <2>4. run' \in Runs
        <3> HIDE DEF r
        <3> QED BY <2>1, <2>2, <2>3, ToKeeps
    <2>5. cluster' \in [proxy: CAs, tokens: CAs, mounted: CAs, autoscaler: {0, 1}]
        BY <1>0, <1>2 DEF Pause
    <2> QED BY <1>2, <1>r, <2>4, <2>5 DEF Pause
<1>3. CASE Poll
    <2>1. CASE Advance
        <3>1. run.pc \in DOMAIN After BY <1>3 DEF Poll, Waits, After
        <3>2. run' \in Runs BY <1>0, <2>1, <3>1, AdvanceKeeps
        <3> QED BY <1>0, <1>3, <1>r, <3>2 DEF Poll
    <2>2. CASE run.polls + 1 < Successes /\ run' = [run EXCEPT !.polls = @ + 1]
        <3>1. run' \in Runs BY <1>0, <2>2, RotateAssumption DEF Runs
        <3> QED BY <1>0, <1>3, <1>r, <3>1 DEF Poll
    <2> QED BY <1>3, <2>1, <2>2 DEF Poll
<1>4. CASE SystemNotReady
    <2>1. run.pc \in DOMAIN After BY <1>4 DEF SystemNotReady, After
    <2>2. run' \in Runs BY <1>0, <1>4, <2>1, AdvanceKeeps DEF SystemNotReady
    <2> QED BY <1>0, <1>4, <1>r, <2>2 DEF SystemNotReady
<1>5. CASE GetAgentNodes
    <2> DEFINE r == [run EXCEPT !.nodes = {a \in Agents : agents[a].there}]
               p == IF r.nodes = {} THEN "nodesA" ELSE After.list
    <2>1. r \in Runs BY <1>0 DEF Runs
    <2>2. p \in Phases BY StepNames DEF After
    <2>3. run' = To(r, p) BY <1>5 DEF GetAgentNodes
    <2>4. run' \in Runs
        <3> HIDE DEF r, p
        <3> QED BY <2>1, <2>2, <2>3, ToKeeps
    <2> QED BY <1>0, <1>5, <1>r, <2>4 DEF GetAgentNodes
<1>6. CASE DeleteSATokens \/ Rollout
    <2>1. run.pc \in DOMAIN After /\ Advance BY <1>6 DEF DeleteSATokens, Rollout, After
    <2>2. run' \in Runs BY <1>0, <2>1, AdvanceKeeps
    <2>3. cluster' \in [proxy: CAs, tokens: CAs, mounted: CAs, autoscaler: {0, 1}]
        BY <1>0, <1>6 DEF DeleteSATokens, Rollout
    <2> QED BY <1>6, <1>r, <2>2, <2>3 DEF DeleteSATokens, Rollout
<1>7. CASE UpdateAPIModel
    <2>1. run.pc \in DOMAIN After /\ Advance BY <1>7 DEF UpdateAPIModel, After
    <2>2. run' \in Runs BY <1>0, <2>1, AdvanceKeeps
    <2>3. files' \in [model: CAs, backup: Maybe(CAs), output: Maybe(CAs)]
        BY <1>0, <1>7 DEF UpdateAPIModel, Runs, CAs, Maybe
    <2> QED BY <1>0, <1>7, <2>2, <2>3 DEF UpdateAPIModel, Runs
<1>8. CASE Resume
    <2>1. run' \in Runs BY <1>0, <1>8, ToKeeps, StepNames DEF Resume
    <2>2. cluster' \in [proxy: CAs, tokens: CAs, mounted: CAs, autoscaler: {0, 1}]
        BY <1>0, <1>8 DEF Resume, Runs
    <2> QED BY <1>8, <1>r, <2>1, <2>2 DEF Resume
<1>9. ASSUME NEW m \in Masters
      PROVE  ProxyStored(m) \in [proxy: CAs, tokens: CAs, mounted: CAs, autoscaler: {0, 1}]
    BY <1>0 DEF ProxyStored, Runs, CAs
<1>10. ASSUME NEW m \in Masters, VisitMaster(m) PROVE TypeOK'
    <2>1. run' \in Runs BY <1>0, <1>10, VisitEffect DEF VisitMaster
    <2>2. masters' \in [Masters -> MasterNodes] BY <1>0, <1>10, StagedTypes DEF VisitMaster
    <2> QED BY <1>0, <1>9, <1>10, <2>1, <2>2 DEF VisitMaster, Runs
<1>11. ASSUME NEW a \in Agents, VisitAgent(a) PROVE TypeOK'
    <2>1. run' \in Runs BY <1>0, <1>11, VisitEffect DEF VisitAgent
    <2>2. agents' \in [Agents -> AgentNodes] BY <1>0, <1>11, StagedTypes DEF VisitAgent
    <2> QED BY <1>0, <1>11, <2>1, <2>2 DEF VisitAgent, Runs
<1>12. CASE Fail
    <2>1. run' \in Runs BY <1>0, <1>12, FailKeeps DEF Fail
    <2> QED BY <1>0, <1>12, <1>r, <2>1 DEF Fail
<1>13. CASE FailAfterwards
    <2>1. run' \in Runs BY <1>0, <1>13, FailKeeps DEF FailAfterwards
    <2>2. PICK x \in run.todo :
        \/ /\ x \in Masters
           /\ masters' = [masters EXCEPT ![x] = MasterNode(x)]
           /\ cluster' = ProxyStored(x)
           /\ UNCHANGED agents
        \/ /\ x \in Agents
           /\ agents' = [agents EXCEPT ![x] = AgentNode(x)]
           /\ UNCHANGED <<masters, cluster>>
        BY <1>13 DEF FailAfterwards
    <2>3. masters' \in [Masters -> MasterNodes] BY <1>0, <2>2, StagedTypes
    <2>4. agents' \in [Agents -> AgentNodes]
        BY <1>0, <1>13, <2>2, StagedTypes DEF FailAfterwards
    <2> QED BY <1>0, <1>9, <1>13, <2>1, <2>2, <2>3, <2>4 DEF FailAfterwards, Runs
<1>14. CASE ResumeFails
    <2>1. run' \in Runs BY <1>0, <1>14, ToKeeps, StepNames DEF ResumeFails
    <2> QED BY <1>0, <1>14, <1>r, <2>1 DEF ResumeFails
<1>15. CASE Kill
    <2>1. run' \in Runs BY <1>0, <1>15, FailKeeps DEF Kill
    <2> QED BY <1>0, <1>15, <1>r, <2>1 DEF Kill
<1>16. ASSUME NEW a \in Agents, NodeAdded(a) PROVE TypeOK'
    <2>1. [agents[a] EXCEPT !.there = TRUE, !.mem = 0] \in AgentNodes
        <3>1. 0 \in CAs /\ TRUE \in BOOLEAN BY RotateAssumption DEF CAs
        <3> QED BY <1>0, <3>1 DEF AgentNodes
    <2>2. agents' = [agents EXCEPT ![a] = [agents[a] EXCEPT !.there = TRUE, !.mem = 0]]
        BY <1>0, <1>16 DEF NodeAdded, AgentNodes
    <2>3. agents' \in [Agents -> AgentNodes] BY <1>0, <2>1, <2>2
    <2> QED BY <1>0, <1>16, <2>3 DEF NodeAdded, Runs
<1>17. CASE UNCHANGED vars BY <1>0, <1>17 DEF vars, Runs
<1> QED BY <1>1, <1>2, <1>3, <1>4, <1>5, <1>6, <1>7, <1>8, <1>10, <1>11, <1>12, <1>13,
           <1>14, <1>15, <1>16, <1>17 DEF Next, Command

\* A step that leaves the masters alone keeps what is known of them, if it enters
\* a step over the masters from its beginning and claims no result before its time.
LEMMA MastersKept ==
    ASSUME MasterParts, run'.n = run.n, masters' = masters, cluster'.proxy = cluster.proxy,
           \/ run'.pc = run.pc /\ run'.todo = run.todo /\ run'.err = run.err
           \/ run'.pc \in {"nodes", "pods"}
           \/ run'.pc \in {"distribute", "cp_proxy"} /\ run'.todo = Masters
              /\ (run'.pc = "cp_proxy" => run.pc = "nodesBack")
           \/ run.pc = "vms" /\ run'.pc = "nodesBack"
           \/ run.pc \in Proxied /\ run'.pc \in Proxied \union {"resume"}
           \/ run.pc = "resume" /\ run'.pc = "off" /\ run'.err = run.err
           \/ run'.pc \in {"resume", "off"} /\ run'.err
    PROVE  MasterParts'
<1>1. 0 \in Masters BY RotateAssumption DEF Masters
<1> USE DEF MasterParts, Past, Succeeded, OnDisk, Restarted, Proxied, Known, AgentsDone, Signed, Mounted
<1>2. MastersStaged' BY DEF MastersStaged
<1>3. MastersCopied' BY DEF MastersCopied
<1>4. MastersRestarted' BY DEF MastersRestarted
<1>5. ProxyRenewed' BY <1>1 DEF ProxyRenewed
<1> QED BY <1>2, <1>3, <1>4, <1>5

\* Every visit of a master keeps what is known of the masters.
LEMMA VisitMasterStep ==
    ASSUME RotateInv, NEW m \in Masters, VisitMaster(m)
    PROVE  MasterParts'
<1>0. TypeOK /\ run \in Runs BY DEF RotateInv, TypeOK, Runs
<1>1. /\ run'.n = run.n /\ run'.err = run.err
      /\ \/ /\ run.todo = {m} /\ run'.pc = After[run.pc]
            /\ run'.todo = Nodes(After[run.pc], run.nodes)
         \/ run'.pc = run.pc /\ run'.todo = run.todo \ {m}
    BY <1>0, VisitEffect DEF VisitMaster
<1>2. /\ masters'[m] = MasterNode(m) /\ \A k \in Masters : k # m => masters'[k] = masters[k]
      /\ m \in run.todo
    BY <1>0 DEF VisitMaster, TypeOK
<1>3. /\ MastersStaged /\ MastersCopied /\ MastersRestarted /\ ProxyRenewed
    BY DEF RotateInv, MasterParts
<1>4. cluster'.proxy = IF run.pc = "cp_proxy" /\ m = 0 THEN run.n ELSE cluster.proxy
    BY <1>0 DEF VisitMaster, ProxyStored, TypeOK
<1>5. 0 \in Masters BY RotateAssumption DEF Masters
<1> USE DEF Past, Succeeded, OnDisk, Restarted, Proxied, Known, AgentsDone, Signed, Mounted
<1>6. CASE run.pc = "distribute"
    <2>1. masters'[m].staged = run.n BY <1>0, <1>2, <1>6, MasterEffect
    <2>2. \/ run'.pc = "backup" /\ run.todo = {m}
          \/ run'.pc = "distribute" /\ run'.todo = run.todo \ {m}
        BY <1>1, <1>6, StepOrder
    <2>3. MastersStaged' BY <1>1, <1>2, <1>3, <1>6, <2>1, <2>2 DEF MastersStaged
    <2> QED BY <2>2, <2>3 DEF MasterParts, MastersCopied, MastersRestarted, ProxyRenewed
<1>7. CASE run.pc = "backup"
    <2>1. masters'[m].staged = masters[m].staged /\ masters'[m].disk = masters[m].disk
        BY <1>0, <1>2, <1>7, MasterEffect
    <2>2. \/ run'.pc = "cp_certs" /\ run'.todo = Masters
          \/ run'.pc = "backup"
        BY <1>1, <1>7, StepOrder, NodesOf
    <2>3. MastersStaged' BY <1>1, <1>2, <1>3, <1>7, <2>1, <2>2 DEF MastersStaged
    <2> QED BY <2>2, <2>3 DEF MasterParts, MastersCopied, MastersRestarted, ProxyRenewed
<1>8. CASE run.pc = "cp_certs"
    <2>1. masters'[m].staged = run.n /\ masters'[m].disk = run.n
        BY <1>0, <1>2, <1>3, <1>8, MasterEffect DEF MastersStaged
    <2>2. \/ run'.pc = "reboot" /\ run.todo = {m} /\ run'.todo = Masters
          \/ run'.pc = "cp_certs" /\ run'.todo = run.todo \ {m}
        BY <1>1, <1>8, StepOrder, NodesOf
    <2>3. MastersStaged' BY <1>1, <1>2, <1>3, <1>8, <2>1, <2>2 DEF MastersStaged
    <2>4. MastersCopied' BY <1>1, <1>2, <1>3, <1>8, <2>1, <2>2 DEF MastersCopied
    <2> QED BY <2>2, <2>3, <2>4 DEF MasterParts, MastersRestarted, ProxyRenewed
<1>9. CASE run.pc = "reboot"
    <2>1. masters'[m].disk = run.n /\ masters'[m].mem = run.n
        BY <1>0, <1>2, <1>3, <1>9, MasterEffect DEF MastersCopied
    <2>2. \/ run'.pc = "vms" /\ run.todo = {m}
          \/ run'.pc = "reboot" /\ run'.todo = run.todo \ {m}
        BY <1>1, <1>9, StepOrder
    <2>3. MastersCopied' BY <1>1, <1>2, <1>3, <1>9, <2>1, <2>2 DEF MastersCopied
    <2>4. MastersRestarted' BY <1>1, <1>2, <1>3, <1>9, <2>1, <2>2 DEF MastersRestarted
    <2> QED BY <2>2, <2>3, <2>4 DEF MasterParts, MastersStaged, ProxyRenewed
<1>10. CASE run.pc \in {"cp_proxy", "cleanup"}
    <2>1. /\ masters'[m].disk = masters[m].disk /\ masters'[m].mem = masters[m].mem
          /\ run.pc = "cp_proxy" /\ m = 0 => masters'[m].proxy = run.n
          /\ run.pc = "cleanup" => masters'[m].proxy = masters[m].proxy
        BY <1>0, <1>2, <1>10, MasterEffect
    <2>2. \/ run.pc = "cp_proxy" /\ run'.pc = "cleanup" /\ run.todo = {m}
          \/ run.pc = "cleanup" /\ run'.pc = "nodesDone"
          \/ run'.pc = run.pc /\ run'.todo = run.todo \ {m}
        BY <1>1, <1>10, StepOrder
    <2>3. MastersCopied' BY <1>1, <1>2, <1>3, <1>10, <2>1, <2>2 DEF MastersCopied
    <2>4. MastersRestarted' BY <1>1, <1>2, <1>3, <1>10, <2>1, <2>2 DEF MastersRestarted
    <2>5. ProxyRenewed' BY <1>1, <1>2, <1>3, <1>4, <1>5, <1>10, <2>1, <2>2 DEF ProxyRenewed
    <2>6. MastersStaged' BY <1>10, <2>2 DEF MastersStaged
    <2> QED BY <2>3, <2>4, <2>5, <2>6 DEF MasterParts
<1> QED BY <1>6, <1>7, <1>8, <1>9, <1>10 DEF VisitMaster, MasterSteps

\* What the steps that visit no node do to the command: they go on to the next
\* step, repeat a wait, or end the command.
Moves ==
    \/ run'.pc = run.pc /\ run'.todo = run.todo /\ run'.err = run.err
    \/ run.pc = "pause" /\ run'.pc = "nodes"
    \/ run.pc = "nodes" /\ run'.pc = "pods"
    \/ run.pc = "pods" /\ run'.pc = "distribute" /\ run'.todo = Masters
    \/ run.pc = "vms" /\ run'.pc = "nodesBack"
    \/ run.pc = "nodesBack" /\ run'.pc = "cp_proxy" /\ run'.todo = Masters
    \/ run.pc = "nodesDone" /\ run'.pc = "podsDone"
    \/ run.pc = "podsDone" /\ run'.pc = "list"
    \/ run.pc = "nodesA" /\ run'.pc = "tokens"
    \/ run.pc = "tokens" /\ run'.pc = "rollout"
    \/ run.pc = "rollout" /\ run'.pc = "system"
    \/ run.pc = "system" /\ run'.pc = "save"
    \/ run.pc = "save" /\ run'.pc = "remove"
    \/ run.pc = "remove" /\ run'.pc = "resume" /\ run'.err = run.err
    \/ run.pc = "resume" /\ run'.pc = "off" /\ run'.err = run.err
    \/ run'.pc \in {"resume", "off"} /\ run'.err

\* The steps that visit no node and list none move on as said.
LEMMA CommandMoves ==
    ASSUME TypeOK,
           \/ Pause \/ Poll \/ SystemNotReady \/ DeleteSATokens \/ Rollout \/ UpdateAPIModel
           \/ Resume \/ Fail \/ FailAfterwards \/ ResumeFails \/ Kill
    PROVE  Moves /\ run'.n = run.n /\ run'.nodes = run.nodes /\ run'.force = run.force
<1> DEFINE Goal == Moves /\ run'.n = run.n /\ run'.nodes = run.nodes /\ run'.force = run.force
<1>0. run \in Runs BY DEF TypeOK, Runs
<1>1. CASE Pause
    <2> DEFINE r == [run EXCEPT !.replicas = cluster.autoscaler]
    <2>1. r \in Runs /\ r.n = run.n /\ r.nodes = run.nodes /\ r.force = run.force
        BY <1>0 DEF Runs, TypeOK
    <2>2. run' = To(r, "nodes") /\ run.pc = "pause" /\ "nodes" \in Phases
        BY <1>1, StepNames, StepOrder DEF Pause
    <2> HIDE DEF r
    <2> QED BY <2>1, <2>2, ToKeeps DEF Moves
<1>2. ASSUME Advance, run.pc \in Waits \union {"tokens", "rollout", "save", "remove"} PROVE Goal
    <2>1. run.pc \in DOMAIN After BY <1>2 DEF Waits, After
    <2>2. /\ run'.pc = After[run.pc] /\ run'.todo = Nodes(After[run.pc], run.nodes)
          /\ run'.n = run.n /\ run'.nodes = run.nodes /\ run'.force = run.force
          /\ run'.err = run.err
        BY <1>0, <1>2, <2>1, AdvanceKeeps
    <2> QED BY <1>2, <2>2, StepOrder, NodesOf DEF Moves, Waits
<1>3. CASE Poll
    <2>1. CASE Advance BY <1>2, <1>3, <2>1 DEF Poll
    <2>2. CASE run' = [run EXCEPT !.polls = @ + 1] BY <1>0, <2>2 DEF Runs, Moves
    <2> QED BY <1>3, <2>1, <2>2 DEF Poll
<1>4. CASE SystemNotReady \/ DeleteSATokens \/ Rollout \/ UpdateAPIModel
    BY <1>2, <1>4 DEF SystemNotReady, DeleteSATokens, Rollout, UpdateAPIModel, Waits
<1>5. CASE Resume \/ ResumeFails
    <2>1. run.pc = "resume" /\ run' = To(run, "off") /\ "off" \in Phases
        BY <1>5, StepNames DEF Resume, ResumeFails
    <2> QED BY <1>0, <2>1, ToKeeps DEF Moves
<1>6. CASE Fail \/ FailAfterwards \/ Kill
    <2>1. PICK p \in {"resume", "off"} : run' = To([run EXCEPT !.err = TRUE], p)
        BY <1>6 DEF Fail, FailAfterwards, Kill
    <2> QED BY <1>0, <2>1, FailKeeps DEF Moves
<1> QED BY <1>1, <1>3, <1>4, <1>5, <1>6

\* The agents are listed in one step.
LEMMA ListEffect ==
    ASSUME TypeOK, GetAgentNodes
    PROVE  /\ run.pc = "list" /\ run'.nodes = {a \in Agents : agents[a].there}
           /\ run'.n = run.n /\ run'.force = run.force
           /\ \/ run'.pc = "nodesA" /\ run'.nodes = {}
              \/ run'.pc = "distributeA" /\ run'.todo = run'.nodes
<1> DEFINE r == [run EXCEPT !.nodes = {a \in Agents : agents[a].there}]
           p == IF r.nodes = {} THEN "nodesA" ELSE "distributeA"
<1>0. run \in Runs BY DEF TypeOK, Runs
<1>1. r \in Runs /\ r.n = run.n /\ r.force = run.force BY <1>0 DEF Runs
<1>2. r.nodes = {a \in Agents : agents[a].there} BY <1>0 DEF Runs
<1>3. p \in Phases BY StepNames
<1>4. run' = To(r, p) /\ run.pc = "list" BY StepOrder DEF GetAgentNodes
<1>5. p = "distributeA" \/ (p = "nodesA" /\ r.nodes = {}) OBVIOUS
<1> HIDE DEF r, p
<1>6. /\ run'.pc = p /\ run'.nodes = r.nodes /\ run'.n = r.n /\ run'.force = r.force
      /\ run'.todo = Nodes(p, r.nodes)
    BY <1>1, <1>3, <1>4, ToKeeps
<1> QED BY <1>1, <1>2, <1>4, <1>5, <1>6, NodesOf

\* A command that has failed or has just begun has nothing to show.
LEMMA NothingClaimed ==
    ASSUME \/ run'.pc \in {"resume", "off"} /\ run'.err
           \/ run'.pc = "distribute" /\ run'.todo = Masters
           \/ run'.pc = "pause"
    PROVE  MasterParts' /\ StoredLast' /\ AgentsStaged' /\ AgentsRotated'
BY DEF MasterParts, MastersStaged, MastersCopied, MastersRestarted, ProxyRenewed, StoredLast,
       AgentsStaged, AgentsRotated, Past, Succeeded, OnDisk, Restarted, Proxied, Known, AgentsDone,
       Signed, Mounted

\* Every step keeps what is known of the masters.
LEMMA MasterPartsStep ==
    ASSUME RotateInv, [Next]_vars
    PROVE  MasterParts'
<1>0. TypeOK /\ MasterParts /\ run \in Runs BY DEF RotateInv, TypeOK, Runs
<1> USE DEF Proxied, Known, AgentsDone, Signed, Mounted
<1>1. CASE Start BY <1>0, <1>1, StartEffect, NothingClaimed
<1>2. CASE Pause \/ Poll \/ SystemNotReady \/ DeleteSATokens \/ Rollout \/ UpdateAPIModel
           \/ Resume \/ Fail \/ ResumeFails \/ Kill
    <2>1. masters' = masters /\ cluster'.proxy = cluster.proxy
        BY <1>0, <1>2
        DEF Pause, Poll, SystemNotReady, DeleteSATokens, Rollout, UpdateAPIModel, Resume, Fail,
            ResumeFails, Kill, TypeOK
    <2>2. Moves /\ run'.n = run.n BY <1>0, <1>2, CommandMoves
    <2> QED BY <1>0, <2>1, <2>2, MastersKept DEF Moves
<1>3. CASE FailAfterwards
    <2>1. run'.pc = "resume" /\ run'.err BY <1>0, <1>3, FailKeeps DEF FailAfterwards
    <2> QED BY <2>1, NothingClaimed
<1>4. CASE GetAgentNodes
    BY <1>0, <1>4, ListEffect, MastersKept DEF GetAgentNodes
<1>5. ASSUME NEW a \in Agents, VisitAgent(a) PROVE MasterParts'
    <2>1. /\ run'.n = run.n /\ run.pc \in AgentSteps
          /\ run'.pc = After[run.pc] \/ run'.pc = run.pc
        BY <1>0, <1>5, VisitEffect DEF VisitAgent
    <2>2. run.pc \in Proxied /\ run'.pc \in Proxied BY <2>1, StepOrder DEF AgentSteps
    <2> QED BY <1>0, <1>5, <2>1, <2>2, MastersKept DEF VisitAgent
<1>6. ASSUME NEW a \in Agents, NodeAdded(a) PROVE MasterParts'
    BY <1>0, <1>6, MastersKept DEF NodeAdded
<1>7. CASE UNCHANGED vars BY <1>0, <1>7, MastersKept DEF vars
<1> QED BY <1>1, <1>2, <1>3, <1>4, <1>5, <1>6, <1>7, VisitMasterStep DEF Next, Command

\* A step that leaves the agents that were listed alone keeps what is known of them.
LEMMA AgentsKept ==
    ASSUME AgentsStaged, AgentsRotated, run'.n = run.n, run'.nodes = run.nodes,
           \A a \in run.nodes : /\ agents'[a].mem = agents[a].mem
                                /\ agents'[a].staged = agents[a].staged,
           \/ Moves
           \/ run'.pc \in MasterSteps \union {"vms", "nodesDone"}
    PROVE  AgentsStaged' /\ AgentsRotated'
<1> USE DEF Moves, Past, Succeeded, AgentsDone, Signed, Mounted, MasterSteps
<1>1. AgentsStaged' BY DEF AgentsStaged
<1>2. AgentsRotated' BY DEF AgentsRotated
<1> QED BY <1>1, <1>2

\* Every visit of an agent keeps what is known of the agents.
LEMMA VisitAgentStep ==
    ASSUME RotateInv, NEW a \in Agents, VisitAgent(a)
    PROVE  AgentParts'
<1>0. TypeOK /\ run \in Runs BY DEF RotateInv, TypeOK, Runs
<1>1. /\ run'.n = run.n /\ run'.err = run.err /\ run'.nodes = run.nodes /\ run'.force = run.force
      /\ run.pc \in AgentSteps
      /\ \/ /\ run.todo = {a} /\ run'.pc = After[run.pc]
            /\ run'.todo = Nodes(After[run.pc], run.nodes)
         \/ run'.pc = run.pc /\ run'.todo = run.todo \ {a}
    BY <1>0, VisitEffect DEF VisitAgent
<1>2. /\ agents'[a] = AgentNode(a) /\ \A b \in Agents : b # a => agents'[b] = agents[b]
      /\ a \in run.todo /\ cluster' = cluster
    BY <1>0 DEF VisitAgent, TypeOK
<1>3. AgentsStaged /\ AgentsRotated /\ AgentsKnown /\ AutoscalerStopped
    BY DEF RotateInv, AgentParts
<1>4. run.nodes \subseteq Agents BY <1>0 DEF Runs
<1>5. /\ \A b \in Agents : agents'[b].there = agents[b].there
      /\ \A b \in Agents : b # a => /\ agents'[b].mem = agents[b].mem
                                    /\ agents'[b].staged = agents[b].staged
      /\ run.pc = "distributeA" => agents'[a].staged = run.n
      /\ run.pc \in {"backupA", "agent_certs"} => agents'[a].staged = agents[a].staged
      /\ run.pc = "agent_certs" => agents'[a].mem = agents[a].staged
      /\ run.pc # "agent_certs" => agents'[a].mem = agents[a].mem
    BY <1>0, <1>2, AgentEffect
<1>6. \/ run.pc = "distributeA" /\ run'.pc = "backupA" /\ run.todo = {a} /\ run'.todo = run.nodes
      \/ run.pc = "backupA" /\ run'.pc = "agent_certs" /\ run'.todo = run.nodes
      \/ run.pc = "agent_certs" /\ run'.pc = "cleanupA" /\ run.todo = {a} /\ run'.todo = run.nodes
      \/ run.pc = "cleanupA" /\ run'.pc = "nodesA"
      \/ run.pc \in AgentSteps /\ run'.pc = run.pc /\ run'.todo = run.todo \ {a}
    BY <1>1, StepOrder, NodesOf DEF AgentSteps
<1> USE DEF Past, Succeeded, Known, AgentsDone, Signed, Mounted, AgentSteps
<1>7. AgentsStaged' BY <1>1, <1>3, <1>4, <1>5, <1>6 DEF AgentsStaged
<1>8. AgentsRotated' BY <1>1, <1>3, <1>4, <1>5, <1>6 DEF AgentsRotated, AgentsStaged
<1>9. AgentsKnown' BY <1>1, <1>3, <1>4, <1>5, <1>6 DEF AgentsKnown
<1>10. AutoscalerStopped' BY <1>1, <1>2, <1>3, <1>6 DEF AutoscalerStopped
<1> QED BY <1>7, <1>8, <1>9, <1>10 DEF AgentParts

\* Every step keeps what is known of the agents and of the autoscaler.
LEMMA AgentPartsStep ==
    ASSUME RotateInv, [Next]_vars
    PROVE  AgentParts'
<1>0. /\ TypeOK /\ run \in Runs /\ run.nodes \subseteq Agents
      /\ AgentsStaged /\ AgentsRotated /\ AgentsKnown /\ AutoscalerStopped
    BY DEF RotateInv, AgentParts, TypeOK, Runs
<1> USE DEF Past, Succeeded, Known, AgentsDone, Signed, Mounted, AgentSteps
<1>1. CASE Start
    <2>1. /\ run'.nodes = {} /\ run'.pc \in {"distribute", "pause"}
          /\ ~run'.force => run'.pc = "pause"
          /\ run'.pc = "distribute" => run'.todo = Masters
        BY <1>0, <1>1, StartEffect
    <2>2. AgentsStaged' /\ AgentsRotated' BY <2>1, NothingClaimed
    <2>3. AgentsKnown' BY <2>1 DEF AgentsKnown
    <2>4. AutoscalerStopped' BY <2>1 DEF AutoscalerStopped
    <2> QED BY <2>2, <2>3, <2>4 DEF AgentParts
<1>2. ASSUME Moves, run'.n = run.n, run'.nodes = run.nodes, run'.force = run.force,
             UNCHANGED agents,
             \/ cluster'.autoscaler \in {cluster.autoscaler, 0}
                /\ \/ run.pc # "pause"
                   \/ cluster'.autoscaler = 0
                   \/ run'.pc \in {"resume", "off"} /\ run'.err
             \/ run'.pc = "off"
      PROVE  AgentParts'
    <2>1. AgentsStaged' /\ AgentsRotated' BY <1>0, <1>2, AgentsKept
    <2>2. AgentsKnown' BY <1>0, <1>2 DEF AgentsKnown, Moves
    <2>3. AutoscalerStopped' BY <1>0, <1>2 DEF AutoscalerStopped, Moves
    <2> QED BY <2>1, <2>2, <2>3 DEF AgentParts
<1>3. CASE Pause \/ Poll \/ SystemNotReady \/ DeleteSATokens \/ Rollout \/ UpdateAPIModel
           \/ Resume \/ Fail \/ ResumeFails \/ Kill
    <2>1. Moves /\ run'.n = run.n /\ run'.nodes = run.nodes /\ run'.force = run.force
        BY <1>0, <1>3, CommandMoves
    <2>2. CASE Pause
        BY <1>0, <1>2, <2>1, <2>2 DEF Pause, TypeOK
    <2>3. CASE Poll \/ SystemNotReady \/ DeleteSATokens \/ Rollout \/ UpdateAPIModel
        <3>1. UNCHANGED agents /\ run.pc # "pause" /\ cluster'.autoscaler = cluster.autoscaler
            BY <1>0, <2>3
            DEF Poll, SystemNotReady, DeleteSATokens, Rollout, UpdateAPIModel, Waits, TypeOK
        <3> QED BY <1>2, <2>1, <3>1
    <2>4. CASE Resume \/ ResumeFails
        <3>1. run'.pc = "off" /\ UNCHANGED agents
            BY <1>0, <2>4, ToKeeps, StepNames DEF Resume, ResumeFails
        <3> QED BY <1>2, <2>1, <3>1
    <2>5. CASE Fail \/ Kill
        <3>1. run'.pc \in {"resume", "off"} /\ run'.err /\ UNCHANGED <<agents, cluster>>
            BY <1>0, <2>5, FailKeeps DEF Fail, Kill
        <3> QED BY <1>2, <2>1, <3>1
    <2> QED BY <1>3, <2>2, <2>3, <2>4, <2>5
<1>4. CASE FailAfterwards
    <2>1. run'.pc = "resume" /\ run'.err /\ run'.nodes = run.nodes
        BY <1>0, <1>4, FailKeeps DEF FailAfterwards
    <2>2. AgentsStaged' /\ AgentsRotated' BY <2>1, NothingClaimed
    <2>3. \A a \in Agents : agents'[a].there = agents[a].there
        BY <1>0, <1>4, AgentEffect DEF FailAfterwards, TypeOK
    <2>4. AgentsKnown' BY <1>0, <2>1, <2>3 DEF AgentsKnown
    <2>5. AutoscalerStopped' BY <2>1 DEF AutoscalerStopped
    <2> QED BY <2>2, <2>4, <2>5 DEF AgentParts
<1>5. CASE GetAgentNodes
    <2>1. /\ run.pc = "list" /\ run'.nodes = {a \in Agents : agents[a].there}
          /\ run'.n = run.n /\ run'.force = run.force
          /\ \/ run'.pc = "nodesA" /\ run'.nodes = {}
             \/ run'.pc = "distributeA" /\ run'.todo = run'.nodes
          /\ UNCHANGED <<agents, cluster>>
        BY <1>0, <1>5, ListEffect DEF GetAgentNodes
    <2>2. AgentsStaged' /\ AgentsRotated' BY <2>1 DEF AgentsStaged, AgentsRotated
    <2>3. AgentsKnown' BY <2>1 DEF AgentsKnown
    <2>4. AutoscalerStopped' BY <1>0, <2>1 DEF AutoscalerStopped
    <2> QED BY <2>2, <2>3, <2>4 DEF AgentParts
<1>6. ASSUME NEW m \in Masters, VisitMaster(m) PROVE AgentParts'
    <2>1. /\ run'.n = run.n /\ run'.nodes = run.nodes /\ run'.force = run.force
          /\ run'.err = run.err /\ run.pc \in MasterSteps
          /\ run'.pc = After[run.pc] \/ run'.pc = run.pc
        BY <1>0, <1>6, VisitEffect DEF VisitMaster
    <2>2. run'.pc \in MasterSteps \union {"vms", "nodesDone"} BY <2>1, StepOrder DEF MasterSteps
    <2>3. UNCHANGED agents /\ cluster'.autoscaler = cluster.autoscaler
        BY <1>0, <1>6 DEF VisitMaster, ProxyStored, TypeOK
    <2>4. AgentsStaged' /\ AgentsRotated' BY <1>0, <2>1, <2>2, <2>3, AgentsKept
    <2>5. AgentsKnown' BY <1>0, <2>1, <2>2, <2>3 DEF AgentsKnown, MasterSteps
    <2>6. AutoscalerStopped' BY <1>0, <2>1, <2>2, <2>3 DEF AutoscalerStopped, MasterSteps
    <2> QED BY <2>4, <2>5, <2>6 DEF AgentParts
<1>7. ASSUME NEW a \in Agents, NodeAdded(a) PROVE AgentParts'
    <2>1. /\ cluster.autoscaler > 0 /\ ~agents[a].there /\ UNCHANGED <<run, cluster>>
          /\ \A b \in Agents : b # a => agents'[b] = agents[b]
        BY <1>0, <1>7 DEF NodeAdded, TypeOK
    <2>2. a \notin run.nodes BY <1>0, <2>1 DEF AgentsKnown
    <2>3. AgentsStaged' /\ AgentsRotated'
        BY <1>0, <2>1, <2>2 DEF AgentsStaged, AgentsRotated
    <2>4. AgentsKnown'
        <3>1. \A b \in run.nodes : agents'[b].there BY <1>0, <2>1, <2>2 DEF AgentsKnown
        <3>2. ~run.force /\ run.pc # "off" => ~Past(Known)
            BY <1>0, <2>1 DEF AutoscalerStopped
        <3> QED BY <1>0, <2>1, <3>1, <3>2 DEF AgentsKnown
    <2>5. AutoscalerStopped' BY <1>0, <2>1 DEF AutoscalerStopped
    <2> QED BY <2>3, <2>4, <2>5 DEF AgentParts
<1>8. CASE UNCHANGED vars
    BY <1>0, <1>8
    DEF vars, AgentParts, AgentsStaged, AgentsRotated, AgentsKnown, AutoscalerStopped
<1> QED BY <1>1, <1>3, <1>4, <1>5, <1>6, <1>7, <1>8, VisitAgentStep DEF Next, Command

\* Every step keeps what is known of the tokens and the API model.
LEMMA StoredStep ==
    ASSUME RotateInv, [Next]_vars
    PROVE  StoredLast'
<1>0. /\ TypeOK /\ run \in Runs /\ StoredLast
      /\ Past(Restarted) => \A m \in Masters : masters[m].mem = run.n
    BY DEF RotateInv, MasterParts, MastersRestarted, TypeOK, Runs
<1> USE DEF Past, Succeeded, Signed, Mounted
<1>1. CASE Start BY <1>0, <1>1, StartEffect, NothingClaimed
<1>2. CASE Pause \/ Poll \/ SystemNotReady \/ Resume \/ ResumeFails
    <2>1. /\ UNCHANGED files /\ cluster'.tokens = cluster.tokens
          /\ cluster'.mounted = cluster.mounted
          /\ run.pc \notin {"tokens", "rollout", "save"}
        BY <1>0, <1>2 DEF Pause, Poll, SystemNotReady, Resume, ResumeFails, TypeOK, Waits
    <2>2. Moves /\ run'.n = run.n BY <1>0, <1>2, CommandMoves
    <2> QED BY <1>0, <2>1, <2>2 DEF StoredLast, Moves
<1>3. CASE DeleteSATokens
    <2>1. run.pc = "tokens" /\ Moves /\ run'.n = run.n BY <1>0, <1>3, CommandMoves DEF DeleteSATokens
    <2>2. \A m \in Masters : masters[m].mem = run.n
        BY <1>0, <2>1 DEF Restarted, Proxied, Known, AgentsDone
    <2>3. cluster'.tokens = run.n
        <3>1. PICK ca \in CAs : Serving(ca) /\ cluster' = [cluster EXCEPT !.tokens = ca]
            BY <1>3 DEF DeleteSATokens
        <3>2. ca = run.n BY <2>2, <3>1, OneAuthority
        <3> QED BY <1>0, <3>1, <3>2 DEF TypeOK
    <2> QED BY <2>1, <2>3 DEF StoredLast, Moves
<1>4. CASE Rollout
    <2>1. run.pc = "rollout" /\ Moves /\ run'.n = run.n BY <1>0, <1>4, CommandMoves DEF Rollout
    <2>2. cluster'.tokens = cluster.tokens /\ cluster'.mounted = cluster.tokens
        BY <1>0, <1>4 DEF Rollout, TypeOK
    <2> QED BY <1>0, <2>1, <2>2 DEF StoredLast, Moves
<1>5. CASE UpdateAPIModel
    <2>1. Moves /\ run'.n = run.n /\ UNCHANGED cluster /\ run.pc \in {"save", "remove"}
        BY <1>0, <1>5, CommandMoves DEF UpdateAPIModel
    <2>2. /\ run.pc = "save" => files'.model = run.n
          /\ run.pc = "remove" => files'.model = files.model
        BY <1>0, <1>5 DEF UpdateAPIModel, TypeOK
    <2> QED BY <1>0, <2>1, <2>2 DEF StoredLast, Moves
<1>6. CASE Fail \/ FailAfterwards \/ Kill
    <2>1. run'.pc \in {"resume", "off"} /\ run'.err
        BY <1>0, <1>6, FailKeeps DEF Fail, FailAfterwards, Kill
    <2> QED BY <2>1, NothingClaimed
<1>7. CASE GetAgentNodes BY <1>7, <1>0, ListEffect DEF StoredLast
<1>8. CASE (\E m \in Masters : VisitMaster(m)) \/ (\E a \in Agents : VisitAgent(a))
    <2>1. /\ run.pc \in MasterSteps \union AgentSteps
          /\ run'.pc = After[run.pc] \/ run'.pc = run.pc
        BY <1>0, <1>8, VisitEffect DEF VisitMaster, VisitAgent
    <2> QED BY <2>1, StepOrder DEF StoredLast, MasterSteps, AgentSteps
<1>9. CASE (\E a \in Agents : NodeAdded(a)) \/ UNCHANGED vars
    BY <1>0, <1>9 DEF NodeAdded, vars, StoredLast
<1> QED BY <1>1, <1>2, <1>3, <1>4, <1>5, <1>6, <1>7, <1>8, <1>9 DEF Next, Command

\* Every step keeps the invariant.
LEMMA RotateStep ==
    ASSUME RotateInv, [Next]_vars
    PROVE  RotateInv'
BY RotateTypeStep, MasterPartsStep, AgentPartsStep, StoredStep DEF RotateInv

-----------------------------------------------------------------------------
\* The command, the nodes, the files and the control plane keep their types: in
\* particular no certificates are copied on a node before they were distributed.
THEOREM RotateTypes == Spec => []TypeOK
<1>1. RotateInv => TypeOK BY DEF RotateInv
<1> QED BY <1>1, RotateInit, RotateStep, PTL DEF Spec

\* A run of rotate-certs that succeeds, after any number of failed or killed
\* runs, has given its own certificates to every master and listed agent.
THEOREM OneAuthorityLeft == Spec => []SuccessMeansRotated
<1>1. ASSUME RotateInv, Succeeded
      PROVE  /\ \A m \in Masters : masters[m].disk = run.n /\ masters[m].mem = run.n
             /\ \A a \in Agents :
                  \/ a \in run.nodes
                  \/ agents[a].there /\ ~run.force /\ run.pc = "resume"
                  => agents[a].mem = run.n
             /\ cluster.tokens = run.n /\ cluster.mounted = run.n
             /\ files.model = run.n
             /\ cluster.proxy = run.n /\ masters[0].proxy = run.n
    <2>1. \A S : Past(S) BY <1>1 DEF Past
    <2>2. \A m \in Masters : masters[m].disk = run.n /\ masters[m].mem = run.n
        BY <1>1, <2>1 DEF RotateInv, MasterParts, MastersCopied, MastersRestarted
    <2>3. cluster.proxy = run.n /\ masters[0].proxy = run.n
        BY <1>1, <2>1 DEF RotateInv, MasterParts, ProxyRenewed
    <2>4. \A a \in run.nodes : agents[a].mem = run.n
        BY <1>1, <2>1 DEF RotateInv, AgentParts, AgentsRotated
    <2>5. ~run.force /\ run.pc = "resume" => \A a \in Agents : agents[a].there => a \in run.nodes
        BY <1>1, <2>1 DEF RotateInv, AgentParts, AgentsKnown
    <2>6. cluster.tokens = run.n /\ cluster.mounted = run.n /\ files.model = run.n
        BY <1>1, <2>1 DEF RotateInv, StoredLast
    <2> QED BY <2>2, <2>3, <2>4, <2>5, <2>6
<1>2. RotateInv => SuccessMeansRotated BY <1>1 DEF SuccessMeansRotated
<1> QED BY <1>2, RotateInit, RotateStep, PTL DEF Spec

\* The agents' certificates are copied only after all masters were restarted on
\* theirs, also when runs fail in between and are repeated.
THEOREM AgentsAfterMasters == Spec => AgentsFollowMasters
<1>1. ASSUME RotateInv, [Next]_vars
      PROVE  [\A a \in Agents : agents'[a].mem # agents[a].mem =>
                \/ ~agents[a].there
                \/ \A m \in Masters : masters[m].mem = agents'[a].mem]_vars
    <2> SUFFICES ASSUME NEW a \in Agents, agents'[a].mem # agents[a].mem, agents[a].there
                 PROVE  \A m \in Masters : masters[m].mem = agents'[a].mem
        OBVIOUS
    <2>0. TypeOK BY <1>1 DEF RotateInv
    <2>1. agents' # agents OBVIOUS
    <2>2. CASE \E b \in Agents : NodeAdded(b)
        BY <2>0, <2>2 DEF NodeAdded, TypeOK
    <2>3. ASSUME NEW b \in Agents, b \in run.todo, run.pc \in MasterSteps \union AgentSteps,
                 agents' = [agents EXCEPT ![b] = AgentNode(b)]
          PROVE  \A m \in Masters : masters[m].mem = agents'[a].mem
        <3>1. a = b /\ agents'[a].mem = AgentNode(a).mem BY <2>0, <2>3 DEF TypeOK
        <3>2. run.pc = "agent_certs" /\ agents'[a].mem = agents[a].staged
            BY <2>0, <3>1, AgentEffect
        <3>3. a \in run.nodes
            BY <1>1, <2>3, <3>1, <3>2 DEF RotateInv, AgentParts, AgentsKnown, AgentSteps
        <3>4. agents[a].staged = run.n
            BY <1>1, <3>2, <3>3 DEF RotateInv, AgentParts, AgentsStaged
        <3>5. \A m \in Masters : masters[m].mem = run.n
            BY <1>1, <3>2
            DEF RotateInv, MasterParts, MastersRestarted, Past, Restarted, Proxied, Known
        <3> QED BY <3>2, <3>4, <3>5
    <2>4. CASE \E b \in Agents : VisitAgent(b) BY <2>3, <2>4 DEF VisitAgent
    <2>5. CASE FailAfterwards BY <2>1, <2>3, <2>5 DEF FailAfterwards
    <2> QED BY <1>1, <2>1, <2>2, <2>4, <2>5
            DEF Next, Command, Start, Pause, Poll, SystemNotReady, GetAgentNodes, DeleteSATokens,
                Rollout, UpdateAPIModel, Resume, VisitMaster, Fail, ResumeFails, Kill, vars
<1> QED BY <1>1, RotateInit, RotateStep, PTL DEF Spec, AgentsFollowMasters

-----------------------------------------------------------------------------
(***************************************************************************)
(* The composite client, through which a run talks to the API server while *)
(* its certificates change. For any program of calls, any number of        *)
(* attempts and any interleaving of the goroutines: answers are true, and  *)
(* a call that meets no fault fails only if the authority changed while it *)
(* was made.                                                               *)
(***************************************************************************)
Goroutine == [pc: {"try", "send", "end"}, left: 0..Steps,
              got: Answers \union {LastError}]

CallsCounted ==
    /\ Len(exec) = caller.at
    /\ caller.waiting => caller.at > 0

\* A goroutine that goes on has an attempt left.
AttemptsLeft ==
    \A i \in Calls, c \in Clients :
        exec[i][c].pc = "try" => exec[i][c].left > 0

\* What a goroutine waits to tell the caller is an answer, and true of the
\* time since the call was made; that the object is gone stays true.
Seen(call, got, values) ==
    /\ call.kind \in {"list", "get"} =>
          (IF got = NotFound THEN Absent ELSE got.x) \in values
    /\ call.kind = "patch" =>
          (IF got = NotFound THEN Absent ELSE call.value) \in values
AnswersReady ==
    \A i \in Calls, c \in Clients : exec[i][c].pc = "send" =>
        /\ exec[i][c].got \in Answers
        /\ i = caller.at => Seen(prog[i], exec[i][c].got, held)
        /\ prog[i].kind = "delete" => object = Absent

\* ErrorsHaveCauses, and that the goroutine it speaks of has ended.
ErrorsSoFar ==
    faults = 0 =>
        \A i \in DOMAIN results : results[i] = LastError =>
            /\ rotatedIn = i
            /\ exec[i]["new"].pc = "end"
            /\ wrapped => exec[i]["new"].left = 0

\* While the caller waits the client that was trusted since the call was made
\* has not given up.
TrustedCarriesOn ==
    faults = 0 /\ caller.waiting =>
        /\ rotatedIn = NotYet => exec[caller.at]["old"].pc # "end"
        /\ rotatedIn \notin {NotYet, caller.at} => exec[caller.at]["new"].pc # "end"
        /\ wrapped /\ exec[caller.at]["new"].pc = "end" => exec[caller.at]["new"].left = 0

ClientInv ==
    /\ ClientTypeOK
    /\ CallsCounted /\ AttemptsLeft /\ AnswersReady /\ ErrorsSoFar /\ TrustedCarriesOn

-----------------------------------------------------------------------------
\* An attempt more or the end of all attempts.
LEMMA RetryTyped ==
    ASSUME NEW g \in Goroutine, g.pc = "try", g.left > 0
    PROVE  /\ Retry(g) \in Goroutine
           /\ Retry(g).pc \in {"try", "end"}
           /\ Retry(g).pc = "end" => Retry(g).left = 0
           /\ Retry(g).pc = "try" => Retry(g).left > 0
<1>1. Steps \in Nat BY ClientAssumption
<1>2. g.left \in 1..Steps /\ g.got \in Answers \union {LastError}
    BY <1>1 DEF Goroutine
<1>3. /\ Retry(g).pc = IF g.left = 1 THEN "end" ELSE "try"
      /\ Retry(g).left = g.left - 1
    BY <1>2 DEF Retry, Goroutine
<1>4. Retry(g) \in Goroutine
    <2> DEFINE l == g.left - 1
               p == IF g.left = 1 THEN "end" ELSE "try"
    <2>1. l \in 0..Steps /\ p \in {"try", "send", "end"} BY <1>1, <1>2
    <2>2. Retry(g) = [g EXCEPT !.left = l, !.pc = p] BY DEF Retry
    <2> HIDE DEF l, p
    <2> QED BY <2>1, <2>2 DEF Goroutine
<1> QED BY <1>2, <1>3, <1>4

\* What a request does and what its sender is told.
LEMMA EffectOfCall ==
    ASSUME NEW call \in Requests, object \in Objects
    PROVE  /\ Effect(call) \in Objects
           /\ Reply(call) \in Answers
           /\ object = Absent \/ call.kind = "delete" => Effect(call) = Absent
           /\ Seen(call, Reply(call), {Effect(call)})
<1>1. Effect(call) \in Objects
    BY DEF Effect, Objects, Requests
<1>2. Reply(call) \in Answers
    BY <1>1 DEF Reply, Answers
<1>3. object = Absent \/ call.kind = "delete" => Effect(call) = Absent
    BY DEF Effect, Kinds
<1>4. Ok(Effect(call)).x = Effect(call)
      /\ Ok(Effect(call)) # NotFound
    BY DEF Ok, NotFound
<1>5. ASSUME object = Absent, call.kind # "list"
      PROVE  Seen(call, Reply(call), {Effect(call)})
    BY <1>3, <1>5 DEF Reply, Seen
<1>6. ASSUME ~(object = Absent /\ call.kind # "list")
      PROVE  Seen(call, Reply(call), {Effect(call)})
    <2>1. Reply(call) = Ok(Effect(call)) BY <1>6 DEF Reply
    <2>2. call.kind = "patch" => Effect(call) = call.value BY <1>6 DEF Effect
    <2> QED BY <1>4, <2>1, <2>2 DEF Seen
<1> QED BY <1>1, <1>2, <1>3, <1>5, <1>6

\* The parts of the type invariant that the steps rely on.
LEMMA ClientTypes ==
    ASSUME ClientInv
    PROVE  /\ exec \in Seq([Clients -> Goroutine])
           /\ object \in Objects
           /\ caller \in [at: 0..Len(prog), waiting: BOOLEAN]
           /\ prog \in Seq(Requests)
           /\ Calls = 1..caller.at /\ caller.at \in Nat /\ caller.at <= Len(prog)
           /\ \A i \in Calls : prog[i] \in Requests
           /\ Calls = DOMAIN exec
           /\ faults \in Nat /\ faults <= MaxFaults /\ MaxFaults \in Nat /\ Steps \in Nat \ {0}
           /\ results \in Seq(Answers \union {LastError})
           /\ Len(results) = caller.at - (IF caller.waiting THEN 1 ELSE 0)
           /\ DOMAIN results = 1..Len(results)
           /\ caller.waiting => caller.at \in Calls
           /\ "old" \in Clients /\ "new" \in Clients
           /\ \A i \in Calls, c \in Clients : exec[i][c] \in Goroutine
<1>1. ClientTypeOK /\ CallsCounted BY DEF ClientInv
<1>2. exec \in Seq([Clients -> Goroutine]) BY <1>1 DEF ClientTypeOK, Goroutine
<1>3. prog \in Seq(Requests)
    BY <1>1, ClientAssumption DEF ClientTypeOK
<1>4. caller \in [at: 0..Len(prog), waiting: BOOLEAN] /\ Len(exec) = caller.at
    BY <1>1 DEF ClientTypeOK, CallsCounted
<1>5. Calls = 1..caller.at /\ caller.at \in Nat /\ caller.at <= Len(prog)
    BY <1>2, <1>3, <1>4 DEF Calls
<1>6. \A i \in Calls, c \in Clients : exec[i][c] \in Goroutine
    BY <1>2 DEF Calls
<1>7. faults \in Nat /\ faults <= MaxFaults /\ MaxFaults \in Nat /\ Steps \in Nat \ {0}
    BY <1>1, ClientAssumption DEF ClientTypeOK
<1>8. caller.waiting => caller.at \in Calls BY <1>1, <1>5 DEF CallsCounted
<1>9. \A i \in Calls : prog[i] \in Requests
    BY <1>3, <1>5
<1>10. DOMAIN results = 1..Len(results) BY <1>1 DEF ClientTypeOK
<1> QED BY <1>1, <1>2, <1>3, <1>4, <1>5, <1>6, <1>7, <1>8, <1>9, <1>10
        DEF ClientTypeOK, Calls, Clients

\* Goroutine c of call i becomes g.
Becomes(i, c, g) ==
    /\ exec' \in Seq([Clients -> Goroutine])
    /\ Len(exec') = Len(exec) /\ DOMAIN exec' = DOMAIN exec
    /\ exec'[i][c] = g
    /\ \A j \in DOMAIN exec, d \in Clients : j # i \/ d # c => exec'[j][d] = exec[j][d]

LEMMA OneGoroutine ==
    ASSUME ClientInv, NEW i \in Calls, NEW c \in Clients, NEW g \in Goroutine,
           exec' = [exec EXCEPT ![i][c] = g]
    PROVE  Becomes(i, c, g)
<1>1. exec \in Seq([Clients -> Goroutine]) /\ i \in DOMAIN exec BY ClientTypes
<1>2. exec[i] \in [Clients -> Goroutine] BY <1>1
<1>3. [exec[i] EXCEPT ![c] = g] \in [Clients -> Goroutine] BY <1>2
<1>4. exec' = [exec EXCEPT ![i] = [exec[i] EXCEPT ![c] = g]] OBVIOUS
<1>5. /\ exec' \in Seq([Clients -> Goroutine])
      /\ Len(exec') = Len(exec) /\ DOMAIN exec' = DOMAIN exec
    BY <1>1, <1>3, <1>4
<1>6. exec'[i] = [exec[i] EXCEPT ![c] = g] /\ \A j \in DOMAIN exec : j # i => exec'[j] = exec[j]
    BY <1>1, <1>4
<1>7. exec'[i][c] = g /\ \A d \in Clients : d # c => exec'[i][d] = exec[i][d]
    BY <1>2, <1>6
<1> QED BY <1>5, <1>6, <1>7 DEF Becomes

-----------------------------------------------------------------------------
(* The steps *)

LEMMA ClientStarts == ClientInit => ClientInv
<1> SUFFICES ASSUME ClientInit PROVE ClientInv OBVIOUS
<1>1. Len(prog) \in Nat BY ClientAssumption DEF ClientInit
<1>2. ClientTypeOK
    BY <1>1, ClientAssumption DEF ClientInit, ClientTypeOK, NotYet
<1>3. exec = << >> /\ results = << >> /\ caller = [at |-> 0, waiting |-> FALSE] BY DEF ClientInit
<1> QED BY <1>2, <1>3 DEF ClientInv, CallsCounted, AttemptsLeft, AnswersReady, ErrorsSoFar,
                          TrustedCarriesOn, Calls

LEMMA CallStep == ClientInv /\ Call => ClientInv'
<1> SUFFICES ASSUME ClientInv, Call PROVE ClientInv' OBVIOUS
<1> USE ClientTypes
<1> DEFINE fresh == [c \in Clients |->
                       [pc |-> "try", left |-> Steps, got |-> LastError]]
<1>1. fresh \in [Clients -> Goroutine] BY DEF Goroutine
<1>2. /\ exec' = Append(exec, fresh) /\ caller' = [at |-> caller.at + 1, waiting |-> TRUE]
      /\ UNCHANGED <<prog, wrapped, rotatedIn, object, results, faults>> /\ held' = {object}
      /\ ~caller.waiting /\ caller.at < Len(prog)
    BY DEF Call
<1>3. \A c \in Clients : fresh[c].pc = "try" /\ fresh[c].left = Steps OBVIOUS
<1> HIDE DEF fresh
<1>4. /\ exec' \in Seq([Clients -> Goroutine]) /\ Len(exec') = caller.at + 1
      /\ exec'[caller.at + 1] = fresh /\ \A i \in 1..caller.at : exec'[i] = exec[i]
      /\ DOMAIN exec' = 1..(caller.at + 1)
    BY <1>1, <1>2
<1>5. ClientTypeOK'
    BY <1>2, <1>4 DEF ClientInv, ClientTypeOK, Goroutine
<1>6. (CallsCounted /\ AttemptsLeft)'
    BY <1>2, <1>3, <1>4 DEF CallsCounted, AttemptsLeft, ClientInv, Calls
<1>7. AnswersReady'
    BY <1>2, <1>3, <1>4 DEF AnswersReady, ClientInv, Calls
<1>8. (ErrorsSoFar /\ TrustedCarriesOn)'
    BY <1>2, <1>3, <1>4 DEF ErrorsSoFar, TrustedCarriesOn, ClientInv
<1> QED BY <1>5, <1>6, <1>7, <1>8 DEF ClientInv

\* A call returns: one result more.
ReturnedWith(r) ==
    /\ results' \in Seq(Answers \union {LastError})
    /\ Len(results') = caller.at /\ DOMAIN results' = 1..caller.at
    /\ results'[caller.at] = r
    /\ DOMAIN results = 1..(caller.at - 1)
    /\ \A i \in 1..(caller.at - 1) : results'[i] = results[i]
    /\ caller' \in [at: 0..Len(prog), waiting: BOOLEAN]
    /\ caller'.at = caller.at /\ caller'.waiting = FALSE

LEMMA Returned ==
    ASSUME ClientInv, caller.waiting, NEW r \in Answers \union {LastError},
           Return(r)
    PROVE  ReturnedWith(r)
<1> DEFINE S == Answers \union {LastError}
<1>1. results \in Seq(S) /\ r \in S /\ Len(results) = caller.at - 1 /\ caller.at \in Nat
    BY ClientTypes
<1>2. results' = Append(results, r) /\ caller' = [caller EXCEPT !.waiting = FALSE]
    BY DEF Return
<1>3. /\ caller' \in [at: 0..Len(prog), waiting: BOOLEAN]
      /\ caller'.at = caller.at /\ caller'.waiting = FALSE
    BY <1>2, ClientTypes
<1> HIDE DEF S
<1>4. /\ results' \in Seq(S)
      /\ Len(results') = caller.at /\ DOMAIN results' = 1..caller.at
      /\ results'[caller.at] = r
      /\ DOMAIN results = 1..(caller.at - 1)
      /\ \A i \in 1..(caller.at - 1) : results'[i] = results[i]
    BY <1>1, <1>2
<1> QED BY <1>3, <1>4 DEF S, ReturnedWith

LEMMA TimeoutStep == ClientInv /\ Timeout => ClientInv'
<1> SUFFICES ASSUME ClientInv, Timeout PROVE ClientInv' OBVIOUS
<1> USE ClientTypes
<1>1. /\ caller.waiting /\ Return(LastError)
      /\ UNCHANGED <<prog, wrapped, rotatedIn, object, exec, held>>
    BY DEF Timeout
<1>2. \/ faults' = faults /\ exec[caller.at]["old"].pc = "end" /\ exec[caller.at]["new"].pc = "end"
      \/ faults < MaxFaults /\ faults' = faults + 1
    BY DEF Timeout
<1>3. ReturnedWith(LastError) BY <1>1, Returned
<1>4. faults' \in 0..MaxFaults BY <1>2
<1>5. ClientTypeOK'
    BY <1>1, <1>3, <1>4 DEF ClientInv, ClientTypeOK, ReturnedWith
<1>6. (CallsCounted /\ AttemptsLeft /\ AnswersReady /\ TrustedCarriesOn)'
    BY <1>1, <1>3
    DEF ClientInv, CallsCounted, AttemptsLeft, AnswersReady, TrustedCarriesOn, Calls,
        ReturnedWith
<1>7. ErrorsSoFar'
    <2> SUFFICES ASSUME faults' = 0, NEW i \in 1..caller.at, results'[i] = LastError
                 PROVE  /\ rotatedIn = i
                        /\ exec[i]["new"].pc = "end"
                        /\ wrapped => exec[i]["new"].left = 0
        BY <1>1, <1>3 DEF ErrorsSoFar, ReturnedWith
    <2>1. faults = 0 /\ exec[caller.at]["old"].pc = "end" /\ exec[caller.at]["new"].pc = "end"
        BY <1>2
    <2>2. CASE i = caller.at BY <1>1, <2>1, <2>2 DEF ClientInv, TrustedCarriesOn
    <2>3. CASE i # caller.at
        <3>1. i \in DOMAIN results /\ results[i] = LastError
            BY <1>3, <2>3 DEF ReturnedWith
        <3> QED BY <2>1, <3>1 DEF ClientInv, ErrorsSoFar
    <2> QED BY <2>2, <2>3
<1> QED BY <1>1, <1>5, <1>6, <1>7 DEF ClientInv

LEMMA ReceiveStep ==
    ASSUME ClientInv, NEW i \in Calls, NEW c \in Clients, Receive(i, c)
    PROVE  ClientInv'
<1> USE ClientTypes
<1> DEFINE g == [exec[i][c] EXCEPT !.pc = "end"]
<1>1. /\ caller.waiting /\ i = caller.at /\ exec[i][c].pc = "send"
      /\ Return(exec[i][c].got)
      /\ UNCHANGED <<prog, wrapped, rotatedIn, object, faults, held>>
    BY DEF Receive
<1>2. exec' = [exec EXCEPT ![i][c] = g] BY DEF Receive
<1>3. g \in Goroutine /\ g.pc = "end" BY DEF Goroutine
<1>4. exec[i][c].got \in Answers BY <1>1 DEF ClientInv, AnswersReady
<1>5. exec[i][c].got # LastError
    BY <1>4 DEF Answers, LastError, Ok, NotFound
<1>6. ReturnedWith(exec[i][c].got) BY <1>1, <1>4, Returned
<1> HIDE DEF g
<1>7. Becomes(i, c, g) BY <1>2, <1>3, OneGoroutine
<1>8. ClientTypeOK'
    BY <1>1, <1>6, <1>7 DEF ClientInv, ClientTypeOK, ReturnedWith, Goroutine, Becomes
<1>9. (CallsCounted /\ AttemptsLeft /\ TrustedCarriesOn)'
    BY <1>1, <1>3, <1>6, <1>7
    DEF ClientInv, CallsCounted, AttemptsLeft, TrustedCarriesOn, Calls, ReturnedWith, Becomes
<1>10. AnswersReady'
    BY <1>1, <1>3, <1>6, <1>7 DEF ClientInv, AnswersReady, Calls, ReturnedWith, Becomes
<1>11. ErrorsSoFar'
    <2> SUFFICES ASSUME faults = 0, NEW j \in 1..caller.at, results'[j] = LastError
                 PROVE  /\ rotatedIn = j
                        /\ exec'[j]["new"].pc = "end"
                        /\ wrapped => exec'[j]["new"].left = 0
        BY <1>1, <1>6 DEF ErrorsSoFar, ReturnedWith
    <2>1. j # i BY <1>1, <1>5, <1>6 DEF ReturnedWith
    <2>2. j \in DOMAIN results /\ results[j] = LastError
        BY <1>1, <1>6, <2>1 DEF ReturnedWith
    <2>3. exec'[j]["new"] = exec[j]["new"] BY <1>7, <2>1 DEF Becomes
    <2> QED BY <2>2, <2>3 DEF ClientInv, ErrorsSoFar
<1> QED BY <1>1, <1>8, <1>9, <1>10, <1>11 DEF ClientInv

LEMMA RotatedStep == ClientInv /\ Rotated => ClientInv'
<1> SUFFICES ASSUME ClientInv, Rotated PROVE ClientInv' OBVIOUS
<1> USE ClientTypes
<1>1. /\ rotatedIn = -1 /\ rotatedIn' = IF caller.waiting THEN caller.at ELSE 0
      /\ UNCHANGED <<prog, wrapped, object, caller, results, exec, faults, held>>
    BY DEF Rotated, NotYet
<1>2. rotatedIn' \in 0..Len(prog) BY <1>1
<1>3. ClientTypeOK' BY <1>1, <1>2 DEF ClientInv, ClientTypeOK, NotYet
<1>4. (CallsCounted /\ AttemptsLeft /\ AnswersReady)'
    BY <1>1 DEF ClientInv, CallsCounted, AttemptsLeft, AnswersReady, Calls
<1>5. ErrorsSoFar' BY <1>1 DEF ClientInv, ErrorsSoFar
<1>6. TrustedCarriesOn' BY <1>1 DEF ClientInv, TrustedCarriesOn, NotYet
<1> QED BY <1>3, <1>4, <1>5, <1>6 DEF ClientInv

\* The step of a goroutine that does not end the call.
LEMMA GoroutineStep ==
    ASSUME ClientInv, NEW i \in Calls, NEW c \in Clients,
           NEW g \in Goroutine, Becomes(i, c, g), exec[i][c].pc = "try",
           UNCHANGED <<prog, wrapped, rotatedIn, caller, results>>,
           object' \in Objects, held' \subseteq Objects, held \subseteq held',
           object = Absent => object' = Absent,
           g.pc = "try" => g.left > 0,
           g.pc = "send" => /\ g.got \in Answers
                            /\ Seen(prog[i], g.got, held')
                            /\ prog[i].kind = "delete" => object' = Absent,
           \/ faults' \in 1..MaxFaults
           \/ /\ faults' = faults
              /\ Trusted(c) => g.pc # "end"
              /\ wrapped /\ g.pc = "end" => g.left = 0
    PROVE  ClientInv'
<1> USE ClientTypes
<1>1. ClientTypeOK'
    <2>1. faults' \in 0..MaxFaults BY DEF ClientInv, ClientTypeOK
    <2> QED BY <2>1 DEF ClientInv, ClientTypeOK, Goroutine, Becomes
<1>2. (CallsCounted /\ AttemptsLeft)'
    BY DEF ClientInv, CallsCounted, AttemptsLeft, Calls, Becomes
<1>3. AnswersReady'
    <2> SUFFICES ASSUME NEW j \in DOMAIN exec, NEW d \in Clients, exec'[j][d].pc = "send"
                 PROVE  /\ exec'[j][d].got \in Answers
                        /\ j = caller.at => Seen(prog[j], exec'[j][d].got, held')
                        /\ prog[j].kind = "delete" => object' = Absent
        BY DEF AnswersReady, Calls, Becomes
    <2>1. CASE j = i /\ d = c BY <2>1 DEF Becomes
    <2>2. CASE j # i \/ d # c
        <3>1. exec'[j][d] = exec[j][d] BY <2>2 DEF Becomes
        <3> QED BY <3>1 DEF ClientInv, AnswersReady, Seen, Calls
    <2> QED BY <2>1, <2>2
<1>4. ErrorsSoFar'
    <2> SUFFICES ASSUME faults = 0, NEW j \in DOMAIN results, results[j] = LastError
                 PROVE  /\ rotatedIn = j
                        /\ exec'[j]["new"].pc = "end"
                        /\ wrapped => exec'[j]["new"].left = 0
        BY DEF ErrorsSoFar
    <2>1. /\ rotatedIn = j /\ exec[j]["new"].pc = "end"
          /\ wrapped => exec[j]["new"].left = 0
        BY DEF ClientInv, ErrorsSoFar
    <2>2. j \in DOMAIN exec /\ (j # i \/ "new" # c) BY <2>1
    <2> QED BY <2>1, <2>2 DEF Becomes
<1>5. TrustedCarriesOn'
    <2> SUFFICES ASSUME faults' = faults, faults = 0, caller.waiting,
                        Trusted(c) => g.pc # "end",
                        wrapped /\ g.pc = "end" => g.left = 0
                 PROVE  TrustedCarriesOn'
        BY DEF TrustedCarriesOn
    <2>1. CASE i # caller.at
        BY <2>1 DEF ClientInv, TrustedCarriesOn, Becomes
    <2>2. CASE i = caller.at /\ c = "old"
        BY <2>2 DEF ClientInv, TrustedCarriesOn, Becomes, Trusted
    <2>3. CASE i = caller.at /\ c = "new"
        BY <2>3 DEF ClientInv, TrustedCarriesOn, Becomes, Trusted
    <2> QED BY <2>1, <2>2, <2>3 DEF Clients
<1> QED BY <1>1, <1>2, <1>3, <1>4, <1>5 DEF ClientInv

LEMMA AnsweredStep ==
    ASSUME ClientInv, NEW i \in Calls, NEW c \in Clients, Answered(i, c)
    PROVE  ClientInv'
<1> USE ClientTypes
<1> DEFINE g == [exec[i][c] EXCEPT !.pc = "send", !.got = Reply(prog[i])]
<1>1. prog[i] \in Requests OBVIOUS
<1>2. /\ Effect(prog[i]) \in Objects /\ Reply(prog[i]) \in Answers
      /\ object = Absent \/ prog[i].kind = "delete" =>
            Effect(prog[i]) = Absent
      /\ Seen(prog[i], Reply(prog[i]), {Effect(prog[i])})
    BY <1>1, EffectOfCall
<1>3. /\ exec[i][c].pc = "try" /\ object' = Effect(prog[i])
      /\ held' = held \union {Effect(prog[i])}
      /\ UNCHANGED <<prog, wrapped, rotatedIn, caller, results, faults>>
    BY DEF Answered
<1>4. exec' = [exec EXCEPT ![i][c] = g] BY DEF Answered
<1>5. g \in Goroutine /\ g.pc = "send" /\ g.got = Reply(prog[i])
    BY <1>2 DEF Goroutine
<1> HIDE DEF g
<1>6. Becomes(i, c, g) BY <1>4, <1>5, OneGoroutine
<1>7. Seen(prog[i], g.got, held') BY <1>2, <1>3, <1>5 DEF Seen
<1>8. held' \subseteq Objects BY <1>2, <1>3 DEF ClientInv, ClientTypeOK
<1> QED BY <1>2, <1>3, <1>5, <1>6, <1>7, <1>8, GoroutineStep

LEMMA UntrustedStep ==
    ASSUME ClientInv, NEW i \in Calls, NEW c \in Clients, Untrusted(i, c)
    PROVE  ClientInv'
<1> USE ClientTypes
<1> DEFINE g == IF wrapped THEN Retry(exec[i][c]) ELSE [exec[i][c] EXCEPT !.pc = "end"]
<1>1. /\ exec[i][c].pc = "try" /\ ~Trusted(c)
      /\ UNCHANGED <<prog, wrapped, rotatedIn, object, caller, results, faults, held>>
    BY DEF Untrusted
<1>2. exec' = [exec EXCEPT ![i][c] = g] BY DEF Untrusted
<1>3. exec[i][c].left > 0 BY <1>1 DEF ClientInv, AttemptsLeft
<1>4. /\ g \in Goroutine /\ g.pc \in {"try", "end"}
      /\ g.pc = "try" => g.left > 0
      /\ wrapped /\ g.pc = "end" => g.left = 0
    <2>1. CASE wrapped BY <1>1, <1>3, <2>1, RetryTyped
    <2>2. CASE ~wrapped BY <2>2 DEF Goroutine
    <2> QED BY <2>1, <2>2
<1> HIDE DEF g
<1>5. Becomes(i, c, g) BY <1>2, <1>4, OneGoroutine
<1>6. object \in Objects /\ held \subseteq Objects BY DEF ClientInv, ClientTypeOK
<1> QED BY <1>1, <1>4, <1>5, <1>6, GoroutineStep

LEMMA FailedStep ==
    ASSUME ClientInv, NEW i \in Calls, NEW c \in Clients, Failed(i, c)
    PROVE  ClientInv'
<1> USE ClientTypes
<1> DEFINE g == Retry(exec[i][c])
<1>1. prog[i] \in Requests OBVIOUS
<1>2. /\ Effect(prog[i]) \in Objects
      /\ object = Absent => Effect(prog[i]) = Absent
    BY <1>1, EffectOfCall
<1>3. /\ exec[i][c].pc = "try" /\ object' \in {object, Effect(prog[i])}
      /\ held' = held \union {object'} /\ faults' \in 1..MaxFaults
      /\ UNCHANGED <<prog, wrapped, rotatedIn, caller, results>>
    BY DEF Failed
<1>4. exec' = [exec EXCEPT ![i][c] = g] BY DEF Failed
<1>5. exec[i][c].left > 0 BY <1>3 DEF ClientInv, AttemptsLeft
<1>6. /\ g \in Goroutine /\ g.pc \in {"try", "end"}
      /\ g.pc = "try" => g.left > 0
    BY <1>3, <1>5, RetryTyped
<1> HIDE DEF g
<1>7. Becomes(i, c, g) BY <1>4, <1>6, OneGoroutine
<1>8. object' \in Objects /\ held' \subseteq Objects
    BY <1>2, <1>3 DEF ClientInv, ClientTypeOK
<1> QED BY <1>2, <1>3, <1>6, <1>7, <1>8, GoroutineStep

LEMMA ClientStep == ClientInv /\ [ClientNext]_clientVars => ClientInv'
<1> SUFFICES ASSUME ClientInv, [ClientNext]_clientVars PROVE ClientInv' OBVIOUS
<1>1. CASE UNCHANGED clientVars
    BY <1>1 DEF clientVars, ClientInv, ClientTypeOK, CallsCounted, AttemptsLeft, AnswersReady,
                ErrorsSoFar, TrustedCarriesOn, Calls
<1>2. CASE ClientNext
    BY <1>2, CallStep, TimeoutStep, ReceiveStep, RotatedStep, AnsweredStep, UntrustedStep,
       FailedStep DEF ClientNext, Caller, Goroutines
<1> QED BY <1>1, <1>2

\* The types of the composite client.
THEOREM ClientTypeCorrect == ClientSpec => []ClientTypeOK
<1>1. ClientInv => ClientTypeOK BY DEF ClientInv
<1> QED BY <1>1, ClientStarts, ClientStep, PTL DEF ClientSpec

\* For any number of calls and attempts: a call that meets no fault fails only
\* if the API server changed authority while it was made.
THEOREM ClientErrors == ClientSpec => []ErrorsHaveCauses
<1>1. ClientInv => ErrorsHaveCauses BY DEF ClientInv, ErrorsSoFar, ErrorsHaveCauses
<1> QED BY <1>1, ClientStarts, ClientStep, PTL DEF ClientSpec

\* Answers are true of the time of the call, whichever goroutine gave them.
THEOREM ClientAnswers == ClientSpec => AnswersAreTrue
<1> DEFINE A == \A i \in Calls :
        Len(results') = i /\ Len(results) < i /\ results'[i] # LastError =>
            LET r == results'[i]
            IN  CASE prog[i].kind \in {"list", "get"} ->
                        (IF r = NotFound THEN Absent ELSE r.x) \in held
                  [] prog[i].kind = "delete" -> object = Absent
                  [] prog[i].kind = "patch"  -> IF r = NotFound THEN Absent \in held
                                                ELSE prog[i].value \in held
<1>1. ClientInv /\ [ClientNext]_clientVars => [A]_clientVars
    <2> SUFFICES ASSUME ClientInv, ClientNext, NEW i \in Calls,
                        Len(results') = i, Len(results) < i, results'[i] # LastError
                 PROVE  LET r == results'[i]
                        IN  CASE prog[i].kind \in {"list", "get"} ->
                                    (IF r = NotFound THEN Absent ELSE r.x) \in held
                              [] prog[i].kind = "delete" -> object = Absent
                              [] prog[i].kind = "patch"  ->
                                    IF r = NotFound THEN Absent \in held
                                    ELSE prog[i].value \in held
        OBVIOUS
    <2> USE ClientTypes
    <2>1. results' # results OBVIOUS
    <2>2. ~Timeout
        <3> SUFFICES ASSUME Timeout PROVE FALSE OBVIOUS
        <3>1. ReturnedWith(LastError) BY Returned DEF Timeout
        <3> QED BY <3>1 DEF ReturnedWith
    <2>3. PICK j \in Calls, c \in Clients : Receive(j, c)
        BY <2>1, <2>2 DEF ClientNext, Caller, Goroutines, Call,
                          Rotated, Answered, Untrusted, Failed
    <2>4. caller.waiting /\ j = caller.at /\ exec[j][c].pc = "send" /\ Return(exec[j][c].got)
        BY <2>3 DEF Receive
    <2>5. /\ exec[j][c].got \in Answers /\ Seen(prog[j], exec[j][c].got, held)
          /\ prog[j].kind = "delete" => object = Absent
        BY <2>4 DEF ClientInv, AnswersReady
    <2>6. ReturnedWith(exec[j][c].got) BY <2>4, <2>5, Returned
    <2>7. i = j /\ results'[i] = exec[j][c].got BY <2>4, <2>6 DEF ReturnedWith
    <2>8. prog[i].kind \in Kinds BY DEF Requests
    <2> QED BY <2>5, <2>7, <2>8 DEF Seen, Kinds
<1> QED BY <1>1, ClientStarts, ClientStep, PTL DEF ClientSpec, AnswersAreTrue

=============================================================================
