---------------------------- MODULE RotateCerts ----------------------------
(***************************************************************************)
(* rotate-certs (cmd/rotate_certs.go, cmd/rotatecerts): new certificates   *)
(* are copied to all masters, which are restarted, then to the agents,     *)
(* whose kubelets are, and the API model is written last. A run that fails *)
(* or is killed is repeated, with --force ("it is safe to rerun").         *)
(*                                                                         *)
(* A set of certificates is the number of the run that generated it. Each  *)
(* run talks to the API server through a client for the old and one for    *)
(* the new certificate authority (CompositeClient). Masters are VMs of an  *)
(* availability set.                                                       *)
(***************************************************************************)
EXTENDS Integers, FiniteSets

CONSTANTS
    MasterCount,  \* masterProfile.count
    Agents,       \* names of agent nodes
    First,        \* the agents there are in the beginning
    Windows,      \* the agents that run Windows
    Successes,    \* defaultSuccessesNeeded: 5
    MaxRuns       \* bound: runs of the command; the last one meets no fault

ASSUME RotateAssumption ==
    /\ MasterCount \in {1, 3, 5}
    /\ First \subseteq Agents /\ Windows \subseteq Agents
    /\ Successes \in Nat \ {0} /\ MaxRuns \in Nat \ {0}

VARIABLES
    run,      \* the command
    files,    \* the API model, _rotate_certs_backup and _rotate_certs_output
    masters,
    agents,
    cluster   \* what the control plane stores

vars == <<run, files, masters, agents, cluster>>

Masters == 0..(MasterCount - 1)
None == -1
CAs  == 0..MaxRuns
Maybe(S) == S \union {None}

\* The steps of run, in order. What follows a step is the one after it.
After ==
    [pause |-> "nodes", nodes |-> "pods", pods |-> "distribute",
     distribute |-> "backup", backup |-> "cp_certs", cp_certs |-> "reboot",
     reboot |-> "vms", vms |-> "nodesBack", nodesBack |-> "cp_proxy",
     cp_proxy |-> "cleanup", cleanup |-> "nodesDone", nodesDone |-> "podsDone",
     podsDone |-> "list",
     list |-> "distributeA", distributeA |-> "backupA", backupA |-> "agent_certs",
     agent_certs |-> "cleanupA", cleanupA |-> "nodesA", nodesA |-> "tokens",
     tokens |-> "rollout", rollout |-> "system", system |-> "save",
     save |-> "remove", remove |-> "resume"]

Waits      == {"nodes", "pods", "vms", "nodesBack", "nodesDone", "podsDone", "nodesA", "system"}
MasterSteps == {"distribute", "backup", "cp_certs", "reboot", "cp_proxy", "cleanup"}
AgentSteps  == {"distributeA", "backupA", "agent_certs", "cleanupA"}
Phases     == DOMAIN After \union {"resume", "off"}

\* disk: /etc/kubernetes/certs; mem: what the processes have loaded; bak:
\* certs.bak; staged: rotate-certs/certs; proxy: the front-proxy certificates.
MasterNodes == [disk: CAs, mem: CAs, bak: Maybe(CAs), staged: Maybe(CAs), proxy: CAs]
AgentNodes  == [there: BOOLEAN, mem: CAs, bak: Maybe(CAs), staged: Maybe(CAs)]

TypeOK ==
    /\ run \in [n: 0..MaxRuns, pc: Phases, todo: SUBSET (Masters \union Agents),
                nodes: SUBSET Agents, force: BOOLEAN, old: CAs, replicas: {0, 1},
                polls: 0..Successes, err: BOOLEAN]
    /\ files \in [model: CAs, backup: Maybe(CAs), output: Maybe(CAs)]
    /\ masters \in [Masters -> MasterNodes]
    /\ agents \in [Agents -> AgentNodes]
    /\ cluster \in [proxy: CAs, tokens: CAs, mounted: CAs, autoscaler: {0, 1}]

Init ==
    /\ run = [n |-> 0, pc |-> "off", todo |-> {}, nodes |-> {}, force |-> FALSE, old |-> 0,
              replicas |-> 0, polls |-> 0, err |-> FALSE]
    /\ files = [model |-> 0, backup |-> None, output |-> None]
    /\ masters = [m \in Masters |->
            [disk |-> 0, mem |-> 0, bak |-> None, staged |-> None, proxy |-> 0]]
    /\ agents = [a \in Agents |->
            [there |-> a \in First, mem |-> 0, bak |-> None, staged |-> None]]
    /\ cluster \in [proxy: {0}, tokens: {0}, mounted: {0}, autoscaler: {0, 1}]

-----------------------------------------------------------------------------
(* The API server *)

\* The authority most masters have loaded: etcd has a quorum only among them.
Serving(ca) == 2 * Cardinality({m \in Masters : masters[m].mem = ca}) > MasterCount

\* One of the two clients reaches the API server.
Reachable == Serving(run.old) \/ Serving(run.n)

Ready(ca) == Serving(ca) /\ Reachable

MastersReady == \E ca \in CAs : Ready(ca) /\ \A m \in Masters : masters[m].mem = ca
AgentsReady  == \E ca \in CAs : Ready(ca) /\ \A a \in run.nodes : agents[a].mem = ca

\* What a wait waits for. kube-system also has pods on every agent.
Condition(pc) ==
    CASE pc = "vms"    -> TRUE
      [] pc = "nodesA" -> AgentsReady
      [] pc = "system" -> MastersReady /\ AgentsReady
      [] OTHER         -> MastersReady

-----------------------------------------------------------------------------
(* The steps of run *)

\* The nodes a step visits, one after the other and, as rcc.nodes is a map, in
\* any order.
Nodes(pc, listed) ==
    CASE pc \in MasterSteps -> Masters
      [] pc \in AgentSteps  -> listed
      [] OTHER              -> {}

To(r, pc) == [r EXCEPT !.pc = pc, !.todo = Nodes(pc, r.nodes), !.polls = 0]
Advance   == run' = To(run, After[run.pc])

\* validateArgs, loadAPIModel, init; backupCerts and updateCertificateProfile
\* write the old and the new certificates, getKubeClient reads both.
Start ==
    /\ run.pc = "off"
    /\ run.n < MaxRuns
    /\ \E force \in BOOLEAN :
        /\ run.n + 1 = MaxRuns => force
        /\ run' = To([run EXCEPT !.n = @ + 1, !.force = force, !.old = files.model,
                                 !.replicas = 0, !.err = FALSE, !.nodes = {}],
                     IF force THEN "distribute" ELSE "pause")
    /\ files' = [files EXCEPT !.backup = files.model, !.output = run.n + 1]
    /\ UNCHANGED <<masters, agents, cluster>>

\* Mistake: replicas are recorded, the patch is left out.
NotPaused ==
    /\ run.pc = "pause"
    /\ Reachable
    /\ run' = To([run EXCEPT !.replicas = cluster.autoscaler], After.pause)
    /\ UNCHANGED <<files, masters, agents, cluster>>

\* PauseClusterAutoscaler. A deployment that is absent counts as 0 replicas.
Pause ==
    /\ run.pc = "pause"
    /\ Reachable
    /\ run' = To([run EXCEPT !.replicas = cluster.autoscaler], After.pause)
    /\ cluster' = [cluster EXCEPT !.autoscaler = 0]
    /\ UNCHANGED <<files, masters, agents>>

\* waitForNodesCondition and its siblings: successes are counted in total. A
\* readiness that comes and goes delays the wait.
Poll ==
    /\ run.pc \in Waits
    /\ Condition(run.pc)
    /\ IF run.polls + 1 < Successes /\ run.pc # "vms"
       THEN run' = [run EXCEPT !.polls = @ + 1]
       ELSE Advance
    /\ UNCHANGED <<files, masters, agents, cluster>>

\* waitForKubeSystemReadiness: an error is logged.
SystemNotReady ==
    /\ run.pc = "system"
    /\ Advance
    /\ UNCHANGED <<files, masters, agents, cluster>>

\* A step over nodes advances when it has visited the last one.
VisitNode(x) ==
    run' = IF run.todo = {x} THEN To(run, After[run.pc])
           ELSE [run EXCEPT !.todo = @ \ {x}]

\* rotate-certs.sh: a backup is made unless there is one.
Backup(bak, certs) == IF bak = None THEN certs ELSE bak

\* Mistake: without the script remoteBashScript does nothing, and succeeds.
NotCopied(m) == masters[m].disk

\* Mistake: a master that was rotated in an earlier run is left alone.
CopiedOnce(m) == IF masters[m].bak = masters[m].disk THEN masters[m].staged
                 ELSE masters[m].disk

\* cp_certs
Copied(m) == masters[m].staged

\* What each step does to a master. cp_proxy: the first master stores new
\* front-proxy certificates in etcd; the others write to disk what they find
\* there (generateproxycerts.sh).
MasterNode(m) ==
    [masters[m] EXCEPT
        !.staged = CASE run.pc = "distribute" -> run.n [] run.pc = "cleanup" -> None [] OTHER -> @,
        !.bak    = CASE run.pc = "backup" -> Backup(@, masters[m].disk)
                     [] run.pc = "cleanup" -> None [] OTHER -> @,
        !.disk   = IF run.pc = "cp_certs" THEN Copied(m) ELSE @,
        !.mem    = IF run.pc = "reboot" THEN masters[m].disk ELSE @,
        !.proxy  = CASE run.pc = "cp_proxy" /\ m = 0 -> run.n
                     [] run.pc = "cp_proxy" /\ m # 0 -> cluster.proxy [] OTHER -> @]

ProxyStored(m) ==
    IF run.pc = "cp_proxy" /\ m = 0 THEN [cluster EXCEPT !.proxy = run.n] ELSE cluster

\* distributeCerts, backupRemote, rotateMasters, rebootNodes (in the order of
\* GetMasterVMNameList), cleanupRemote
VisitMaster(m) ==
    /\ run.pc \in MasterSteps
    /\ m \in run.todo
    /\ run.pc = "reboot" => \A k \in run.todo : m <= k
    /\ masters' = [masters EXCEPT ![m] = MasterNode(m)]
    /\ cluster' = ProxyStored(m)
    /\ VisitNode(m)
    /\ UNCHANGED <<files, agents>>

\* getAgentNodes; a step over no nodes does nothing
GetAgentNodes ==
    /\ run.pc = "list"
    /\ Reachable
    /\ run' = LET r == [run EXCEPT !.nodes = {a \in Agents : agents[a].there}]
              IN  To(r, IF r.nodes = {} THEN "nodesA" ELSE After.list)
    /\ UNCHANGED <<files, masters, agents, cluster>>

\* The script on Windows overwrites an earlier backup.
AgentNode(a) ==
    [agents[a] EXCEPT
        !.staged = CASE run.pc = "distributeA" -> run.n [] run.pc = "cleanupA" -> None [] OTHER -> @,
        !.bak    = CASE run.pc = "backupA" -> (IF a \in Windows THEN agents[a].mem
                                               ELSE Backup(@, agents[a].mem))
                     [] run.pc = "cleanupA" -> None [] OTHER -> @,
        !.mem    = IF run.pc = "agent_certs" THEN agents[a].staged ELSE @]

\* agent_certs restarts the kubelet; deletePodFunc then deletes kube-proxy,
\* on Linux.
VisitAgent(a) ==
    /\ run.pc \in AgentSteps
    /\ a \in run.todo
    /\ run.pc = "agent_certs" /\ a \notin Windows => Reachable
    /\ agents' = [agents EXCEPT ![a] = AgentNode(a)]
    /\ VisitNode(a)
    /\ UNCHANGED <<files, masters, cluster>>

\* deleteSATokens: kube-controller-manager makes new ones, signed with the
\* certificates it has loaded.
DeleteSATokens ==
    /\ run.pc = "tokens"
    /\ Reachable
    /\ \E ca \in CAs : Serving(ca) /\ cluster' = [cluster EXCEPT !.tokens = ca]
    /\ Advance
    /\ UNCHANGED <<files, masters, agents>>

\* rolloutDeployments and rolloutDaemonSets: their pods mount the new tokens.
Rollout ==
    /\ run.pc = "rollout"
    /\ Reachable
    /\ cluster' = [cluster EXCEPT !.mounted = cluster.tokens]
    /\ Advance
    /\ UNCHANGED <<files, masters, agents>>

\* updateAPIModel writes the API model and then removes the output directory.
UpdateAPIModel ==
    /\ run.pc \in {"save", "remove"}
    /\ files' = IF run.pc = "save" THEN [files EXCEPT !.model = run.n]
                ELSE [files EXCEPT !.output = None]
    /\ Advance
    /\ UNCHANGED <<masters, agents, cluster>>

\* The deferred resume of a run that paused an autoscaler with replicas.
Resume ==
    /\ run.pc = "resume"
    /\ run.replicas > 0 => Reachable
    /\ cluster' = IF run.replicas > 0 THEN [cluster EXCEPT !.autoscaler = run.replicas]
                  ELSE cluster
    /\ run' = To(run, "off")
    /\ UNCHANGED <<files, masters, agents>>

-----------------------------------------------------------------------------
(* Failures *)

Fault == run.n < MaxRuns

\* A call or a remote command fails and run returns. A step over nodes has
\* visited some of them; a wait or a call may also be bound to time out.
Fail ==
    /\ run.pc \notin {"off", "resume", "system"}
    /\ \/ Fault
       \/ run.pc \in Waits /\ ~Condition(run.pc)
       \/ run.pc \in {"pause", "list", "agent_certs", "tokens", "rollout"} /\ ~Reachable
    /\ run' = To([run EXCEPT !.err = TRUE], "resume")
    /\ UNCHANGED <<files, masters, agents, cluster>>

\* A remote command fails after it had its effect on the node.
FailAfterwards ==
    /\ Fault
    /\ run.pc \in MasterSteps \union AgentSteps
    /\ \E x \in run.todo :
        \/ /\ x \in Masters
           /\ masters' = [masters EXCEPT ![x] = MasterNode(x)]
           /\ cluster' = ProxyStored(x)
           /\ UNCHANGED agents
        \/ /\ x \in Agents
           /\ agents' = [agents EXCEPT ![x] = AgentNode(x)]
           /\ UNCHANGED <<masters, cluster>>
    /\ run' = To([run EXCEPT !.err = TRUE], "resume")
    /\ UNCHANGED files

\* A warning is logged.
ResumeFails ==
    /\ run.pc = "resume"
    /\ run.replicas > 0
    /\ Fault \/ ~Reachable
    /\ run' = To(run, "off")
    /\ UNCHANGED <<files, masters, agents, cluster>>

\* The process ends without its deferred calls.
Kill ==
    /\ Fault
    /\ run.pc # "off"
    /\ run' = To([run EXCEPT !.err = TRUE], "off")
    /\ UNCHANGED <<files, masters, agents, cluster>>

\* The autoscaler adds a node. Its template has the first certificates until
\* the next upgrade.
NodeAdded(a) ==
    /\ cluster.autoscaler > 0
    /\ ~agents[a].there
    /\ agents' = [agents EXCEPT ![a].there = TRUE, ![a].mem = 0]
    /\ UNCHANGED <<run, files, masters, cluster>>

Command ==
    \/ Start \/ Pause \/ Poll \/ SystemNotReady \/ GetAgentNodes \/ DeleteSATokens
    \/ Rollout \/ UpdateAPIModel \/ Resume
    \/ \E m \in Masters : VisitMaster(m)
    \/ \E a \in Agents : VisitAgent(a)

Next ==
    \/ Command \/ Fail \/ FailAfterwards \/ ResumeFails \/ Kill
    \/ \E a \in Agents : NodeAdded(a)

Spec == Init /\ [][Next]_vars

\* Operators repeat the command until it succeeds, and it does not stand still.
FairSpec == Spec /\ WF_vars(Command \/ Fail \/ ResumeFails)

-----------------------------------------------------------------------------
(* Properties *)

Succeeded == run.n > 0 /\ run.pc \in {"resume", "off"} /\ ~run.err

\* A run that succeeds leaves one certificate authority: all masters have it
\* on disk and loaded, every agent that was listed has it, service account
\* tokens are signed with it and the API model names it, and etcd and the first
\* master hold the new front-proxy certificates, whatever runs before it left.
\* Without --force no agent is missed: the autoscaler is paused from before
\* the agents are listed until all of them have the new certificates.
SuccessMeansRotated ==
    Succeeded =>
        /\ \A m \in Masters : masters[m].disk = run.n /\ masters[m].mem = run.n
        /\ \A a \in Agents :
              \/ a \in run.nodes
              \/ agents[a].there /\ ~run.force /\ run.pc = "resume"
              => agents[a].mem = run.n
        /\ cluster.tokens = run.n /\ cluster.mounted = run.n
        /\ files.model = run.n
        /\ cluster.proxy = run.n /\ masters[0].proxy = run.n

\* An agent is given only certificates that every master already uses.
AgentsFollowMasters ==
    [][\A a \in Agents : agents'[a].mem # agents[a].mem =>
        \/ ~agents[a].there
        \/ \A m \in Masters : masters[m].mem = agents'[a].mem]_vars

\* docs/topics/rotate-certs.md: "it is safe to rerun" with --force. However runs
\* fail before, a forced run that meets no fault of its own succeeds.
RerunSucceeds == <>(run.n = MaxRuns /\ Succeeded /\ run.pc = "off")

=============================================================================
