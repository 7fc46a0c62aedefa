# A verification project for aks-engine-azurestack

aks-engine-azurestack is a command line program that creates and maintains
self-managed Kubernetes clusters on Azure and Azure Stack Hub. Creating a cluster
is one deployment. Maintaining one is where it is hard to get right: `upgrade`, `scale`
and `rotate-certs` replace, remove and restart machines of a running cluster in long
sequences of calls to Azure and to the Kubernetes API server, any of which can fail
before or after its effect. The operator then runs the same command again, and it has
to find out from the machines alone what the last run has left. What connects the
commands is a file, `apimodel.json`, that each of them reads, completes with defaults
and writes. These modules model that part of the program.

## Inventory

| Part | State it keeps | Operations | How it interacts | What is hard |
|---|---|---|---|---|
| Node drain (`pkg/operations/cordondrainvm.go`, `pkg/kubernetes/client.go`) | a copy of the node, list of pods, one goroutine per pod, `doneCh`, `errCh`, a timer | cordon with retries, list and filter, evict or delete, wait | called by scale-down, by the agent upgrade before a deletion and before a property copy | optimistic locking, the scheduler still binding pods, disruption budgets, the timeout, goroutines that outlive the call |
| VM deletion (`deletevm.go`, `scaledownagentpool.go`) | one goroutine per VM, `errChan`, list of failures | VM, NIC, disk, role assignments, in that order | called by scale-down and by both upgrades | calls that fail after their effect, deletions that complete later, a second call |
| Control plane upgrade (`upgradecluster.go`, `upgrader.go`, `upgrademasternode.go`) | the VMs listed by version, indices in use | status check, create missing, delete, create, validate | runs before the agent pools | death between two steps, NotReady masters, quorum |
| Agent pool upgrade (`upgrader.go`, `upgradeagentnode.go`) | map from index to VM and status, counters, queue of new nodes | scan, fill up, copy properties, delete, create, validate | uses drain and VM deletion | counting over failed runs, stale provisioning states, property hand-over |
| Scale (`cmd/scale.go`) | indices listed, `apimodel.json` | list, drain all, delete all, or deploy; save | uses drain and VM deletion | holes in the indices, partial failure, file against VMs |
| Upgrade command (`cmd/upgrade.go`, `upgradecluster.go`) | target, flags, VMs sorted by version, replica count in a deferred call | check the target, sort the VMs, check readiness, pause, masters, pools, resume, save | around both upgrades; `scale` in between | a kill between any two of these, commands with other targets and flags, version skew |
| Control plane status stream (`upgradecluster.go`) | last report received | list with backoff, send, extra time, deadline | decides whether the upgrade goes on | flapping masters, reports that come too late |
| Property copier (`upgrader.go`) | a goroutine, copies of two nodes | get both nodes, update twice | called per agent VM | a goroutine that goes on after success, other writers |
| Certificate rotation (`cmd/rotate_certs.go`, `cmd/rotatecerts`) | old and new certificates, node list | ordered steps over all nodes by SSH, waits, restarts | uses the composite client | failure between any two steps, reruns with new certificates |
| Composite client (`pkg/kubernetes/composite_client.go`) | last error, deadline, two goroutines per call | each call raced by the clients of the old and the new authority | under rotation | races, late retries, a change of authority inside a call |
| Versions (`pkg/api/common/versions.go`, `pkg/api/orchestrators.go`) | a table of versions | list, compare, upgrade paths, fall back to a patch | used by every command | gaps in the table |
| API model and defaults (`pkg/api`) | the file | load, complete, save | read and written by every command | saved defaults look like settings of the user |
| Templates (`pkg/engine`, `pkg/engine/transform`) | none: data to data | generate, remove resources for scale, addpool, upgrade | deployed by every command | dangling dependencies for one of very many definitions |

`PROJECT.json` lists every part with its status, and under `hazards` each place in
the code where something can go wrong that a test would hardly reach.

## Modules

All modules keep the control of the code and abstract data: a VM is an index and a
state, a pod is a model value, a template is its effect.

**NodeDrain** models `SafelyDrainNodeWithClient`. `GetNode`, `CordonAccepted`,
`CordonConflict` and `CordonError` are the cordon loop; the API server refuses a
copy whose `resourceVersion` is out of date. After a refused update `node` is the
empty object that client-go returns with an error, hence `nodeRef = "empty"`.
`ListPods` and `Dispatch` are `deleteOrEvictPodsSimple` and `deleteOrEvictPods`.
Each eviction goroutine is a state of `routine`, the collector is `ReceiveDone`,
`ReceiveErr` and `TimedOut`; a channel is the set of what is buffered in it.
A wait for a pod ends when a Get returns another UID (`WaitedForPod`): that is so when
the pod is gone, and with every Get that fails, because client-go returns an empty pod with
an error and `client.go:234` compares its UID before it looks at the error (`WaitMisread`).
Foreign writers, the scheduler, the kubelet and others who delete pods are actions
of the environment. The second listing of pods after an error, which is only
logged, is left out.

**VMDelete** models `CleanDeleteVirtualMachine` in one goroutine per VM and
`ScaleDownVMs` around them. Each Azure call succeeds, fails without effect or fails
after its effect; the deletion of a VM can also complete after the call has failed
(`deleting`, `Vanish`). A request names VMs that exist, as its caller lists them.
**BatchDelete** is what callers rely on: only requested VMs go, and one that is
still there when the call returns is among the failures. `VMDelete` implements it
under the mapping in `VMDelete.tla`: the failures become visible when the call
returns, and a killed call has, for its caller, failed for every VM.

**UpgradeMasters** models `UpgradeCluster` up to `RunUpgrade` and
`upgradeMasterNodes`. A run that fails or is killed (`Abort`) leaves the cloud as it
is at that point, or with the effect of the call in progress (`LeftBehind`), and
loses everything else. A deployment for an index whose VM exists changes nothing.

**UpgradeAgentPool** models one iteration of `upgradeAgentPools`. `view`, `upCount`,
`toBe` and `fresh` are `agentVMs`, `upgradedCount`, `toBeUpgradedCount` and
`newCreatedVMs`. `snap` is the listing made before the masters were upgraded, while
Azure goes on (`Settles`): the provisioning states acted on may be stale. The order
in which Go's map yields the VMs is free. Of the copy of properties it has what the
copy does to the pool: `StartCopy` cordons and drains the new node, or not when the drain
fails at once, unless `PreserveNodesProperties` is false (`preserve`); `CopyDone` writes
the properties and uncordons the node; `CopyGivenUp` is the warning after which the node
stays cordoned; `CopyAgain` is the goroutine that nobody stops, which completes a copy that
was given up as long as the old node is there and afterwards writes the taints of the VM
that took the old name. `givenUp` and `recopied` count what went wrong in this way, for the
properties to charge it.

**ScalePool** models `scaleCmd.run` for availability sets over several runs.
Draining a node and deleting a VM are their outcomes, as the modules above establish
them; `late` holds what Azure will still do when nobody waits any more. A new run may
start before that is done; `calm` records whether it was, and the properties about
counts are stated for the runs that began so.

**Versions** holds the operators of `versions.go` and `orchestrators.go`: what the
build supports, the upgrades it offers from a version, and the patch a definition gets
when the one it names is gone. A version is `<<minor, patch>>`. UpgradeRun and ApiModel
extend it, so that their runs exercise it on all their tables.

**UpgradeRun** models the upgrade command around these parts, for any sequence of
commands. `Start` is `loadCluster` with `validateTargetVersion`; `SetNodesToUpgrade`
compares every VM with the target; `GateReport`, `GateListFails` and `GateEnds` are the
status stream and the check that receives it (`GateEnds` is enabled from the start: the
deadline can pass at any time); `Paused`, `PauseTryFails` and `PauseFails` are
`SetClusterAutoscalerReplicaCount` and its retries; `EmptyPool` is the early return of
`upgradeAgentPools`; `Resume` is the deferred call. Replacing one VM is one step. `scale`
may recreate an agent from the saved version between two commands (`ScaledAway`).

**PropertyCopier** models `copyCustomPropertiesToNewNode`. Its goroutine loops without a
return after success; `Send` blocks when `ch` is full. The caller drains and deletes the
old node when it was told of success or gave up, and may create a VM of the same name,
whose node the goroutine then reads. The API server refuses writes of a stale copy
(`Accepted`), and others write the new node at any time. Labels and annotations are merged
into the new node, taints replaced as a whole (`upgrader.go:696`).

**RotateCerts** models `rotateCertsCmd.run`: `After` is the order of its steps, `Nodes`
the nodes a step visits, `MasterNode` and `AgentNode` what it does there (the functions
of `rotate-certs.sh` and `rotate-certs.ps1`). A set of certificates is the number of the
run that generated it. A step fails before or after its effect on any node, the process
is killed anywhere, and the command is repeated with or without `--force`; the last of
`MaxRuns` runs is forced and meets no fault. `Serving` says when the API server answers:
most masters have the same authority loaded.

**CompositeClient** models `CompositeClientSet`. Its twelve calls have the same body but
for the request and for whether `NotFound` is an answer, so four kinds stand for them,
about one object. `wrapped` chooses between the two ways in which `crypto/tls` returns
the authority error, of which `retriable` recognises one.

**ArmTemplate** models `GenerateARMResources` with one operator per function that
creates resources, and the transforms of `transform.go`. A definition is a set of
features; a resource is its type, its owner, its part and what it depends on, with the
way the dependency is written (`by`), because the transforms tell them by their text.
Each transform is a step, in the order in which the command applies them. An upgrade of
a cluster with KMS and system-assigned identities is refused before a template is made
(`KnownBreaking`, `upgrade.go:177`).

**ApiModel** models the file over the life of a cluster: `SetPropertiesDefaults` with
the settings of kubelet, control plane components and addons, and the commands that
call it. Of the flags and gates each kind of treatment (static, default, forced by an
upgrade, removed with a version, renamed, feature gate, image) keeps one member, and so
does each treatment of an addon: completed with defaults (metrics-server), ended with a
version (pod-security-policy), given a custom image (kube-proxy), forced on by an upgrade
(calico under the network policy of that name; cloud-node-manager and the disk CSI driver
with the cloud controller manager, cloud-node-manager on Azure Stack even renewed), forced
off (networkmonitor). `options` are the parts of the definition on which this depends.
`Accepted` is the part of the validation that concerns them. Of `setAddonsConfig` the
migrations of files that older builds wrote are left out:
the autoscaler without pools (834-870; it gets its pools with its defaults), a cluster
without coredns (872-883; it is always appended), the telemetry container and the
`kube-proxy-daemonset` addon (925-958), `PodSecurityPolicyConfig` (904-912); and so are
addons with a manifest of their own (`Data`). `upgraded` is a history variable: whether an
upgrade has created the control plane. The operators `:>` and `@@` on functions are defined in the module, as in TLC's module, whose
definitions a proof cannot expand.

A component has its theorems in a module of its own, but for three that are proved beside
the component that uses them and whose specifications have prefixed names for that reason:
NodeDrain in VMDeleteProofs, PropertyCopier in UpgradeAgentPoolProofs, CompositeClient in
RotateCertsProofs.

The `MC` modules give constants their values for TLC. The operators commented
"Mistake" next to an action are plausible errors in the code it models; each property
is violated when one of them takes the place of the action.

## What TLC checks

| Run | Instance | Shows |
|---|---|---|
| `MCNodeDrain` | 2 workload pods, 1 DaemonSet pod, 2 cordon tries, 3 foreign writes | `DrainedMeansStopped`, `DrainReturns` |
| `MCVMDelete` | 2 VMs of 4 shapes, 2 role assignments, 2 calls | `FailuresAreListed`, `WholeUntilDeleted`, `CallReturns`, `ImplementsBatchDelete` |
| `MCUpgradeMasters` | 3 masters, 3 failed runs, `--force` or not, listings may fail | `OneMasterDownPerAbort`, `SuccessLeavesNoOldMaster`, `RetryConverges` |
| `MCUpgradeMastersMissing` | 1 failed run | **violated**: `SuccessMeansComplete` |
| `MCUpgradeAgentPool` | 2 VMs, 2 failed runs, 1 copy given up or done again, `--force` and `PreserveNodesProperties` or not | `PoolKeepsServing`, `SuccessMeansUpgraded`, `SuccessRestoresCount`, `NeverDeploysOverVM`, `PropertiesSurvive`, `RetryConverges` |
| `MCScalePool` | 3 VMs, to 1, 2 or 4, 3 runs | `SuccessMeansWanted`, `NeverBelowWanted`, `DrainedBeforeDeleted`, `RunEnds` |
| `MCUpgradeRun` | 2 masters, 2 pools of 1 agent, 3 versions, any number of commands | `SkewWithinOneUpgrade`, `SuccessMeansGoal`, `AutoscalerRestored`, `CommandEnds` |
| `MCPropertyCopier` | one old and one new node, channel of 1 | `HandedOver`, `OnlyTaintsReplaced`, `CopyReturns` |
| `MCRotateCerts` | 3 masters, 2 agents of which 1 Windows, 3 runs | `SuccessMeansRotated`, `AgentsFollowMasters`, `RerunSucceeds` |
| `MCCompositeClient` | programs of 2 calls, 2 attempts, 2 faults | `ErrorsHaveCauses`, `AnswersAreTrue`, `CallsReturn` |
| `MCArmTemplate` | all definitions with up to 3 cluster and pool features, 2 pools, the name of one a prefix of the other's | `Deployable`, `NetworkUntouched`, `OnlyItsNodes` |
| `MCApiModel` | 4 versions with gaps, every table of which are supported, up to 2 settings for one place or addon and the options it depends on, 2 commands | `NodesAgree`, `NothingRetired`, `SettingsKept`, `UpgradedLikeNew`, `UpgradePathsSound` |

Some properties have exceptions, which they state exactly because the code has them:
- `DrainedMeansStopped`: after a nil a workload pod may still be stopping if a Get of it
  failed while it was waited for (`misread`); none is running that was not asked to stop.
- `PoolKeepsServing`: of `Count` nodes one may be missing for each failed run and one for each
  copy given up, whose new node stays cordoned.
- `PropertiesSurvive`: all runs together lose the properties of fewer nodes than there were
  runs, copies given up and copies done again; so the first run by itself loses none.
- `OnlyTaintsReplaced`: labels and annotations of the new node are never undone; a
  custom taint goes only with a copy from the node that has taken the old name.
- `Deployable`: a template can be deployed exactly for the definitions outside `Unserved`.
  That list is of failures of the code, one of them in the repository's own examples.
- `NetworkUntouched`: no load balancer is deployed again, but for one case: the template of
  scale, addpool and upgrade contains the balancer of the agents (`loadbalancers.go:31`,
  joined by their NICs, `networkinterfaces.go:384`) exactly when the cluster is dual stack
  behind Basic load balancers.
- `OnlyItsNodes`: the upgrade of a pool also deploys the pools whose names begin with the
  name of that pool (`Redeployed`).
- `SettingsKept`: an upgrade overrules addons and images as described under ApiModel; the
  formula says for each what holds before and after the first upgrade.

Every module with processes states the type of its state (`TypeOK`, in the modules that
are proved together with another `DrainTypeOK`, `CopyTypeOK` and `ClientTypeOK`). It is
proved for all of them, with facts such as "the number of masters to create is not
negative" and "a reported failure was requested". The runs are spent on the properties
above.

**Bounds.** Two pods are enough for one goroutine to report while another retries,
and for two errors to compete for `errCh`; two tries give both a retry and the exit
of the cordon loop. Three masters are the smallest control plane with a quorum, and
three failed runs can take down each of them. A pool of two has a VM whose
replacement is created again and a last one that is not; two failed runs let the second
meet what the first left. One copy that is given up or done again (`MaxFlaws`) meets both
the failed runs before and those after it. `MaxIndex` leaves room for the
extra VMs the runs can make (in the `AgentPool` and `Scale` modules an action that would
exceed it is not enabled; with these values no reachable state is cut off by it). Three
runs of scale are a failure, a second failure on what it left, and a success. UpgradeRun
bounds nothing but its versions: three of them allow an upgrade after an unfinished one.
Three rotations are two failures, the second on what the first left, and the run that
must succeed; `Successes` is 2 instead of 5. Two calls let the goroutines of the first
meet the second. Two settings of the user for one place let any two of its treatments
meet, and each addon meets the options that force it on or off; three features let any
three conditions of the generator; for the properties that are proved nothing depends on
these bounds, and for `Deployable` a combination of four features would not be found. The
four versions cross every limit at which flags or gates change. Deadlock is checked where the
system goes on for ever; it is not where it may end or, as eviction goroutines on `errCh` and the
copying goroutine on `ch`, stay blocked.

**Fairness.** In NodeDrain: Go runs every runnable goroutine, timers fire, and calls
to the API server return; nothing is assumed of the scheduler, of other writers, or
of an eviction being granted. In VMDelete and ScalePool: each goroutine and the
collector go on, because each Azure call has a deadline
(`DefaultARMOperationTimeout`). In the upgrade modules: the operator repeats the
command, as `docs/topics/upgrade.md` instructs, failures are finitely many
(`MaxAborts`), and Azure and the kubelets finish what they were asked for.
A run may always fail instead of going on, and killing it is never fair. In UpgradeRun
only the running command goes on: its waits have deadlines. In PropertyCopier only the
caller does, whose timer fires; the goroutine's calls may fail for ever. In
CompositeClient goroutines and timers run, faults are finitely many; that `Failed` and
`Rotated` happen is never assumed. In RotateCerts the command goes on or fails by its
own timeouts, and the operator repeats it as `docs/topics/rotate-certs.md` advises.

## What the run that fails shows

`SuccessMeansComplete`: `existingMastersIndex` (`upgrader.go:261`) ignores the
masters already upgraded. A run upgrades master 0, deletes master 1 and dies; the
next one takes index 0 for the missing one, deploys over it and reports success
after upgrading master 2, without a master 1.

## Observations

What the properties leave out by their hypotheses, each seen in a counterexample of a
stronger form or in the code while it was modelled.

Drain and deletion:
- When all five tries to cordon conflict, the loop of `cordondrainvm.go:54` ends without
  an error and goes on with the empty node that client-go returns with an error: it lists
  the pods of no node and may return nil. `DrainedMeansStopped` is about drains that cordoned.
- `WaitForDelete` "waits until all pods are deleted" (`client.go:222`), but takes every Get
  that fails for the pod being gone: the empty pod that comes with the error
  (`vendor/k8s.io/client-go/kubernetes/typed/core/v1/pod.go:75`) has another UID, and line 234
  is evaluated before the error is. The drain then returns nil while the pod is stopping.
- `time.After` at `cordondrainvm.go:225` starts again with every pod that goes, so
  `--cordon-drain-timeout` does not bound the drain of a node whose pods go one by one
  (`docs/topics/upgrade.md:64`).
- An error after the VM is gone leaves role assignments that no later call can find,
  because the VM is no longer listed (`deletevm.go:60`, `deletevm.go:91`).

Upgrade:
- The check at `upgradecluster.go:411` tolerates one NotReady upgraded master and does
  not see missing ones: after one failed run two of three masters can be down at once.
- `newCreatedVMs` (`upgrader.go:464`) is empty in a retry, so the first old node the
  retry deletes hands its properties to nobody.
- `docs/topics/upgrade.md:85` says that control plane nodes are cordoned and drained;
  `UpgradeMasterNode.DeleteNode` does not drain.
- `numNodesToUpgrade` in `RunUpgrade` is always 0, so all agent pools share the timeout
  of one node.
- Runs of `upgrade` that disagree on `--force` can leave surplus VMs, hence `agreed` in
  UpgradeAgentPool; the documentation asks for a retry with the exact same arguments.
- When the answer to the write that pauses the autoscaler is lost, the retry reads 0
  replicas and the resume restores 0 (`upgradecluster.go:148`); so does a run after a
  killed one. `AutoscalerRestored` is about the other runs.
- After `--control-plane-only` the file has the new version and `validateTargetVersion`
  no longer offers it: the pools can be brought to it with `--force` only.
- The early return for an empty pool (`upgrader.go:385`) skips the pools after it in a
  map's order, and the command succeeds.
- The copying goroutine goes on after success. When the old node's name is taken by its
  replacement before it blocks, it copies that node's taints over the ones handed over
  (`mixed`). Taints the new node was created with are lost with every copy.
- A copy that is given up leaves the new node cordoned, unless the goroutine completes it
  before the old node goes.

Scale:
- `scale.go:331` returns success without writing the file when the pool has the count
  asked for; after a run that failed between the change and the save the file stays
  wrong (`docs/topics/scale.md:26`).
- Without `calm`, `SuccessMeansWanted` and `NeverBelowWanted` fail: the listing counts
  VMs that Azure is about to delete for an earlier run.

Rotation and the composite client:
- `cp_proxy` runs over a Go map (`rotate_certs.go:506`) and only master 0 replaces the
  front-proxy certificates in etcd: masters visited before it keep old ones on disk.
- A rerun backs up the API model's certificates and generates another authority; neither
  client need be trusted by masters that hold those of the failed run in between.
- When the resume fails the autoscaler stays at 0, and a forced rerun does not look at it.
- On Windows the backup is overwritten by a rerun.
- `successesCount` (`wait.go:39`) counts successes in total, not in a row.
- Since Go 1.20 `crypto/tls` wraps `UnknownAuthorityError`, which `retriable` then does
  not recognise: the hopeless goroutine retries to the end. A call in which the authority
  changes can fail with both clients. A retry of an earlier patch can execute after a
  later one. A goroutine with a second answer stays blocked in its send.

Templates (the definitions in `Unserved` pass the validation and cannot be deployed):
- deploy: masters on a storage account beside a pool with managed disks (as in
  `examples/disks-storageaccount/kubernetes-master-sa.json`); zones for pools but not for
  masters; `LoadBalancerBackendAddressPoolIDs` for some pools only; an application gateway
  with a custom virtual network.
- scale, addpool and the agent upgrade: a storage account pool in a public cluster; scale
  and addpool also KMS with a system identity, which upgrade refuses; the agent upgrade also
  extensions of other pools.
- the master upgrade: masters on a storage account, an application gateway, KMS or dual
  stack with the Basic load balancer, extensions of agent pools.
- Upgrading a pool deploys the pools whose names begin with its name as well
  (`transform.go:678`). Names that begin with "master" are not modelled.

API model:
- An upgrade overrules the user: `custom{component}Image` and `customKubeProxyImage` are
  overwritten with the image of the version; calico that was switched off while it is the
  network policy is on again (`addons.go:917` compares two pointers, which always differ); so
  are cloud-node-manager on Azure Stack, with the requests of the user gone, and the disk CSI
  driver; networkmonitor is off.
- `customCcmImage` without `useCloudControllerManager` (`components.go:146`) and
  `customKubeProxyImage` with kube-proxy switched off (`addons.go:896`) pass the validation; the
  first pass drops the containers and the second indexes the empty list and panics. Such
  definitions are left out of ApiModel (`Accepted`, `Settings`).
- Masters keep the user's values of
  flags that are static elsewhere; profiles keep the feature gates of the first version.
- The conversions of `pkg/api` agree in both directions but for `HTTPSourceAddressPrefix`
  and `OAuthEnabled` of the masters, which `converterfromapi.go` does not write back, and
  the two `EnforceUbuntu*DisaStig` flags, of which either becomes both.

## What is proved

The theorems hold for every value of the constants that satisfies the modules'
`ASSUME`s. These give types (finite sets, positive counts), keep masters and agents apart,
and the name that stands for "no pool" apart from the pools; of the versions they ask that
they are pairs of numbers (in ApiModel finitely many) and that the first or default one is known;
any table of which are supported is allowed. The theorems do not use the bounds on aborts,
calls, runs and foreign writes. Each component's proof has one lemma per part of its
inductive invariant and in it one case per action.

- **VMDeleteProofs**, drain: `DrainTypeCorrect`, `DrainSound` (`DrainedMeansStopped`),
  which is not inductive. `DrainInv` adds that nothing was started
  before the listing (`NothingStarted`), that a goroutine that waits has asked its pod to stop
  and a pod reported on `doneCh` or counted is gone, or a Get of it failed
  (`ReportsAreTrue`), the same for the pods `deletePods` has visited
  (`VisitedAreStopping`), that the targets include every workload pod on the
  node from the listing on, because the node was cordoned before it
  (`ListIsComplete`), and what nil means for the targets (`OkMeansSettled`).
  The collector compares counts, so the proof uses that a subset of the finite set of
  targets with the same cardinality is all of it.
- **UpgradeMastersProofs**: `MastersTypeCorrect`, `MastersDownBounded`
  (`OneMasterDownPerAbort`), `MastersUpgraded` (`SuccessLeavesNoOldMaster`). The bound
  on the masters that are down needs that between two replacements only as many are
  down as runs were aborted, which in turn needs that the master just replaced was
  seen Ready; that success leaves no old master needs that every old VM is still in
  `toUpgrade`. The type of `missing` and the existence of `IndexToCreate` rest on
  a cardinality argument over `existing` and `missing`.
- **UpgradeAgentPoolProofs**, the pool: every safety property of the module. `PoolTypeCorrect`,
  `PoolUpgradeComplete` (`SuccessMeansUpgraded`) and `PoolDeploysAtFreeIndex`
  (`NeverDeploysOverVM`) rest on `PoolInv`: every VM that exists is in the listing
  (`ScanComplete`) and then in the view (`ViewComplete`), whatever Azure does meanwhile, the
  VM in hand is what its phase says (`InHand`), and nothing is to be upgraded when the loop
  is skipped (`NothingToUpgrade`). The lemma `AvailableIndexIsFree` states that
  `getAvailableIndex` never returns an index in use.
  The theorems about numbers add `Truth`, the ways in which the stale listing and the view
  may differ from the VMs, and `Counted`: the two counters are the sizes of the two parts of
  `agentVMs`, and while VMs are replaced it holds one more than the pool needs.
  What the copies do is in `CopyInv`: nodes with properties are on live VMs (`CarriersLive`),
  `newCreatedVMs` holds new nodes without properties, each once (`FreshBare`), and a goroutine
  copies to a node that no longer waits, from the VM in hand or its replacement
  (`CopierPairs`). `PoolServes` (`PoolKeepsServing`) then charges every VM that the run counts
  on and that does not serve, or is cordoned, to an earlier failed run or a copy given up
  (`BrokenCharged`): a step breaks no VM, unless it ends the run or gives up a copy, and then
  at most one (`BrokenStep`), so that before a VM is deleted at least one node more than needed serves (`SpareBeforeDelete`). A VM in a failed
  state is not counted as serving, since the next run deletes it without a drain.
  `PoolCountRestored` (`SuccessRestoresCount`) needs the other direction: if the runs agree
  on `--force`, none leaves more VMs than the pool needs but for one while there is a VM to
  replace (`NotOverfull`); a VM listed as old that has gone in the meantime is the case that
  takes work (`FitsWithNew`). `PoolPropertiesKept` (`PropertiesSurvive`) shows that in the
  first run, and in every later one after its first replacement, a node without properties
  waits for every copy (`FirstRun`), so that a loss can be charged to a later run, a copy
  given up or one done again (`Charged`).
- **VMDeleteProofs**, deletion: `VMDeleteTypeCorrect`, `FailuresListed`, `VMWholeUntilDeleted` and
  the refinement `VMDeleteRefinesBatch`. `IInv` says for each step of a goroutine what
  is gone by then (`Progress`), that results received tell the truth (`Collected`,
  `ReturnedRight`), and that only requested VMs are touched (`OnlyAsked`). The
  refinement shows `Init` and every step of `Next` mapped to a step of `BatchDelete`
  or a stutter.
- **ScalePoolProofs**: `ScaleTypes`, `ScaleSuccess` (`SuccessMeansWanted`),
  `ScaleDownStopsAtWanted` (`NeverBelowWanted`) and the action property `DrainBeforeDelete`
  (`DrainedBeforeDeleted`). `ScaleInv` says that in a calm run the pool is what was
  listed, less the chosen VMs whose deletion has returned (`PoolAsListed`), that Azure is
  busy with no other VM (`NothingLate`), and that the results received from the drains are
  good (`DrainedSoFar`). The lemmas `ChosenLeavesWanted` and `DeployAddsMissing` are about
  the choice of indices: the VMs to delete are those beyond the count by rank, whatever the
  holes between them, and a deployment from the highest index on adds just the missing ones.
- **UpgradeRunProofs**: `RunTypes`, `SkewBounded` (`SkewWithinOneUpgrade`),
  `AgentsNeverAhead`, `RunSuccess` (`SuccessMeansGoal`), `AutoscalerResumed`
  (`AutoscalerRestored`). `RunInv` says that the lists of VMs to replace
  are complete (`Listed`), that the goal is an upgrade from the version of every VM not at it
  (`GoalWithinOneUpgrade`) and the masters at most one upgrade ahead of the agents and of the
  saved version (`MastersWithinOneUpgrade`), and that only a command that has paused the
  autoscaler holds its replicas (`ReplicasKept`).
- **UpgradeAgentPoolProofs**, the copier: `CopierTypes`, `ReportedCopyStays` (`HandedOver`)
  and the action property `CopierOnlyReplacesTaints` (`OnlyTaintsReplaced`). `CopierInv` says that a copy
  the API server will accept is the current node (`CurrentCopy`) and that what a round has
  done stays done in the rounds that follow (`RoundsAccumulate`).
- **RotateCertsProofs**, rotation: `RotateTypes`, `OneAuthorityLeft` (`SuccessMeansRotated`) and the
  action property `AgentsAfterMasters` (`AgentsFollowMasters`). `RotateInv` says for each step
  what it has done on the nodes it visited and what the later steps rely on, for masters
  (`MasterParts`) and for the agents that were listed (`AgentParts`), and that the API model
  is written last (`StoredLast`). That no agent is missed without `--force` rests on the
  autoscaler being stopped while they are listed (`AutoscalerStopped`).
- **RotateCertsProofs**, the composite client: `ClientTypeCorrect`, `ClientErrors`
  (`ErrorsHaveCauses`) and the action property `ClientAnswers` (`AnswersAreTrue`).
  `ClientInv` says that what a goroutine waits to send was true of the object at some time
  since its call began, and that the absence of a deleted object stays true
  (`AnswersReady`); that while the caller waits the client trusted since the call began has
  not given up (`TrustedCarriesOn`), so that without a fault an error needs a change of
  authority inside the call (`ErrorsSoFar`).
- **ArmTemplateProofs**: `TemplateLeavesNetwork` (`NetworkUntouched`),
  `TemplateNoOtherNodes`, `TemplateNodes` (`OnlyItsNodes`), for any pools and any number of
  features together. `TemplateInv` gives the template of each stage as a function of the
  definition (`Final`). Transforms only drop resources and dependencies, so what is deployed
  is what was generated and passes a test on type and owner (`Kept`, `WhatIsDeployed`); the
  rest is who owns what is generated (`AllWellOwned`). That no nodes are deployed but those of
  the pool and, in an upgrade, of the pools whose names begin with its name
  (`TemplateNoOtherNodes`) holds whatever the names. That nothing of the command's own nodes is dropped
  is proved under `NamesApart`: no pool has the name of the masters or the jumpbox or a name
  that begins with "master". The validation does not ask for this (`validate.go:1745`), and
  for such names it would be false.
- **ApiModelProofs**: every property of the module's run. `OfferedUpgrades` and
  `PathsAlwaysSound` (`UpgradePathsSound`) are about the table of versions and use that a
  list of versions that is not empty has a lowest one (`MinVersionExists`). `NodesAlwaysAgree`
  (`NodesAgree`), `NothingRetiredRuns` (`NothingRetired`), `SettingsAlwaysKept`
  (`SettingsKept`) and `UpgradedAlwaysLikeNew` (`UpgradedLikeNew`) follow from
  `ModelInvariant`. The lemmas describe each operator of a pass flag by flag (`...Is`),
  and from that come two laws for kubelets, components and addons: a pass after a pass for
  the same version changes nothing, and after a pass for a later version it makes no
  difference that there was an earlier one (`...Again`, `...Later`), but for the feature
  gates and reset flags that `UpgradedLikeNew` names.
  `GoodFile` says what a pass leaves: only flags a place may have, none that is retired, the
  images of the version, the user's flags (`Kept`) and addons, custom images and options
  (`Held`: before an upgrade as given, after it as the upgrade leaves them), and flags as a new cluster of that
  version gets them (`LikeNew`). `IInv` adds how the rest follows from the file: a node
  runs with the file's flags or with those that an upgrade that was not saved makes of the
  file (`NodeIs`), and the model in hand is the file with the pools or the version
  replaced (`CommandOK`), and the control plane was created from a good file, before or after
  an upgrade as `upgraded` says, so that custom images are the user's or the version's
  (`PlaneOK`, `CustomHeld`). Without `NodeIs` a second upgrade after a failed one could not be
  compared with what the first left on the masters.

Only model-checked:
- all liveness properties (`DrainReturns`, `CallReturns`, `RetryConverges`, `RunEnds`,
  `CommandEnds`, `CopyReturns`, `RerunSucceeds`, `CallsReturn`), since fairness and `ENABLED`
  are out of the prover's reach;
- `Deployable` of ArmTemplate: that ARM can create every resource is a fact about a
  recursive computation over the whole graph of dependencies (`Created`), and the property
  says it for exactly the definitions outside `Unserved`. A proof needs an order of all
  kinds of resources and, for each dependency and combination of features, that its target
  is generated and survives the transforms: the enumeration that TLC makes.

All other invariants and action properties of the passing runs are theorems.

## Not modelled, and why

- Generated and tabular code: the embedded templates (24,300 lines), translations, VM
  SKU tables, the component images of every version and the type declarations of `pkg/api`
  are half of the implementation and hold no behaviour to state a property of.
- The rest of the API model: conversion between its two sets of types is field by field;
  most of the validation compares one field with a list; defaults of networks, VM sizes,
  storage, sysctl and etcd versions, the choices between network plugins, and Azure Stack's
  forced values do not interact over commands. Of addons the migrations from older builds
  and manifests of the user are left out (see ApiModel above).
- Of templates: the properties of resources and with them
  `RemoveImmutableResourceProperties`, parameters, outputs and custom data, masters in
  scale sets (which the tool no longer creates), a virtual network of the control plane
  apart from the agents'.
- Of the rotation: `--certificate-profile`, masters in scale sets, the generation of
  certificates.
- The `GetNodes` poller (`k8sapi_ops.go`): its result only decides what is printed.
- A write of `apimodel.json` that is cut off in the middle (`filesaver.go:36`): the code
  has no recovery from it.
- Log collection, version and other read-only commands, SSH and PKI helpers, telemetry,
  and the scripts that set up a VM, apart from those of the rotation.

## What is left

1. An abstract rolling upgrade that UpgradeMasters and UpgradeAgentPool implement, so that
   the single step of UpgradeRun is justified by a refinement.
2. `Deployable` for any number of features.
3. Names of pools that begin with "master" in ArmTemplate, and the parts listed above as
   not modelled.
