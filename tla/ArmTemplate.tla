---- MODULE ArmTemplate ----
(***************************************************************************)
(* The ARM templates that the commands deploy.  GenerateARMResources turns *)
(* a cluster definition into a list of resources, each with a dependsOn    *)
(* list; scale, addpool and upgrade generate the whole list again and cut  *)
(* it down with the Normalize... and Remove... functions of                *)
(* pkg/engine/transform, which recognise resources and dependencies by     *)
(* substrings.  ARM refuses a template in which a dependsOn names nothing  *)
(* of the same template.                                                   *)
(*                                                                         *)
(* A cluster definition is the set of the features by which it differs     *)
(* from a public cluster of several masters behind Standard load           *)
(* balancers, with availability sets, managed disks, kubenet and a service *)
(* principal.  A resource keeps its type, the prefix of the variable in    *)
(* its name (own), a part that tells resources of one type and owner       *)
(* apart, and its dependencies; a dependency keeps what it names and how:  *)
(* by resource type and name, by a variable "...ID", by the bare name, or  *)
(* by the name of one numbered copy.  All other properties are left out.   *)
(***************************************************************************)
EXTENDS Naturals, Sequences, FiniteSets, Functions

CONSTANTS Pools,        \* names of the agent pools
          StartsWith,   \* <<p, q>>: the name p begins with the name q
          MaxFeatures   \* bound: how many features a definition combines

ASSUME TemplateAssumption ==
    /\ StartsWith \subseteq Pools \X (Pools \cup {"master"})
    /\ <<"cluster", "master">> \notin StartsWith
    /\ MaxFeatures \in Nat \ {0}

VARIABLES features,  \* the cluster definition
          cmd,       \* the command that deploys
          pool,      \* the pool it works on
          todo,      \* the transforms that are still to be applied
          template   \* the resources of the template

vars == <<features, cmd, pool, todo, template>>

Has(f) == <<f, "cluster">> \in features
PoolHas(f, p) == <<f, p>> \in features

ClusterFeatures ==
    {"private", "single", "basic", "customVnet", "azureCNI", "dualStack",
     "jumpbox", "jumpboxAccount", "systemID", "newUserID", "oldUserID",
     "kms", "cosmos", "gateway", "vmss", "zones", "masterAccount",
     "outboundIPs", "telemetry", "extension"}
PoolFeatures ==
    {"account", "dataDisks", "image", "backendPools", "poolZones", "poolExtension"}
Features == (ClusterFeatures \X {"cluster"}) \cup (PoolFeatures \X Pools)

(***************************************************************************)
(* What the validation of an API model refuses.                            *)
(***************************************************************************)
Accepted(S) ==
    LET In(f) == <<f, "cluster">> \in S
        All(f) == \A p \in Pools : <<f, p>> \in S
    IN /\ \A f, g \in {"systemID", "newUserID", "oldUserID"} : In(f) /\ In(g) => f = g
       /\ \A f, g \in {"jumpbox", "jumpboxAccount"} : In(f) /\ In(g) => f = g
       /\ In("jumpbox") \/ In("jumpboxAccount") => In("private")
       /\ In("gateway") => In("azureCNI")
       /\ In("vmss") => \A p \in Pools : {<<"account", p>>, <<"poolExtension", p>>} \cap S = {}
       /\ In("zones") /\ All("poolZones") => In("vmss") /\ ~In("basic")

\* The definitions that combine at most MaxFeatures features.
Definitions ==
    {S \in {{}} \cup {Range(f) : f \in [1..MaxFeatures -> Features]} : Accepted(S)}

Standard == ~Has("basic")
ManagedPool(p) == ~PoolHas("account", p)
HasManagedDisks(P) ==
    ~Has("masterAccount") \/ Has("jumpbox") \/ \E p \in P : ManagedPool(p)
HasAvailabilityZones(P) == Has("zones") \/ \E p \in P : PoolHas("poolZones", p)
RequireRouteTable == ~(Has("azureCNI") /\ ~Has("dualStack"))

(***************************************************************************)
(* Resources.                                                              *)
(***************************************************************************)
R(type, own, part, deps) == [type |-> type, own |-> own, part |-> part, deps |-> deps]
On(type, own, part, by) == [to |-> <<type, own, part>>, by |-> by]
Id(r) == <<r.type, r.own, r.part>>
When(c, S) == IF c THEN S ELSE {}

InNetwork == IF Has("customVnet") THEN {On("nsg", "cluster", "nsg", "id")}
                                  ELSE {On("vnet", "cluster", "vnet", "id")}

UserAssignedIdentity ==
    When(Has("newUserID"), {R("identity", "cluster", "userAssigned", {})})
    \cup When(Has("newUserID") \/ Has("oldUserID"),
              {R("role", "cluster", "userAssigned", {})})

StandardLoadBalancerForNodePools(P) ==
    When(Standard /\ \A p \in P : ~PoolHas("backendPools", p),
         {R("publicIP", "agent", "ip", {}),
          R("lb", "agent", "lb", {On("publicIP", "agent", "ip", "type")})}
         \cup When(Has("outboundIPs"), {R("publicIP", "agent", "ip2", {})}))

\* An interface or scale set of pool p waits for the agents' load balancer.
BehindAgentLb(p) ==
    When(~PoolHas("backendPools", p) /\ Standard, {On("lb", "agent", "lb", "id")})
FromImage(p) == When(PoolHas("image", p), {On("image", p, "image", "name")})

AgentVMSS(p) ==
    R("vmss", p, "vm", InNetwork \cup BehindAgentLb(p) \cup FromImage(p))

\* On the machines of a pool, or on the masters
SysRoleAssignment(own, type) ==
    When(Has("systemID"), {R("role", own, "vm", {On(type, own, "vm", "type")})})

AgentStorageAccount(p, part) ==
    R("storage", p, part,
      When(~Has("private"), {On("publicIP", "master", "ip", "type")}))

AgentNetworkInterface(p) == R("nic", p, "nic", InNetwork \cup BehindAgentLb(p))

AgentAvailabilitySetVM(p) ==
    R("vm", p, "vm",
      {On("nic", p, "nic", "type"), On("avset", p, "avset", "type")} \cup FromImage(p)
      \cup When(PoolHas("account", p), {On("storage", p, "os", "type")})
      \cup When(PoolHas("account", p) /\ PoolHas("dataDisks", p),
                {On("storage", p, "data", "type")}))

AgentCustomScriptExtension(p) == R("cse", p, "cse", {On("vm", p, "vm", "type")})

AgentVMASResources(p) ==
    {AgentNetworkInterface(p), R("avset", p, "avset", {}),
     AgentAvailabilitySetVM(p), AgentCustomScriptExtension(p)}
    \cup When(PoolHas("account", p), {AgentStorageAccount(p, "os")})
    \cup When(PoolHas("account", p) /\ PoolHas("dataDisks", p),
              {AgentStorageAccount(p, "data")})
    \cup SysRoleAssignment(p, "vm")

MasterStorageAccount ==
    R("storage", "master", "os",
      When(~Has("private"), {On("publicIP", "master", "ip", "type")}))

MasterDisks(P) ==
    LET avset == R("avset", "master", "avset", {})
    IN IF HasManagedDisks(P) THEN When(~HasAvailabilityZones(P), {avset})
                             ELSE {avset, MasterStorageAccount}

NetworkSecurityGroup == R("nsg", "cluster", "nsg", {})

RouteTable == When(RequireRouteTable, {R("routeTable", "cluster", "rt", {})})

VirtualNetwork ==
    When(~Has("customVnet"),
         {R("vnet", "cluster", "vnet",
            {On("nsg", "cluster", "nsg", "type")}
            \cup When(RequireRouteTable, {On("routeTable", "cluster", "rt", "type")}))})

JumpboxVM == R("vm", "jumpbox", "vm", {On("nic", "jumpbox", "nic", "type")})

JumpboxNetworkInterface ==
    R("nic", "jumpbox", "nic",
      {On("publicIP", "jumpbox", "ip", "type"), On("nsg", "jumpbox", "nsg", "type")}
      \cup When(~Has("customVnet"), {On("vnet", "cluster", "vnet", "id")}))

JumpboxNSG == R("nsg", "jumpbox", "nsg", {})

JumpboxPublicIP == R("publicIP", "jumpbox", "ip", {})

Jumpbox ==
    When(Has("jumpbox") \/ Has("jumpboxAccount"),
         {JumpboxVM, JumpboxNSG, JumpboxPublicIP, JumpboxNetworkInterface})
    \cup When(Has("jumpboxAccount"), {R("storage", "jumpbox", "os", {})})

BehindInternalLb == When(~Has("single"), {On("lb", "master", "internal", "name")})
BehindMasterLb == {On("lb", "master", "lb", "name")}

MasterNetworkInterface ==
    R("nic", "master", "nic",
      InNetwork \cup BehindInternalLb \cup BehindMasterLb
      \cup When(Has("cosmos"), {On("cosmos", "cluster", "etcd", "type")}))

PrivateMasterNetworkInterface ==
    R("nic", "master", "nic",
      InNetwork \cup BehindInternalLb
      \cup When(~Has("single") /\ Standard, BehindMasterLb))

MasterPublicIP == R("publicIP", "master", "ip", {})

MasterLoadBalancer == R("lb", "master", "lb", {On("publicIP", "master", "ip", "type")})

MasterInternalLoadBalancer == R("lb", "master", "internal", InNetwork)

ClusterLoadBalancerForIPv6 ==
    {R("publicIP", "cluster", "ipv4", {}),
     R("lb", "cluster", "ipv4", {On("publicIP", "cluster", "ipv4", "type")})}

KeyVaultStorageAccount == R("storage", "keyVault", "account", {})

KeyVault ==
    R("vault", "keyVault", "vault",
      When(Has("newUserID"), {On("identity", "cluster", "userAssigned", "id")})
      \cup When(Has("systemID"), {On("vm", "master", "vm", "copy"),
                                  On("role", "master", "vm", "copy")}))

KeyVaultKey == R("key", "keyVault", "key", {On("vault", "keyVault", "vault", "type")})

MasterVM ==
    R("vm", "master", "vm",
      {On("nic", "master", "nic", "type")}
      \cup When(~Has("zones"), {On("avset", "master", "avset", "type")})
      \cup When(Has("masterAccount"), {On("storage", "master", "os", "name")}))

MasterCustomScriptExtension ==
    R("cse", "master", "cse",
      {On("vm", "master", "vm", "type")}
      \cup When(Has("kms"), {On("vault", "keyVault", "vault", "type")}))

CustomExtension(own) ==
    R("deployment", own, "extension", {On("cse", own, "cse", "type")})

CustomExtensions(P) ==
    When(Has("extension"), {CustomExtension("master")})
    \cup {CustomExtension(p) : p \in {q \in P : PoolHas("poolExtension", q)}}

MasterResourcesVMAS(P) ==
    When(Has("cosmos"), {R("cosmos", "cluster", "etcd", {})})
    \cup MasterDisks(P) \cup {NetworkSecurityGroup} \cup RouteTable \cup VirtualNetwork
    \cup Jumpbox
    \cup {IF Has("private") THEN PrivateMasterNetworkInterface ELSE MasterNetworkInterface}
    \cup When(~(Has("private") /\ (Has("single") \/ ~Standard)),
              {MasterPublicIP, MasterLoadBalancer})
    \cup When(~Has("single"), {MasterInternalLoadBalancer})
    \cup When(Has("kms"), {KeyVaultStorageAccount, KeyVault, KeyVaultKey})
    \cup When(Has("dualStack") /\ ~Standard, ClusterLoadBalancerForIPv6)
    \cup {MasterVM, MasterCustomScriptExtension} \cup SysRoleAssignment("master", "vm")
    \cup CustomExtensions(P)

AppGwRoleAssignment(type, part) ==
    R(type, "gateway", part, {On("gateway", "gateway", "gateway", "type"),
                              On("identity", "gateway", "identity", "type")})

ApplicationGateway ==
    R("gateway", "gateway", "gateway",
      {On("publicIP", "gateway", "ip", "type"), On("vnet", "cluster", "vnet", "type")})

AppGwIngress ==
    When(Has("gateway"),
         {R("publicIP", "gateway", "ip", {}), R("identity", "gateway", "identity", {}),
          ApplicationGateway, AppGwRoleAssignment("gatewayRole", "write"),
          AppGwRoleAssignment("identityRole", "operator"), AppGwRoleAssignment("role", "read")})

GenerateARMResources(P) ==
    When(Has("telemetry"), {R("deployment", "cluster", "telemetry", {})})
    \cup UserAssignedIdentity \cup StandardLoadBalancerForNodePools(P)
    \cup {R("image", p, "image", {}) : p \in {q \in P : PoolHas("image", q)}}
    \cup (UNION {IF Has("vmss") THEN {AgentVMSS(p)} \cup SysRoleAssignment(p, "vmss")
                                ELSE AgentVMASResources(p) : p \in P})
    \cup MasterResourcesVMAS(P) \cup AppGwIngress

(***************************************************************************)
(* Transforms.                                                             *)
(***************************************************************************)
Deps(T) == UNION {r.deps : r \in T}
DropDeps(T, gone) == {[r EXCEPT !.deps = @ \ gone] : r \in T}

\* strings.Contains(resourceName, "variables('" + name): also every longer name.
Named(r, name) ==
    r.type # "image" /\ (r.own = name \/ <<r.own, name>> \in StartsWith)

ByID(d, types) == d.to[1] \in types /\ d.by \in {"type", "id"}

RemoveJumpboxResourcesFromTemplate(T) == {r \in T : r.own # "jumpbox"}

RemoveKMSResourcesFromTemplate(T) == {r \in T : r.own # "keyVault"}

\* Mistake: what waits for the key vault goes on waiting for it.
NormalizeForK8sSLBWithVault(T) ==
    DropDeps({r \in T : ~(r.type = "lb" /\ r.own = "agent")},
             {d \in Deps(T) : d.to[1] = "lb" /\ (d.by = "type" \/ d.to[2] = "agent")})

NormalizeForK8sSLBScalingOrUpgrade(T) ==
    DropDeps({r \in T : ~(r.type = "lb" /\ r.own = "agent")},
             {d \in Deps(T) : \/ d.to[1] = "lb" /\ (d.by = "type" \/ (d.by = "id" /\ d.to[2] = "agent"))
                              \/ d.to[1] = "vault" /\ d.by = "type"})

RemoveResourcesAndOutputsForScaling(T) ==
    {r \in T : ~Named(r, "master") /\ Id(r) # <<"publicIP", "agent", "ip">>}

\* The group of the cluster is removed unless it is the first resource of the
\* list, which it never is: the resources of a pool come before it.
NormalizeForK8sVMASScalingUp(T) ==
    DropDeps({r \in RemoveResourcesAndOutputsForScaling(T) :
                 /\ r.type \notin {"routeTable", "vnet", "avset"}
                 /\ r.type = "nsg" => r.own = "jumpbox"},
             {d \in Deps(T) : \/ ByID(d, {"nsg", "routeTable", "vnet"})
                              \/ d.to[1] = "avset" /\ d.by = "type"})

\* Mistake: the security group is deployed with the new pool.
NormalizeForK8sAddVMASPoolWithNsg(T) ==
    DropDeps({r \in RemoveResourcesAndOutputsForScaling(RemoveJumpboxResourcesFromTemplate(T)) :
                 r.type \notin {"vnet", "routeTable"}},
             {d \in Deps(T) : ByID(d, {"vnet", "routeTable", "nsg"})})

NormalizeForK8sAddVMASPool(T) ==
    DropDeps({r \in RemoveResourcesAndOutputsForScaling(RemoveJumpboxResourcesFromTemplate(T)) :
                 r.type \notin {"vnet", "routeTable", "nsg"}},
             {d \in Deps(T) : ByID(d, {"vnet", "routeTable", "nsg"})})

\* removeVMAS: the sets, and what the VMs say of them.
RemoveVMAS(T) ==
    {[r EXCEPT !.deps = IF r.type = "vm"
                        THEN {d \in @ : ~(d.to[1] = "avset" /\ d.by = "type")} ELSE @]
        : r \in {s \in T : s.type # "avset"}}

\* Mistake: role assignments are taken for those of the agents.
KeptForMasterUpgradeNoRole(r) ==
    CASE r.type \in {"vmss", "vm", "cse", "nic"} -> r.own = "master"
      [] r.type = "nsg" -> r.own # "cluster"
      [] r.type \in {"publicIP", "routeTable", "identity", "vnet", "role"} -> FALSE
      [] r.type = "lb" -> r.own # "master"
      [] r.type \in {"storage", "vault"} -> r.own = "keyVault"
      [] OTHER -> TRUE

KeptForMasterUpgrade(r) ==
    CASE r.type \in {"vmss", "vm", "cse", "role", "nic"} -> r.own = "master"
      [] r.type = "nsg" -> r.own # "cluster"
      [] r.type \in {"publicIP", "routeTable", "identity", "vnet"} -> FALSE
      [] r.type = "lb" -> r.own # "master"
      [] r.type \in {"storage", "vault"} -> r.own = "keyVault"
      [] OTHER -> TRUE

NormalizeResourcesForK8sMasterUpgrade(T) ==
    {[r EXCEPT !.deps = IF r.type = "nic" THEN {} ELSE @]
        : r \in {s \in RemoveVMAS(T) : KeptForMasterUpgrade(s)}}

KeptForAgentUpgrade(r, p) ==
    CASE r.type \in {"vm", "cse", "role", "nic"} -> r.own # "master" /\ Named(r, p)
      [] r.type = "storage" -> Named(r, p)
      [] r.type = "nsg" -> r.own # "cluster"
      [] r.type = "lb" -> ~Named(r, "master")
      [] r.type = "vmss" -> FALSE
      [] OTHER -> TRUE

NormalizeResourcesForK8sAgentUpgrade(T, p) ==
    NormalizeForK8sVMASScalingUp({r \in RemoveVMAS(T) : KeptForAgentUpgrade(r, p)})

(***************************************************************************)
(* The commands.  scale and addpool generate the template of a cluster     *)
(* that has the one pool; upgrade generates the whole cluster for the      *)
(* masters and again for each pool of availability sets.                   *)
(***************************************************************************)
Commands == {"deploy", "scale", "addpool", "upgradeMasters", "upgradeAgents"}

Provisioned(c) == IF c \in {"scale", "addpool"} THEN {pool} ELSE Pools

WithJumpbox == IF Has("jumpbox") \/ Has("jumpboxAccount") THEN <<"removeJumpbox">> ELSE <<>>
WithSLB == IF Standard THEN <<"slb">> ELSE <<>>
WithKMS == IF Has("kms") THEN <<"removeKMS">> ELSE <<>>

Transforms(c) ==
    CASE c = "deploy"         -> <<>>
      [] c = "scale"          -> WithSLB \o <<"scalingUp">>
      [] c = "addpool"        -> WithSLB \o <<"addPool">>
      [] c = "upgradeMasters" -> WithJumpbox \o WithSLB \o WithKMS \o <<"masterUpgrade">>
      [] c = "upgradeAgents"  -> WithJumpbox \o WithSLB \o <<"agentUpgrade">>

Init ==
    /\ features \in Definitions
    /\ cmd = "none"
    /\ pool = CHOOSE p \in Pools : TRUE
    /\ todo = <<>>
    /\ template = {}

\* upgrade refuses a key vault that is opened with the identities of the machines.
KnownBreaking(c) ==
    c \in {"upgradeMasters", "upgradeAgents"} /\ Has("kms") /\ Has("systemID")

\* A command starts from the cluster definition, whatever ran before it. The
\* upgrade of pools of scale sets deploys no template.
Start(c, p) ==
    /\ todo = <<>>
    /\ ~KnownBreaking(c)
    /\ c = "upgradeAgents" => ~Has("vmss")
    /\ cmd' = c
    /\ pool' = p
    /\ todo' = <<"generate">> \o Transforms(c)
    /\ template' = {}
    /\ UNCHANGED features

Apply(step, T) ==
    /\ todo # <<>> /\ Head(todo) = step
    /\ template' = T
    /\ todo' = Tail(todo)
    /\ UNCHANGED <<features, cmd, pool>>

Next ==
    \/ \E c \in Commands, p \in Pools : Start(c, p)
    \/ Apply("generate", GenerateARMResources(Provisioned(cmd)))
    \/ Apply("removeJumpbox", RemoveJumpboxResourcesFromTemplate(template))
    \/ Apply("slb", NormalizeForK8sSLBScalingOrUpgrade(template))
    \/ Apply("removeKMS", RemoveKMSResourcesFromTemplate(template))
    \/ Apply("scalingUp", NormalizeForK8sVMASScalingUp(template))
    \/ Apply("addPool", NormalizeForK8sAddVMASPool(template))
    \/ Apply("masterUpgrade", NormalizeResourcesForK8sMasterUpgrade(template))
    \/ Apply("agentUpgrade", NormalizeResourcesForK8sAgentUpgrade(template, pool))

Spec == Init /\ [][Next]_vars

(***************************************************************************)
(* Properties of the template that is deployed.                            *)
(***************************************************************************)
Deployed == cmd # "none" /\ todo = <<>>

\* The pools whose nodes the command deploys: the pool it works on, and in an
\* upgrade also the pools whose names begin with the name of that pool.
Redeployed ==
    {q \in Pools : \/ cmd \in {"scale", "addpool", "upgradeAgents"} /\ q = pool
                   \/ cmd = "upgradeAgents" /\ <<q, pool>> \in StartsWith}

\* A dependsOn names a resource of the template. The ones that name a copy are
\* those of the key vault on the machines of the masters, and the one command
\* that deploys a single copy of these, upgradeMasters, refuses such clusters.
Resolves(d, T) == \E r \in T : Id(r) = d.to

\* The resources that ARM has created after some rounds, each round those
\* whose dependencies all exist.
Rounds == 10
Created(T) ==
    LET created[n \in 0..Rounds] ==
            IF n = 0 THEN {}
            ELSE LET before == created[n - 1]
                 IN {r \in T : \A d \in r.deps :
                        Resolves(d, T) /\ \E s \in before : Id(s) = d.to}
    IN created[Rounds]

(***************************************************************************)
(* The definitions that the validation accepts and the command cannot      *)
(* serve, because a dependsOn of its template names no resource of it: the *)
(* failures of the code.  The first is offered as an example,              *)
(* examples/disks-storageaccount/kubernetes-master-sa.json: its masters    *)
(* wait for a storage account that is not generated when a pool has        *)
(* managed disks.                                                          *)
(***************************************************************************)
Unserved ==
    LET account(P) == ~Has("private") /\ \E p \in P : PoolHas("account", p)
    IN CASE cmd = "deploy" ->
               \/ Has("masterAccount") /\ HasManagedDisks(Pools)
               \/ ~Has("zones") /\ HasAvailabilityZones(Pools) /\ HasManagedDisks(Pools)
               \/ /\ Standard
                  /\ \E p \in Pools : PoolHas("backendPools", p)
                  /\ \E p \in Pools : ~PoolHas("backendPools", p)
               \/ Has("gateway") /\ Has("customVnet")
         [] cmd = "upgradeMasters" ->
               \/ Has("masterAccount") \/ Has("gateway")
               \/ ~Standard /\ (Has("kms") \/ Has("dualStack"))
               \/ \E p \in Pools : PoolHas("poolExtension", p)
         [] OTHER ->
               \/ account(Redeployed)
               \/ cmd # "upgradeAgents" /\ Has("kms") /\ Has("systemID")
               \/ /\ cmd = "upgradeAgents"
                  /\ \E p \in Pools \ Redeployed : PoolHas("poolExtension", p)

(***************************************************************************)
(* Which definitions a command can serve, exactly: ARM can create every    *)
(* resource of a deployed template (each dependsOn names a resource of the *)
(* template and none waits for itself) unless the definition is one of     *)
(* those of Unserved, for which the code generates a template that ARM     *)
(* refuses.                                                                *)
(***************************************************************************)
Deployable == Deployed => (Created(template) = template <=> ~Unserved)

(***************************************************************************)
(* Which parts of the network scale, addpool and upgrade deploy again,     *)
(* undoing what Kubernetes has added to them: not the virtual network, the *)
(* route table or the security group of the cluster, and no load balancer  *)
(* at all, unless the cluster is dual stack behind Basic load balancers.   *)
(* Then, and only then, the template holds a load balancer, the one that   *)
(* CreateClusterLoadBalancerForIPv6 makes for the agents.                  *)
(***************************************************************************)
NetworkUntouched ==
    Deployed /\ cmd # "deploy" =>
        /\ \A r \in template :
              /\ r.type \notin {"vnet", "routeTable"}
              /\ r.type = "nsg" => r.own = "jumpbox"
        /\ {r.own : r \in {s \in template : s.type = "lb"}}
           = When(Has("dualStack") /\ Has("basic"), {"cluster"})

(***************************************************************************)
(* A command deploys the nodes it works on and no others: the upgrade of   *)
(* the masters no agent, the other commands no master and no other pool    *)
(* (except the pools that Redeployed adds). Those nodes are complete:      *)
(* every machine, interface, script, role assignment, image and storage    *)
(* account that a first deployment of the node would create is still there.*)
(***************************************************************************)
OnlyItsNodes ==
    Deployed /\ cmd # "deploy" =>
        /\ \A r \in template :
              r.type \in {"vm", "vmss", "nic", "cse"}
              => r.own \in Redeployed \cup {"jumpbox"}
                           \cup When(cmd = "upgradeMasters", {"master"})
        /\ \A r \in GenerateARMResources(Provisioned(cmd)) :
              \/ r.own \in Redeployed
                 /\ r.type \in {"vm", "vmss", "nic", "cse", "role", "image", "storage"}
              \/ cmd = "upgradeMasters" /\ r.own = "master"
                 /\ r.type \in {"vm", "nic", "cse", "role"}
              => \E s \in template : Id(s) = Id(r)

=============================================================================
