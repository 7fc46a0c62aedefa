-------------------------- MODULE ArmTemplateProofs --------------------------
(***************************************************************************)
(* For any pools, any names of them and any number of combined features:   *)
(* which parts of the network scale, addpool and upgrade deploy again (the *)
(* load balancer of a dual stack cluster with Basic load balancers, and no *)
(* other), and which nodes: those they work on, complete, and in an        *)
(* upgrade also those of the pools whose names begin with the pool's name. *)
(*                                                                         *)
(* The invariant gives the template of each stage as a function of the     *)
(* cluster definition.  Since a transform only drops resources and         *)
(* dependencies, what is deployed is what was generated and passes a test  *)
(* on type and owner, Kept; the properties then follow from who owns the   *)
(* resources that are generated.                                           *)
(***************************************************************************)
EXTENDS ArmTemplate, TLAPS

(* The template a command deploys, as a function of the cluster definition.  *)
(* A command removes the jumpbox, normalizes for Standard load balancers and *)
(* removes the key vault, each only if it must, before its own transform.    *)
Jumpboxed == cmd \in {"upgradeMasters", "upgradeAgents"} /\ (Has("jumpbox") \/ Has("jumpboxAccount"))
Balanced  == cmd # "deploy" /\ Standard
Vaulted   == cmd = "upgradeMasters" /\ Has("kms")

Generated == GenerateARMResources(Provisioned(cmd))
NoJumpbox == IF Jumpboxed THEN RemoveJumpboxResourcesFromTemplate(Generated) ELSE Generated
NoAgentLb == IF Balanced THEN NormalizeForK8sSLBScalingOrUpgrade(NoJumpbox) ELSE NoJumpbox
NoVault   == IF Vaulted THEN RemoveKMSResourcesFromTemplate(NoAgentLb) ELSE NoAgentLb
Final ==
    CASE cmd = "deploy"         -> NoVault
      [] cmd = "scale"          -> NormalizeForK8sVMASScalingUp(NoVault)
      [] cmd = "addpool"        -> NormalizeForK8sAddVMASPool(NoVault)
      [] cmd = "upgradeMasters" -> NormalizeResourcesForK8sMasterUpgrade(NoVault)
      [] cmd = "upgradeAgents"  -> NormalizeResourcesForK8sAgentUpgrade(NoVault, pool)

\* The same for the list of the transforms.
TransformNames == {"generate", "removeJumpbox", "slb", "removeKMS", "scalingUp", "addPool",
                   "masterUpgrade", "agentUpgrade"}
Own ==
    CASE cmd = "deploy"         -> <<>>
      [] cmd = "scale"          -> <<"scalingUp">>
      [] cmd = "addpool"        -> <<"addPool">>
      [] cmd = "upgradeMasters" -> <<"masterUpgrade">>
      [] cmd = "upgradeAgents"  -> <<"agentUpgrade">>
FromKMS     == IF Vaulted THEN <<"removeKMS">> \o Own ELSE Own
FromSLB     == IF Balanced THEN <<"slb">> \o FromKMS ELSE FromKMS
FromJumpbox == IF Jumpboxed THEN <<"removeJumpbox">> \o FromSLB ELSE FromSLB
FromStart   == <<"generate">> \o FromJumpbox

Stages ==
    \/ todo = FromStart
    \/ todo = FromJumpbox /\ template = Generated
    \/ todo = FromSLB /\ template = NoJumpbox
    \/ todo = FromKMS /\ template = NoAgentLb
    \/ todo = Own /\ template = NoVault
    \/ todo = <<>> /\ template = Final

TemplateInv ==
    \/ cmd = "none" /\ todo = <<>>
    \/ cmd \in Commands /\ pool \in Pools /\ (cmd = "upgradeAgents" => ~Has("vmss")) /\ Stages

-----------------------------------------------------------------------------
\* What the first step of a list leaves.
LEMMA StepAhead ==
    ASSUME NEW step \in TransformNames, NEW rest \in Seq(TransformNames)
    PROVE  /\ <<step>> \o rest \in Seq(TransformNames) /\ <<step>> \o rest # <<>>
           /\ Head(<<step>> \o rest) = step /\ Tail(<<step>> \o rest) = rest
<1> DEFINE s == <<step>> \o rest
<1>1. <<step>> \in Seq(TransformNames) /\ Len(<<step>>) = 1 /\ <<step>>[1] = step OBVIOUS
<1>2. /\ s \in Seq(TransformNames) /\ Len(s) = 1 + Len(rest) /\ s[1] = step
      /\ \A i \in 1..Len(rest) : s[i + 1] = rest[i]
    BY <1>1
<1> HIDE DEF s
<1>3. s # <<>> /\ Head(s) = step BY <1>2
<1>4. Tail(s) \in Seq(TransformNames) /\ Len(Tail(s)) = Len(rest) /\ \A i \in 1..Len(rest) : Tail(s)[i] = rest[i]
    BY <1>2
<1>5. Tail(s) = rest BY <1>4
<1> QED BY <1>2, <1>3, <1>5 DEF s

\* A list of one step.
LEMMA OneStep ==
    ASSUME NEW step \in TransformNames
    PROVE  /\ <<step>> \in Seq(TransformNames) /\ <<step>> # <<>>
           /\ Head(<<step>>) = step /\ Tail(<<step>>) = <<>>
OBVIOUS

\* Joining lists is associative.
LEMMA Joined ==
    ASSUME NEW a \in Seq(TransformNames), NEW b \in Seq(TransformNames), NEW c \in Seq(TransformNames)
    PROVE  (a \o b) \o c = a \o (b \o c)
OBVIOUS

\* Nothing put before a list.
LEMMA NothingAhead == ASSUME NEW a \in Seq(TransformNames) PROVE <<>> \o a = a
OBVIOUS

\* The last step is the transform of the command.
LEMMA OwnStep ==
    ASSUME cmd \in Commands
    PROVE  /\ Own \in Seq(TransformNames)
           /\ cmd = "deploy" <=> Own = <<>>
           /\ cmd # "deploy" => Tail(Own) = <<>>
           /\ cmd = "scale" => Head(Own) = "scalingUp"
           /\ cmd = "addpool" => Head(Own) = "addPool"
           /\ cmd = "upgradeMasters" => Head(Own) = "masterUpgrade"
           /\ cmd = "upgradeAgents" => Head(Own) = "agentUpgrade"
<1>1. CASE cmd = "deploy" BY <1>1 DEF Own
<1>2. CASE cmd = "scale"
    <2>1. Own = <<"scalingUp">> /\ "scalingUp" \in TransformNames BY <1>2 DEF Own, TransformNames
    <2> QED BY <1>2, <2>1, OneStep
<1>3. CASE cmd = "addpool"
    <2>1. Own = <<"addPool">> /\ "addPool" \in TransformNames BY <1>3 DEF Own, TransformNames
    <2> QED BY <1>3, <2>1, OneStep
<1>4. CASE cmd = "upgradeMasters"
    <2>1. Own = <<"masterUpgrade">> /\ "masterUpgrade" \in TransformNames BY <1>4 DEF Own, TransformNames
    <2> QED BY <1>4, <2>1, OneStep
<1>5. CASE cmd = "upgradeAgents"
    <2>1. Own = <<"agentUpgrade">> /\ "agentUpgrade" \in TransformNames BY <1>5 DEF Own, TransformNames
    <2> QED BY <1>5, <2>1, OneStep
<1> QED BY <1>1, <1>2, <1>3, <1>4, <1>5 DEF Commands

\* The list of Start is the one above.
LEMMA ListOfSteps ==
    ASSUME cmd \in Commands
    PROVE  /\ <<"generate">> \o Transforms(cmd) = FromStart
           /\ FromKMS \in Seq(TransformNames) /\ FromSLB \in Seq(TransformNames) /\ FromJumpbox \in Seq(TransformNames)
           /\ FromStart # <<>> /\ Head(FromStart) = "generate" /\ Tail(FromStart) = FromJumpbox
<1>1. Own \in Seq(TransformNames) BY OwnStep
<1>2. FromKMS \in Seq(TransformNames) BY <1>1, StepAhead DEF FromKMS, TransformNames
<1>3. FromSLB \in Seq(TransformNames) BY <1>2, StepAhead DEF FromSLB, TransformNames
<1>4. FromJumpbox \in Seq(TransformNames) BY <1>3, StepAhead DEF FromJumpbox, TransformNames
<1>5. FromStart # <<>> /\ Head(FromStart) = "generate" /\ Tail(FromStart) = FromJumpbox
    BY <1>4, StepAhead DEF FromStart
<1>6. Transforms(cmd) = FromJumpbox
    <2> DEFINE j == WithJumpbox
               l == WithSLB
               k == WithKMS
    <2>1. /\ j = <<"removeJumpbox">> \/ j = <<>>
          /\ l = <<"slb">> \/ l = <<>>
          /\ k = <<"removeKMS">> \/ k = <<>>
        BY DEF WithJumpbox, WithSLB, WithKMS
    <2>2. j \in Seq(TransformNames) /\ l \in Seq(TransformNames) /\ k \in Seq(TransformNames)
        <3>1. {"removeJumpbox", "slb", "removeKMS"} \subseteq TransformNames BY DEF TransformNames
        <3>2. <<>> \in Seq(TransformNames) OBVIOUS
        <3> HIDE DEF j, l, k
        <3> QED BY <2>1, <3>1, <3>2, OneStep
    <2>3. CASE cmd = "deploy"
        BY <2>3 DEF Vaulted, Balanced, Jumpboxed, FromJumpbox, FromSLB, FromKMS, Own, Transforms
    <2>4. CASE cmd = "scale" \/ cmd = "addpool"
        <3>1. ~Vaulted /\ ~Jumpboxed /\ (Balanced <=> Standard)
            BY <2>4 DEF Vaulted, Balanced, Jumpboxed
        <3>2. FromJumpbox = l \o Own
            BY <1>1, <3>1, NothingAhead DEF FromJumpbox, FromSLB, FromKMS, WithSLB
        <3>3. Transforms(cmd) = l \o Own BY <2>4 DEF Own, Transforms
        <3> QED BY <3>2, <3>3
    <2>5. CASE cmd = "upgradeMasters"
        <3>1. FromKMS = k \o Own
            BY <1>1, <2>5, NothingAhead DEF FromKMS, Vaulted, WithKMS
        <3>2. FromSLB = l \o FromKMS
            BY <1>2, <2>5, NothingAhead DEF FromSLB, Balanced, WithSLB
        <3>3. FromJumpbox = j \o FromSLB
            BY <1>3, <2>5, NothingAhead DEF FromJumpbox, Jumpboxed, WithJumpbox
        <3>4. Transforms(cmd) = ((j \o l) \o k) \o Own BY <2>5 DEF Transforms, Own
        <3> HIDE DEF j, l, k
        <3>5. j \o l \in Seq(TransformNames) /\ k \o Own \in Seq(TransformNames) BY <1>1, <2>2
        <3>6. ((j \o l) \o k) \o Own = (j \o l) \o (k \o Own)
            <4> DEFINE jl == j \o l
            <4>1. jl \in Seq(TransformNames) BY <3>5
            <4> HIDE DEF jl
            <4>2. (jl \o k) \o Own = jl \o (k \o Own) BY <1>1, <2>2, <4>1, Joined
            <4> QED BY <4>2 DEF jl
        <3>7. (j \o l) \o (k \o Own) = j \o (l \o (k \o Own)) BY <2>2, <3>5, Joined
        <3> QED BY <3>1, <3>2, <3>3, <3>4, <3>6, <3>7
    <2>6. CASE cmd = "upgradeAgents"
        <3>1. FromKMS = Own BY <2>6 DEF FromKMS, Vaulted
        <3>2. FromSLB = l \o FromKMS
            BY <1>2, <2>6, NothingAhead DEF FromSLB, Balanced, WithSLB
        <3>3. FromJumpbox = j \o FromSLB
            BY <1>3, <2>6, NothingAhead DEF FromJumpbox, Jumpboxed, WithJumpbox
        <3>4. Transforms(cmd) = (j \o l) \o Own BY <2>6 DEF Transforms, Own
        <3> HIDE DEF j, l
        <3>5. (j \o l) \o Own = j \o (l \o Own) BY <1>1, <2>2, Joined
        <3> QED BY <3>1, <3>2, <3>3, <3>4, <3>5
    <2> QED BY <2>3, <2>4, <2>5, <2>6 DEF Commands
<1> QED BY <1>2, <1>3, <1>4, <1>5, <1>6 DEF FromStart

-----------------------------------------------------------------------------
\* One of the transforms is applied.
Applied ==
    \/ Apply("generate", GenerateARMResources(Provisioned(cmd)))
    \/ Apply("removeJumpbox", RemoveJumpboxResourcesFromTemplate(template))
    \/ Apply("slb", NormalizeForK8sSLBScalingOrUpgrade(template))
    \/ Apply("removeKMS", RemoveKMSResourcesFromTemplate(template))
    \/ Apply("scalingUp", NormalizeForK8sVMASScalingUp(template))
    \/ Apply("addPool", NormalizeForK8sAddVMASPool(template))
    \/ Apply("masterUpgrade", NormalizeResourcesForK8sMasterUpgrade(template))
    \/ Apply("agentUpgrade", NormalizeResourcesForK8sAgentUpgrade(template, pool))

\* It is the one at the head of the list, and leads to the next stage.
LEMMA NextStage ==
    ASSUME cmd \in Commands, Stages, Applied
    PROVE  \/ todo' = FromJumpbox /\ template' = Generated
           \/ todo' = FromSLB /\ template' = NoJumpbox
           \/ todo' = FromKMS /\ template' = NoAgentLb
           \/ todo' = Own /\ template' = NoVault
           \/ todo' = <<>> /\ template' = Final
<1>0. todo # <<>> /\ todo' = Tail(todo) BY DEF Applied, Apply
<1>1. ASSUME todo = Own, template = NoVault PROVE todo' = <<>> /\ template' = Final
    <2>1. cmd # "deploy" /\ todo' = <<>> BY <1>0, <1>1, OwnStep
    <2>2. CASE cmd = "scale"
        <3>1. Head(todo) = "scalingUp" BY <1>1, <2>2, OwnStep
        <3> QED BY <1>1, <2>1, <2>2, <3>1 DEF Applied, Apply, Final
    <2>3. CASE cmd = "addpool"
        <3>1. Head(todo) = "addPool" BY <1>1, <2>3, OwnStep
        <3> QED BY <1>1, <2>1, <2>3, <3>1 DEF Applied, Apply, Final
    <2>4. CASE cmd = "upgradeMasters"
        <3>1. Head(todo) = "masterUpgrade" BY <1>1, <2>4, OwnStep
        <3> QED BY <1>1, <2>1, <2>4, <3>1 DEF Applied, Apply, Final
    <2>5. CASE cmd = "upgradeAgents"
        <3>1. Head(todo) = "agentUpgrade" BY <1>1, <2>5, OwnStep
        <3> QED BY <1>1, <2>1, <2>5, <3>1 DEF Applied, Apply, Final
    <2> QED BY <2>1, <2>2, <2>3, <2>4, <2>5 DEF Commands
<1>2. ASSUME todo = FromKMS, template = NoAgentLb
      PROVE  \/ todo' = Own /\ template' = NoVault
             \/ todo' = <<>> /\ template' = Final
    <2>1. CASE Vaulted
        <3>1. Head(todo) = "removeKMS" /\ Tail(todo) = Own
            BY <1>2, <2>1, OwnStep, StepAhead DEF FromKMS, TransformNames
        <3>2. template' = RemoveKMSResourcesFromTemplate(template) BY <3>1 DEF Applied, Apply
        <3> QED BY <1>0, <1>2, <2>1, <3>1, <3>2 DEF NoVault
    <2>2. CASE ~Vaulted BY <1>1, <1>2, <2>2 DEF FromKMS, NoVault
    <2> QED BY <2>1, <2>2
<1>3. ASSUME todo = FromSLB, template = NoJumpbox
      PROVE  \/ todo' = FromKMS /\ template' = NoAgentLb
             \/ todo' = Own /\ template' = NoVault
             \/ todo' = <<>> /\ template' = Final
    <2>1. CASE Balanced
        <3>1. Head(todo) = "slb" /\ Tail(todo) = FromKMS
            BY <1>3, <2>1, ListOfSteps, StepAhead DEF FromSLB, TransformNames
        <3>2. template' = NormalizeForK8sSLBScalingOrUpgrade(template) BY <3>1 DEF Applied, Apply
        <3> QED BY <1>0, <1>3, <2>1, <3>1, <3>2 DEF NoAgentLb
    <2>2. CASE ~Balanced BY <1>2, <1>3, <2>2 DEF FromSLB, NoAgentLb
    <2> QED BY <2>1, <2>2
<1>4. ASSUME todo = FromJumpbox, template = Generated
      PROVE  \/ todo' = FromSLB /\ template' = NoJumpbox
             \/ todo' = FromKMS /\ template' = NoAgentLb
             \/ todo' = Own /\ template' = NoVault
             \/ todo' = <<>> /\ template' = Final
    <2>1. CASE Jumpboxed
        <3>1. Head(todo) = "removeJumpbox" /\ Tail(todo) = FromSLB
            BY <1>4, <2>1, ListOfSteps, StepAhead DEF FromJumpbox, TransformNames
        <3>2. template' = RemoveJumpboxResourcesFromTemplate(template) BY <3>1 DEF Applied, Apply
        <3> QED BY <1>0, <1>4, <2>1, <3>1, <3>2 DEF NoJumpbox
    <2>2. CASE ~Jumpboxed BY <1>3, <1>4, <2>2 DEF FromJumpbox, NoJumpbox
    <2> QED BY <2>1, <2>2
<1>5. CASE todo = FromStart
    <2>1. Head(todo) = "generate" /\ Tail(todo) = FromJumpbox BY <1>5, ListOfSteps
    <2>2. template' = Generated BY <2>1 DEF Applied, Apply, Generated
    <2> QED BY <1>0, <2>1, <2>2
<1> QED BY <1>0, <1>1, <1>2, <1>3, <1>4, <1>5 DEF Stages

-----------------------------------------------------------------------------
\* What is generated depends on the definition only.
LEMMA SameFeatures ==
    ASSUME features' = features, NEW P
    PROVE  GenerateARMResources(P)' = GenerateARMResources(P)
<1>1. \A f : Has(f)' = Has(f) BY Zenon DEF Has
<1>2. \A f, p : PoolHas(f, p)' = PoolHas(f, p) BY Zenon DEF PoolHas
<1>3. Standard' = Standard BY <1>1, Zenon DEF Standard
<1>4. InNetwork' = InNetwork BY <1>1, Zenon DEF InNetwork
<1>5. \A p : BehindAgentLb(p)' = BehindAgentLb(p) BY <1>2, <1>3, Zenon DEF BehindAgentLb
<1>6. \A p : FromImage(p)' = FromImage(p) BY <1>2, Zenon DEF FromImage
<1>7. \A p : AgentVMSS(p)' = AgentVMSS(p) BY <1>4, <1>5, <1>6, Zenon DEF AgentVMSS
<1>8. \A p, t : SysRoleAssignment(p, t)' = SysRoleAssignment(p, t) BY <1>1, Zenon DEF SysRoleAssignment
<1>9. \A p, t : AgentStorageAccount(p, t)' = AgentStorageAccount(p, t) BY <1>1, Zenon DEF AgentStorageAccount
<1>10. \A p : AgentNetworkInterface(p)' = AgentNetworkInterface(p) BY <1>4, <1>5, Zenon DEF AgentNetworkInterface
<1>11. \A p : AgentAvailabilitySetVM(p)' = AgentAvailabilitySetVM(p) BY <1>2, <1>6, Zenon DEF AgentAvailabilitySetVM
<1>12. \A p : AgentVMASResources(p)' = AgentVMASResources(p)
    BY <1>2, <1>8, <1>9, <1>10, <1>11, Zenon DEF AgentVMASResources
<1>13. StandardLoadBalancerForNodePools(P)' = StandardLoadBalancerForNodePools(P)
    BY <1>1, <1>2, <1>3, Zenon DEF StandardLoadBalancerForNodePools
<1>14. HasManagedDisks(P)' = HasManagedDisks(P) /\ HasAvailabilityZones(P)' = HasAvailabilityZones(P)
    BY <1>1, <1>2, Zenon DEF HasManagedDisks, ManagedPool, HasAvailabilityZones
<1>15. MasterDisks(P)' = MasterDisks(P) BY <1>1, <1>14, Zenon DEF MasterDisks, MasterStorageAccount
<1>16. RequireRouteTable' = RequireRouteTable /\ RouteTable' = RouteTable /\ VirtualNetwork' = VirtualNetwork
    BY <1>1, Zenon DEF RequireRouteTable, RouteTable, VirtualNetwork
<1>17. Jumpbox' = Jumpbox BY <1>1, Zenon DEF Jumpbox, JumpboxNetworkInterface
<1>18. MasterNetworkInterface' = MasterNetworkInterface
       /\ PrivateMasterNetworkInterface' = PrivateMasterNetworkInterface
    BY <1>1, <1>3, <1>4, Zenon DEF MasterNetworkInterface, PrivateMasterNetworkInterface, BehindInternalLb
<1>19. MasterInternalLoadBalancer' = MasterInternalLoadBalancer BY <1>4, Zenon DEF MasterInternalLoadBalancer
<1>20. KeyVault' = KeyVault /\ MasterVM' = MasterVM /\ MasterCustomScriptExtension' = MasterCustomScriptExtension
    BY <1>1, Zenon DEF KeyVault, MasterVM, MasterCustomScriptExtension
<1>21. CustomExtensions(P)' = CustomExtensions(P) BY <1>1, <1>2, Zenon DEF CustomExtensions
<1>22. MasterResourcesVMAS(P)' = MasterResourcesVMAS(P)
    BY <1>1, <1>3, <1>8, <1>15, <1>16, <1>17, <1>18, <1>19, <1>20, <1>21, Zenon DEF MasterResourcesVMAS
<1>23. AppGwIngress' = AppGwIngress /\ UserAssignedIdentity' = UserAssignedIdentity
    BY <1>1, Zenon DEF AppGwIngress, UserAssignedIdentity
<1> DEFINE agents == UNION {IF Has("vmss") THEN {AgentVMSS(p)} \cup SysRoleAssignment(p, "vmss")
                                          ELSE AgentVMASResources(p) : p \in P}
           images == {R("image", p, "image", {}) : p \in {q \in P : PoolHas("image", q)}}
           telemetry == When(Has("telemetry"), {R("deployment", "cluster", "telemetry", {})})
<1>24. agents' = agents BY <1>1, <1>7, <1>8, <1>12, Zenon
<1>25. images' = images BY <1>2, Zenon
<1>26. telemetry' = telemetry BY <1>1, Zenon
<1> QED BY <1>13, <1>22, <1>23, <1>24, <1>25, <1>26, Zenon DEF GenerateARMResources

\* The template and the list of every stage are the same after a step.
SameStages ==
    /\ FromStart' = FromStart /\ FromJumpbox' = FromJumpbox /\ FromSLB' = FromSLB
    /\ FromKMS' = FromKMS /\ Own' = Own
    /\ Generated' = Generated /\ NoJumpbox' = NoJumpbox /\ NoAgentLb' = NoAgentLb
    /\ NoVault' = NoVault /\ Final' = Final

\* They are unless the command or the definition changes.
LEMMA SameCommand ==
    ASSUME features' = features, cmd' = cmd, pool' = pool
    PROVE  SameStages
<1>1. \A f : Has(f)' = Has(f) BY Zenon DEF Has
<1>2. Standard' = Standard BY <1>1, Zenon DEF Standard
<1>3. Jumpboxed' = Jumpboxed /\ Balanced' = Balanced /\ Vaulted' = Vaulted
    BY <1>1, <1>2, Zenon DEF Jumpboxed, Balanced, Vaulted
<1>4. Own' = Own BY Zenon DEF Own
<1>5. FromKMS' = FromKMS BY <1>3, <1>4, Zenon DEF FromKMS
<1>6. FromSLB' = FromSLB BY <1>3, <1>5, Zenon DEF FromSLB
<1>7. FromJumpbox' = FromJumpbox /\ FromStart' = FromStart
    BY <1>3, <1>6, Zenon DEF FromJumpbox, FromStart
<1>8. Generated' = Generated
    <2>1. PICK P : P = Provisioned(cmd) OBVIOUS
    <2>2. Provisioned(cmd)' = P BY <2>1, Zenon DEF Provisioned
    <2>3. GenerateARMResources(P)' = GenerateARMResources(P) BY SameFeatures
    <2> QED BY <2>1, <2>2, <2>3, Zenon DEF Generated
<1>9. NoJumpbox' = NoJumpbox BY <1>3, <1>8, Zenon DEF NoJumpbox
<1>10. NoAgentLb' = NoAgentLb BY <1>3, <1>9, Zenon DEF NoAgentLb
<1>11. NoVault' = NoVault BY <1>3, <1>10, Zenon DEF NoVault
<1>12. Final' = Final BY <1>11, Zenon DEF Final
<1> QED BY <1>4, <1>5, <1>6, <1>7, <1>8, <1>9, <1>10, <1>11, <1>12 DEF SameStages

\* The lemma ListOfSteps for the state that Start leaves.
ListAsStarted == cmd \in Commands => <<"generate">> \o Transforms(cmd) = FromStart
LEMMA StartedNow == ListAsStarted
BY ListOfSteps DEF ListAsStarted
LEMMA StartedNext == ListAsStarted'
BY StartedNow, PTL

\* No command runs at first.
LEMMA TemplateInit == Init => TemplateInv
BY DEF Init, TemplateInv

\* Every transform leads from one stage to a later one.
LEMMA TemplateStep == TemplateInv /\ [Next]_vars => TemplateInv'
<1> SUFFICES ASSUME TemplateInv, [Next]_vars PROVE TemplateInv' OBVIOUS
<1>1. CASE UNCHANGED vars
    <2>1. cmd' = cmd /\ pool' = pool /\ features' = features /\ todo' = todo /\ template' = template
        BY <1>1 DEF vars
    <2>2. SameStages BY <2>1, SameCommand
    <2> QED BY <2>1, <2>2 DEF TemplateInv, Stages, SameStages, Has
<1>2. ASSUME NEW c \in Commands, NEW p \in Pools, Start(c, p) PROVE TemplateInv'
    <2>1. cmd' = c /\ pool' = p /\ features' = features BY <1>2 DEF Start
    <2>2. (c = "upgradeAgents" => ~Has("vmss"))' BY <1>2 DEF Start, Has
    <2>3. todo' = FromStart'
        <3>1. todo' = <<"generate">> \o Transforms(c) BY <1>2 DEF Start
        <3>2. ListAsStarted' BY StartedNext
        <3>3. \A f : Has(f)' = Has(f) BY <2>1, Zenon DEF Has
        <3>4. Transforms(cmd)' = Transforms(c)
            BY <2>1, <3>3, Zenon DEF Transforms, WithJumpbox, WithSLB, WithKMS, Standard
        <3>5. cmd' \in Commands BY <2>1
        <3> QED BY <3>1, <3>2, <3>4, <3>5 DEF ListAsStarted
    <2> QED BY <2>1, <2>2, <2>3 DEF TemplateInv, Stages
<1>3. CASE Applied
    <2>1. cmd' = cmd /\ pool' = pool /\ features' = features BY <1>3 DEF Applied, Apply
    <2>2. SameStages BY <2>1, SameCommand
    <2>3. todo # <<>> BY <1>3 DEF Applied, Apply
    <2>4. cmd \in Commands /\ pool \in Pools /\ (cmd = "upgradeAgents" => ~Has("vmss")) /\ Stages
        BY <2>3 DEF TemplateInv
    <2>5. Stages' BY <1>3, <2>2, <2>4, NextStage DEF Stages, SameStages
    <2> QED BY <2>1, <2>4, <2>5 DEF TemplateInv, Has
<1> QED BY <1>1, <1>2, <1>3 DEF Next, Applied

-----------------------------------------------------------------------------
(* What is generated: records, and who owns the resources of the types that  *)
(* the properties speak of.                                                  *)
IsResource(r) == r = R(r.type, r.own, r.part, r.deps)
NodeTypes == {"vm", "vmss", "nic", "cse"}

WellOwned(r, P) ==
    /\ IsResource(r)
    /\ r.type = "lb" => \/ r.own = "master"
                        \/ r.own = "agent" /\ Standard
                        \/ r.own = "cluster" /\ Has("dualStack") /\ Has("basic")
    /\ r.type = "nsg" => r.own \in {"cluster", "jumpbox"}
    /\ r.type \in NodeTypes => r.own \in P \cup {"master", "jumpbox"}
    /\ r.type = "vmss" => Has("vmss")

\* A generated resource has the fields it is given.
LEMMA ResourceFields ==
    ASSUME NEW t, NEW o, NEW part, NEW d
    PROVE  /\ R(t, o, part, d).type = t /\ R(t, o, part, d).own = o
           /\ R(t, o, part, d).part = part /\ R(t, o, part, d).deps = d
           /\ IsResource(R(t, o, part, d))
BY DEF R, IsResource

\* The resources of the masters and of the cluster.
LEMMA MastersWellOwned == ASSUME NEW P PROVE \A r \in MasterResourcesVMAS(P) : WellOwned(r, P)
<1> USE ResourceFields DEF WellOwned, NodeTypes, When
<1>1. \A r \in MasterDisks(P) : WellOwned(r, P) BY DEF MasterDisks, MasterStorageAccount
<1>2. \A r \in {NetworkSecurityGroup} \cup RouteTable \cup VirtualNetwork : WellOwned(r, P)
    BY DEF NetworkSecurityGroup, RouteTable, VirtualNetwork
<1>3. \A r \in Jumpbox : WellOwned(r, P)
    BY DEF Jumpbox, JumpboxVM, JumpboxNSG, JumpboxPublicIP, JumpboxNetworkInterface
<1>4. WellOwned(PrivateMasterNetworkInterface, P) /\ WellOwned(MasterNetworkInterface, P)
    BY DEF PrivateMasterNetworkInterface, MasterNetworkInterface
<1>5. WellOwned(MasterPublicIP, P) /\ WellOwned(MasterLoadBalancer, P) /\ WellOwned(MasterInternalLoadBalancer, P)
    BY DEF MasterPublicIP, MasterLoadBalancer, MasterInternalLoadBalancer
<1>6. WellOwned(KeyVaultStorageAccount, P) /\ WellOwned(KeyVault, P) /\ WellOwned(KeyVaultKey, P)
    BY DEF KeyVaultStorageAccount, KeyVault, KeyVaultKey
<1>7. Has("dualStack") /\ ~Standard => \A r \in ClusterLoadBalancerForIPv6 : WellOwned(r, P)
    BY DEF ClusterLoadBalancerForIPv6, Standard
<1>8. WellOwned(MasterVM, P) /\ WellOwned(MasterCustomScriptExtension, P)
    BY DEF MasterVM, MasterCustomScriptExtension
<1>9. \A r \in SysRoleAssignment("master", "vm") : WellOwned(r, P) BY DEF SysRoleAssignment
<1>10. \A r \in CustomExtensions(P) : WellOwned(r, P)
    <2>1. \A o : WellOwned(CustomExtension(o), P) BY DEF CustomExtension
    <2> HIDE DEF WellOwned
    <2> QED BY <2>1 DEF CustomExtensions
<1>11. WellOwned(R("cosmos", "cluster", "etcd", {}), P) OBVIOUS
<1> HIDE DEF WellOwned, NodeTypes
<1> QED BY <1>1, <1>2, <1>3, <1>4, <1>5, <1>6, <1>7, <1>8, <1>9, <1>10, <1>11 DEF MasterResourcesVMAS

\* The resources of a pool.
LEMMA PoolsWellOwned ==
    ASSUME NEW P, NEW p \in P
    PROVE  /\ Has("vmss") => \A r \in {AgentVMSS(p)} \cup SysRoleAssignment(p, "vmss") : WellOwned(r, P)
           /\ \A r \in AgentVMASResources(p) : WellOwned(r, P)
           /\ WellOwned(R("image", p, "image", {}), P)
<1> USE ResourceFields DEF WellOwned, NodeTypes, When
<1>1. Has("vmss") => WellOwned(AgentVMSS(p), P) BY DEF AgentVMSS
<1>2. \A r \in SysRoleAssignment(p, "vmss") \cup SysRoleAssignment(p, "vm") : WellOwned(r, P)
    BY DEF SysRoleAssignment
<1>3. WellOwned(AgentNetworkInterface(p), P) /\ WellOwned(AgentAvailabilitySetVM(p), P)
      /\ WellOwned(AgentCustomScriptExtension(p), P) /\ WellOwned(R("avset", p, "avset", {}), P)
    BY DEF AgentNetworkInterface, AgentAvailabilitySetVM, AgentCustomScriptExtension
<1>4. \A part : WellOwned(AgentStorageAccount(p, part), P) BY DEF AgentStorageAccount
<1>5. WellOwned(R("image", p, "image", {}), P) OBVIOUS
<1> HIDE DEF WellOwned, NodeTypes
<1> QED BY <1>1, <1>2, <1>3, <1>4, <1>5 DEF AgentVMASResources

\* Everything GenerateARMResources returns.
LEMMA AllWellOwned == ASSUME NEW P PROVE \A r \in GenerateARMResources(P) : WellOwned(r, P)
<1>1. \A r \in UserAssignedIdentity : WellOwned(r, P)
    BY ResourceFields DEF UserAssignedIdentity, When, WellOwned, NodeTypes
<1>2. \A r \in StandardLoadBalancerForNodePools(P) : WellOwned(r, P)
    BY ResourceFields DEF StandardLoadBalancerForNodePools, When, WellOwned, NodeTypes
<1>3. \A r \in AppGwIngress : WellOwned(r, P)
    BY ResourceFields DEF AppGwIngress, ApplicationGateway, AppGwRoleAssignment, When, WellOwned, NodeTypes
<1>4. WellOwned(R("deployment", "cluster", "telemetry", {}), P)
    BY ResourceFields DEF WellOwned, NodeTypes
<1>5. \A r \in UNION {IF Has("vmss") THEN {AgentVMSS(p)} \cup SysRoleAssignment(p, "vmss")
                                     ELSE AgentVMASResources(p) : p \in P} : WellOwned(r, P)
    BY PoolsWellOwned
<1>6. \A r \in {R("image", p, "image", {}) : p \in {q \in P : PoolHas("image", q)}} : WellOwned(r, P)
    BY PoolsWellOwned
<1> QED BY <1>1, <1>2, <1>3, <1>4, <1>5, <1>6, MastersWellOwned DEF GenerateARMResources, When

-----------------------------------------------------------------------------
(* The transforms drop resources and dependencies and change nothing else.   *)
Lists(T) == \A r \in T : IsResource(r)
\* Every resource of S is one of T, except for its dependencies.
Within(S, T) == \A s \in S : \E r \in T : Id(s) = Id(r)

\* Resources of the same identity differ in their dependencies only.
LEMMA SameIdentity ==
    ASSUME NEW r, NEW s
    PROVE  Id(r) = Id(s) <=> r.type = s.type /\ r.own = s.own /\ r.part = s.part
BY DEF Id

\* A resource with other dependencies is still the same resource.
LEMMA FewerDeps ==
    ASSUME NEW r, IsResource(r), NEW D
    PROVE  IsResource([r EXCEPT !.deps = D]) /\ Id([r EXCEPT !.deps = D]) = Id(r)
BY DEF IsResource, R, Id

\* DropDeps loses no resource and adds none.
LEMMA DepsDropped ==
    ASSUME NEW T, Lists(T), NEW gone
    PROVE  Lists(DropDeps(T, gone)) /\ Within(DropDeps(T, gone), T) /\ Within(T, DropDeps(T, gone))
<1>1. \A s \in DropDeps(T, gone) : \E r \in T : IsResource(s) /\ Id(s) = Id(r)
    BY FewerDeps DEF DropDeps, Lists
<1>2. \A r \in T : \E s \in DropDeps(T, gone) : Id(r) = Id(s)
    <2> TAKE r \in T
    <2> DEFINE s == [r EXCEPT !.deps = @ \ gone]
    <2>1. s \in DropDeps(T, gone) BY DEF DropDeps
    <2>2. Id(s) = Id(r) BY FewerDeps DEF Lists
    <2> QED BY <2>1, <2>2
<1> QED BY <1>1, <1>2 DEF Lists, Within

\* removeVMAS loses the availability sets only.
LEMMA SetsRemoved ==
    ASSUME NEW T, Lists(T)
    PROVE  /\ Lists(RemoveVMAS(T)) /\ Within(RemoveVMAS(T), T)
           /\ Within({r \in T : r.type # "avset"}, RemoveVMAS(T))
<1> DEFINE cut(r) == IF r.type = "vm" THEN {d \in r.deps : ~(d.to[1] = "avset" /\ d.by = "type")} ELSE r.deps
<1>1. RemoveVMAS(T) = {[r EXCEPT !.deps = cut(r)] : r \in {s \in T : s.type # "avset"}}
    BY DEF RemoveVMAS
<1> HIDE DEF cut
<1>2. \A s \in RemoveVMAS(T) : \E r \in T : IsResource(s) /\ Id(s) = Id(r)
    <2> TAKE s \in RemoveVMAS(T)
    <2>1. PICK r \in T : s = [r EXCEPT !.deps = cut(r)] BY <1>1
    <2>2. IsResource(s) /\ Id(s) = Id(r) BY <2>1, FewerDeps DEF Lists
    <2> QED BY <2>2
<1>3. \A r \in {s \in T : s.type # "avset"} : \E s \in RemoveVMAS(T) : Id(r) = Id(s)
    <2> TAKE r \in {s \in T : s.type # "avset"}
    <2>1. [r EXCEPT !.deps = cut(r)] \in RemoveVMAS(T) BY <1>1
    <2>2. Id([r EXCEPT !.deps = cut(r)]) = Id(r) BY FewerDeps DEF Lists
    <2> QED BY <2>1, <2>2
<1> QED BY <1>2, <1>3 DEF Lists, Within

-----------------------------------------------------------------------------
(* What a command deploys is a part of what it generates, less what each of  *)
(* its transforms takes away.                                                *)
Cleared == \* before the transform of the command
    {r \in Generated : /\ Jumpboxed => r.own # "jumpbox"
                       /\ Balanced => ~(r.type = "lb" /\ r.own = "agent")
                       /\ Vaulted => r.own # "keyVault"}

\* The transforms before the command's own leave exactly that.
LEMMA ClearedBefore == Lists(NoVault) /\ Within(NoVault, Cleared) /\ Within(Cleared, NoVault)
<1>1. Lists(Generated) BY AllWellOwned DEF Generated, Lists, WellOwned
<1>2. NoJumpbox = {r \in Generated : Jumpboxed => r.own # "jumpbox"}
    BY DEF NoJumpbox, RemoveJumpboxResourcesFromTemplate
<1> DEFINE unbalanced == {r \in NoJumpbox : ~(r.type = "lb" /\ r.own = "agent")}
<1>3. Lists(NoJumpbox) /\ Lists(unbalanced) BY <1>1, <1>2 DEF Lists
<1> DEFINE balanced == IF Balanced THEN unbalanced ELSE NoJumpbox
<1>4. Lists(NoAgentLb) /\ Within(NoAgentLb, balanced) /\ Within(balanced, NoAgentLb)
    <2>1. CASE Balanced
        <3>1. PICK gone : NoAgentLb = DropDeps(unbalanced, gone)
            BY <2>1 DEF NoAgentLb, NormalizeForK8sSLBScalingOrUpgrade
        <3> QED BY <1>3, <2>1, <3>1, DepsDropped
    <2>2. CASE ~Balanced BY <1>3, <2>2 DEF NoAgentLb, Within
    <2> QED BY <2>1, <2>2
<1>5. NoVault = {r \in NoAgentLb : Vaulted => r.own # "keyVault"}
    BY DEF NoVault, RemoveKMSResourcesFromTemplate
<1>6. balanced = {r \in Generated : /\ Jumpboxed => r.own # "jumpbox"
                                    /\ Balanced => ~(r.type = "lb" /\ r.own = "agent")}
    BY <1>2
<1> HIDE DEF balanced, unbalanced
<1>7. Within(NoVault, Cleared)
    <2>1. \A s \in NoVault : \E r \in Cleared : Id(s) = Id(r)
        <3> TAKE s \in NoVault
        <3>1. s \in NoAgentLb /\ (Vaulted => s.own # "keyVault") BY <1>5
        <3>2. PICK r \in balanced : Id(s) = Id(r) BY <1>4, <3>1 DEF Within
        <3>3. r \in Cleared BY <1>6, <3>1, <3>2, SameIdentity DEF Cleared
        <3> QED BY <3>2, <3>3
    <2> QED BY <2>1 DEF Within
<1>8. Within(Cleared, NoVault)
    <2>1. \A r \in Cleared : \E s \in NoVault : Id(r) = Id(s)
        <3> TAKE r \in Cleared
        <3>1. r \in balanced /\ (Vaulted => r.own # "keyVault") BY <1>6 DEF Cleared
        <3>2. PICK s \in NoAgentLb : Id(r) = Id(s) BY <1>4, <3>1 DEF Within
        <3>3. s \in NoVault BY <1>5, <3>1, <3>2, SameIdentity
        <3> QED BY <3>2, <3>3
    <2> QED BY <2>1 DEF Within
<1> QED BY <1>4, <1>5, <1>7, <1>8 DEF Lists

\* What the transform of the command keeps.
Kept(r) ==
    CASE cmd \in {"scale", "addpool"} ->
            /\ ~Named(r, "master") /\ Id(r) # <<"publicIP", "agent", "ip">>
            /\ r.type \notin {"routeTable", "vnet"}
            /\ IF cmd = "scale" THEN r.type # "avset" /\ (r.type = "nsg" => r.own = "jumpbox")
                                ELSE r.type # "nsg" /\ r.own # "jumpbox"
      [] cmd = "upgradeMasters" -> r.type # "avset" /\ KeptForMasterUpgrade(r)
      [] cmd = "upgradeAgents" ->
            /\ ~Named(r, "master") /\ Id(r) # <<"publicIP", "agent", "ip">>
            /\ r.type \notin {"routeTable", "vnet", "avset"} /\ (r.type = "nsg" => r.own = "jumpbox")
            /\ KeptForAgentUpgrade(r, pool)

\* The test looks at type and owner, and does not see dependencies.
LEMMA KeptAlike ==
    ASSUME NEW r, NEW s, Id(r) = Id(s), cmd \in Commands \ {"deploy"}
    PROVE  Kept(r) <=> Kept(s)
<1>1. r.type = s.type /\ r.own = s.own BY SameIdentity
<1>2. \A n : Named(r, n) <=> Named(s, n) BY <1>1 DEF Named
<1>3. KeptForMasterUpgrade(r) <=> KeptForMasterUpgrade(s) BY <1>1 DEF KeptForMasterUpgrade
<1>4. KeptForAgentUpgrade(r, pool) <=> KeptForAgentUpgrade(s, pool) BY <1>1, <1>2 DEF KeptForAgentUpgrade
<1> QED BY <1>1, <1>2, <1>3, <1>4 DEF Kept, Commands

\* The command's own transform leaves exactly what passes the test.
LEMMA KeptOfList ==
    ASSUME cmd \in Commands \ {"deploy"}
    PROVE  /\ Within(Final, {r \in NoVault : Kept(r)})
           /\ Within({r \in NoVault : Kept(r)}, Final)
<1> DEFINE kept == {r \in NoVault : Kept(r)}
<1>1. Lists(NoVault) BY ClearedBefore
<1>2. CASE cmd = "scale"
    <2>1. kept = {r \in RemoveResourcesAndOutputsForScaling(NoVault) :
                     /\ r.type \notin {"routeTable", "vnet", "avset"}
                     /\ r.type = "nsg" => r.own = "jumpbox"}
        BY <1>2 DEF Kept, RemoveResourcesAndOutputsForScaling
    <2>2. PICK gone : Final = DropDeps(kept, gone)
        BY <1>2, <2>1 DEF Final, NormalizeForK8sVMASScalingUp
    <2>3. Lists(kept) BY <1>1 DEF Lists
    <2> QED BY <2>2, <2>3, DepsDropped
<1>3. CASE cmd = "addpool"
    <2>1. kept = {r \in RemoveResourcesAndOutputsForScaling(RemoveJumpboxResourcesFromTemplate(NoVault)) :
                     r.type \notin {"vnet", "routeTable", "nsg"}}
        BY <1>3 DEF Kept, RemoveResourcesAndOutputsForScaling, RemoveJumpboxResourcesFromTemplate
    <2>2. PICK gone : Final = DropDeps(kept, gone)
        BY <1>3, <2>1 DEF Final, NormalizeForK8sAddVMASPool
    <2>3. Lists(kept) BY <1>1 DEF Lists
    <2> QED BY <2>2, <2>3, DepsDropped
<1>4. CASE cmd = "upgradeMasters"
    <2> DEFINE noSets == RemoveVMAS(NoVault)
               cut(r) == IF r.type = "nic" THEN {} ELSE r.deps
    <2>1. Lists(noSets) /\ Within(noSets, NoVault) /\ Within({r \in NoVault : r.type # "avset"}, noSets)
          /\ \A s \in noSets : s.type # "avset"
        <3>1. \A s \in noSets : \E r \in NoVault : r.type # "avset" /\ Id(s) = Id(r)
            <4> TAKE s \in noSets
            <4>1. PICK r \in NoVault : /\ r.type # "avset"
                                       /\ \E D : s = [r EXCEPT !.deps = D]
                BY DEF RemoveVMAS
            <4> QED BY <1>1, <4>1, FewerDeps DEF Lists
        <3> QED BY <1>1, <3>1, SetsRemoved, SameIdentity
    <2>2. Final = {[r EXCEPT !.deps = cut(r)] : r \in {s \in noSets : KeptForMasterUpgrade(s)}}
        BY <1>4 DEF Final, NormalizeResourcesForK8sMasterUpgrade
    <2> HIDE DEF noSets, cut
    <2>3. \A r : Kept(r) <=> r.type # "avset" /\ KeptForMasterUpgrade(r) BY <1>4 DEF Kept
    <2>4. \A s \in Final : \E r \in kept : Id(s) = Id(r)
        <3> TAKE s \in Final
        <3>1. PICK q \in noSets : KeptForMasterUpgrade(q) /\ s = [q EXCEPT !.deps = cut(q)] BY <2>2
        <3>2. Id(s) = Id(q) BY <2>1, <3>1, FewerDeps DEF Lists
        <3>3. PICK r \in NoVault : Id(q) = Id(r) BY <2>1 DEF Within
        <3>4. Kept(q) BY <2>1, <2>3, <3>1
        <3>5. Kept(r) BY <3>3, <3>4, KeptAlike
        <3> QED BY <3>2, <3>3, <3>5
    <2>5. \A r \in kept : \E s \in Final : Id(r) = Id(s)
        <3> TAKE r \in kept
        <3>1. r.type # "avset" BY <2>3
        <3>2. PICK q \in noSets : Id(r) = Id(q) BY <2>1, <3>1 DEF Within
        <3>3. KeptForMasterUpgrade(q) BY <2>3, <3>2, KeptAlike
        <3>4. [q EXCEPT !.deps = cut(q)] \in Final BY <2>2, <3>3
        <3>5. Id([q EXCEPT !.deps = cut(q)]) = Id(q) BY <2>1, FewerDeps DEF Lists
        <3> QED BY <3>2, <3>4, <3>5
    <2> QED BY <2>4, <2>5 DEF Within
<1>5. CASE cmd = "upgradeAgents"
    <2> DEFINE noSets == RemoveVMAS(NoVault)
               own == {r \in noSets : KeptForAgentUpgrade(r, pool)}
               rest == {r \in RemoveResourcesAndOutputsForScaling(own) :
                           /\ r.type \notin {"routeTable", "vnet", "avset"}
                           /\ r.type = "nsg" => r.own = "jumpbox"}
    <2>1. Lists(noSets) /\ Within(noSets, NoVault) /\ Within({r \in NoVault : r.type # "avset"}, noSets)
        BY <1>1, SetsRemoved
    <2>2. PICK gone : Final = DropDeps(rest, gone)
        BY <1>5 DEF Final, NormalizeResourcesForK8sAgentUpgrade, NormalizeForK8sVMASScalingUp
    <2>3. rest = {r \in noSets : Kept(r)}
        BY <1>5 DEF Kept, RemoveResourcesAndOutputsForScaling
    <2>4. Lists(rest) BY <2>1 DEF Lists, RemoveResourcesAndOutputsForScaling
    <2>5. Within(Final, rest) /\ Within(rest, Final) BY <2>2, <2>4, DepsDropped
    <2> HIDE DEF noSets, own, rest
    <2>6. \A s \in rest : \E r \in kept : Id(s) = Id(r)
        <3> TAKE s \in rest
        <3>1. PICK r \in NoVault : Id(s) = Id(r) BY <2>1, <2>3 DEF Within
        <3>2. Kept(r) BY <2>3, <3>1, KeptAlike
        <3> QED BY <3>1, <3>2
    <2>7. \A r \in kept : \E s \in rest : Id(r) = Id(s)
        <3> TAKE r \in kept
        <3>1. r.type # "avset" BY <1>5 DEF Kept
        <3>2. PICK s \in noSets : Id(r) = Id(s) BY <2>1, <3>1 DEF Within
        <3>3. Kept(s) BY <3>2, KeptAlike
        <3> QED BY <2>3, <3>2, <3>3
    <2> QED BY <2>5, <2>6, <2>7 DEF Within
<1> QED BY <1>2, <1>3, <1>4, <1>5 DEF Commands

\* Both together: what the command deploys.
LEMMA WhatIsDeployed ==
    ASSUME cmd \in Commands \ {"deploy"}
    PROVE  /\ Within(Final, {r \in Cleared : Kept(r)})
           /\ Within({r \in Cleared : Kept(r)}, Final)
<1>1. Within(NoVault, Cleared) /\ Within(Cleared, NoVault) BY ClearedBefore
<1>2. \A s \in Final : \E r \in {q \in Cleared : Kept(q)} : Id(s) = Id(r)
    <2> TAKE s \in Final
    <2>1. PICK q \in NoVault : Kept(q) /\ Id(s) = Id(q) BY KeptOfList DEF Within
    <2>2. PICK r \in Cleared : Id(q) = Id(r) BY <1>1 DEF Within
    <2>3. Kept(r) BY <2>1, <2>2, KeptAlike
    <2> QED BY <2>1, <2>2, <2>3
<1>3. \A r \in {q \in Cleared : Kept(q)} : \E s \in Final : Id(r) = Id(s)
    <2> TAKE r \in {q \in Cleared : Kept(q)}
    <2>1. PICK q \in NoVault : Id(r) = Id(q) BY <1>1 DEF Within
    <2>2. Kept(q) BY <2>1, KeptAlike
    <2>3. PICK s \in Final : Id(q) = Id(s) BY <2>1, <2>2, KeptOfList DEF Within
    <2> QED BY <2>1, <2>3
<1> QED BY <1>2, <1>3 DEF Within

-----------------------------------------------------------------------------
\* A command that has no transform left to do deploys the last template.
LEMMA DeployedIsFinal ==
    ASSUME TemplateInv, Deployed, cmd # "deploy"
    PROVE  /\ template = Final /\ cmd \in Commands \ {"deploy"} /\ pool \in Pools
           /\ cmd = "upgradeAgents" => ~Has("vmss")
<1>1. cmd \in Commands /\ pool \in Pools /\ (cmd = "upgradeAgents" => ~Has("vmss")) /\ Stages
    BY DEF TemplateInv, Deployed
<1>2. Own # <<>> BY <1>1, OwnStep
<1>3. FromKMS # <<>> BY <1>1, <1>2, OwnStep, StepAhead DEF FromKMS, TransformNames
<1>4. FromSLB # <<>> BY <1>1, <1>3, ListOfSteps, StepAhead DEF FromSLB, TransformNames
<1>5. FromJumpbox # <<>> BY <1>1, <1>4, ListOfSteps, StepAhead DEF FromJumpbox, TransformNames
<1>6. FromStart # <<>> BY <1>1, ListOfSteps
<1> QED BY <1>1, <1>2, <1>3, <1>4, <1>5, <1>6 DEF Stages, Deployed

\* Where a resource of the deployed template comes from.
LEMMA Origin ==
    ASSUME TemplateInv, Deployed, cmd # "deploy", NEW s \in template
    PROVE  \E r : /\ WellOwned(r, Provisioned(cmd)) /\ Kept(r)
                  /\ Balanced => ~(r.type = "lb" /\ r.own = "agent")
                  /\ s.type = r.type /\ s.own = r.own
<1>1. template = Final /\ cmd \in Commands \ {"deploy"} BY DeployedIsFinal
<1>2. PICK r \in Cleared : Kept(r) /\ Id(s) = Id(r) BY <1>1, WhatIsDeployed DEF Within
<1>3. r \in Generated /\ (Balanced => ~(r.type = "lb" /\ r.own = "agent")) BY <1>2 DEF Cleared
<1>4. WellOwned(r, Provisioned(cmd)) BY <1>3, AllWellOwned DEF Generated
<1> QED BY <1>2, <1>3, <1>4, SameIdentity

\* The network is not in it, but for the load balancer of a dual stack cluster.
LEMMA NoNetwork ==
    ASSUME TemplateInv, Deployed, cmd # "deploy", NEW s \in template
    PROVE  /\ s.type \notin {"vnet", "routeTable"}
           /\ s.type = "nsg" => s.own = "jumpbox"
           /\ s.type = "lb" => s.own = "cluster" /\ Has("dualStack") /\ Has("basic")
<1>1. PICK r : /\ WellOwned(r, Provisioned(cmd)) /\ Kept(r)
               /\ Balanced => ~(r.type = "lb" /\ r.own = "agent")
               /\ s.type = r.type /\ s.own = r.own
    BY Origin
<1>2. cmd \in Commands \ {"deploy"} BY DeployedIsFinal
<1>3. r.type = "lb" => \/ r.own = "master"
                       \/ r.own = "cluster" /\ Has("dualStack") /\ Has("basic")
    BY <1>1, <1>2 DEF WellOwned, Balanced
<1>4. r.type = "nsg" => r.own \in {"cluster", "jumpbox"} BY <1>1 DEF WellOwned
<1>5. CASE cmd \in {"scale", "addpool"} BY <1>1, <1>3, <1>4, <1>5 DEF Kept, Named
<1>6. CASE cmd = "upgradeMasters" BY <1>1, <1>3, <1>4, <1>6 DEF Kept, KeptForMasterUpgrade
<1>7. CASE cmd = "upgradeAgents" BY <1>1, <1>3, <1>4, <1>7 DEF Kept, Named
<1> QED BY <1>2, <1>5, <1>6, <1>7 DEF Commands

\* That load balancer is in it: no transform drops it.
LEMMA DualStackBalancer ==
    ASSUME TemplateInv, Deployed, cmd # "deploy", Has("dualStack"), Has("basic")
    PROVE  \E s \in template : s.type = "lb" /\ s.own = "cluster"
<1>1. template = Final /\ cmd \in Commands \ {"deploy"} BY DeployedIsFinal
<1>2. PICK r \in ClusterLoadBalancerForIPv6 : r.type = "lb" /\ r.own = "cluster" /\ r.part = "ipv4"
    BY ResourceFields DEF ClusterLoadBalancerForIPv6
<1>3. r \in Generated
    BY <1>2 DEF Generated, GenerateARMResources, MasterResourcesVMAS, When, Standard
<1>4. r \in Cleared BY <1>2, <1>3 DEF Cleared
<1>5. ~Named(r, "master") BY <1>2, TemplateAssumption DEF Named
<1>6. Kept(r)
    <2>1. CASE cmd \in {"scale", "addpool"} BY <1>2, <1>5, <2>1 DEF Kept, Id
    <2>2. CASE cmd = "upgradeMasters" BY <1>2, <2>2 DEF Kept, KeptForMasterUpgrade
    <2>3. CASE cmd = "upgradeAgents" BY <1>2, <1>5, <2>3 DEF Kept, KeptForAgentUpgrade, Id
    <2> QED BY <1>1, <2>1, <2>2, <2>3 DEF Commands
<1>7. PICK s \in Final : Id(r) = Id(s) BY <1>1, <1>4, <1>6, WhatIsDeployed DEF Within
<1> QED BY <1>1, <1>2, <1>7, SameIdentity

\* Both together.
LEMMA UntouchedHolds == TemplateInv => NetworkUntouched
<1> SUFFICES ASSUME TemplateInv, Deployed, cmd # "deploy"
             PROVE  {r.own : r \in {s \in template : s.type = "lb"}}
                    = When(Has("dualStack") /\ Has("basic"), {"cluster"})
    BY NoNetwork DEF NetworkUntouched
<1>1. CASE Has("dualStack") /\ Has("basic")
    <2>1. \E s \in template : s.type = "lb" /\ s.own = "cluster" BY <1>1, DualStackBalancer
    <2>2. \A s \in template : s.type = "lb" => s.own = "cluster" BY NoNetwork
    <2> QED BY <1>1, <2>1, <2>2 DEF When
<1>2. CASE ~(Has("dualStack") /\ Has("basic"))
    <2>1. \A s \in template : s.type # "lb" BY <1>2, NoNetwork
    <2> QED BY <1>2, <2>1 DEF When
<1> QED BY <1>1, <1>2

\* For every cluster definition, the templates of scale, addpool and upgrade
\* contain neither the virtual network nor the route table nor the security group
\* of the cluster, and a load balancer exactly when the cluster is dual stack
\* behind Basic load balancers: the one its agents share, deployed again.
THEOREM TemplateLeavesNetwork == Spec => []NetworkUntouched
<1>1. Spec => []TemplateInv BY TemplateInit, TemplateStep, PTL DEF Spec
<1> QED BY <1>1, UntouchedHolds, PTL

-----------------------------------------------------------------------------
(* The nodes.                                                                *)
\* The names of the pools are not taken for those of the masters or the jumpbox.
\* validatePoolName does not refuse such names, and the transforms would drop the
\* resources of a pool that has one.
NamesApart ==
    /\ {"master", "jumpbox"} \cap Pools = {}
    /\ \A p \in Pools : <<p, "master">> \notin StartsWith

\* The first half of OnlyItsNodes: no node of a pool outside Redeployed, and no
\* master unless the masters are upgraded. Redeployed holds the pool of the
\* command and, in an upgrade, every pool whose name begins with the name of that
\* pool, because the transform compares the beginning of a name. This half needs
\* no assumption on the names.
NoOtherNodes ==
    Deployed /\ cmd # "deploy" =>
        \A r \in template :
            r.type \in {"vm", "vmss", "nic", "cse"}
            => r.own \in Redeployed \cup {"jumpbox"}
                         \cup When(cmd = "upgradeMasters", {"master"})

\* Nodes of others are not in it.
LEMMA NoOtherNodesHolds == TemplateInv => NoOtherNodes
<1> SUFFICES ASSUME TemplateInv, Deployed, cmd # "deploy",
                    NEW s \in template, s.type \in {"vm", "vmss", "nic", "cse"}
             PROVE  s.own \in Redeployed \cup {"jumpbox"} \cup When(cmd = "upgradeMasters", {"master"})
    BY DEF NoOtherNodes
<1>1. PICK r : /\ WellOwned(r, Provisioned(cmd)) /\ Kept(r)
               /\ s.type = r.type /\ s.own = r.own
    BY Origin
<1>2. /\ cmd \in Commands \ {"deploy"} /\ pool \in Pools
    BY DeployedIsFinal
<1>3. r.own \in Provisioned(cmd) \cup {"master", "jumpbox"} BY <1>1 DEF WellOwned, NodeTypes
<1>4. CASE cmd \in {"scale", "addpool"}
    <2>1. r.own # "master" BY <1>1, <1>4 DEF Kept, Named
    <2> QED BY <1>1, <1>2, <1>3, <1>4, <2>1 DEF Provisioned, Redeployed
<1>5. CASE cmd = "upgradeMasters"
    <2>1. r.own = "master" BY <1>1, <1>5 DEF Kept, KeptForMasterUpgrade
    <2> QED BY <1>1, <1>5, <2>1 DEF When
<1>6. CASE cmd = "upgradeAgents"
    <2>1. Named(r, pool) BY <1>1, <1>6 DEF Kept, KeptForAgentUpgrade
    <2>2. r.own = pool \/ (r.own \in Pools /\ <<r.own, pool>> \in StartsWith)
        BY <2>1, TemplateAssumption DEF Named
    <2> QED BY <1>1, <1>2, <1>6, <2>2 DEF Redeployed
<1> QED BY <1>2, <1>4, <1>5, <1>6 DEF Commands

\* Its own nodes are in it with everything that belongs to them.
LEMMA NodesComplete ==
    ASSUME NamesApart, TemplateInv, Deployed, cmd # "deploy",
           NEW r \in GenerateARMResources(Provisioned(cmd)),
           \/ /\ r.own \in Redeployed
              /\ r.type \in {"vm", "vmss", "nic", "cse", "role", "image", "storage"}
           \/ /\ cmd = "upgradeMasters" /\ r.own = "master"
              /\ r.type \in {"vm", "nic", "cse", "role"}
    PROVE  \E s \in template : Id(s) = Id(r)
<1>1. /\ template = Final /\ cmd \in Commands \ {"deploy"} /\ pool \in Pools
      /\ cmd = "upgradeAgents" => ~Has("vmss")
    BY DeployedIsFinal
<1>2. Id(r) # <<"publicIP", "agent", "ip">> BY DEF Id
<1>3. r.own \in Redeployed => cmd # "upgradeMasters" /\ r.own \in Pools BY DEF Redeployed
<1>4. r.own \in Redeployed => r.own # "jumpbox" /\ ~Named(r, "master")
    BY <1>3 DEF NamesApart, Named
<1>5. r.type = "vmss" => Has("vmss") BY AllWellOwned DEF WellOwned
<1>6. r \in Cleared BY <1>3, <1>4 DEF Cleared, Generated, Vaulted
<1>7. Kept(r)
    <2>1. CASE cmd \in {"scale", "addpool"} BY <1>2, <1>4, <2>1 DEF Kept
    <2>2. CASE cmd = "upgradeMasters" BY <1>3, <2>2 DEF Kept, KeptForMasterUpgrade
    <2>3. CASE cmd = "upgradeAgents"
        <3>1. r.own = pool \/ <<r.own, pool>> \in StartsWith BY <2>3 DEF Redeployed
        <3>2. r.type # "image" => Named(r, pool) BY <3>1 DEF Named
        <3>3. r.own # "master" BY <1>3, <2>3 DEF NamesApart
        <3>4. KeptForAgentUpgrade(r, pool) BY <1>1, <1>5, <2>3, <3>2, <3>3 DEF KeptForAgentUpgrade
        <3> QED BY <1>2, <1>4, <2>3, <3>4 DEF Kept
    <2> QED BY <1>1, <2>1, <2>2, <2>3 DEF Commands
<1>8. \E s \in Final : Id(r) = Id(s) BY <1>1, <1>6, <1>7, WhatIsDeployed DEF Within
<1> QED BY <1>1, <1>8

\* The two halves of OnlyItsNodes.
LEMMA OnlyItsNodesHolds == NamesApart /\ TemplateInv => OnlyItsNodes
<1> SUFFICES ASSUME NamesApart, TemplateInv PROVE OnlyItsNodes OBVIOUS
<1> QED BY NoOtherNodesHolds, NodesComplete DEF OnlyItsNodes, NoOtherNodes

\* Whatever the pools are called: scale and addpool deploy nodes of their pool
\* only, the upgrade of the masters no agent, and the upgrade of a pool no nodes
\* but those of the pool and of the pools whose names begin with its name.
THEOREM TemplateNoOtherNodes == Spec => []NoOtherNodes
<1>1. Spec => []TemplateInv BY TemplateInit, TemplateStep, PTL DEF Spec
<1> QED BY <1>1, NoOtherNodesHolds, PTL

\* Where the names are apart they also deploy everything that belongs to these
\* nodes: the transforms, which go by parts of names, drop none of it.
THEOREM TemplateNodes == NamesApart /\ Spec => []OnlyItsNodes
<1>1. Spec => []TemplateInv BY TemplateInit, TemplateStep, PTL DEF Spec
<1>2. NamesApart => NamesApart' BY DEF NamesApart
<1> QED BY <1>1, <1>2, OnlyItsNodesHolds, PTL

=============================================================================
