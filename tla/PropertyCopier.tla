--------------------------- MODULE PropertyCopier ---------------------------
(***************************************************************************)
(* copyCustomPropertiesToNewNode (upgrader.go): the agent upgrade drains a *)
(* new node and copies the custom properties of an old one to it, in a     *)
(* goroutine that goes on when the caller has returned. The caller deletes *)
(* the old VM then, and may create one of the same name.                   *)
(*                                                                         *)
(* Labels stand for labels and annotations. A taint is custom, or one that *)
(* Kubernetes sets and clears itself (cordoned, or starting up).           *)
(***************************************************************************)
EXTENDS Integers, FiniteSets

CONSTANT ChanCapacity  \* of ch: 1

ASSUME CopierAssumption == ChanCapacity \in Nat \ {0}

VARIABLES
    old,      \* the object under the old node's name, and its taints
    new,      \* the new node
    caller,   \* copyCustomPropertiesToNewNode and what its caller does next
    told,     \* it returned success
    copier,   \* where the goroutine is
    read,     \* the goroutine's copies of the two nodes
    current,  \* its copy of the new node is of the latest resourceVersion
    ch,       \* messages buffered in ch
    mixed     \* properties of the replacement were copied

goroutine == <<copier, read, ch, mixed>>
copyVars == <<old, new, caller, told, current, goroutine>>

Own    == "own"       \* a value the node was created with
Copied == "copied"    \* a value of the old node, with the name replaced
Taints == {"custom", "system"}
LabelValues == {"none", Own, Copied}
OldNodes == [is: {"original", "gone", "replacement"}, taints: SUBSET Taints]
\* custom, shared, others: labels
NewNodes == [taints: SUBSET Taints, custom: LabelValues, shared: LabelValues,
             others: BOOLEAN, unschedulable: BOOLEAN]
NoNode == [is |-> "gone", taints |-> {}]

CopyTypeOK ==
    /\ old \in OldNodes
    /\ new \in NewNodes
    /\ caller \in {"drain", "wait", "ok", "givenup", "deleted", "recreated"}
    /\ told \in BOOLEAN /\ current \in BOOLEAN
    /\ copier \in {"off", "getOld", "getNew", "update", "uncordon", "send"}
    /\ read \in [old: OldNodes, new: NewNodes]
    /\ ch \in 0..ChanCapacity
    /\ mixed \in BOOLEAN

\* Both nodes have the shared label; only the old one has the custom label.
CopyInit ==
    /\ old = [is |-> "original", taints |-> {"custom"}]
    /\ new = [taints |-> {}, custom |-> "none", shared |-> Own, others |-> FALSE,
              unschedulable |-> FALSE]
    /\ caller = "drain" /\ told = FALSE /\ current = FALSE
    /\ copier = "off"
    /\ read = [old |-> NoNode, new |-> new]
    /\ ch = 0 /\ mixed = FALSE

-----------------------------------------------------------------------------
(* The caller *)

\* SafelyDrainNodeWithClient cordons the new node or fails, with a warning.
Drain ==
    /\ caller = "drain"
    /\ \E cordoned \in BOOLEAN : new' = [new EXCEPT !.unschedulable = cordoned]
    /\ caller' = "wait"
    /\ copier' = "getOld"
    /\ UNCHANGED <<old, told, current, read, ch, mixed>>

ReceiveCopied ==
    /\ caller = "wait"
    /\ ch > 0
    /\ ch' = ch - 1
    /\ caller' = "ok" /\ told' = TRUE
    /\ UNCHANGED <<old, new, current, copier, read, mixed>>

\* Mistake: there is no time limit.
NeverGivesUp ==
    /\ caller = "wait"
    /\ ch > 0
    /\ caller' = "givenup"
    /\ UNCHANGED <<old, new, told, current, goroutine>>

\* nodePropertiesCopyTimeout: a warning is logged.
GiveUp ==
    /\ caller = "wait"
    /\ caller' = "givenup"
    /\ UNCHANGED <<old, new, told, current, goroutine>>

\* DeleteNode drains the old node, which taints it, and deletes VM and node.
OldDeleted ==
    /\ caller \in {"ok", "givenup"}
    /\ \/ old.taints = {"custom"} /\ old' = [old EXCEPT !.taints = Taints] /\ UNCHANGED caller
       \/ old' = NoNode /\ caller' = "deleted"
    /\ UNCHANGED <<new, told, current, goroutine>>

\* CreateNode: a VM of the same name registers a node that is starting up.
SameNameAgain ==
    /\ caller = "deleted"
    /\ old' = [is |-> "replacement", taints |-> {"system"}]
    /\ caller' = "recreated"
    /\ UNCHANGED <<new, told, current, goroutine>>

-----------------------------------------------------------------------------
(* The goroutine *)

\* A call failed: five seconds later it starts over. A node that is gone
\* cannot be read.
Retry ==
    /\ copier \in {"getOld", "getNew", "update", "uncordon"}
    /\ copier' = "getOld"
    /\ UNCHANGED <<old, new, caller, told, current, read, ch, mixed>>

GetOld ==
    /\ copier = "getOld"
    /\ old.is # "gone"
    /\ read' = [read EXCEPT !.old = old]
    /\ copier' = "getNew"
    /\ UNCHANGED <<old, new, caller, told, current, ch, mixed>>

GetNew ==
    /\ copier = "getNew"
    /\ read' = [read EXCEPT !.new = new]
    /\ current' = TRUE
    /\ copier' = "update"
    /\ UNCHANGED <<old, new, caller, told, ch, mixed>>

\* Labels the new node lacks are added; its taints are replaced, unless the old
\* node has none.
Merged(o, n) ==
    [n EXCEPT !.custom = IF o.is = "original" /\ @ = "none" THEN Copied ELSE @,
              !.taints = IF o.taints = {} THEN @ ELSE o.taints]

\* Mistake: the node is written whatever version it was read at.
AcceptedAlways == TRUE

\* The API server refuses a copy of the node that is out of date.
Accepted == current

Update ==
    /\ copier = "update"
    /\ Accepted
    /\ new' = Merged(read.old, read.new)
    /\ read' = [read EXCEPT !.new = new']
    /\ mixed' = (mixed \/ read.old.is = "replacement")
    /\ copier' = "uncordon"
    /\ UNCHANGED <<old, caller, told, current, ch>>

\* Mistake: success is reported after the first update.
UncordonSkipped ==
    /\ copier = "uncordon"
    /\ copier' = "send"
    /\ UNCHANGED <<old, new, caller, told, current, read, ch, mixed>>

Uncordon ==
    /\ copier = "uncordon"
    /\ Accepted
    /\ new' = [read.new EXCEPT !.unschedulable = FALSE]
    /\ copier' = "send"
    /\ UNCHANGED <<old, caller, told, current, read, ch, mixed>>

\* The loop goes on after success. The send blocks when ch is full.
Send ==
    /\ copier = "send"
    /\ ch < ChanCapacity
    /\ ch' = ch + 1
    /\ copier' = "getOld"
    /\ UNCHANGED <<old, new, caller, told, current, read, mixed>>

-----------------------------------------------------------------------------
(* Others *)

\* kubelet and controllers write the new node; the taints they keep go with
\* their cause.
OthersWrite ==
    /\ new' = [new EXCEPT !.others = TRUE,
                          !.taints = IF new.unschedulable THEN @ \union {"system"}
                                     ELSE @ \ {"system"}]
    /\ current' = FALSE
    /\ UNCHANGED <<old, caller, told, goroutine>>

ReplacementStarted ==
    /\ old.is = "replacement"
    /\ old' = [old EXCEPT !.taints = {}]
    /\ UNCHANGED <<new, caller, told, current, goroutine>>

Caller == Drain \/ ReceiveCopied \/ GiveUp \/ OldDeleted \/ SameNameAgain
Copier == GetOld \/ GetNew \/ Update \/ Uncordon \/ Send \/ Retry

CopyNext == Caller \/ Copier \/ OthersWrite \/ ReplacementStarted

CopySpec == CopyInit /\ [][CopyNext]_copyVars

\* The caller's timer fires; nothing is assumed of the goroutine's calls.
FairCopySpec == CopySpec /\ WF_copyVars(Caller)

-----------------------------------------------------------------------------
(* Properties *)

HasCustom == "custom" \in new.taints /\ new.custom = Copied

\* Once the caller was told of success the new node has the old one's custom
\* taints and labels, however often the goroutine copies again, as long as it
\* copies from the old node and not from one that has taken its name; and the
\* cordon of the drain before the copy is gone and no later round brings it back.
HandedOver == told => (mixed \/ HasCustom) /\ ~new.unschedulable

\* Of what the new node was created with, what others write to it meanwhile and
\* what was copied, the goroutine undoes no label or annotation. Its taints are
\* not merged but replaced by those of the node read under the old name: a custom
\* taint goes only with a copy from the node that has taken that name.
OnlyTaintsReplaced ==
    [][/\ new.others => new'.others
       /\ new'.shared = new.shared
       /\ new.custom = Copied => new'.custom = Copied
       /\ "custom" \in new.taints \ new'.taints => read.old.is = "replacement"]_copyVars

\* The caller returns although the old node may never be readable.
CopyReturns == <>(caller \notin {"drain", "wait"})

=============================================================================
