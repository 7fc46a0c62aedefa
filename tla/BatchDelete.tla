---------------------------- MODULE BatchDelete ----------------------------
(***************************************************************************)
(* What a caller of ScaleDownVMs relies on (scaledownagentpool.go): a call *)
(* may remove VMs of the request in any order, touches no other VM, and    *)
(* when it returns a VM of the request that is still there is among the    *)
(* reported failures. A VM that a failed or killed call left behind may    *)
(* still go later.                                                         *)
(***************************************************************************)
EXTENDS FiniteSets

CONSTANT VMs

VARIABLES
    exists,   \* the VMs that exist
    asked,    \* every VM some call was asked to remove
    req,      \* the request of the call in progress, or of the last one
    running,  \* a call is in progress
    failed    \* the failures the last call reported

vars == <<exists, asked, req, running, failed>>

Init ==
    /\ exists = VMs
    /\ asked = {}
    /\ req = {}
    /\ ~running
    /\ failed = {}

Call ==
    /\ ~running
    /\ req' \in (SUBSET exists) \ {{}}
    /\ asked' = asked \union req'
    /\ running' = TRUE
    /\ failed' = {}
    /\ UNCHANGED exists

Remove ==
    /\ \E v \in asked : exists' = exists \ {v}
    /\ UNCHANGED <<asked, req, running, failed>>

Return ==
    /\ running
    /\ running' = FALSE
    /\ failed' \in SUBSET req
    /\ req \intersect exists \subseteq failed'
    /\ UNCHANGED <<exists, asked, req>>

\* The process ends before the call does, and nobody learns of a failure.
Die ==
    /\ running
    /\ running' = FALSE
    /\ failed' = req
    /\ UNCHANGED <<exists, asked, req>>

Next == Call \/ Remove \/ Return \/ Die

Spec == Init /\ [][Next]_vars

=============================================================================
