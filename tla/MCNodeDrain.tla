----------------------------- MODULE MCNodeDrain -----------------------------
(* Instances of NodeDrain: workload pods and one DaemonSet pod. *)
EXTENDS NodeDrain

CONSTANTS p1, p2, ds

TwoPods   == {p1, p2, ds}
DaemonPod == {ds}
=============================================================================
