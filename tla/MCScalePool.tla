---------------------------- MODULE MCScalePool ----------------------------
(* A pool deployed with three VMs, scaled between one and four. *)
EXTENDS ScalePool
=============================================================================
