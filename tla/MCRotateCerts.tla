----------------------------- MODULE MCRotateCerts -----------------------------
(* Three masters, so that a quorum can be split between authorities, and a     *)
(* Linux and a Windows agent, one of which the autoscaler may add.             *)
EXTENDS RotateCerts
=============================================================================
