-------------------------- MODULE MCPropertyCopier --------------------------
(* One pair of nodes, as the configuration gives them. *)
EXTENDS PropertyCopier
=============================================================================
