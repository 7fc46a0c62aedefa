-------------------------- MODULE MCUpgradeMasters --------------------------
(* Three masters, as the configurations give them. *)
EXTENDS UpgradeMasters
=============================================================================
