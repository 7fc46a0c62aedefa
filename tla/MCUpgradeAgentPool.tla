------------------------- MODULE MCUpgradeAgentPool -------------------------
(* A pool of two or three VMs. *)
EXTENDS UpgradeAgentPool
=============================================================================
