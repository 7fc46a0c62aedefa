----------------------------- MODULE MCVMDelete -----------------------------
(* Two VMs; every branch of CleanDeleteVirtualMachine is taken by some of   *)
(* these properties of a VM.                                                *)
EXTENDS VMDelete, TLC

MCInfos ==
    { [nic |-> TRUE,  disk |-> "managed", identity |-> TRUE],
      [nic |-> TRUE,  disk |-> "vhd",     identity |-> FALSE],
      [nic |-> FALSE, disk |-> "unnamed", identity |-> TRUE],
      [nic |-> TRUE,  disk |-> "none",    identity |-> TRUE] }

=============================================================================
