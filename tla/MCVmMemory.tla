---------------------------- MODULE MCVmMemory ----------------------------
(* VmMemory with three local bytes and a chip of six.                     *)
EXTENDS VmMemory
=============================================================================
