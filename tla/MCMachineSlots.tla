--------------------------- MODULE MCMachineSlots ---------------------------
(* MachineSlots with a few pids.  The waits of a caller are checked to end,  *)
(* so no symmetry is used.                                                   *)
EXTENDS MachineSlots
=============================================================================
