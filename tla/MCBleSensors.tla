---------------------------- MODULE MCBleSensors ----------------------------
(* Constants of BleSensors for TLC: two connection handles, so that a     *)
(* stale handle is told apart from the current one.                        *)
EXTENDS BleSensors

MC_Handles == {2049, 2050}   \* 0x0801 and 0x0802
=============================================================================
