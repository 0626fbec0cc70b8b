---------------------------- MODULE MCSignalReader ----------------------------
(* Instances of SignalReader for TLC. *)
EXTENDS SignalReader

CONSTANTS r1, r2, e1, e2
=============================================================================
