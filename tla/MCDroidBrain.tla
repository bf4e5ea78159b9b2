---------------------------- MODULE MCDroidBrain ----------------------------
(* DroidBrain for TLC: two drive ticks, one reportable hard fault, and per  *)
(* configuration the backend and the faults of the latch file.              *)
EXTENDS DroidBrain
=============================================================================
