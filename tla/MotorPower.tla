------------------------------ MODULE MotorPower ------------------------------
(***************************************************************************)
(* What the safety side of DroidOS promises about motor power, in two      *)
(* variables: whether motor power is on, and whether an emergency stop is  *)
(* in force. An emergency stop and the loss of power are one step, power   *)
(* is only given while no stop is in force, and only a reset ends a stop.  *)
(* The brain (DroidBrain), the safety microcontroller (SafetyFirmware) and *)
(* the ROS node that drives (RosNodes) are shown to implement it.          *)
(***************************************************************************)
VARIABLES
    powered,    \* motor power is on
    stopped     \* an emergency stop is in force

vars == <<powered, stopped>>

TypeOK == powered \in BOOLEAN /\ stopped \in BOOLEAN

Init == ~powered /\ ~stopped

Give   == ~stopped /\ powered' = TRUE /\ UNCHANGED stopped

Remove == powered' = FALSE /\ UNCHANGED stopped

Stop   == stopped' = TRUE /\ powered' = FALSE

(* Ending the stop gives no power: that takes a later request. *)
Reset  == stopped' = FALSE /\ powered' = FALSE

Next == Give \/ Remove \/ Stop \/ Reset

Spec == Init /\ [][Next]_vars
=============================================================================
