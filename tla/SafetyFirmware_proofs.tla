------------------------- MODULE SafetyFirmware_proofs -------------------------
(***************************************************************************)
(* Proofs about SafetyFirmware, for every width of the millisecond         *)
(* counter, every timeout, status period and loop time that fit into it,   *)
(* and every set of hardware inputs and REPORT_FAULT payloads.             *)
(***************************************************************************)
EXTENDS SafetyFirmware, TLAPS

(* Arithmetic of the wrapping millisecond counter *)

LEMMA ModRange ==
    ASSUME NEW a \in Nat, NEW w \in Nat \ {0} PROVE a % w \in 0 .. w - 1
OBVIOUS

(* One tick of the counter *)
LEMMA NextMs ==
    ASSUME NEW w \in Nat \ {0}, NEW a \in 0 .. w - 1
    PROVE  (a + 1) % w = IF a + 1 < w THEN a + 1 ELSE 0
OBVIOUS

(* The unsigned subtraction a - b *)
LEMMA Subtract ==
    ASSUME NEW w \in Nat \ {0}, NEW a \in 0 .. w - 1, NEW b \in 0 .. w - 1
    PROVE  (a + w - b) % w = IF a >= b THEN a - b ELSE a + w - b
OBVIOUS

(* A tick adds one to the difference, unless the difference wraps. *)
LEMMA AgeGrows ==
    ASSUME NEW w \in Nat \ {0}, NEW a \in 0 .. w - 1, NEW b \in 0 .. w - 1,
           (a + w - b) % w < w - 1
    PROVE  (((a + 1) % w) + w - b) % w = ((a + w - b) % w) + 1
<1> DEFINE c == (a + 1) % w
           d == (a + w - b) % w
<1>1. c \in 0 .. w - 1 /\ c = IF a + 1 < w THEN a + 1 ELSE 0
  BY NextMs
<1>2. d < w - 1 /\ d = IF a >= b THEN a - b ELSE a + w - b
  BY Subtract
<1> HIDE DEF c, d
<1>3. (c + w - b) % w = IF c >= b THEN c - b ELSE c + w - b
  BY <1>1, Subtract
<1>4. (c + w - b) % w = d + 1
  BY <1>1, <1>2, <1>3
<1> QED BY <1>4 DEF c, d

(* The constants one by one *)
LEMMA Times ==
    /\ Wrap \in Nat \ {0} /\ HostTimeout \in Nat \ {0}
    /\ StatePeriod \in Nat \ {0} /\ MaxPass \in Nat \ {0}
    /\ HostTimeout + 2 * MaxPass < Wrap
BY TimesAssumption

-----------------------------------------------------------------------------
(* Types *)

(* Each step keeps the Boolean variables Boolean. *)
LEMMA FlagsStep == FlagsOK /\ [Next]_vars => FlagsOK'
<1> SUFFICES ASSUME FlagsOK, [Next]_vars PROVE FlagsOK'
  OBVIOUS
<1> USE DEF FlagsOK, latch, clock
<1>1. CASE HostFrame
  BY <1>1, Zenon DEF HostFrame, Received, Heartbeat, EnablePower, DisablePower,
     ClearFault, InvalidCommand, ReportFault, EnterSafeState
<1>2. CASE Loop
  BY <1>2, Zenon DEF Loop, NoMoreFrames, PollHardwareFaults, EnterSafeState,
     UpdateContactor, MayEnablePower, SendState, Delay
<1>3. CASE Tick \/ (\E i \in Inputs : InputChanges(i)) \/ Reset
  BY <1>3, Zenon DEF Tick, InputChanges, Reset
<1>4. CASE UNCHANGED vars
  BY <1>4, Zenon DEF vars
<1> QED BY <1>1, <1>2, <1>3, <1>4 DEF Next

(* Each step keeps the other variables in their ranges. *)
LEMMA RangesStep == RangesOK /\ [Next]_vars => RangesOK'
<1> SUFFICES ASSUME RangesOK, [Next]_vars PROVE RangesOK'
  OBVIOUS
<1> USE Times DEF RangesOK, latch, clock, SilenceBound
<1>1. CASE HostFrame
  <2>1. Received /\ faults' \subseteq FaultBits
    BY <1>1, PayloadsAssumption DEF HostFrame, Heartbeat, EnablePower,
       DisablePower, ClearFault, InvalidCommand, ReportFault, EnterSafeState
  <2> QED BY <2>1 DEF Received
<1>2. CASE NoMoreFrames \/ UpdateContactor \/ Delay
  <2>1. pc' \in {"read", "poll", "status"} /\ spent' \in {spent, 0}
    BY <1>2 DEF NoMoreFrames, UpdateContactor, Delay
  <2>2. UNCHANGED <<faults, last_host_ms, next_state_tx, now, silence, inputs, sensed>>
    BY <1>2 DEF NoMoreFrames, UpdateContactor, Delay
  <2> QED BY <2>1, <2>2
<1>3. CASE PollHardwareFaults
  <2>1. Raised \subseteq FaultBits
    BY InputsAssumption DEF Raised, FaultOf, InputNames, FaultBits
  <2> QED BY <1>3, <2>1 DEF PollHardwareFaults, EnterSafeState
<1>4. CASE SendState
  <2>1. (now + StatePeriod) % Wrap \in 0 .. Wrap - 1
    BY ModRange
  <2> QED BY <1>4, <2>1 DEF SendState
<1>5. CASE Tick
  <2>1. (now + 1) % Wrap \in 0 .. Wrap - 1
    BY ModRange
  <2> QED BY <1>5, <2>1 DEF Tick, Saturated
<1>6. CASE \E i \in Inputs : InputChanges(i)
  <2>1. inputs' \subseteq Inputs
    BY <1>6 DEF InputChanges
  <2> QED BY <1>6, <2>1 DEF InputChanges
<1>7. CASE Reset
  BY <1>7 DEF Reset
<1>8. CASE UNCHANGED vars
  BY <1>8 DEF vars
<1> QED BY <1>1, <1>2, <1>3, <1>4, <1>5, <1>6, <1>7, <1>8 DEF Next, Loop

(* The type invariant holds: the fault byte, the wrapping times and the flags
   of safety_t stay in their ranges through every frame and pass. *)
THEOREM TypeCorrect == Spec => []TypeOK
<1>1. Init => TypeOK
  <2>1. Init => FlagsOK
    BY Zenon DEF Init, FlagsOK
  <2>2. Init => RangesOK
    BY Times DEF Init, RangesOK, SilenceBound
  <2> QED BY <2>1, <2>2 DEF TypeOK
<1>2. TypeOK /\ [Next]_vars => TypeOK'
  BY FlagsStep, RangesStep DEF TypeOK
<1> QED BY <1>1, <1>2, PTL DEF Spec

-----------------------------------------------------------------------------
(* The contactor *)

(* Each step keeps LoopInv. *)
LEMMA LoopStep ==
    TypeOK /\ TypeOK' /\ LoopInv /\ [Next]_vars => LoopInv'
<1> SUFFICES ASSUME TypeOK, TypeOK', LoopInv, [Next]_vars PROVE LoopInv'
  OBVIOUS
<1> USE Times DEF LoopInv, PowerIsPermitted, SensedInputKeepsPowerOff,
        TypeOK, RangesOK, FlagsOK, SilenceBound, latch, clock
<1>1. CASE HostFrame
  <2>1. Received /\ (power_on' => power_on)
    BY <1>1 DEF HostFrame, Heartbeat, EnablePower, DisablePower, ClearFault,
       InvalidCommand, ReportFault, EnterSafeState
  <2>2. HostAge' = 0
    <3>1. (now + Wrap - now) % Wrap = 0
      BY Subtract
    <3> QED BY <2>1, <3>1 DEF Received, HostAge
  <2>3. power_on' => power_requested' /\ faults' = {}
    BY <1>1 DEF HostFrame, Heartbeat, EnablePower, DisablePower, ClearFault,
       InvalidCommand, ReportFault, EnterSafeState
  <2> QED BY <2>1, <2>2, <2>3 DEF Received
<1>2. CASE NoMoreFrames
  BY <1>2 DEF NoMoreFrames, HostAge
<1>3. CASE PollHardwareFaults
  <2>1. HostAge' = HostAge
    BY <1>3 DEF PollHardwareFaults, HostAge
  <2>2. HostAge >= HostTimeout => "HOST_SILENT" \in faults'
    BY <1>3 DEF PollHardwareFaults, Raised, HostSilent, EnterSafeState
  <2>3. sensed' # {} => faults' # {} /\ ~power_on'
    <3>1. ASSUME NEW i \in inputs PROVE FaultOf[i] \in Raised
      BY DEF Raised
    <3>2. inputs # {} => Raised # {}
      BY <3>1
    <3> QED BY <1>3, <3>2 DEF PollHardwareFaults, EnterSafeState
  <2>4. faults \subseteq faults' /\ (power_on' => power_on /\ faults' = faults)
    BY <1>3 DEF PollHardwareFaults, EnterSafeState
  <2>5. estop_latched' /\ ~estop_latched => ~power_on'
    BY <1>3 DEF PollHardwareFaults, Raised, EnterSafeState
  <2> QED BY <1>3, <2>1, <2>2, <2>3, <2>4, <2>5 DEF PollHardwareFaults
<1>4. CASE UpdateContactor
  BY <1>4 DEF UpdateContactor, MayEnablePower, HostAge
<1>5. CASE SendState
  BY <1>5 DEF SendState, HostAge
<1>6. CASE Delay
  BY <1>6 DEF Delay, HostAge
<1>7. CASE Tick
  <2>1. silence' <= SilenceBound => HostAge' = silence'
    <3>1. CASE silence < SilenceBound
      <4>1. (now + Wrap - last_host_ms) % Wrap = silence /\ silence < Wrap - 1
        BY <3>1 DEF HostAge
      <4>2. (((now + 1) % Wrap) + Wrap - last_host_ms) % Wrap = silence + 1
        BY <4>1, AgeGrows
      <4>3. HostAge' = silence + 1
        BY <1>7, <4>2 DEF Tick, HostAge
      <4> QED BY <1>7, <3>1, <4>3 DEF Tick, Saturated
    <3>2. CASE silence >= SilenceBound
      BY <1>7, <3>2 DEF Tick, Saturated
    <3> QED BY <3>1, <3>2
  <2> QED BY <1>7, <2>1 DEF Tick, Saturated
<1>8. CASE \E i \in Inputs : InputChanges(i)
  BY <1>8 DEF InputChanges, HostAge
<1>9. CASE Reset
  <2>1. HostAge' = 0
    <3>1. (0 + Wrap - 0) % Wrap = 0
      BY Subtract
    <3> QED BY <1>9, <3>1 DEF Reset, HostAge
  <2> QED BY <1>9, <2>1 DEF Reset
<1>10. CASE UNCHANGED vars
  BY <1>10 DEF vars, HostAge
<1> QED
  BY <1>1, <1>2, <1>3, <1>4, <1>5, <1>6, <1>7, <1>8, <1>9, <1>10 DEF Next, Loop

LEMMA LoopInit == Init => LoopInv
<1>1. (0 + Wrap - 0) % Wrap = 0
  BY Times, Subtract
<1> QED
  BY <1>1, Times DEF Init, LoopInv, PowerIsPermitted, SensedInputKeepsPowerOff, HostAge

LEMMA LoopHolds == Spec => [](TypeOK /\ LoopInv)
BY LoopInit, LoopStep, TypeCorrect, PTL DEF Spec

(* The contactor is closed only when everything the firmware asks for holds,
   at every point of the pass and not just where it is switched. *)
THEOREM ContactorIsSafe == Spec => []PowerIsPermitted
<1>1. LoopInv => PowerIsPermitted
  BY DEF LoopInv
<1> QED BY <1>1, LoopHolds, PTL

(* A host that went silent loses power within HostTimeout and two passes and
   does not get it back when the counter comes round. *)
THEOREM SilenceRemovesPower == Spec => []SilentHostHasNoPower
<1>1. TypeOK /\ LoopInv => SilentHostHasNoPower
  BY Times DEF TypeOK, RangesOK, LoopInv, PowerIsPermitted, SilentHostHasNoPower,
               SilenceBound
<1> QED BY <1>1, LoopHolds, PTL

(* An asserted input keeps the contactor open whatever the host sends. *)
THEOREM InputKeepsContactorOpen == Spec => []SensedInputKeepsPowerOff
<1>1. LoopInv => SensedInputKeepsPowerOff
  BY DEF LoopInv
<1> QED BY <1>1, LoopHolds, PTL

(* The firmware implements MotorPower: its e-stop latch and the contactor
   opening are one step, and only a reset of the controller, which opens the
   contactor, ends the stop. *)
THEOREM FirmwareImplementsMotorPower == Spec => ImplementsMotorPower
<1> SUFFICES Spec => Promise!Spec
  BY DEF ImplementsMotorPower
<1>1. Init => Promise!Init
  BY DEF Init, Promise!Init
<1>2. /\ TypeOK /\ TypeOK' /\ LoopInv /\ LoopInv' /\ [Next]_vars
      => [Promise!Next]_(Promise!vars)
  <2> SUFFICES ASSUME TypeOK, TypeOK', LoopInv, LoopInv', [Next]_vars
               PROVE  Promise!Next
    OBVIOUS
  <2>1. estop_latched /\ ~estop_latched' => ~power_on'
    BY DEF Next, vars, latch, HostFrame, Received, Heartbeat, EnablePower,
       DisablePower, ClearFault, InvalidCommand, ReportFault, Loop, NoMoreFrames,
       PollHardwareFaults, UpdateContactor, SendState, Delay, Tick, InputChanges, Reset
  <2>2. (estop_latched => ~power_on) /\ (estop_latched' => ~power_on')
    BY DEF LoopInv, PowerIsPermitted
  <2>3. /\ estop_latched \in BOOLEAN /\ estop_latched' \in BOOLEAN
        /\ power_on \in BOOLEAN /\ power_on' \in BOOLEAN
    BY DEF TypeOK, FlagsOK
  <2> QED
    BY <2>1, <2>2, <2>3, Zenon
       DEF Promise!Next, Promise!Give, Promise!Remove, Promise!Stop, Promise!Reset
<1> QED BY <1>1, <1>2, LoopInit, LoopStep, TypeCorrect, PTL DEF Spec, Promise!Spec
=============================================================================
