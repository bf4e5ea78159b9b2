---------------------------- MODULE SafetyFirmware ----------------------------
(***************************************************************************)
(* The safety microcontroller: the control loop of                         *)
(* firmware/safety-controller/src/main.c. One pass reads every waiting host *)
(* frame, polls the hardware inputs, sets the contactor, reports its state *)
(* when that is due, and waits for the next tick. Around it the host sends *)
(* whatever frames it likes (or none: lost, late and repeated frames are   *)
(* all choices of which frame comes next), inputs change and time passes.  *)
(***************************************************************************)
EXTENDS Naturals, FiniteSets

CONSTANTS
    Wrap,         \* modulus of hal_millis() and of every uint32_t time (2^32)
    HostTimeout,  \* HOST_TIMEOUT_MS
    StatePeriod,  \* state_period = 1000 / STATE_TX_HZ
    MaxPass,      \* bound: a pass of the loop takes at most this many ms
    Inputs,       \* hardware inputs that may be asserted
    Payloads      \* fault bits a REPORT_FAULT frame may carry

InputNames == {"estop", "hot", "limit"}

(* FAULT_* bits, and "OTHER" for the bits that protocol.h does not name *)
FaultBits == {"ESTOP", "OVERTEMP", "JOINT_LIMIT", "WATCHDOG", "HOST_SILENT", "OTHER"}

ASSUME TimesAssumption ==
    /\ {Wrap, HostTimeout, StatePeriod, MaxPass} \subseteq Nat \ {0}
    /\ HostTimeout + 2 * MaxPass < Wrap
    /\ StatePeriod < Wrap
ASSUME InputsAssumption == Inputs \subseteq InputNames
ASSUME PayloadsAssumption == Payloads \subseteq SUBSET FaultBits

VARIABLES
    pc,               \* where the loop is
    estop_latched,    \* S.estop_latched
    power_requested,  \* S.power_requested
    power_on,         \* S.power_on, and with it the contactor output
    faults,           \* S.faults
    last_host_ms,     \* S.last_host_ms
    next_state_tx,    \* main's next_state_tx
    now,              \* hal_millis()
    spent,            \* ms spent in this pass so far
    inputs,           \* hardware inputs asserted now
    sensed,           \* history: inputs asserted when last polled
    silence           \* history: true ms since the last host frame, saturating

latch   == <<estop_latched, power_requested, power_on, faults>>
clock   == <<now, spent, silence>>
vars == <<pc, latch, last_host_ms, next_state_tx, clock, inputs, sensed>>

(* How long the host may be silent before its silence is acted on: a deadline
   that passes just after the loop looked is seen in the next pass. *)
SilenceBound == HostTimeout + 2 * MaxPass

FlagsOK ==
    /\ estop_latched \in BOOLEAN /\ power_requested \in BOOLEAN
    /\ power_on \in BOOLEAN

RangesOK ==
    /\ pc \in {"read", "poll", "contactor", "status", "delay"}
    /\ faults \subseteq FaultBits
    /\ inputs \subseteq Inputs /\ sensed \subseteq Inputs
    /\ now \in 0 .. Wrap - 1
    /\ last_host_ms \in 0 .. Wrap - 1
    /\ next_state_tx \in 0 .. Wrap - 1
    /\ spent \in 0 .. MaxPass
    /\ silence \in 0 .. SilenceBound + 1

TypeOK == FlagsOK /\ RangesOK

(* Static storage is zero, the contactor is opened first. *)
Init ==
    /\ pc = "read"
    /\ estop_latched = FALSE /\ power_requested = FALSE /\ power_on = FALSE
    /\ faults = {} /\ last_host_ms = 0 /\ next_state_tx = 0
    /\ now = 0 /\ spent = 0 /\ silence = 0
    /\ inputs = {} /\ sensed = {}

-----------------------------------------------------------------------------
(* uint32_t subtraction hal_millis() - S.last_host_ms *)
HostAge == (now + Wrap - last_host_ms) % Wrap

(* enter_safe_state: latch the bits, open the contactor; the request of the
   host stays. *)
EnterSafeState(bits) ==
    faults' = faults \cup bits /\ power_on' = FALSE

-----------------------------------------------------------------------------
(* on_host_message: any frame is a heartbeat *)

Received ==
    /\ pc = "read"
    /\ last_host_ms' = now /\ silence' = 0
    /\ UNCHANGED <<pc, estop_latched, next_state_tx, now, spent, inputs, sensed>>

(* also a REPORT_FAULT without a payload *)
Heartbeat ==
    Received /\ UNCHANGED <<power_requested, power_on, faults>>

EnablePower ==
    Received /\ power_requested' = TRUE /\ UNCHANGED <<power_on, faults>>

(* Faulty: the contactor is left to the next update_contactor. *)
DisablePowerLater ==
    /\ Received /\ power_requested' = FALSE
    /\ UNCHANGED <<power_on, faults>>

DisablePower ==
    /\ Received /\ power_requested' = FALSE /\ power_on' = FALSE
    /\ UNCHANGED faults

(* e-stop is a hard latch: CLEAR_FAULT leaves its bit, and unnamed bits, alone *)
Clearable == {"OVERTEMP", "JOINT_LIMIT", "WATCHDOG", "HOST_SILENT"}

ClearFault ==
    /\ Received /\ faults' = faults \ Clearable
    /\ UNCHANGED <<power_requested, power_on>>

ReportFault(bits) ==
    Received /\ EnterSafeState(bits) /\ UNCHANGED power_requested

InvalidCommand ==
    /\ Received /\ EnterSafeState({})
    /\ UNCHANGED power_requested

(* hal_uart_read_frame has no more *)
NoMoreFrames ==
    /\ pc = "read" /\ pc' = "poll"
    /\ UNCHANGED <<latch, last_host_ms, next_state_tx, clock, inputs, sensed>>

-----------------------------------------------------------------------------
(* The rest of a pass *)

FaultOf == [estop |-> "ESTOP", hot |-> "OVERTEMP", limit |-> "JOINT_LIMIT"]

HostSilent == HostAge >= HostTimeout

(* Faulty: host silence is not a fault, only a condition of may_enable_power. *)
RaisedByInputs == {FaultOf[i] : i \in inputs}

(* Faulty: the e-stop input latches without entering the safe state. *)
RaisedButEstop ==
    {FaultOf[i] : i \in inputs \ {"estop"}}
        \cup (IF HostSilent THEN {"HOST_SILENT"} ELSE {})

Raised ==
    {FaultOf[i] : i \in inputs} \cup (IF HostSilent THEN {"HOST_SILENT"} ELSE {})

PollHardwareFaults ==
    /\ pc = "poll" /\ pc' = "contactor"
    /\ estop_latched' = (estop_latched \/ "estop" \in inputs)
    /\ IF Raised # {} THEN EnterSafeState(Raised) ELSE UNCHANGED <<faults, power_on>>
    /\ sensed' = inputs
    /\ UNCHANGED <<power_requested, last_host_ms, next_state_tx, clock, inputs>>

(* Faulty: the fault bits are not looked at. *)
MayEnablePowerDespiteFaults == ~estop_latched /\ HostAge < HostTimeout

MayEnablePower == ~estop_latched /\ faults = {} /\ HostAge < HostTimeout

UpdateContactor ==
    /\ pc = "contactor" /\ pc' = "status"
    /\ power_on' = (power_requested /\ MayEnablePower)
    /\ UNCHANGED <<estop_latched, power_requested, faults, last_host_ms,
                   next_state_tx, clock, inputs, sensed>>

StatusDue == now >= next_state_tx

SendState ==
    /\ pc = "status" /\ pc' = "delay"
    /\ IF StatusDue
       THEN next_state_tx' = (now + StatePeriod) % Wrap
       ELSE UNCHANGED next_state_tx
    /\ UNCHANGED <<latch, last_host_ms, now, spent, silence, inputs, sensed>>

(* hal_delay_until_next_tick: at least one tick has gone by *)
Delay ==
    /\ pc = "delay" /\ spent > 0
    /\ pc' = "read" /\ spent' = 0
    /\ UNCHANGED <<latch, last_host_ms, next_state_tx, now, silence, inputs, sensed>>

-----------------------------------------------------------------------------
(* The board *)

Saturated(n, bound) == IF n > bound THEN n ELSE n + 1

Tick ==
    /\ spent < MaxPass /\ spent' = spent + 1
    /\ now' = (now + 1) % Wrap
    /\ silence' = Saturated(silence, SilenceBound)
    /\ UNCHANGED <<pc, latch, last_host_ms, next_state_tx, inputs, sensed>>

InputChanges(i) ==
    /\ inputs' = IF i \in inputs THEN inputs \ {i} ELSE inputs \cup {i}
    /\ UNCHANGED <<pc, latch, last_host_ms, next_state_tx, clock, sensed>>

(* Power-on, the hardware watchdog or the reset line: main starts over and
   hal_millis() starts from zero. *)
Reset ==
    /\ pc' = "read"
    /\ estop_latched' = FALSE /\ power_requested' = FALSE /\ power_on' = FALSE
    /\ faults' = {} /\ last_host_ms' = 0 /\ next_state_tx' = 0
    /\ now' = 0 /\ spent' = 0 /\ silence' = 0
    /\ sensed' = {}
    /\ UNCHANGED inputs

-----------------------------------------------------------------------------
HostFrame ==
    \/ Heartbeat \/ EnablePower \/ DisablePower \/ ClearFault \/ InvalidCommand
    \/ \E bits \in Payloads : ReportFault(bits)

Loop ==
    NoMoreFrames \/ PollHardwareFaults \/ UpdateContactor \/ SendState \/ Delay

Next ==
    HostFrame \/ Loop \/ Tick \/ (\E i \in Inputs : InputChanges(i)) \/ Reset

Spec == Init /\ [][Next]_vars

-----------------------------------------------------------------------------
(* What must hold *)

(* The contactor is closed only on a standing request of the host, with no
   e-stop latched and no fault bit set, at every point of the loop and
   whatever frame was handled last. *)
PowerIsPermitted ==
    power_on => power_requested /\ ~estop_latched /\ faults = {}

(* A host that has been silent for longer than the timeout, and for the two
   passes it takes to notice, has lost motor power for good: also when the
   millisecond counter comes round and the age looks small again. *)
SilentHostHasNoPower == silence > SilenceBound => ~power_on

(* While the input that was asserted at the last poll has not been polled
   clear, no frame of the host gets the contactor closed, CLEAR_FAULT in the
   same pass included. *)
SensedInputKeepsPowerOff == sensed # {} => ~power_on

(* Why the three hold, as an inductive invariant: what was polled is a latched
   fault when the contactor is set; the age the firmware computes is the
   true one until the silence bound, and a host silent for longer than the
   timeout and the time since the last poll has HOST_SILENT latched, which
   only a frame of the host can clear. *)
LoopInv ==
    /\ PowerIsPermitted /\ SensedInputKeepsPowerOff
    /\ pc = "contactor" /\ sensed # {} => faults # {}
    /\ silence <= SilenceBound => HostAge = silence
    /\ \/ "HOST_SILENT" \in faults
       \/ silence < HostTimeout + spent + (IF pc \in {"read", "poll"} THEN MaxPass ELSE 0)

(* The firmware keeps the promise of MotorPower: what stops it is the
   physical e-stop, and what ends the stop is the reset of the controller. *)
Promise == INSTANCE MotorPower WITH powered <- power_on, stopped <- estop_latched

ImplementsMotorPower == Promise!Spec
=============================================================================
