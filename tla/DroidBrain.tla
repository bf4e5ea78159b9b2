------------------------------ MODULE DroidBrain ------------------------------
(***************************************************************************)
(* One DroidOS brain process: the safety gateway and its (simulated)       *)
(* safety controller, the supervisor's boot, readiness and shutdown, the   *)
(* command broker's motion gate, and the executive's drive task, on top of *)
(* a body backend and of the e-stop latch file that outlives the process.  *)
(*                                                                         *)
(* The process is one thread, so pc says where it is. What runs beside it  *)
(* is the world: time passes, hardware readings change, the operator       *)
(* speaks, CAN frames arrive, and the process can die at any point.        *)
(***************************************************************************)
EXTENDS Naturals, FiniteSets, DroidStates

CONSTANTS
    MaxTicks,    \* MAX_DRIVE_TICKS: drive ticks before a task times out
    Backend,     \* which body backend is configured: "sim" or "canfd"
    SaveFaults,  \* what may go wrong while the latch file is written
    FaultNames   \* hard faults that may be reported to the controller

ASSUME MaxTicksAssumption == MaxTicks \in Nat \ {0}
ASSUME BackendAssumption == Backend \in {"sim", "canfd"}
ASSUME SaveFaultsAssumption == SaveFaults \subseteq {"open", "write", "crash"}
ASSUME FaultNamesAssumption == "estop" \notin FaultNames

VARIABLES
    pc,        \* where the thread is; "off" when no process runs
    state,     \* Runtime.state: the DroidState
    services,  \* the motion-critical services, as the supervisor sees them
    estop,     \* SimulatedSafetyController._estop
    power,     \* SimulatedSafetyController._power: the contactor
    faults,    \* SimulatedSafetyController._faults; "estop" for "estop:..."
    link,      \* SimulatedSafetyController._link_up
    fresh,     \* the last host contact is within the watchdog timeout
    bpower,    \* the backend's _power: commands reach the motors
    bus,       \* the CAN-FD backend holds an open bus
    held,      \* permission["held"] of the drive task
    ticks,     \* drive ticks of the current task
    file,      \* contents of safety_latch.json
    hw,        \* what the readiness checks read from the hardware
    cry,       \* the operator has called "emergency stop"; not yet heard
    demanded   \* history: an e-stop was completed and no reset was asked since

controller == <<estop, power, faults, link, fresh>>
backend    == <<bpower, bus>>
task       == <<held, ticks>>
world      == <<hw, cry>>
vars == <<pc, state, services, controller, backend, task, file, world, demanded>>

BootPc == {"contact", "services", "assess"}
TaskPc == {"acquire", "enter", "drive", "release"}
SavePc == {"open", "write", "finish"}

(* The Boolean variables, and the others *)
FlagsOK ==
    /\ estop \in BOOLEAN /\ power \in BOOLEAN /\ link \in BOOLEAN
    /\ fresh \in BOOLEAN /\ bpower \in BOOLEAN /\ bus \in BOOLEAN
    /\ held \in BOOLEAN /\ cry \in BOOLEAN /\ demanded \in BOOLEAN

RangesOK ==
    /\ pc \in {"off", "idle"} \cup BootPc \cup TaskPc \cup SavePc
    /\ state \in DroidState
    /\ services \in {"down", "active", "failed", "finalized"}
    /\ faults \subseteq FaultNames \cup {"estop"}
    /\ ticks \in 0 .. MaxTicks
    /\ file \in {"missing", "clear", "engaged", "torn"}
    /\ hw \in {"ok", "degraded", "faulty"}

TypeOK == FlagsOK /\ RangesOK

Init ==
    /\ pc = "off" /\ state = "POWERED_OFF" /\ services = "down"
    /\ estop = FALSE /\ power = FALSE /\ faults = {} /\ link = TRUE /\ fresh = TRUE
    /\ bpower = FALSE /\ bus = FALSE /\ held = FALSE /\ ticks = 0
    /\ file = "missing" /\ hw = "ok" /\ cry = FALSE /\ demanded = FALSE

-----------------------------------------------------------------------------
(* The safety controller *)

(* check_watchdog, which every status() runs first: a silent or unlinked
   host loses power. It is evaluated only when somebody asks. *)
WatchdogPower == power /\ link /\ fresh

(* SafetyControllerState.healthy right after a heartbeat. *)
Healthy == link /\ ~estop /\ faults = {}

(* request_power_enable *)
MayEnablePower == ~estop /\ faults = {} /\ link

(* Faulty: the gateway forgets the backend. *)
PowerOffControllerOnly == power' = FALSE /\ bpower' = bpower

(* disable_power together with backend.set_power(False) *)
PowerOff == power' = FALSE /\ bpower' = FALSE

(* CanFdBackend._drain: any queued SAFETY_STATE frame overwrites _power. *)
Drain ==
    \/ bpower' = bpower
    \/ Backend = "canfd" /\ bus /\ bpower' \in BOOLEAN

-----------------------------------------------------------------------------
(* Supervisor.assess_readiness *)

(* Faulty: the lifecycle states of the critical services are not looked at. *)
InhibitedByHardwareOnly ==
    ~Healthy \/ hw = "faulty" \/ (Backend = "canfd" /\ ~bus)

(* Some inhibit reason applies. Without a bus no required sensor responds. *)
Inhibited ==
    ~Healthy \/ services # "active" \/ hw = "faulty" \/ (Backend = "canfd" /\ ~bus)

Readiness ==
    CASE estop                -> "EMERGENCY_STOPPED"
      [] ~estop /\ Inhibited  -> "MOTION_INHIBITED"
      [] OTHER                -> IF hw = "degraded" THEN "DEGRADED" ELSE "READY"

(* Its side effects: estop_engaged() reads the status without a heartbeat,
   healthy() sends one, and reading the hardware drains the bus. *)
AssessEffects ==
    /\ power' = WatchdogPower
    /\ fresh' = (fresh \/ ~estop)
    /\ IF estop THEN bpower' = bpower ELSE Drain

-----------------------------------------------------------------------------
(* Boot (Supervisor.boot) *)

BootStart ==
    /\ pc = "off"
    /\ pc' = "contact" /\ state' = Transitioned(state, "BOOTING")
    /\ UNCHANGED <<services, controller, backend, task, file, world, demanded>>

(* Faulty: the latch file is not loaded. *)
LatchIgnored == FALSE

(* _load_latch: a missing or unreadable file is taken for "not engaged" *)
LatchEngaged == file = "engaged"

(* safety.activate(): load the latch, confirm power is off *)
BootSafety ==
    /\ pc = "contact"
    /\ estop' = (estop \/ LatchEngaged)
    /\ faults' = IF LatchEngaged THEN faults \cup {"estop"} ELSE faults
    /\ fresh' = TRUE /\ PowerOff
    /\ pc' = "services" /\ state' = Transitioned(state, "HARDWARE_CHECK")
    /\ UNCHANGED <<services, link, bus, task, file, world, demanded>>

(* backend.connect() may fail on CAN-FD, a service may fail to activate. *)
BootServices ==
    /\ pc = "services"
    /\ bus' \in BOOLEAN /\ (bus' => Backend = "canfd")
    /\ bpower' \in BOOLEAN /\ (bpower' => bus')
    /\ services' \in {"active", "failed"}
    /\ pc' = "assess" /\ state' = Transitioned(state, "SAFE_IDLE")
    /\ UNCHANGED <<controller, task, file, world, demanded>>

(* _settle: a legal transition, or a forced one *)
BootSettle ==
    /\ pc = "assess"
    /\ AssessEffects
    /\ state' = Readiness
    /\ pc' = "idle"
    /\ UNCHANGED <<services, estop, faults, link, bus, task, file, world, demanded>>

Boot == BootStart \/ BootSafety \/ BootServices \/ BootSettle

-----------------------------------------------------------------------------
(* Commands. Input lines are read one at a time, in order, and only when
   the thread is back at its prompt: a pending emergency call is the next. *)

(* Faulty: whichever line is picked up first. *)
PromptAnyLine == pc = "idle"

Prompt == pc = "idle" /\ ~cry

(* engage_estop: power first, then the latch file. *)
EngageEstop ==
    /\ estop' = TRUE /\ faults' = faults \cup {"estop"} /\ PowerOff
    /\ pc' = "open"
    /\ UNCHANGED <<state, services, link, fresh, bus, task, file, hw, demanded>>

CommandEstop == Prompt /\ EngageEstop /\ UNCHANGED cry

(* Faulty: emergency words are heard only in a conversational state. *)
HearEmergencyConversational ==
    /\ pc = "idle" /\ cry /\ EngageEstop /\ cry' = FALSE
    /\ state \in {"SAFE_IDLE", "READY", "ACTIVE", "DEGRADED", "MOTION_INHIBITED"}

(* handle_utterance: matched before the wake word and the language service *)
HearEmergency == pc = "idle" /\ cry /\ EngageEstop /\ cry' = FALSE

ResetEstop ==
    /\ Prompt
    /\ estop' = FALSE /\ faults' = faults \ {"estop"}
    /\ pc' = "open" /\ demanded' = FALSE
    /\ UNCHANGED <<state, services, power, link, fresh, backend, task, file, world>>

(* _save_latch: write_text truncates the file, then writes; an OSError is
   swallowed wherever it comes from. *)
SaveOpen ==
    /\ pc = "open"
    /\ \/ file' = "torn" /\ pc' = "write"
       \/ "open" \in SaveFaults /\ file' = file /\ pc' = "finish"
    /\ UNCHANGED <<state, services, controller, backend, task, world, demanded>>

(* Faulty: the latch is written before the flag is looked at. *)
SavedAsClear == "clear"

SavedLatch == IF estop THEN "engaged" ELSE "clear"

SaveWrite ==
    /\ pc = "write"
    /\ \/ file' = SavedLatch
       \/ "write" \in SaveFaults /\ file' = file
    /\ pc' = "finish"
    /\ UNCHANGED <<state, services, controller, backend, task, world, demanded>>

(* Faulty: the state machine is not told. *)
StateKept == state

(* An e-stop forces the state, a reset leaves it as it is. *)
StateAfterSave == IF estop THEN "EMERGENCY_STOPPED" ELSE state

(* Log the event, which asks for the status, and force the state. *)
SaveFinish ==
    /\ pc = "finish"
    /\ power' = WatchdogPower
    /\ state' = StateAfterSave
    /\ demanded' = (demanded \/ estop)
    /\ pc' = "idle"
    /\ UNCHANGED <<services, estop, faults, link, fresh, backend, task, file, world>>

SaveLatch == SaveOpen \/ SaveWrite \/ SaveFinish

(* robot.return_safe_idle; ACTIVE -> SAFE_IDLE is illegal and raises *)
ReturnSafeIdle ==
    /\ Prompt
    /\ PowerOff
    /\ state' = IF state \in {"READY", "ACTIVE", "DEGRADED"}
                THEN Transitioned(state, "SAFE_IDLE") ELSE state
    /\ UNCHANGED <<pc, services, estop, faults, link, fresh, bus, task, file,
                   world, demanded>>

(* request_shutdown; the process itself goes on reading commands. The
   controller is not told. *)
RequestShutdown ==
    /\ Prompt
    /\ state' = "POWERED_OFF" /\ services' = "finalized"
    /\ bpower' = FALSE /\ bus' = FALSE
    /\ UNCHANGED <<pc, controller, task, file, world, demanded>>

(* report_fault and set_safety_link of the gateway; losing the link also
   logs, and so reads the status *)
ReportFault(f) ==
    /\ Prompt
    /\ faults' = faults \cup {f} /\ PowerOff
    /\ UNCHANGED <<pc, state, services, estop, link, fresh, bus, task, file,
                   world, demanded>>

SetSafetyLink(up) ==
    /\ Prompt
    /\ link' = up /\ power' = (power /\ up)
    /\ UNCHANGED <<pc, state, services, estop, faults, fresh, backend, task,
                   file, world, demanded>>

(* Commands that only look change what their reads change. In order:
   droidctl safety status; robot.get_status, which assesses the readiness and
   sends a heartbeat; robot.explain; diagnostics, without a heartbeat; and
   motion.stop, task.cancel, battery and temperature, which drain the bus. *)
Query ==
    /\ Prompt
    /\ \/ fresh' = TRUE /\ power' = (power /\ link) /\ bpower' = bpower
       \/ fresh' = TRUE /\ power' = WatchdogPower /\ Drain
       \/ AssessEffects
       \/ fresh' = fresh /\ power' = WatchdogPower /\ Drain
       \/ UNCHANGED <<fresh, power>> /\ Drain
    /\ UNCHANGED <<pc, state, services, estop, faults, link, bus, task, file,
                   world, demanded>>

-----------------------------------------------------------------------------
(* The drive task: broker gate, then the behaviour tree of _drive_to *)

(* CommandBroker._motion_permitted asks the supervisor, not Runtime.state. *)
CommandMotion ==
    /\ Prompt
    /\ AssessEffects
    /\ pc' = IF Readiness \in MOTION_ALLOWED_FROM THEN "acquire" ELSE "idle"
    /\ held' = FALSE /\ ticks' = 0
    /\ UNCHANGED <<state, services, estop, faults, link, bus, file, world, demanded>>

(* request_motion_permission *)
Acquire ==
    /\ pc = "acquire"
    /\ fresh' = TRUE
    /\ IF Healthy /\ MayEnablePower
       THEN power' = TRUE /\ bpower' = TRUE /\ held' = TRUE /\ pc' = "enter"
       ELSE power' = (power /\ link) /\ bpower' = bpower
            /\ held' = FALSE /\ pc' = "release"
    /\ UNCHANGED <<state, services, estop, faults, link, bus, ticks, file,
                   world, demanded>>

EnterActive ==
    /\ pc = "enter"
    /\ state' = IF state \in {"READY", "DEGRADED"}
                THEN Transitioned(state, "ACTIVE") ELSE state
    /\ pc' = "drive"
    /\ UNCHANGED <<services, controller, backend, task, file, world, demanded>>

(* One pass of the loop that commands the motors: motion.drive *)
DriveTick ==
    /\ pc = "drive" /\ ticks < MaxTicks
    /\ ticks' = ticks + 1 /\ Drain
    /\ UNCHANGED <<pc, state, services, controller, bus, held, file, world, demanded>>

(* Faulty: the function returns out of the loop. *)
DriveEndsByReturn ==
    /\ pc = "drive"
    /\ pc' = "idle"
    /\ UNCHANGED <<state, services, controller, backend, task, file, world, demanded>>

(* Faulty: running out of ticks does not end the loop. *)
DriveEndsUnbounded ==
    /\ pc = "drive" /\ ticks < MaxTicks
    /\ pc' = "release"
    /\ UNCHANGED <<state, services, controller, backend, task, file, world, demanded>>

(* lost, blocked or arrived in any pass; or the tick budget is used up *)
DriveEnds ==
    /\ pc = "drive"
    /\ pc' = "release"
    /\ UNCHANGED <<state, services, controller, backend, task, file, world, demanded>>

(* The CAN-FD backend raises out of the loop, and run_intent swallows the
   exception: the code after the tree is never reached. In simulation nothing
   in the loop raises, given a gait policy with numbers where it needs them. *)
DriveRaises ==
    /\ pc = "drive" /\ ticks < MaxTicks /\ Backend = "canfd"
    /\ Drain
    /\ pc' = "idle"
    /\ UNCHANGED <<state, services, controller, bus, task, file, world, demanded>>

(* Faulty: settles by a transition that is not legal from ACTIVE. *)
SettledToSafeIdle == IF state = "ACTIVE" THEN Transitioned(state, "SAFE_IDLE") ELSE state

SettledState == IF state = "ACTIVE" THEN Transitioned(state, "READY") ELSE state

(* "always release power and settle state" *)
Release ==
    /\ pc = "release"
    /\ IF held THEN PowerOff ELSE UNCHANGED <<power, bpower>>
    /\ state' = SettledState
    /\ held' = FALSE
    /\ pc' = "idle"
    /\ UNCHANGED <<services, estop, faults, link, fresh, bus, ticks, file,
                   world, demanded>>

Drive == DriveTick \/ DriveEnds \/ DriveRaises

-----------------------------------------------------------------------------
(* The world *)

(* Nobody has contacted the controller for longer than its timeout. *)
Elapse ==
    /\ pc # "off" /\ fresh /\ fresh' = FALSE
    /\ UNCHANGED <<pc, state, services, estop, power, faults, link, backend,
                   task, file, world, demanded>>

HardwareChanges ==
    /\ hw' \in {"ok", "degraded", "faulty"} \ {hw}
    /\ UNCHANGED <<pc, state, services, controller, backend, task, file, cry, demanded>>

CallEmergency ==
    /\ pc \notin BootPc \cup {"off"} /\ ~cry /\ cry' = TRUE
    /\ UNCHANGED <<pc, state, services, controller, backend, task, file, hw, demanded>>

(* The process exits, is interrupted or killed, or the host loses power: all
   that outlives it is the latch file. *)
ProcessEnds ==
    /\ pc # "off"
    /\ pc = "write" => "crash" \in SaveFaults
    /\ pc' = "off" /\ state' = "POWERED_OFF" /\ services' = "down"
    /\ estop' = FALSE /\ power' = FALSE /\ faults' = {} /\ link' = TRUE /\ fresh' = TRUE
    /\ bpower' = FALSE /\ bus' = FALSE /\ held' = FALSE /\ ticks' = 0 /\ cry' = FALSE
    /\ UNCHANGED <<file, hw, demanded>>

-----------------------------------------------------------------------------
Next ==
    \/ Boot
    \/ CommandEstop \/ HearEmergency \/ ResetEstop \/ SaveLatch
    \/ ReturnSafeIdle \/ RequestShutdown
    \/ \E f \in FaultNames : ReportFault(f)
    \/ \E up \in BOOLEAN : SetSafetyLink(up)
    \/ Query \/ CommandMotion \/ Acquire \/ EnterActive \/ Drive \/ Release
    \/ Elapse \/ HardwareChanges \/ CallEmergency \/ ProcessEnds

(* The thread runs on: once it is inside a call it takes its next step, and
   at the prompt it reads the line that is waiting. Nothing obliges the
   operator, the hardware or the clock. *)
ThreadStep ==
    \/ pc # "off" /\ Boot
    \/ SaveLatch \/ Acquire \/ EnterActive \/ Drive \/ Release \/ HearEmergency

Spec == Init /\ [][Next]_vars /\ WF_vars(ThreadStep)

-----------------------------------------------------------------------------
(* What must hold *)

(* The motors have power. The backend's flag counts in simulation, where it
   decides whether commands move the body; on CAN-FD it is only what the bus
   last reported. *)
Powered == power \/ (Backend = "sim" /\ bpower)

(* An emergency stop that engage_estop completed keeps motor power away,
   across process ends and reboots, until a reset is asked for: the latch
   file, its loading at boot, the controller and the broker together. *)
NoPowerWhileStopped == demanded => ~Powered

(* Why NoPowerWhileStopped holds while latch writes succeed, as an inductive
   invariant: a completed stop is in the file unless the file is just being
   written, and in the controller unless the process has not loaded it yet;
   and the controller never has power with its e-stop set. *)
StopInv ==
    /\ demanded => file = "engaged" \/ pc = "write"
    /\ demanded => estop \/ pc \in {"off", "contact"}
    /\ pc = "finish" /\ estop => file = "engaged"
    /\ estop => ~Powered
    /\ pc \in {"off", "contact"} => ~Powered
    /\ Backend = "sim" => ~bus

(* Motor power is on only while a drive task holds it: every way a task can
   end gives it back (_drive_to, run_intent). *)
PowerHeldByTask ==
    Powered => pc \in {"enter", "drive", "release"}

(* Nothing is powered while a motion-critical service is missing, neither
   after a partly failed boot nor in a process that goes on reading commands
   after request_shutdown. *)
ServicesGatePower == Powered => services = "active"

(* Why the two hold in simulation, as an inductive invariant with
   DrivesFollowContactor: the task that has power knows that it holds the
   permission, and it was started under active services. *)
TaskInv ==
    /\ ~bus /\ (bpower <=> power)
    /\ power => pc \in {"enter", "drive", "release"} /\ held
    /\ pc \in TaskPc => services = "active"

(* The backend drives motors exactly when the controller has the contactor
   closed: no gateway path switches one and forgets the other. *)
DrivesFollowContactor == bpower <=> power

(* Whoever asks at the prompt while the e-stop is engaged is told so: the
   state is EMERGENCY_STOPPED until the droid is shut down, whether the stop
   was commanded in this process or loaded from the latch at boot. *)
EstopIsReported ==
    pc = "idle" /\ estop /\ services # "finalized" => state = "EMERGENCY_STOPPED"

(* ACTIVE is the state of a drive under way, never left behind by one. *)
ActiveOnlyInTask ==
    state = "ACTIVE" => pc \in {"drive", "release"}

(* Every grant of power ends: the drive loop is bounded and what follows it
   releases the permission. *)
PowerIsRemoved == Powered ~> ~Powered

(* A call for an emergency stop is acted on once the running task is over,
   unless the process ends first. *)
EmergencyIsHeard == cry ~> estop \/ pc = "off"

(* How many steps the thread is from its prompt, at most *)
StepsLeft ==
    CASE pc = "acquire"  -> MaxTicks + 4
      [] pc = "enter"    -> MaxTicks + 3
      [] pc = "drive"    -> (MaxTicks - ticks) + 2
      [] pc \in {"contact", "open"}   -> 3
      [] pc \in {"services", "write"} -> 2
      [] pc \in {"assess", "release", "finish"} -> 1
      [] OTHER           -> 0

(* ... and from having done what an emergency call asks for *)
StepsAhead == IF cry THEN StepsLeft + 4 ELSE StepsLeft

(* Every step the thread takes inside a call brings it nearer to its prompt,
   and if the operator has called, nearer to the stop: no other command comes
   first, and only the stop itself or the end of the process lets go of the
   call. What is left out are the clock, the hardware and the operator. *)
ThreadAdvances ==
    [][/\ cry \/ (pc # "idle" /\ pc # "off")
       /\ ~UNCHANGED <<pc, state, services, estop, power, faults, link, backend, task, file>>
       => /\ StepsAhead' \in Nat /\ StepsAhead' < StepsAhead
          /\ cry => cry' \/ estop' \/ pc' = "off"]_vars

(* The brain keeps the promise of MotorPower, with the stop being the one
   the operator was told is in force. *)
Promise == INSTANCE MotorPower WITH powered <- Powered, stopped <- demanded

ImplementsMotorPower == Promise!Spec
=============================================================================
