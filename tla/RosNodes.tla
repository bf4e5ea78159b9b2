-------------------------------- MODULE RosNodes --------------------------------
(***************************************************************************)
(* The ROS 2 bridge (ros2/droid_nodes): the safety gateway, supervisor and *)
(* language nodes that droidos.launch.py starts, one process each. Each    *)
(* calls get_brain(), and so has a brain of its own: its own controller,   *)
(* state machine and simulated body. All they share is the state           *)
(* directory, and with it the latch file of the emergency stop.            *)
(*                                                                         *)
(* Every node spins in one thread, so a callback runs to its end before    *)
(* the next one starts. Inside a node only what these callbacks reach is   *)
(* modelled; DroidBrain has the whole process. No callback's outcome       *)
(* depends on the watchdog: where power is on, nobody reads the status.    *)
(***************************************************************************)
EXTENDS Naturals, Sequences, DroidStates

CONSTANTS
    MaxTicks,   \* MAX_DRIVE_TICKS
    MaxGoals    \* goals that wait for the language node

ASSUME DriveAssumption == MaxTicks \in Nat \ {0} /\ MaxGoals \in Nat \ {0}

VARIABLES
    pc,       \* what each node's thread does; "off" while it has no brain
    estop,    \* SimulatedSafetyController._estop of each brain
    power,    \* its _power
    state,    \* its Runtime.state
    file,     \* safety_latch.json
    ticks,    \* drive ticks of the language node's task
    goals,    \* ExecuteTask goals the language node has not started, in order
    alone,    \* history: nodes that save the latch with no other save under way
    latched,  \* history: the latch was written by such an e-stop, and kept
    late      \* history: nodes that loaded it since; none once it is not kept

brains == <<pc, estop, power, state>>
latch  == <<file, alone, latched, late>>
vars   == <<brains, latch, ticks, goals>>

Nodes == {"gateway", "supervisor", "language"}

(* Other intents, return_safe_idle and system.shutdown among them, are left
   out: they change no e-stop and give no power. *)
Intents == {"motion", "estop"}

SavePc == {"open", "write"}

(* What the nodes' Booleans are, and the rest *)
FlagsOK ==
    /\ estop \in [Nodes -> BOOLEAN] /\ power \in [Nodes -> BOOLEAN]
    /\ latched \in BOOLEAN

RangesOK ==
    /\ pc \in [Nodes -> {"off", "boot", "inactive", "idle", "finish",
                         "acquire", "enter", "drive", "release"} \cup SavePc]
    /\ state \in [Nodes -> DroidState]
    /\ file \in {"missing", "clear", "engaged", "torn"}
    /\ ticks \in 0 .. MaxTicks
    /\ goals \in Seq(Intents) /\ Len(goals) <= MaxGoals
    /\ alone \subseteq Nodes /\ late \subseteq Nodes

TypeOK == FlagsOK /\ RangesOK

Init ==
    /\ pc = [n \in Nodes |-> "off"] /\ estop = [n \in Nodes |-> FALSE]
    /\ power = [n \in Nodes |-> FALSE] /\ state = [n \in Nodes |-> "POWERED_OFF"]
    /\ file = "missing" /\ ticks = 0 /\ goals = << >>
    /\ alone = {} /\ latched = FALSE /\ late = {}

Goto(n, where) == pc' = [pc EXCEPT ![n] = where]

Writing == \E n \in Nodes : pc[n] = "write"

-----------------------------------------------------------------------------
(* Faulty: the latch file is not loaded. *)
LatchIgnored == FALSE

(* _load_latch: an unreadable file counts as no e-stop. *)
LatchEngaged == file = "engaged"

(* Faulty: the power is on when the brain comes up. *)
BootPowered(n) ==
    /\ pc[n] = "off" /\ Goto(n, "boot")
    /\ estop' = [estop EXCEPT ![n] = LatchEngaged] /\ power' = [power EXCEPT ![n] = TRUE]
    /\ state' = [state EXCEPT ![n] = "HARDWARE_CHECK"]
    /\ late' = IF latched /\ ~Writing THEN late \cup {n} ELSE late
    /\ UNCHANGED <<file, alone, latched, ticks, goals>>

(* get_brain() boots a DroidSystem in this process: when the gateway and
   language nodes are constructed, when the supervisor node is configured.
   Boot confirms that the power is off. *)
Boot(n) ==
    /\ pc[n] = "off" /\ Goto(n, "boot")
    /\ estop' = [estop EXCEPT ![n] = LatchEngaged] /\ power' = [power EXCEPT ![n] = FALSE]
    /\ state' = [state EXCEPT ![n] = "HARDWARE_CHECK"]
    /\ late' = IF latched /\ ~Writing THEN late \cup {n} ELSE late
    /\ UNCHANGED <<file, alone, latched, ticks, goals>>

(* Faulty: readiness is a matter of the services and the hardware only. *)
ReadinessOfHardware(n) == {"READY", "MOTION_INHIBITED"}

(* assess_readiness, for whatever the services and the hardware report;
   DEGRADED, which the callbacks treat like READY, is counted as READY. *)
Readiness(n) ==
    IF estop[n] THEN {"EMERGENCY_STOPPED"} ELSE {"READY", "MOTION_INHIBITED"}

BootSettle(n) ==
    /\ pc[n] = "boot" /\ Goto(n, IF n = "supervisor" THEN "inactive" ELSE "idle")
    /\ \E s \in Readiness(n) : state' = [state EXCEPT ![n] = s]
    /\ UNCHANGED <<estop, power, latch, ticks, goals>>

-----------------------------------------------------------------------------
(* The emergency stop, from the gateway's service or as an intent *)

(* engage_estop up to the latch file *)
Engage(n) ==
    /\ Goto(n, "open")
    /\ estop' = [estop EXCEPT ![n] = TRUE] /\ power' = [power EXCEPT ![n] = FALSE]
    /\ alone' = IF \E m \in Nodes : pc[m] \in SavePc THEN {} ELSE {n}

EstopService ==
    /\ pc["gateway"] = "idle" /\ Engage("gateway")
    /\ UNCHANGED <<state, file, latched, late, ticks, goals>>

ResetService ==
    /\ pc["gateway"] = "idle" /\ Goto("gateway", "open")
    /\ estop' = [estop EXCEPT !["gateway"] = FALSE]
    /\ alone' = IF \E m \in Nodes : pc[m] \in SavePc THEN {} ELSE {"gateway"}
    /\ latched' = FALSE /\ late' = {}
    /\ UNCHANGED <<power, state, file, ticks, goals>>

(* _save_latch: truncate, then write. An OSError is swallowed. *)
SaveOpen(n) ==
    /\ pc[n] = "open"
    /\ \/ Goto(n, "write") /\ file' = "torn" /\ alone' = alone
       \/ Goto(n, "finish") /\ file' = file /\ alone' = alone \ {n}
    /\ UNCHANGED <<estop, power, state, latched, late, ticks, goals>>

SavedLatch(n) == IF estop[n] THEN "engaged" ELSE "clear"

(* A file that is not torn any more was written by another node since this
   one opened it: a shorter text leaves the end of the longer one behind. *)
SaveWrite(n) ==
    /\ pc[n] = "write" /\ Goto(n, "finish")
    /\ \/ /\ file' = SavedLatch(n)
          /\ latched' = (estop[n] /\ n \in alone)
       \/ file' = "torn" /\ latched' = FALSE
    /\ late' = IF latched' THEN late ELSE {}
    /\ alone' = alone \ {n}
    /\ UNCHANGED <<estop, power, state, ticks, goals>>

(* The state is forced by an e-stop, not touched by a reset; then the
   service answers, or the task ends. *)
SaveFinish(n) ==
    /\ pc[n] = "finish" /\ Goto(n, "idle")
    /\ state' = [state EXCEPT ![n] = IF estop[n] THEN "EMERGENCY_STOPPED" ELSE @]
    /\ UNCHANGED <<estop, power, latch, ticks, goals>>

-----------------------------------------------------------------------------
(* Topics: what each node publishes when its timer fires between callbacks.
   The gateway reads its own controller; the supervisor, while its lifecycle
   node is active, its own state machine. *)
SafetyMessage ==
    [estop_engaged |-> estop["gateway"],
     movement_permitted |-> ~estop["gateway"] /\ power["gateway"]]

StateMessage ==
    [state |-> state["supervisor"],
     motion_permitted |-> state["supervisor"] \in MOTION_ALLOWED_FROM]

OnActivate ==
    /\ pc["supervisor"] = "inactive" /\ Goto("supervisor", "idle")
    /\ UNCHANGED <<estop, power, state, latch, ticks, goals>>

OnDeactivate ==
    /\ pc["supervisor"] = "idle" /\ Goto("supervisor", "inactive")
    /\ UNCHANGED <<estop, power, state, latch, ticks, goals>>

-----------------------------------------------------------------------------
(* The language node *)

(* Faulty: the newest goal comes first. *)
SendGoalFirst(i) ==
    /\ pc["language"] # "off" /\ Len(goals) < MaxGoals
    /\ goals' = <<i>> \o goals
    /\ UNCHANGED <<brains, latch, ticks>>

SendGoal(i) ==
    /\ pc["language"] # "off" /\ Len(goals) < MaxGoals
    /\ goals' = Append(goals, i)
    /\ UNCHANGED <<brains, latch, ticks>>

(* _execute_cb asks the broker with confirmed=True; it approves motion when
   the readiness of this brain permits it. *)
MotionApproved == \E s \in Readiness("language") : s \in MOTION_ALLOWED_FROM

ExecuteTask ==
    /\ pc["language"] = "idle" /\ goals # << >>
    /\ goals' = Tail(goals)
    /\ \/ /\ Head(goals) = "motion" /\ MotionApproved
          /\ Goto("language", "acquire") /\ ticks' = 0
          /\ UNCHANGED <<estop, power, alone>>
       \/ Head(goals) = "estop" /\ Engage("language") /\ UNCHANGED ticks
       \/ Head(goals) # "estop" /\ UNCHANGED <<pc, estop, power, alone, ticks>>
    /\ UNCHANGED <<state, file, latched, late>>

(* The drive: request_motion_permission, enter_active, ticks, release *)
Acquire ==
    /\ pc["language"] = "acquire" /\ Goto("language", IF estop["language"] THEN "idle" ELSE "enter")
    /\ power' = [power EXCEPT !["language"] = ~estop["language"]]
    /\ UNCHANGED <<estop, state, latch, ticks, goals>>

EnterActive ==
    /\ pc["language"] = "enter" /\ Goto("language", "drive")
    /\ state' = [state EXCEPT !["language"] =
                    IF @ = "READY" THEN Transitioned(@, "ACTIVE") ELSE @]
    /\ UNCHANGED <<estop, power, latch, ticks, goals>>

DriveTick ==
    /\ pc["language"] = "drive" /\ ticks < MaxTicks
    /\ ticks' = ticks + 1
    /\ UNCHANGED <<brains, latch, goals>>

(* Faulty: the function returns out of the loop. *)
DriveEndsByReturn ==
    /\ pc["language"] = "drive" /\ Goto("language", "idle")
    /\ UNCHANGED <<estop, power, state, latch, ticks, goals>>

(* Faulty: only the tick budget ends a drive, and it is never used up. *)
DriveEndsNever ==
    /\ pc["language"] = "drive" /\ ticks > MaxTicks /\ Goto("language", "release")
    /\ UNCHANGED <<estop, power, state, latch, ticks, goals>>

(* arrived, blocked or lost in any pass, or out of ticks; the exception out of
   a drive on CAN-FD is in DroidBrain *)
DriveEnds ==
    /\ pc["language"] = "drive" /\ Goto("language", "release")
    /\ UNCHANGED <<estop, power, state, latch, ticks, goals>>

Release ==
    /\ pc["language"] = "release" /\ Goto("language", "idle")
    /\ power' = [power EXCEPT !["language"] = FALSE]
    /\ state' = [state EXCEPT !["language"] =
                    IF @ = "ACTIVE" THEN Transitioned(@, "READY") ELSE @]
    /\ UNCHANGED <<estop, latch, ticks, goals>>

-----------------------------------------------------------------------------
(* A node is killed or shut down, or a callback raises out of spin(): a
   ValidateIntent request whose arguments are not JSON ends the language
   node. Nothing in the launch file starts a node again by itself. *)
NodeEnds(n) ==
    /\ pc[n] # "off" /\ Goto(n, "off")
    /\ estop' = [estop EXCEPT ![n] = FALSE] /\ power' = [power EXCEPT ![n] = FALSE]
    /\ state' = [state EXCEPT ![n] = "POWERED_OFF"]
    /\ latched' = (latched /\ pc[n] # "write")
    /\ late' = IF latched' THEN late \ {n} ELSE {}
    /\ IF n = "language" THEN ticks' = 0 /\ goals' = << >> ELSE UNCHANGED <<ticks, goals>>
    /\ alone' = alone \ {n} /\ UNCHANGED file

-----------------------------------------------------------------------------
DriveStep == Acquire \/ EnterActive \/ DriveTick \/ DriveEnds \/ Release

Next ==
    \/ \E n \in Nodes : Boot(n) \/ BootSettle(n) \/ NodeEnds(n)
    \/ \E n \in Nodes : SaveOpen(n) \/ SaveWrite(n) \/ SaveFinish(n)
    \/ EstopService \/ ResetService \/ OnActivate \/ OnDeactivate
    \/ (\E i \in Intents : SendGoal(i)) \/ ExecuteTask \/ DriveStep

(* A node's thread runs on inside a callback, and the executor starts the
   callback of the goal that waits. *)
LanguageSpins ==
    \/ BootSettle("language") \/ SaveOpen("language") \/ SaveWrite("language")
    \/ SaveFinish("language") \/ ExecuteTask \/ DriveStep

Spec == Init /\ [][Next]_vars /\ WF_vars(LanguageSpins)

-----------------------------------------------------------------------------
(* What must hold *)

(* In every interleaving of the nodes, motor power belongs to a drive of the
   language node, and to a brain whose own e-stop is not engaged. *)
PowerBelongsToDrive ==
    \A n \in Nodes : power[n] =>
        n = "language" /\ ~estop[n] /\ pc[n] \in {"enter", "drive", "release"}

(* A node that boots after an e-stop was saved, in whatever node that was,
   comes up stopped and without power, and stays so until a reset. *)
LaterNodesAreStopped == \A n \in late : estop[n] /\ ~power[n]

(* Such a node tells its subscribers: neither topic reports a droid that may
   move, nor hides the stop. *)
TopicsTellOfStop ==
    /\ "gateway" \in late /\ pc["gateway"] = "idle" =>
          SafetyMessage.estop_engaged /\ ~SafetyMessage.movement_permitted
    /\ "supervisor" \in late /\ pc["supervisor"] = "idle" =>
          StateMessage.state = "EMERGENCY_STOPPED" /\ ~StateMessage.motion_permitted

(* Why: the latch is in the file unless a node is just writing it, and a
   node that has loaded it settles in the stopped state. *)
LatchInv ==
    /\ latched => file = "engaged" \/ Writing
    /\ ~latched => late = {}
    /\ \A n \in late : /\ pc[n] # "off" /\ estop[n] /\ ~power[n]
                       /\ pc[n] = "boot" \/ state[n] = "EMERGENCY_STOPPED"

(* An emergency stop sent to the language node waits for the drive that is
   under way and for the goals before it, and is then carried out. *)
EstopGoalIsServed ==
    (\E k \in 1 .. Len(goals) : goals[k] = "estop") ~> (estop["language"] \/ pc["language"] = "off")

(* How many steps the language node's callback has left, at most *)
StepsLeft ==
    LET at == pc["language"] IN
    CASE at = "acquire" -> MaxTicks + 4
      [] at = "enter"   -> MaxTicks + 3
      [] at = "drive"   -> (MaxTicks - ticks) + 2
      [] at = "open"    -> 3
      [] at = "write"   -> 2
      [] at \in {"boot", "release", "finish"} -> 1
      [] OTHER          -> 0

(* ... and how many there are before the k-th goal is carried out: a drive
   takes no more than MaxTicks + 5 with the step that starts it. *)
StepsBefore(k) == k * (MaxTicks + 5) + StepsLeft

(* Every step of the language node brings an emergency stop that waits there
   nearer, and no step of another node or of a client puts it off: no later
   goal overtakes it, and a drive before it is not begun again. *)
EstopGoalNears ==
    [][\A k \in 1 .. Len(goals) : goals[k] = "estop" =>
         \/ estop'["language"] \/ pc'["language"] = "off"
         \/ \E j \in 1 .. k :
               /\ j <= Len(goals') /\ goals'[j] = "estop"
               /\ \/ StepsBefore(j)' < StepsBefore(k)
                  \/ j = k /\ UNCHANGED <<pc["language"], ticks>>]_vars

(* Why: goals are lost with the node that they were sent to. *)
GoalsInv == pc["language"] = "off" => goals = << >>

(* The brain of the language node keeps the promise of MotorPower. *)
Promise == INSTANCE MotorPower WITH powered <- power["language"], stopped <- estop["language"]

ImplementsMotorPower == Promise!Spec

(* "emergency stop engaged; motor power removed": once ~/estop has answered,
   and until ~/reset is called, no brain has motor power. *)
EstopServiceStopsDroid ==
    pc["gateway"] = "idle" /\ estop["gateway"] => \A n \in Nodes : ~power[n]
=============================================================================
