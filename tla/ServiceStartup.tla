---------------------------- MODULE ServiceStartup ----------------------------
(***************************************************************************)
(* How the supervisor brings the managed services up, retries those that   *)
(* failed and shuts them all down (services/lifecycle.py, the service part *)
(* of services/supervisor.py). _activate_with_deps calls itself for what a *)
(* service requires, so the calls in progress are a stack; what a hook     *)
(* returns is decided when it is called, and may differ the next time.     *)
(***************************************************************************)
EXTENDS Naturals, Sequences, SequencesExt

CONSTANT
    MayFail     \* services whose configure or activate hook may fail

(* DroidSystem.boot registers the services in this order. *)
Registry ==
    <<"safety_gateway", "hardware", "diagnostics", "state_estimator",
      "world_model", "memory", "perception", "navigation", "motion", "update",
      "executive", "voice">>

Services == ToSet(Registry)

(* _ACTIVATION_ORDER; "language" is not a registered service, and boot has
   already activated the safety gateway *)
ActivationOrder ==
    <<"hardware", "diagnostics", "state_estimator", "world_model", "memory",
      "perception", "navigation", "motion", "update", "executive", "voice">>

(* ManagedService.requires *)
Requires ==
    [s \in Services |->
        CASE s \in {"safety_gateway", "world_model", "memory"} -> <<>>
          [] s = "navigation" -> <<"safety_gateway", "state_estimator", "world_model">>
          [] s = "executive"  -> <<"safety_gateway", "motion", "navigation", "state_estimator">>
          [] OTHER            -> <<"safety_gateway">>]

LifecycleState == {"UNCONFIGURED", "INACTIVE", "ACTIVE", "FINALIZED"}

ASSUME MayFailAssumption == MayFail \subseteq Services

VARIABLES
    phase,   \* what the supervisor is doing
    turn,    \* position in ActivationOrder, Registry or the list being retried
    stack,   \* calls of _activate_with_deps in progress, innermost first
    st,      \* ManagedService.state of each service
    failed,  \* Supervisor.failed_services, as a set
    retry    \* the copy of the list that restart_failed goes through

servicesVars == <<phase, turn, stack, st, failed, retry>>

ServicesTypeOK ==
    /\ phase \in {"contact", "boot", "up", "restart", "shutdown", "down"}
    /\ turn \in 1 .. Len(Registry) + 1
    /\ stack \in Seq([svc : Services, deps : Seq(Services)])
    /\ st \in [Services -> LifecycleState]
    /\ failed \subseteq Services /\ retry \subseteq failed

ServicesInit ==
    /\ phase = "contact" /\ turn = 1 /\ stack = <<>>
    /\ st = [s \in Services |-> "UNCONFIGURED"] /\ failed = {} /\ retry = {}

-----------------------------------------------------------------------------
(* ManagedService *)

(* configure: what the state may be afterwards. Only an unconfigured or an
   inactive service runs its hook. *)
AfterConfigure(s, old) ==
    IF old \in {"UNCONFIGURED", "INACTIVE"}
    THEN {"INACTIVE"} \cup (IF s \in MayFail THEN {old} ELSE {})
    ELSE {old}

(* activate: an active service is left alone, any other is configured first
   unless it is inactive already; a hook that fails leaves the state. *)
AfterActivate(s, old) ==
    LET configured == IF old \in {"ACTIVE", "INACTIVE"} THEN {old}
                      ELSE AfterConfigure(s, old)
    IN  UNION {CASE c = "INACTIVE" -> {"ACTIVE"} \cup (IF s \in MayFail THEN {c} ELSE {})
                 [] OTHER          -> {c} : c \in configured}

-----------------------------------------------------------------------------
(* Supervisor.boot *)

(* boot activates the safety gateway first, and goes on whatever comes of it *)
ContactSafety ==
    /\ phase = "contact" /\ phase' = "boot"
    /\ \E new \in AfterActivate("safety_gateway", st["safety_gateway"]) :
          st' = [st EXCEPT !["safety_gateway"] = new]
    /\ UNCHANGED <<turn, stack, failed, retry>>

Frame(s) == [svc |-> s, deps |-> Requires[s]]

StartService ==
    /\ phase = "boot" /\ stack = <<>> /\ turn <= Len(ActivationOrder)
    /\ stack' = <<Frame(ActivationOrder[turn])>>
    /\ UNCHANGED <<phase, turn, st, failed, retry>>

(* _activate_with_deps: first the services required *)
VisitDependency ==
    /\ stack # <<>> /\ Head(stack).deps # <<>>
    /\ stack' = <<Frame(Head(Head(stack).deps)),
                  [Head(stack) EXCEPT !.deps = Tail(@)]>> \o Tail(stack)
    /\ UNCHANGED <<phase, turn, st, failed, retry>>

(* Faulty: boot insists on every service before it goes on. *)
TurnAfterRetrying(up) == IF Len(stack) = 1 /\ up THEN turn + 1 ELSE turn

(* The outermost call ends the turn of its service. *)
TurnAfter(up) == IF Len(stack) = 1 THEN turn + 1 ELSE turn

(* Only the outermost call looks at the result; that of a dependency is lost. *)
FailedAfter(s, up) == IF Len(stack) = 1 /\ ~up THEN failed \cup {s} ELSE failed

ActivateService ==
    /\ stack # <<>> /\ Head(stack).deps = <<>>
    /\ LET s == Head(stack).svc IN
       \E new \in AfterActivate(s, st[s]) :
          /\ st' = [st EXCEPT ![s] = new]
          /\ turn' = TurnAfter(new = "ACTIVE")
          /\ failed' = FailedAfter(s, new = "ACTIVE")
    /\ stack' = Tail(stack)
    /\ UNCHANGED <<phase, retry>>

BootDone ==
    /\ phase = "boot" /\ stack = <<>> /\ turn > Len(ActivationOrder)
    /\ phase' = "up" /\ turn' = 1
    /\ UNCHANGED <<stack, st, failed, retry>>

BootServices == ContactSafety \/ StartService \/ VisitDependency \/ ActivateService \/ BootDone

-----------------------------------------------------------------------------
(* Supervisor.restart_failed *)

RestartFailed ==
    /\ phase = "up" /\ failed # {}
    /\ phase' = "restart" /\ retry' = failed
    /\ UNCHANGED <<turn, stack, st, failed>>

(* Faulty: a service is struck off the list before its restart. *)
FailedAfterAnyRestart(s, up) == failed \ {s}

FailedAfterRestart(s, up) == IF up THEN failed \ {s} ELSE failed

(* ManagedService.restart: cleanup, which needs no hook to succeed, and
   activate; in the order of the list, and nothing here depends on it. *)
RestartService ==
    /\ phase = "restart"
    /\ \E s \in retry : \E new \in AfterActivate(s, "UNCONFIGURED") :
          /\ st' = [st EXCEPT ![s] = new]
          /\ failed' = FailedAfterRestart(s, new = "ACTIVE")
          /\ retry' = retry \ {s}
    /\ UNCHANGED <<phase, turn, stack>>

RestartDone ==
    /\ phase = "restart" /\ retry = {} /\ phase' = "up"
    /\ UNCHANGED <<turn, stack, st, failed, retry>>

-----------------------------------------------------------------------------
(* Supervisor.request_shutdown *)

RequestShutdown ==
    /\ phase = "up" /\ phase' = "shutdown" /\ turn' = 1
    /\ UNCHANGED <<stack, st, failed, retry>>

(* Faulty: in the order they were registered. *)
ShutdownInOrder == Registry

ShutdownOrder == Reverse(Registry)

(* deactivate, clean up, and finalize whatever happens *)
ShutdownService ==
    /\ phase = "shutdown" /\ turn <= Len(Registry)
    /\ st' = [st EXCEPT ![ShutdownOrder[turn]] = "FINALIZED"]
    /\ turn' = turn + 1
    /\ UNCHANGED <<phase, stack, failed, retry>>

ShutdownDone ==
    /\ phase = "shutdown" /\ turn > Len(Registry)
    /\ phase' = "down" /\ turn' = 1
    /\ UNCHANGED <<stack, st, failed, retry>>

-----------------------------------------------------------------------------
ServicesNext ==
    \/ BootServices
    \/ RestartFailed \/ RestartService \/ RestartDone
    \/ RequestShutdown \/ ShutdownService \/ ShutdownDone

(* DroidSystem.boot runs to its end; nobody has to ask for a restart or a
   shutdown. *)
ServicesSpec == ServicesInit /\ [][ServicesNext]_servicesVars /\ WF_servicesVars(BootServices)

-----------------------------------------------------------------------------
(* What must hold *)

(* Once the droid is up, every service that is not active is on the list of
   failed services, and so will be retried: also one that was tried several
   times, as a dependency and in its own turn, with different outcomes. The
   safety gateway, which boot activates outside the loop, is the exception. *)
FailuresAreListed ==
    phase \in {"up", "restart"} =>
        \A s \in Services \ {"safety_gateway"} : st[s] # "ACTIVE" => s \in failed

(* Nothing is finalized while a service that requires it still runs: the
   registration order, which shutdown reverses, respects every requirement. *)
DependentsStopFirst ==
    \A s \in Services : \A d \in ToSet(Requires[s]) :
        st[d] = "FINALIZED" => st[s] = "FINALIZED"

(* Boot comes to an end whatever the hooks do: the recursion through what
   services require is finite, and no failure holds the loop up. *)
BootEnds == <>(phase = "up")

(* How many steps of boot a call of _activate_with_deps takes at most: one,
   and for each requirement its visit and its own call. *)
CallSteps ==
    [s \in Services |->
        CASE s \in {"safety_gateway", "world_model", "memory"} -> 1
          [] s = "navigation" -> 9
          [] s = "executive"  -> 21
          [] OTHER            -> 3]

MaxCallSteps == 21

(* Of a call in progress, with these requirements not yet visited; no service
   has more than four, and no more than four calls are nested. *)
StepsOf(deps) ==
    LET visit(i) == IF i <= Len(deps) THEN 1 + CallSteps[deps[i]] ELSE 0
    IN  1 + visit(1) + visit(2) + visit(3) + visit(4)

StepsInCalls ==
    LET steps(i) == IF i <= Len(stack) THEN StepsOf(stack[i].deps) ELSE 0
    IN  steps(1) + steps(2) + steps(3) + steps(4)

(* A turn is the outermost call and the step that makes it. *)
StepsLeft ==
    LET turns == Len(ActivationOrder) + 1 - turn IN
    CASE phase = "contact" -> 2 + (MaxCallSteps + 1) * turns
      [] phase = "boot"    -> IF stack = <<>> THEN 1 + (MaxCallSteps + 1) * turns
                              ELSE 1 + (MaxCallSteps + 1) * (turns - 1) + StepsInCalls
      [] OTHER             -> 0

(* Every step of boot, whichever hooks fail and in whatever order services
   are visited again, brings its end nearer: the requirements have no cycle
   that the recursion could follow, and no failure repeats a turn. *)
BootAdvances ==
    [][phase = "contact" \/ phase = "boot"
         => StepsLeft' \in Nat /\ StepsLeft' < StepsLeft]_servicesVars

(* Why, as an inductive invariant. The outermost of the calls in progress is
   for the service whose turn it is, ... *)
CallsInv ==
    stack # <<>> =>
        /\ phase = "boot" /\ turn <= Len(ActivationOrder)
        /\ stack[Len(stack)].svc = ActivationOrder[turn]

(* ... the services that had their turn are active or on the list: a later
   call for one of them, as a dependency, does not take that back; ... *)
TriedInv ==
    phase = "boot" =>
        /\ turn <= Len(ActivationOrder) + 1
        /\ \A i \in 1 .. turn - 1 : st[ActivationOrder[i]] = "ACTIVE" \/ ActivationOrder[i] \in failed

(* ... and exactly those that shutdown has come to are finalized. *)
FinalizedInv ==
    /\ phase \in {"contact", "boot", "up", "restart"} => \A s \in Services : st[s] # "FINALIZED"
    /\ phase = "contact" => turn = 1
    /\ phase = "shutdown" =>
          \A i \in 1 .. Len(Registry) : st[ShutdownOrder[i]] = "FINALIZED" <=> i < turn
    /\ phase = "down" => \A s \in Services : st[s] = "FINALIZED"

StartupInv == CallsInv /\ TriedInv /\ FinalizedInv /\ FailuresAreListed

(* For BootAdvances: a service requires only services of a smaller depth, so
   that the calls in progress go down, each below the one that made it. *)
Depth ==
    [s \in Services |->
        CASE s \in {"safety_gateway", "world_model", "memory"} -> 0
          [] s = "navigation" -> 2
          [] s = "executive"  -> 3
          [] OTHER            -> 1]

NestingInv ==
    \A i \in 1 .. Len(stack) :
        /\ Depth[stack[i].svc] + Len(stack) <= 3 + i
        /\ Len(stack[i].deps) <= 4
        /\ \A j \in 1 .. Len(stack[i].deps) :
              Depth[stack[i].deps[j]] < Depth[stack[i].svc]
=============================================================================
