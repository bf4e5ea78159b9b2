--------------------------- MODULE DroidBrain_proofs ---------------------------
(***************************************************************************)
(* Proofs about DroidBrain, for every tick budget, every set of hard       *)
(* faults and, unless a theorem says otherwise, for both backends and      *)
(* whatever goes wrong while the latch file is written.                    *)
(***************************************************************************)
EXTENDS DroidBrain, TLAPS

(* Each step keeps the Boolean variables Boolean. *)
LEMMA FlagsStep == FlagsOK /\ [Next]_vars => FlagsOK'
<1> SUFFICES ASSUME FlagsOK, [Next]_vars PROVE FlagsOK'
  OBVIOUS
<1> USE DEF FlagsOK, controller, backend, task, world
<1>1. CASE Boot
  BY <1>1, Zenon DEF Boot, BootStart, BootSafety, BootServices, BootSettle,
                     PowerOff, LatchEngaged, AssessEffects, WatchdogPower, Drain
<1>2. CASE CommandEstop \/ HearEmergency \/ ResetEstop
  BY <1>2, Zenon DEF CommandEstop, HearEmergency, EngageEstop, ResetEstop, PowerOff
<1>3. CASE SaveLatch
  BY <1>3, Zenon DEF SaveLatch, SaveOpen, SaveWrite, SaveFinish, WatchdogPower
<1>4. CASE ReturnSafeIdle \/ RequestShutdown
  BY <1>4, Zenon DEF ReturnSafeIdle, RequestShutdown, PowerOff
<1>5. CASE \E f \in FaultNames : ReportFault(f)
  BY <1>5, Zenon DEF ReportFault, PowerOff
<1>6. CASE \E up \in BOOLEAN : SetSafetyLink(up)
  BY <1>6, Zenon DEF SetSafetyLink
<1>7. CASE Query
  BY <1>7, Zenon DEF Query, AssessEffects, WatchdogPower, Drain
<1>8. CASE CommandMotion \/ Acquire
  BY <1>8, Zenon DEF CommandMotion, AssessEffects, WatchdogPower, Drain, Acquire
<1>9. CASE EnterActive \/ Drive \/ Release
  BY <1>9, Zenon DEF EnterActive, Drive, DriveTick, DriveEnds, DriveRaises, Drain,
                     Release, PowerOff
<1>10. CASE Elapse \/ HardwareChanges \/ CallEmergency
  BY <1>10, Zenon DEF Elapse, HardwareChanges, CallEmergency
<1>11. CASE ProcessEnds
  BY <1>11, Zenon DEF ProcessEnds
<1>12. CASE UNCHANGED vars
  BY <1>12, Zenon DEF vars
<1> QED
  BY <1>1, <1>2, <1>3, <1>4, <1>5, <1>6, <1>7, <1>8, <1>9, <1>10, <1>11, <1>12
     DEF Next

(* Each step keeps the other variables in their ranges. *)
LEMMA RangesStep == RangesOK /\ [Next]_vars => RangesOK'
<1> SUFFICES ASSUME RangesOK, [Next]_vars PROVE RangesOK'
  OBVIOUS
<1> USE MaxTicksAssumption
    DEF RangesOK, controller, backend, task, world, BootPc, TaskPc, SavePc,
        DroidState
<1>1. CASE Boot
  BY <1>1 DEF Boot, BootStart, BootSafety, BootServices, BootSettle, Readiness,
              Transitioned
<1>2. CASE CommandEstop \/ HearEmergency \/ ResetEstop
  BY <1>2 DEF CommandEstop, HearEmergency, EngageEstop, ResetEstop
<1>3. CASE SaveLatch
  BY <1>3 DEF SaveLatch, SaveOpen, SaveWrite, SaveFinish, SavedLatch, StateAfterSave
<1>4. CASE ReturnSafeIdle \/ RequestShutdown
  BY <1>4 DEF ReturnSafeIdle, RequestShutdown, Transitioned
<1>5. CASE \E f \in FaultNames : ReportFault(f)
  BY <1>5 DEF ReportFault
<1>6. CASE \E up \in BOOLEAN : SetSafetyLink(up)
  BY <1>6 DEF SetSafetyLink
<1>7. CASE Query
  BY <1>7 DEF Query
<1>8. CASE CommandMotion \/ Acquire
  BY <1>8 DEF CommandMotion, Acquire
<1>9. CASE EnterActive \/ Drive \/ Release
  BY <1>9 DEF EnterActive, Drive, DriveTick, DriveEnds, DriveRaises, Release,
              SettledState, Transitioned
<1>10. CASE Elapse \/ HardwareChanges \/ CallEmergency
  BY <1>10 DEF Elapse, HardwareChanges, CallEmergency
<1>11. CASE ProcessEnds
  BY <1>11 DEF ProcessEnds
<1>12. CASE UNCHANGED vars
  BY <1>12 DEF vars
<1> QED
  BY <1>1, <1>2, <1>3, <1>4, <1>5, <1>6, <1>7, <1>8, <1>9, <1>10, <1>11, <1>12
     DEF Next

(* The type invariant holds: every handler of the gateway, the supervisor
   and the executive leaves each variable in its range; in particular the
   drive loop never counts past its budget. *)
THEOREM TypeCorrect == Spec => []TypeOK
<1>1. Init => TypeOK
  <2>1. Init => FlagsOK
    BY Zenon DEF Init, FlagsOK
  <2>2. Init => RangesOK
    BY MaxTicksAssumption DEF Init, RangesOK, DroidState, BootPc, TaskPc, SavePc
  <2> QED BY <2>1, <2>2 DEF TypeOK
<1>2. TypeOK /\ [Next]_vars => TypeOK'
  BY FlagsStep, RangesStep DEF TypeOK
<1> QED BY <1>1, <1>2, PTL DEF Spec

-----------------------------------------------------------------------------
(* The emergency stop outlives the process *)

(* While no latch write goes wrong, each step keeps StopInv. *)
LEMMA StopStep ==
    ASSUME SaveFaults = {}
    PROVE  FlagsOK /\ StopInv /\ [Next]_vars => StopInv'
<1> SUFFICES ASSUME FlagsOK, StopInv, [Next]_vars PROVE StopInv'
  OBVIOUS
<1> USE BackendAssumption
    DEF FlagsOK, StopInv, Powered, controller, backend, task, world
<1>1. CASE Boot
  <2>1. CASE BootStart
    BY <2>1 DEF BootStart
  <2>2. CASE BootSafety
    BY <2>2 DEF BootSafety, PowerOff, LatchEngaged
  <2>3. CASE BootServices
    BY <2>3 DEF BootServices
  <2>4. CASE BootSettle
    BY <2>4 DEF BootSettle, AssessEffects, WatchdogPower, Drain
  <2> QED BY <1>1, <2>1, <2>2, <2>3, <2>4 DEF Boot
<1>2. CASE CommandEstop \/ HearEmergency \/ ResetEstop
  BY <1>2 DEF CommandEstop, HearEmergency, EngageEstop, ResetEstop, PowerOff, Prompt
<1>3. CASE SaveLatch
  BY <1>3 DEF SaveLatch, SaveOpen, SaveWrite, SaveFinish, SavedLatch, WatchdogPower
<1>4. CASE ReturnSafeIdle \/ RequestShutdown
  BY <1>4 DEF ReturnSafeIdle, RequestShutdown, PowerOff
<1>5. CASE \E f \in FaultNames : ReportFault(f)
  BY <1>5 DEF ReportFault, PowerOff
<1>6. CASE \E up \in BOOLEAN : SetSafetyLink(up)
  BY <1>6 DEF SetSafetyLink
<1>7. CASE Query
  BY <1>7 DEF Query, Prompt, AssessEffects, WatchdogPower, Drain
<1>8. CASE CommandMotion
  BY <1>8 DEF CommandMotion, Prompt, AssessEffects, WatchdogPower, Drain
<1>9. CASE Acquire
  BY <1>9 DEF Acquire, Healthy
<1>10. CASE EnterActive \/ Drive \/ Release
  BY <1>10 DEF EnterActive, Drive, DriveTick, DriveEnds, DriveRaises, Drain,
               Release, PowerOff
<1>11. CASE Elapse \/ HardwareChanges \/ CallEmergency
  BY <1>11 DEF Elapse, HardwareChanges, CallEmergency
<1>12. CASE ProcessEnds
  BY <1>12 DEF ProcessEnds
<1>13. CASE UNCHANGED vars
  BY <1>13 DEF vars
<1> QED
  BY <1>1, <1>2, <1>3, <1>4, <1>5, <1>6, <1>7, <1>8, <1>9, <1>10, <1>11, <1>12,
     <1>13 DEF Next

(* A completed emergency stop keeps motor power away until a reset, through
   any number of process ends and reboots, on either backend, as long as
   every write of the latch file succeeds and is not cut short. *)
THEOREM StopOutlivesProcess ==
    SaveFaults = {} => (Spec => []NoPowerWhileStopped)
<1> SUFFICES ASSUME SaveFaults = {} PROVE Spec => []NoPowerWhileStopped
  OBVIOUS
<1>1. Init => StopInv
  BY DEF Init, StopInv, Powered
<1>2. TypeOK /\ StopInv /\ [Next]_vars => StopInv'
  BY StopStep DEF TypeOK
<1>3. StopInv => NoPowerWhileStopped
  BY DEF StopInv, NoPowerWhileStopped
<1> QED BY <1>1, <1>2, <1>3, TypeCorrect, PTL DEF Spec

(* Only a reset takes a completed stop back, and it leaves the power alone. *)
LEMMA OnlyResetForgets ==
    FlagsOK /\ [Next]_vars => \/ demanded => demanded'
                              \/ UNCHANGED <<power, bpower>>
BY Zenon DEF FlagsOK, Next, vars, controller, backend, task, world,
       Boot, BootStart, BootSafety, BootServices, BootSettle,
       CommandEstop, HearEmergency, EngageEstop, ResetEstop,
       SaveLatch, SaveOpen, SaveWrite, SaveFinish, ReturnSafeIdle,
       RequestShutdown, ReportFault, SetSafetyLink, Query, CommandMotion,
       Acquire, EnterActive, Drive, DriveTick, DriveEnds, DriveRaises, Release,
       Elapse, HardwareChanges, CallEmergency, ProcessEnds

(* The brain implements MotorPower as long as every write of the latch file
   succeeds and is not cut short: no power under a completed stop, no power
   given by ending one. *)
THEOREM BrainImplementsMotorPower ==
    SaveFaults = {} => (Spec => ImplementsMotorPower)
<1> SUFFICES ASSUME SaveFaults = {} PROVE Spec => Promise!Spec
  BY DEF ImplementsMotorPower
<1>1. Init => StopInv /\ Promise!Init
  BY DEF Init, StopInv, Powered, Promise!Init
<1>2. TypeOK /\ StopInv /\ [Next]_vars => StopInv'
  BY StopStep DEF TypeOK
<1>3. TypeOK /\ TypeOK' /\ StopInv /\ StopInv' /\ [Next]_vars => [Promise!Next]_(Promise!vars)
  <2> SUFFICES ASSUME TypeOK, TypeOK', StopInv, StopInv', [Next]_vars
               PROVE  Promise!Next
    OBVIOUS
  <2>1. (demanded => ~Powered) /\ (demanded' => ~Powered')
    BY DEF StopInv
  <2>2. demanded /\ ~demanded' => ~Powered'
    BY <2>1, OnlyResetForgets DEF TypeOK, Powered
  <2>3. /\ demanded \in BOOLEAN /\ demanded' \in BOOLEAN
        /\ Powered \in BOOLEAN /\ Powered' \in BOOLEAN
    BY DEF TypeOK, FlagsOK, Powered
  <2> QED
    BY <2>1, <2>2, <2>3, Zenon
       DEF Promise!Next, Promise!Give, Promise!Remove, Promise!Stop, Promise!Reset
<1> QED BY <1>1, <1>2, <1>3, TypeCorrect, PTL DEF Spec, Promise!Spec

-----------------------------------------------------------------------------
(* Power belongs to a task *)

(* In simulation each step keeps TaskInv. *)
LEMMA TaskStep ==
    ASSUME Backend = "sim"
    PROVE  FlagsOK /\ TaskInv /\ [Next]_vars => TaskInv'
<1> SUFFICES ASSUME FlagsOK, TaskInv, [Next]_vars PROVE TaskInv'
  OBVIOUS
<1> USE DEF FlagsOK, TaskInv, TaskPc, controller, backend, task, world
<1>1. CASE Boot
  <2>1. CASE BootStart
    BY <2>1 DEF BootStart
  <2>2. CASE BootSafety
    BY <2>2 DEF BootSafety, PowerOff
  <2>3. CASE BootServices
    BY <2>3 DEF BootServices
  <2>4. CASE BootSettle
    BY <2>4 DEF BootSettle, AssessEffects, WatchdogPower, Drain
  <2> QED BY <1>1, <2>1, <2>2, <2>3, <2>4 DEF Boot
<1>2. CASE CommandEstop \/ HearEmergency \/ ResetEstop
  BY <1>2 DEF CommandEstop, HearEmergency, EngageEstop, ResetEstop, PowerOff, Prompt
<1>3. CASE SaveLatch
  BY <1>3 DEF SaveLatch, SaveOpen, SaveWrite, SaveFinish, WatchdogPower
<1>4. CASE ReturnSafeIdle \/ RequestShutdown
  BY <1>4 DEF ReturnSafeIdle, RequestShutdown, PowerOff, Prompt
<1>5. CASE \E f \in FaultNames : ReportFault(f)
  BY <1>5 DEF ReportFault, PowerOff, Prompt
<1>6. CASE \E up \in BOOLEAN : SetSafetyLink(up)
  BY <1>6 DEF SetSafetyLink, Prompt
<1>7. CASE Query
  BY <1>7 DEF Query, Prompt, AssessEffects, WatchdogPower, Drain
<1>8. CASE CommandMotion
  <2>1. Readiness \in MOTION_ALLOWED_FROM => services = "active"
    BY DEF Readiness, Inhibited, MOTION_ALLOWED_FROM
  <2> QED
    BY <1>8, <2>1 DEF CommandMotion, Prompt, AssessEffects, WatchdogPower, Drain
<1>9. CASE Acquire
  BY <1>9 DEF Acquire
<1>10. CASE EnterActive \/ Drive
  BY <1>10 DEF EnterActive, Drive, DriveTick, DriveEnds, DriveRaises, Drain
<1>11. CASE Release
  BY <1>11 DEF Release, PowerOff
<1>12. CASE Elapse \/ HardwareChanges \/ CallEmergency
  BY <1>12 DEF Elapse, HardwareChanges, CallEmergency
<1>13. CASE ProcessEnds
  BY <1>13 DEF ProcessEnds
<1>14. CASE UNCHANGED vars
  BY <1>14 DEF vars
<1> QED
  BY <1>1, <1>2, <1>3, <1>4, <1>5, <1>6, <1>7, <1>8, <1>9, <1>10, <1>11, <1>12,
     <1>13, <1>14 DEF Next

LEMMA TaskInit == Init => TaskInv
BY DEF Init, TaskInv, TaskPc

(* In simulation motor power belongs to a running drive task, and every way
   a task can end gives it back; whatever happens to the latch file, the
   link, the hardware and the process. *)
THEOREM PowerBelongsToTask == Backend = "sim" => (Spec => []PowerHeldByTask)
<1> SUFFICES ASSUME Backend = "sim" PROVE Spec => []PowerHeldByTask
  OBVIOUS
<1>1. TypeOK /\ TaskInv /\ [Next]_vars => TaskInv'
  BY TaskStep DEF TypeOK
<1>2. TypeOK /\ TaskInv => PowerHeldByTask
  BY DEF TypeOK, FlagsOK, TaskInv, Powered, PowerHeldByTask
<1> QED BY <1>1, <1>2, TaskInit, TypeCorrect, PTL DEF Spec

(* In simulation nothing is powered without the motion-critical services. *)
THEOREM NoPowerWithoutServices == Backend = "sim" => (Spec => []ServicesGatePower)
<1> SUFFICES ASSUME Backend = "sim" PROVE Spec => []ServicesGatePower
  OBVIOUS
<1>1. TypeOK /\ TaskInv /\ [Next]_vars => TaskInv'
  BY TaskStep DEF TypeOK
<1>2. TypeOK /\ TaskInv => ServicesGatePower
  BY DEF TypeOK, FlagsOK, TaskInv, TaskPc, Powered, ServicesGatePower
<1> QED BY <1>1, <1>2, TaskInit, TypeCorrect, PTL DEF Spec

(* In simulation the backend's flag and the contactor agree at every step. *)
THEOREM BackendFollowsContactor == Backend = "sim" => (Spec => []DrivesFollowContactor)
<1> SUFFICES ASSUME Backend = "sim" PROVE Spec => []DrivesFollowContactor
  OBVIOUS
<1>1. TypeOK /\ TaskInv /\ [Next]_vars => TaskInv'
  BY TaskStep DEF TypeOK
<1>2. TypeOK /\ TaskInv => DrivesFollowContactor
  BY DEF TypeOK, FlagsOK, TaskInv, DrivesFollowContactor
<1> QED BY <1>1, <1>2, TaskInit, TypeCorrect, PTL DEF Spec

-----------------------------------------------------------------------------
(* What the droid says of itself *)

(* A task is only started without an e-stop, and none is engaged in one. *)
ReportInv == EstopIsReported /\ (pc \in TaskPc => ~estop)

LEMMA ReportStep == FlagsOK /\ ReportInv /\ [Next]_vars => ReportInv'
<1> SUFFICES ASSUME FlagsOK, ReportInv, [Next]_vars PROVE ReportInv'
  OBVIOUS
<1> USE DEF FlagsOK, ReportInv, EstopIsReported, TaskPc, controller, backend, task, world
<1>1. CASE Boot
  <2>1. CASE BootStart \/ BootSafety \/ BootServices
    BY <2>1 DEF BootStart, BootSafety, BootServices
  <2>2. CASE BootSettle
    BY <2>2 DEF BootSettle, Readiness
  <2> QED BY <1>1, <2>1, <2>2 DEF Boot
<1>2. CASE CommandEstop \/ HearEmergency \/ ResetEstop
  BY <1>2 DEF CommandEstop, HearEmergency, EngageEstop, ResetEstop
<1>3. CASE SaveLatch
  BY <1>3 DEF SaveLatch, SaveOpen, SaveWrite, SaveFinish, StateAfterSave
<1>4. CASE ReturnSafeIdle \/ RequestShutdown
  BY <1>4 DEF ReturnSafeIdle, RequestShutdown, Prompt
<1>5. CASE \E f \in FaultNames : ReportFault(f)
  BY <1>5 DEF ReportFault, Prompt
<1>6. CASE \E up \in BOOLEAN : SetSafetyLink(up)
  BY <1>6 DEF SetSafetyLink, Prompt
<1>7. CASE Query
  BY <1>7 DEF Query, Prompt
<1>8. CASE CommandMotion
  <2>1. Readiness \in MOTION_ALLOWED_FROM => ~estop
    BY DEF Readiness, MOTION_ALLOWED_FROM
  <2> QED BY <1>8, <2>1 DEF CommandMotion, Prompt
<1>9. CASE Acquire \/ EnterActive \/ Drive \/ Release
  BY <1>9 DEF Acquire, EnterActive, Drive, DriveTick, DriveEnds, DriveRaises, Release
<1>10. CASE Elapse \/ HardwareChanges \/ CallEmergency \/ ProcessEnds
  BY <1>10 DEF Elapse, HardwareChanges, CallEmergency, ProcessEnds
<1>11. CASE UNCHANGED vars
  BY <1>11 DEF vars
<1> QED
  BY <1>1, <1>2, <1>3, <1>4, <1>5, <1>6, <1>7, <1>8, <1>9, <1>10, <1>11 DEF Next

(* On either backend: at the prompt an engaged e-stop is the droid's state,
   until it is shut down, whichever commands were given in between. *)
THEOREM StopIsReported == Spec => []EstopIsReported
<1>1. Init => ReportInv
  BY DEF Init, ReportInv, EstopIsReported, TaskPc
<1>2. TypeOK /\ ReportInv /\ [Next]_vars => ReportInv'
  BY ReportStep DEF TypeOK
<1>3. ReportInv => EstopIsReported
  BY DEF ReportInv
<1> QED BY <1>1, <1>2, <1>3, TypeCorrect, PTL DEF Spec

LEMMA ActiveStep ==
    ASSUME Backend = "sim"
    PROVE  RangesOK /\ ActiveOnlyInTask /\ [Next]_vars => ActiveOnlyInTask'
<1> SUFFICES ASSUME RangesOK, ActiveOnlyInTask, [Next]_vars PROVE ActiveOnlyInTask'
  OBVIOUS
<1> USE DEF ActiveOnlyInTask, controller, backend, task, world
<1>0. \A t \in {"BOOTING", "HARDWARE_CHECK", "SAFE_IDLE"} :
         Transitioned(state, t) = "ACTIVE" => state = "ACTIVE"
  BY DEF Transitioned
<1>1. CASE Boot
  <2>1. CASE BootStart \/ BootSafety \/ BootServices
    BY <1>0, <2>1 DEF BootStart, BootSafety, BootServices
  <2>2. CASE BootSettle
    BY <2>2 DEF BootSettle, Readiness
  <2> QED BY <1>1, <2>1, <2>2 DEF Boot
<1>2. CASE CommandEstop \/ HearEmergency \/ ResetEstop
  BY <1>2 DEF CommandEstop, HearEmergency, EngageEstop, ResetEstop, Prompt
<1>3. CASE SaveLatch
  BY <1>3 DEF SaveLatch, SaveOpen, SaveWrite, SaveFinish, StateAfterSave
<1>4. CASE ReturnSafeIdle \/ RequestShutdown
  BY <1>0, <1>4 DEF ReturnSafeIdle, RequestShutdown, Prompt
<1>5. CASE \E f \in FaultNames : ReportFault(f)
  BY <1>5 DEF ReportFault
<1>6. CASE \E up \in BOOLEAN : SetSafetyLink(up)
  BY <1>6 DEF SetSafetyLink
<1>7. CASE Query
  BY <1>7 DEF Query
<1>8. CASE CommandMotion \/ Acquire
  BY <1>8 DEF CommandMotion, Prompt, Acquire
<1>9. CASE EnterActive \/ Drive
  BY <1>9 DEF EnterActive, Drive, DriveTick, DriveEnds, DriveRaises
<1>10. CASE Release
  <2>1. state' # "ACTIVE"
    BY <1>10 DEF Release, SettledState, Transitioned, CanTransition, Transitions
  <2> QED BY <2>1
<1>11. CASE Elapse \/ HardwareChanges \/ CallEmergency \/ ProcessEnds
  BY <1>11 DEF Elapse, HardwareChanges, CallEmergency, ProcessEnds
<1>12. CASE UNCHANGED vars
  BY <1>12 DEF vars
<1> QED
  BY <1>1, <1>2, <1>3, <1>4, <1>5, <1>6, <1>7, <1>8, <1>9, <1>10, <1>11, <1>12 DEF Next

(* In simulation no sequence of commands leaves ACTIVE behind: it is the
   state of a drive under way. *)
THEOREM ActiveIsATask == Backend = "sim" => (Spec => []ActiveOnlyInTask)
<1> SUFFICES ASSUME Backend = "sim" PROVE Spec => []ActiveOnlyInTask
  OBVIOUS
<1>1. Init => ActiveOnlyInTask
  BY DEF Init, ActiveOnlyInTask
<1>2. TypeOK /\ ActiveOnlyInTask /\ [Next]_vars => ActiveOnlyInTask'
  BY ActiveStep DEF TypeOK
<1> QED BY <1>1, <1>2, TypeCorrect, PTL DEF Spec

-----------------------------------------------------------------------------
(* How long a call can keep the thread *)

(* A call for an emergency stop dies with the process that would hear it. *)
CryInv == cry => pc \notin BootPc \cup {"off"}

LEMMA CryStep == FlagsOK /\ CryInv /\ [Next]_vars => CryInv'
<1> SUFFICES ASSUME FlagsOK, CryInv, [Next]_vars PROVE CryInv'
  OBVIOUS
<1> USE DEF FlagsOK, CryInv, BootPc, controller, backend, task, world
<1>1. CASE Boot
  BY <1>1 DEF Boot, BootStart, BootSafety, BootServices, BootSettle
<1>2. CASE CommandEstop \/ HearEmergency \/ ResetEstop
  BY <1>2 DEF CommandEstop, HearEmergency, EngageEstop, ResetEstop
<1>3. CASE SaveLatch
  BY <1>3 DEF SaveLatch, SaveOpen, SaveWrite, SaveFinish
<1>4. CASE ReturnSafeIdle \/ RequestShutdown \/ Query
  BY <1>4 DEF ReturnSafeIdle, RequestShutdown, Query
<1>5. CASE \E f \in FaultNames : ReportFault(f)
  BY <1>5 DEF ReportFault
<1>6. CASE \E up \in BOOLEAN : SetSafetyLink(up)
  BY <1>6 DEF SetSafetyLink
<1>7. CASE CommandMotion \/ Acquire
  BY <1>7 DEF CommandMotion, Acquire
<1>8. CASE EnterActive \/ Drive \/ Release
  BY <1>8 DEF EnterActive, Drive, DriveTick, DriveEnds, DriveRaises, Release
<1>9. CASE Elapse \/ HardwareChanges \/ CallEmergency \/ ProcessEnds
  BY <1>9 DEF Elapse, HardwareChanges, CallEmergency, ProcessEnds
<1>10. CASE UNCHANGED vars
  BY <1>10 DEF vars
<1> QED
  BY <1>1, <1>2, <1>3, <1>4, <1>5, <1>6, <1>7, <1>8, <1>9, <1>10 DEF Next

(* A step of the thread inside a call, whatever it does to the rest *)
LEMMA CallAdvances ==
    ASSUME RangesOK, RangesOK', ThreadStep, pc # "idle"
    PROVE  /\ StepsLeft' \in Nat /\ StepsLeft' < StepsLeft
           /\ cry' = cry
<1> USE MaxTicksAssumption
    DEF RangesOK, controller, backend, task, world
<1>1. CASE pc # "off" /\ Boot
  BY <1>1 DEF Boot, BootStart, BootSafety, BootServices, BootSettle, StepsLeft
<1>2. CASE SaveLatch
  BY <1>2 DEF SaveLatch, SaveOpen, SaveWrite, SaveFinish, StepsLeft
<1>3. CASE Acquire
  BY <1>3 DEF Acquire, StepsLeft
<1>4. CASE EnterActive
  <2>1. pc = "enter" /\ pc' = "drive" /\ ticks' = ticks /\ cry' = cry
    BY <1>4 DEF EnterActive
  <2>2. StepsLeft = MaxTicks + 3 /\ StepsLeft' = (MaxTicks - ticks) + 2
    BY <2>1 DEF StepsLeft
  <2> QED BY <2>1, <2>2
<1>5. CASE DriveTick
  <2>1. pc = "drive" /\ pc' = "drive" /\ ticks' = ticks + 1 /\ ticks < MaxTicks /\ cry' = cry
    BY <1>5 DEF DriveTick
  <2>2. StepsLeft = (MaxTicks - ticks) + 2 /\ StepsLeft' = (MaxTicks - (ticks + 1)) + 2
    BY <2>1 DEF StepsLeft
  <2> QED BY <2>1, <2>2
<1>6. CASE DriveEnds \/ DriveRaises
  <2>1. pc = "drive" /\ pc' \in {"release", "idle"} /\ cry' = cry
    BY <1>6 DEF DriveEnds, DriveRaises
  <2>2. StepsLeft = (MaxTicks - ticks) + 2 /\ StepsLeft' \in {0, 1}
    BY <2>1 DEF StepsLeft
  <2> QED BY <2>1, <2>2
<1>7. CASE Release
  BY <1>7 DEF Release, StepsLeft
<1>8. CASE HearEmergency
  BY <1>8 DEF HearEmergency
<1> QED
  BY <1>1, <1>2, <1>3, <1>4, <1>5, <1>6, <1>7, <1>8 DEF ThreadStep, Drive

LEMMA StepsLeftIsNatural ==
    ASSUME RangesOK
    PROVE  StepsLeft \in Nat /\ (pc \notin {"idle", "off"} => StepsLeft > 0)
           /\ (pc \in {"idle", "off"} => StepsLeft = 0)
<1>1. CASE pc = "drive"
  <2>1. (MaxTicks - ticks) + 2 \in Nat /\ (MaxTicks - ticks) + 2 > 0
    BY MaxTicksAssumption DEF RangesOK
  <2> QED BY <1>1, <2>1 DEF StepsLeft
<1>2. CASE pc # "drive"
  BY <1>2, MaxTicksAssumption DEF StepsLeft, RangesOK, BootPc, TaskPc, SavePc
<1> QED BY <1>1, <1>2

LEMMA AheadAdvances ==
    ASSUME TypeOK, TypeOK', CryInv, Next, cry \/ (pc # "idle" /\ pc # "off"),
           ~UNCHANGED <<pc, state, services, estop, power, faults, link, backend, task, file>>
    PROVE  /\ StepsAhead' \in Nat /\ StepsAhead' < StepsAhead
           /\ cry => cry' \/ estop' \/ pc' = "off"
<1>0. RangesOK /\ RangesOK' /\ cry \in BOOLEAN /\ cry' \in BOOLEAN /\ pc # "off"
  BY DEF TypeOK, FlagsOK, CryInv
<1>1. /\ StepsLeft \in Nat /\ (pc # "idle" => StepsLeft > 0)
      /\ (pc = "idle" => StepsLeft = 0)
  BY <1>0, StepsLeftIsNatural
<1>2. CASE ThreadStep /\ pc # "idle"
  <2>1. StepsLeft' \in Nat /\ StepsLeft' < StepsLeft /\ cry' = cry
    BY <1>0, <1>2, CallAdvances
  <2>2. cry => cry' \/ estop' \/ pc' = "off"
    BY <2>1
  <2>3. CASE cry
    <3>1. cry'
      BY <2>1, <2>3, Zenon
    <3>2. StepsAhead = StepsLeft + 4 /\ StepsAhead' = StepsLeft' + 4
      BY <2>3, <3>1 DEF StepsAhead
    <3>3. \A m, n \in Nat : m < n => m + 4 \in Nat /\ m + 4 < n + 4
      OBVIOUS
    <3>4. StepsLeft' + 4 \in Nat /\ StepsLeft' + 4 < StepsLeft + 4
      BY <1>1, <2>1, <3>3, Zenon
    <3> QED BY <2>2, <3>2, <3>4
  <2>4. CASE ~cry
    BY <1>1, <2>1, <2>2, <2>4 DEF StepsAhead
  <2> QED BY <2>3, <2>4
<1>3. CASE HearEmergency
  <2>1. pc = "idle" /\ cry /\ ~cry' /\ estop' /\ pc' = "open"
    BY <1>3 DEF HearEmergency, EngageEstop
  <2>2. StepsAhead = 4 /\ StepsAhead' = 3
    BY <1>1, <2>1 DEF StepsAhead, StepsLeft
  <2> QED BY <2>1, <2>2
<1>4. CASE ProcessEnds
  <2>1. pc' = "off" /\ ~cry'
    BY <1>4 DEF ProcessEnds
  <2>2. StepsAhead' = 0
    BY <2>1 DEF StepsAhead, StepsLeft
  <2>3. StepsAhead \in Nat /\ StepsAhead > 0
    BY <1>0, <1>1 DEF StepsAhead
  <2> QED BY <2>1, <2>2, <2>3
<1>5. CASE Elapse \/ HardwareChanges \/ CallEmergency
  BY <1>5 DEF Elapse, HardwareChanges, CallEmergency, controller, backend, task
<1>6. ASSUME Prompt PROVE FALSE
  BY <1>0, <1>6 DEF Prompt
<1>7. ThreadStep \/ ProcessEnds \/ Elapse \/ HardwareChanges \/ CallEmergency
  BY <1>0, <1>6 DEF Next, ThreadStep, CommandEstop, ResetEstop, ReturnSafeIdle, RequestShutdown,
         ReportFault, SetSafetyLink, Query, CommandMotion
<1>8. CASE ThreadStep /\ pc = "idle"
  BY <1>3, <1>8 DEF ThreadStep, Boot, BootStart, BootSafety, BootServices, BootSettle, SaveLatch,
     SaveOpen, SaveWrite, SaveFinish, Acquire, EnterActive, Drive, DriveTick, DriveEnds,
     DriveRaises, Release
<1> QED BY <1>2, <1>4, <1>5, <1>7, <1>8

(* On either backend and whatever happens to the latch file: every step of
   the thread inside a call brings it nearer to its prompt, so that no drive
   and no save keeps it for more than MaxTicks + 4 steps; and with a call for
   an emergency stop pending, what it does next only leads to that stop. *)
THEOREM CallsAreBounded == Spec => ThreadAdvances
<1>1. Init => CryInv
  BY DEF Init, CryInv
<1>2. TypeOK /\ CryInv /\ [Next]_vars => CryInv'
  BY CryStep DEF TypeOK
<1>3. TypeOK /\ TypeOK' /\ CryInv /\ [Next]_vars =>
        [/\ cry \/ (pc # "idle" /\ pc # "off")
         /\ ~UNCHANGED <<pc, state, services, estop, power, faults, link, backend, task, file>>
         => /\ StepsAhead' \in Nat /\ StepsAhead' < StepsAhead
            /\ cry => cry' \/ estop' \/ pc' = "off"]_vars
  BY AheadAdvances
<1> QED BY <1>1, <1>2, <1>3, TypeCorrect, PTL DEF Spec, ThreadAdvances
=============================================================================
