---------------------------- MODULE RosNodes_proofs ----------------------------
(***************************************************************************)
(* Proofs about RosNodes, for every tick budget and any number of waiting  *)
(* goals: where motor power is in a graph of nodes, and what a node knows  *)
(* of an emergency stop that another one has saved.                        *)
(***************************************************************************)
EXTENDS RosNodes, TLAPS

LEMMA FlagsStep == FlagsOK /\ [Next]_vars => FlagsOK'
<1> SUFFICES ASSUME FlagsOK, [Next]_vars PROVE FlagsOK'
  OBVIOUS
<1> USE DEF FlagsOK, brains, latch
<1>1. ASSUME NEW n \in Nodes, Boot(n) \/ BootSettle(n) \/ NodeEnds(n) PROVE FlagsOK'
  BY <1>1 DEF Boot, BootSettle, NodeEnds, LatchEngaged
<1>2. ASSUME NEW n \in Nodes, SaveOpen(n) \/ SaveWrite(n) \/ SaveFinish(n) PROVE FlagsOK'
  BY <1>2 DEF SaveOpen, SaveWrite, SaveFinish
<1>3. CASE EstopService \/ ResetService \/ OnActivate \/ OnDeactivate
  BY <1>3 DEF EstopService, Engage, ResetService, OnActivate, OnDeactivate
<1>4. CASE (\E i \in Intents : SendGoal(i)) \/ ExecuteTask
  BY <1>4 DEF SendGoal, ExecuteTask, Engage
<1>5. CASE DriveStep
  BY <1>5 DEF DriveStep, Acquire, EnterActive, DriveTick, DriveEnds, Release
<1>6. CASE UNCHANGED vars
  BY <1>6 DEF vars
<1> QED BY <1>1, <1>2, <1>3, <1>4, <1>5, <1>6 DEF Next

LEMMA StatesClosed ==
    \A src, dst \in DroidState : Transitioned(src, dst) \in DroidState
BY DEF Transitioned

LEMMA RangesStep == RangesOK /\ [Next]_vars => RangesOK'
<1> SUFFICES ASSUME RangesOK, [Next]_vars PROVE RangesOK'
  OBVIOUS
<1> USE DriveAssumption DEF RangesOK, brains, latch, Goto, SavePc
<1>0. {"HARDWARE_CHECK", "READY", "MOTION_INHIBITED", "EMERGENCY_STOPPED", "ACTIVE",
       "POWERED_OFF"} \subseteq DroidState
  BY DEF DroidState
<1>1. ASSUME NEW n \in Nodes, Boot(n) \/ BootSettle(n) PROVE RangesOK'
  <2>1. Readiness(n) \subseteq DroidState
    BY <1>0 DEF Readiness
  <2>2. state' \in [Nodes -> DroidState]
    BY <1>0, <1>1, <2>1 DEF Boot, BootSettle
  <2>3. late' \subseteq Nodes
    BY <1>1 DEF Boot, BootSettle
  <2> QED BY <1>1, <2>2, <2>3 DEF Boot, BootSettle
<1>2. ASSUME NEW n \in Nodes, NodeEnds(n) PROVE RangesOK'
  <2>1. ticks' \in 0 .. MaxTicks /\ goals' \in Seq(Intents) /\ Len(goals') <= MaxGoals
    <3>1. CASE n = "language"
      BY <1>2, <3>1 DEF NodeEnds
    <3>2. CASE n # "language"
      BY <1>2, <3>2 DEF NodeEnds
    <3> QED BY <3>1, <3>2
  <2> QED BY <1>0, <1>2, <2>1 DEF NodeEnds
<1>3. ASSUME NEW n \in Nodes, SaveOpen(n) \/ SaveWrite(n) \/ SaveFinish(n) PROVE RangesOK'
  <2>1. CASE SaveOpen(n)
    BY <2>1 DEF SaveOpen
  <2>2. CASE SaveWrite(n)
    BY <2>2 DEF SaveWrite, SavedLatch
  <2>3. CASE SaveFinish(n)
    BY <1>0, <2>3 DEF SaveFinish
  <2> QED BY <1>3, <2>1, <2>2, <2>3
<1>4. CASE EstopService \/ ResetService \/ OnActivate \/ OnDeactivate
  <2>1. CASE EstopService
    BY <2>1 DEF EstopService, Engage, Nodes
  <2>2. CASE ResetService
    BY <2>2 DEF ResetService, Nodes
  <2>3. CASE OnActivate \/ OnDeactivate
    BY <2>3 DEF OnActivate, OnDeactivate
  <2> QED BY <1>4, <2>1, <2>2, <2>3
<1>5. ASSUME NEW i \in Intents, SendGoal(i) PROVE RangesOK'
  <2>1. goals' \in Seq(Intents) /\ Len(goals') <= MaxGoals
    BY <1>5 DEF SendGoal
  <2> QED BY <1>5, <2>1 DEF SendGoal
<1>6. CASE ExecuteTask
  <2>1. goals' \in Seq(Intents) /\ Len(goals') <= MaxGoals
    BY <1>6 DEF ExecuteTask
  <2>2. alone' \subseteq Nodes /\ ticks' \in 0 .. MaxTicks
    <3>1. alone' \in {alone, {}, {"language"}} /\ ticks' \in {ticks, 0}
      BY <1>6 DEF ExecuteTask, Engage
    <3> QED BY <3>1 DEF Nodes
  <2>3. pc' \in [Nodes -> {"off", "boot", "inactive", "idle", "finish",
                           "acquire", "enter", "drive", "release"} \cup SavePc]
    BY <1>6 DEF ExecuteTask, Engage
  <2> QED BY <1>6, <2>1, <2>2, <2>3 DEF ExecuteTask
<1>7. CASE DriveStep
  <2>1. state' \in [Nodes -> DroidState]
    BY <1>0, <1>7, StatesClosed
       DEF DriveStep, Acquire, EnterActive, DriveTick, DriveEnds, Release, Nodes
  <2> QED BY <1>7, <2>1 DEF DriveStep, Acquire, EnterActive, DriveTick, DriveEnds, Release
<1>8. CASE UNCHANGED vars
  BY <1>8 DEF vars
<1> QED BY <1>1, <1>2, <1>3, <1>4, <1>5, <1>6, <1>7, <1>8 DEF Next

(* Every variable keeps its type: the drive stays within its tick budget. *)
THEOREM TypeCorrect == Spec => []TypeOK
<1>1. Init => FlagsOK
  BY Zenon DEF Init, FlagsOK
<1>2. Init => RangesOK
  BY DriveAssumption DEF Init, RangesOK, DroidState
<1>3. TypeOK /\ [Next]_vars => TypeOK'
  BY FlagsStep, RangesStep DEF TypeOK
<1> QED BY <1>1, <1>2, <1>3, PTL DEF Spec, TypeOK

-----------------------------------------------------------------------------
LEMMA PowerStep == TypeOK /\ PowerBelongsToDrive /\ [Next]_vars => PowerBelongsToDrive'
<1> SUFFICES ASSUME TypeOK, PowerBelongsToDrive, [Next]_vars PROVE PowerBelongsToDrive'
  OBVIOUS
<1> USE DEF TypeOK, FlagsOK, RangesOK, PowerBelongsToDrive, brains, latch, Goto, SavePc
<1>1. ASSUME NEW n \in Nodes, Boot(n) \/ BootSettle(n) \/ NodeEnds(n)
      PROVE  PowerBelongsToDrive'
  BY <1>1 DEF Boot, BootSettle, NodeEnds
<1>2. ASSUME NEW n \in Nodes, SaveOpen(n) \/ SaveWrite(n) \/ SaveFinish(n)
      PROVE  PowerBelongsToDrive'
  BY <1>2 DEF SaveOpen, SaveWrite, SaveFinish
<1>3. CASE EstopService \/ ResetService \/ OnActivate \/ OnDeactivate
  BY <1>3 DEF EstopService, Engage, ResetService, OnActivate, OnDeactivate, Nodes
<1>4. CASE (\E i \in Intents : SendGoal(i)) \/ ExecuteTask
  BY <1>4 DEF SendGoal, ExecuteTask, Engage, Nodes
<1>5. CASE DriveStep
  BY <1>5 DEF DriveStep, Acquire, EnterActive, DriveTick, DriveEnds, Release, Nodes
<1>6. CASE UNCHANGED vars
  BY <1>6 DEF vars
<1> QED BY <1>1, <1>2, <1>3, <1>4, <1>5, <1>6 DEF Next

(* In every interleaving of the nodes only the language node's brain ever has
   motor power, only inside a drive, and never with its own e-stop engaged. *)
THEOREM PowerOnlyInDrive == Spec => []PowerBelongsToDrive
<1>1. Init => PowerBelongsToDrive
  BY DEF Init, PowerBelongsToDrive
<1> QED BY <1>1, PowerStep, TypeCorrect, PTL DEF Spec

-----------------------------------------------------------------------------
LEMMA LatchStep ==
    TypeOK /\ PowerBelongsToDrive /\ LatchInv /\ [Next]_vars => LatchInv'
<1> SUFFICES ASSUME TypeOK, PowerBelongsToDrive, LatchInv, [Next]_vars PROVE LatchInv'
  OBVIOUS
<1> USE DEF TypeOK, FlagsOK, RangesOK, LatchInv, brains, latch, Goto, SavePc, Writing
<1>1. ASSUME NEW n \in Nodes, Boot(n) PROVE LatchInv'
  BY <1>1 DEF Boot, LatchEngaged
<1>2. ASSUME NEW n \in Nodes, BootSettle(n) PROVE LatchInv'
  BY <1>2 DEF BootSettle, Readiness
<1>3. ASSUME NEW n \in Nodes, NodeEnds(n) PROVE LatchInv'
  BY <1>3 DEF NodeEnds
<1>4. ASSUME NEW n \in Nodes, SaveOpen(n) PROVE LatchInv'
  BY <1>4 DEF SaveOpen
<1>5. ASSUME NEW n \in Nodes, SaveWrite(n) PROVE LatchInv'
  BY <1>5 DEF SaveWrite, SavedLatch
<1>6. ASSUME NEW n \in Nodes, SaveFinish(n) PROVE LatchInv'
  BY <1>6 DEF SaveFinish
<1>7. CASE EstopService
  BY <1>7 DEF EstopService, Engage, Nodes
<1>8. CASE ResetService
  BY <1>8 DEF ResetService, Nodes
<1>9. CASE OnActivate \/ OnDeactivate
  <2>1. /\ \A n \in Nodes : pc[n] = "write" => pc'[n] = "write"
        /\ \A n \in Nodes : pc[n] = "boot" => pc'[n] = "boot"
        /\ \A n \in Nodes : pc[n] # "off" => pc'[n] # "off"
    BY <1>9 DEF OnActivate, OnDeactivate
  <2> QED BY <1>9, <2>1 DEF OnActivate, OnDeactivate
<1>10. CASE \E i \in Intents : SendGoal(i)
  BY <1>10 DEF SendGoal
<1>11. CASE ExecuteTask
  BY <1>11 DEF ExecuteTask, Engage, Nodes
<1>12. CASE DriveStep
  <2>1. CASE Acquire
    BY <2>1 DEF Acquire, Nodes
  <2>2. CASE EnterActive \/ Release
    <3>1. /\ \A n \in Nodes : pc[n] = "write" => pc'[n] = "write"
          /\ \A n \in Nodes : pc[n] = "boot" => pc'[n] = "boot"
          /\ \A n \in Nodes : pc[n] # "off" => pc'[n] # "off"
      BY <2>2 DEF EnterActive, Release
    <3>2. \A n \in Nodes : state[n] = "EMERGENCY_STOPPED" => state'[n] = "EMERGENCY_STOPPED"
      BY <2>2 DEF EnterActive, Release
    <3>3. \A n \in Nodes : ~power[n] => ~power'[n]
      BY <2>2 DEF EnterActive, Release
    <3> QED BY <2>2, <3>1, <3>2, <3>3 DEF EnterActive, Release
  <2>3. CASE DriveTick \/ DriveEnds
    <3>1. /\ \A n \in Nodes : pc[n] = "write" => pc'[n] = "write"
          /\ \A n \in Nodes : pc[n] = "boot" => pc'[n] = "boot"
          /\ \A n \in Nodes : pc[n] # "off" => pc'[n] # "off"
      BY <2>3 DEF DriveTick, DriveEnds
    <3> QED BY <2>3, <3>1 DEF DriveTick, DriveEnds
  <2> QED BY <1>12, <2>1, <2>2, <2>3 DEF DriveStep
<1>13. CASE UNCHANGED vars
  BY <1>13 DEF vars
<1> QED
  BY <1>1, <1>2, <1>3, <1>4, <1>5, <1>6, <1>7, <1>8, <1>9, <1>10, <1>11, <1>12, <1>13
     DEF Next

LEMMA LatchHolds == Spec => [](TypeOK /\ LatchInv)
<1>1. Init => LatchInv
  BY DEF Init, LatchInv
<1> QED BY <1>1, LatchStep, PowerOnlyInDrive, TypeCorrect, PTL DEF Spec

(* A node that boots after some node has saved an e-stop is stopped itself,
   and stays so until a reset; whichever nodes start, end or save meanwhile. *)
THEOREM LatchReachesLaterNodes == Spec => []LaterNodesAreStopped
<1>1. TypeOK /\ LatchInv => LaterNodesAreStopped
  BY DEF TypeOK, RangesOK, LatchInv, LaterNodesAreStopped
<1> QED BY <1>1, LatchHolds, PTL

(* And it says so on its topic. *)
THEOREM TopicsAreTruthful == Spec => []TopicsTellOfStop
<1>1. TypeOK /\ LatchInv => TopicsTellOfStop
  BY DEF TypeOK, RangesOK, LatchInv, TopicsTellOfStop, SafetyMessage, StateMessage,
         MOTION_ALLOWED_FROM
<1> QED BY <1>1, LatchHolds, PTL

-----------------------------------------------------------------------------
(* The language node's brain implements MotorPower, whatever the other nodes
   do to the latch file: its own e-stop removes power in the same step, and
   what ends it, the end or the boot of the process, gives none. *)
THEOREM NodeImplementsMotorPower == Spec => ImplementsMotorPower
<1> SUFFICES Spec => Promise!Spec
  BY DEF ImplementsMotorPower
<1> DEFINE l == "language"
<1>1. Init => Promise!Init
  BY DEF Init, Promise!Init, Nodes
<1>2. /\ TypeOK /\ TypeOK' /\ PowerBelongsToDrive /\ PowerBelongsToDrive' /\ [Next]_vars
      => [Promise!Next]_(Promise!vars)
  <2> SUFFICES ASSUME TypeOK, TypeOK', PowerBelongsToDrive, PowerBelongsToDrive', [Next]_vars
               PROVE  Promise!Next
    OBVIOUS
  <2>1. (estop[l] => ~power[l]) /\ (estop'[l] => ~power'[l])
    BY DEF PowerBelongsToDrive, Nodes
  <2>2. estop[l] /\ ~estop'[l] => ~power'[l]
    <3> SUFFICES ASSUME estop[l], ~estop'[l] PROVE ~power'[l]
      OBVIOUS
    <3> USE DEF TypeOK, FlagsOK, Nodes
    <3>1. \E n \in Nodes : Boot(n) \/ NodeEnds(n)
      BY DEF Next, vars, brains, latch, BootSettle, SaveOpen, SaveWrite, SaveFinish,
             EstopService, Engage, ResetService, OnActivate, OnDeactivate, SendGoal,
             ExecuteTask, DriveStep, Acquire, EnterActive, DriveTick, DriveEnds, Release
    <3> QED BY <2>1, <3>1 DEF Boot, NodeEnds
  <2>3. /\ estop[l] \in BOOLEAN /\ estop'[l] \in BOOLEAN
        /\ power[l] \in BOOLEAN /\ power'[l] \in BOOLEAN
    BY DEF TypeOK, FlagsOK, Nodes
  <2> QED
    BY <2>1, <2>2, <2>3, Zenon
       DEF Promise!Next, Promise!Give, Promise!Remove, Promise!Stop, Promise!Reset
<1> QED
  BY <1>1, <1>2, PowerOnlyInDrive, TypeCorrect, PTL DEF Spec, Promise!Spec
-----------------------------------------------------------------------------
(* How long an emergency stop waits at the language node *)

LEMMA GoalsStep == TypeOK /\ GoalsInv /\ [Next]_vars => GoalsInv'
<1> SUFFICES ASSUME TypeOK, GoalsInv, [Next]_vars PROVE GoalsInv'
  OBVIOUS
<1>0. "language" \in Nodes /\ pc \in [Nodes -> {"off", "boot", "inactive", "idle", "finish",
                               "acquire", "enter", "drive", "release"} \cup SavePc]
  BY DEF TypeOK, RangesOK, Nodes
<1> USE DEF GoalsInv, brains, latch, Goto
<1>1. ASSUME NEW n \in Nodes, Boot(n) \/ BootSettle(n) PROVE GoalsInv'
  BY <1>0, <1>1 DEF Boot, BootSettle
<1>2. ASSUME NEW n \in Nodes, NodeEnds(n) PROVE GoalsInv'
  BY <1>0, <1>2 DEF NodeEnds
<1>3. ASSUME NEW n \in Nodes, SaveOpen(n) \/ SaveWrite(n) \/ SaveFinish(n) PROVE GoalsInv'
  BY <1>0, <1>3 DEF SaveOpen, SaveWrite, SaveFinish
<1>4. CASE EstopService \/ ResetService \/ OnActivate \/ OnDeactivate
  BY <1>0, <1>4 DEF EstopService, Engage, ResetService, OnActivate, OnDeactivate
<1>5. CASE \E i \in Intents : SendGoal(i)
  BY <1>5 DEF SendGoal
<1>6. CASE ExecuteTask
  BY <1>0, <1>6 DEF ExecuteTask, Engage
<1>7. CASE DriveStep
  BY <1>0, <1>7 DEF DriveStep, Acquire, EnterActive, DriveTick, DriveEnds, Release
<1>8. CASE UNCHANGED vars
  BY <1>8 DEF vars
<1> QED BY <1>1, <1>2, <1>3, <1>4, <1>5, <1>6, <1>7, <1>8 DEF Next

LEMMA StepsLeftIsNatural ==
    ASSUME TypeOK
    PROVE  StepsLeft \in Nat /\ (pc["language"] = "idle" => StepsLeft = 0)
<1>1. ticks \in 0 .. MaxTicks /\ MaxTicks \in Nat
  BY DriveAssumption DEF TypeOK, RangesOK
<1>2. (MaxTicks - ticks) + 2 \in Nat
  BY <1>1
<1> QED BY <1>1, <1>2 DEF StepsLeft

LEMMA StepsLeftStaysNatural ==
    ASSUME TypeOK'
    PROVE  StepsLeft' \in Nat
<1>1. ticks' \in 0 .. MaxTicks /\ MaxTicks \in Nat
  BY DriveAssumption DEF TypeOK, RangesOK
<1>2. \A t \in 0 .. MaxTicks : (MaxTicks - t) + 2 \in Nat
  BY <1>1
<1>3. (MaxTicks - ticks') + 2 \in Nat
  BY <1>1, <1>2, Zenon
<1> QED BY <1>1, <1>3 DEF StepsLeft

(* A step of the language node inside a callback *)
LEMMA CallbackAdvances ==
    ASSUME TypeOK,
           \/ BootSettle("language") \/ SaveOpen("language") \/ SaveWrite("language")
           \/ SaveFinish("language") \/ DriveStep
    PROVE  goals' = goals /\ StepsLeft' < StepsLeft
<1>0. /\ "language" \in Nodes /\ pc \in [Nodes -> {"off", "boot", "inactive", "idle", "finish",
                               "acquire", "enter", "drive", "release"} \cup SavePc]
      /\ ticks \in 0 .. MaxTicks /\ MaxTicks \in Nat
  BY DriveAssumption DEF TypeOK, RangesOK, Nodes
<1>1. goals' = goals
  BY DEF BootSettle, SaveOpen, SaveWrite, SaveFinish, DriveStep, Acquire, EnterActive,
         DriveTick, DriveEnds, Release
<1> DEFINE at == pc["language"]
           to == pc'["language"]
<1>2. \/ at = "boot" /\ to = "idle"
      \/ at = "open" /\ to \in {"write", "finish"}
      \/ at = "write" /\ to = "finish"
      \/ at = "finish" /\ to = "idle"
      \/ at = "acquire" /\ to \in {"idle", "enter"}
      \/ at = "enter" /\ to = "drive" /\ ticks' = ticks
      \/ at = "drive" /\ to = "drive" /\ ticks' = ticks + 1 /\ ticks < MaxTicks
      \/ at = "drive" /\ to = "release"
      \/ at = "release" /\ to = "idle"
  BY <1>0 DEF BootSettle, SaveOpen, SaveWrite, SaveFinish, DriveStep, Acquire, EnterActive,
              DriveTick, DriveEnds, Release, Goto, brains
<1>3. /\ at = "acquire" => StepsLeft = MaxTicks + 4
      /\ at = "enter" => StepsLeft = MaxTicks + 3
      /\ at = "drive" => StepsLeft = (MaxTicks - ticks) + 2
      /\ at = "open" => StepsLeft = 3
      /\ at = "write" => StepsLeft = 2
      /\ at \in {"boot", "release", "finish"} => StepsLeft = 1
  BY DEF StepsLeft
<1>4. /\ to = "enter" => StepsLeft' = MaxTicks + 3
      /\ to = "drive" => StepsLeft' = (MaxTicks - ticks') + 2
      /\ to = "write" => StepsLeft' = 2
      /\ to \in {"release", "finish"} => StepsLeft' = 1
      /\ to = "idle" => StepsLeft' = 0
  BY DEF StepsLeft
<1> HIDE DEF at, to
<1> QED BY <1>0, <1>1, <1>2, <1>3, <1>4

(* Whatever else happens leaves the language node and its goals alone, but
   for a goal that is added at the end. *)
LEMMA OthersKeepGoals ==
    ASSUME TypeOK, GoalsInv, goals # << >>, Next,
           ~(\/ BootSettle("language") \/ SaveOpen("language") \/ SaveWrite("language")
             \/ SaveFinish("language") \/ DriveStep \/ ExecuteTask),
           pc'["language"] # "off"
    PROVE  /\ UNCHANGED <<pc["language"], ticks>>
           /\ \A k \in 1 .. Len(goals) : k <= Len(goals') /\ goals'[k] = goals[k]
<1>0. /\ "language" \in Nodes /\ pc \in [Nodes -> {"off", "boot", "inactive", "idle", "finish",
                               "acquire", "enter", "drive", "release"} \cup SavePc]
      /\ goals \in Seq(Intents) /\ pc["language"] # "off"
  BY DEF TypeOK, RangesOK, Nodes, GoalsInv
<1>1. CASE \E i \in Intents : SendGoal(i)
  <2>1. PICK i \in Intents : SendGoal(i)
    BY <1>1
  <2>2. goals' = Append(goals, i) /\ pc' = pc /\ ticks' = ticks
    BY <2>1 DEF SendGoal, brains
  <2> QED BY <1>0, <2>2
<1>2. CASE ~ \E i \in Intents : SendGoal(i)
  <2>1. goals' = goals /\ ticks' = ticks /\ pc'["language"] = pc["language"]
    <3>1. ASSUME NEW n \in Nodes, Boot(n) \/ BootSettle(n) \/ NodeEnds(n)
          PROVE  goals' = goals /\ ticks' = ticks /\ pc'["language"] = pc["language"]
      BY <1>0, <3>1 DEF Boot, BootSettle, NodeEnds, Goto
    <3>2. ASSUME NEW n \in Nodes, SaveOpen(n) \/ SaveWrite(n) \/ SaveFinish(n)
          PROVE  goals' = goals /\ ticks' = ticks /\ pc'["language"] = pc["language"]
      BY <1>0, <3>2 DEF SaveOpen, SaveWrite, SaveFinish, Goto
    <3>3. CASE EstopService \/ ResetService \/ OnActivate \/ OnDeactivate
      BY <1>0, <3>3 DEF EstopService, Engage, ResetService, OnActivate, OnDeactivate, Goto
    <3> QED BY <1>2, <3>1, <3>2, <3>3 DEF Next
  <2>2. \A k \in 1 .. Len(goals) : k <= Len(goals')
    BY <1>0, <2>1
  <2> QED BY <2>1, <2>2
<1> QED BY <1>1, <1>2

(* The goal at the front is taken: those behind it move up, and a drive that
   begins now takes less than what one place counts for. *)
LEMMA ExecuteMovesUp ==
    ASSUME TypeOK, TypeOK', ExecuteTask, NEW k \in 1 .. Len(goals), goals[k] = "estop",
           ~estop'["language"]
    PROVE  /\ k - 1 \in 1 .. k /\ k - 1 <= Len(goals') /\ goals'[k - 1] = "estop"
           /\ StepsBefore(k - 1)' < StepsBefore(k)
<1>0. /\ "language" \in Nodes /\ pc \in [Nodes -> {"off", "boot", "inactive", "idle", "finish",
                               "acquire", "enter", "drive", "release"} \cup SavePc]
      /\ goals \in Seq(Intents) /\ goals # << >> /\ goals' = Tail(goals) /\ MaxTicks \in Nat
      /\ pc["language"] = "idle" /\ estop \in [Nodes -> BOOLEAN]
  BY DriveAssumption DEF TypeOK, FlagsOK, RangesOK, Nodes, ExecuteTask
<1>1. Head(goals) # "estop"
  BY <1>0 DEF ExecuteTask, Engage
<1>2. k # 1
  BY <1>0, <1>1
<1>3. /\ k - 1 \in 1 .. k /\ k - 1 \in 1 .. Len(goals) - 1 /\ Len(goals') = Len(goals) - 1
      /\ goals'[k - 1] = goals[(k - 1) + 1] /\ (k - 1) + 1 = k
  BY <1>0, <1>2
<1>4. pc'["language"] \in {"idle", "acquire"}
  BY <1>0, <1>1 DEF ExecuteTask, Goto
<1>5. StepsLeft = 0 /\ StepsLeft' \in Nat /\ StepsLeft' <= MaxTicks + 4
  <2>1. StepsLeft' \in {0, MaxTicks + 4}
    BY <1>4 DEF StepsLeft
  <2> QED BY <1>0, <2>1 DEF StepsLeft
<1>6. StepsBefore(k) = k * (MaxTicks + 5) /\ StepsBefore(k - 1)' = (k - 1) * (MaxTicks + 5) + StepsLeft'
  <2>1. k * (MaxTicks + 5) \in Nat
    BY <1>0
  <2> QED BY <1>5, <2>1 DEF StepsBefore
<1>7. k * (MaxTicks + 5) = (k - 1) * (MaxTicks + 5) + (MaxTicks + 5) /\ (k - 1) * (MaxTicks + 5) \in Nat
  BY <1>0
<1>8. StepsBefore(k - 1)' < StepsBefore(k)
  BY <1>0, <1>5, <1>6, <1>7
<1> QED BY <1>3, <1>8

(* An emergency stop that is sent to the language node is carried out after a
   bounded number of that node's steps, whichever goals were sent before it
   and come after it, and whatever the other nodes do. *)
THEOREM EstopGoalIsBounded == Spec => EstopGoalNears
<1>1. Init => GoalsInv
  BY DEF Init, GoalsInv
<1>2. ASSUME TypeOK, TypeOK', GoalsInv, Next, NEW k \in 1 .. Len(goals), goals[k] = "estop",
             ~estop'["language"], pc'["language"] # "off"
      PROVE  \E j \in 1 .. k :
               /\ j <= Len(goals') /\ goals'[j] = "estop"
               /\ \/ StepsBefore(j)' < StepsBefore(k)
                  \/ j = k /\ UNCHANGED <<pc["language"], ticks>>
  <2>0. Len(goals) \in Nat /\ goals # << >> /\ MaxTicks \in Nat /\ k \in 1 .. k
    BY <1>2, DriveAssumption DEF TypeOK, RangesOK
  <2>1. CASE ExecuteTask
    BY <1>2, <2>1, ExecuteMovesUp
  <2>2. CASE \/ BootSettle("language") \/ SaveOpen("language") \/ SaveWrite("language")
             \/ SaveFinish("language") \/ DriveStep
    <3>1. goals' = goals /\ StepsLeft' < StepsLeft
      BY <1>2, <2>2, CallbackAdvances
    <3>2. StepsLeft \in Nat /\ StepsLeft' \in Nat
      BY <1>2, StepsLeftIsNatural, StepsLeftStaysNatural
    <3>3. k * (MaxTicks + 5) \in Nat
      BY <2>0
    <3>4. StepsBefore(k)' = k * (MaxTicks + 5) + StepsLeft'
      BY DEF StepsBefore
    <3>5. StepsBefore(k)' < StepsBefore(k)
      BY <3>1, <3>2, <3>3, <3>4 DEF StepsBefore
    <3> QED BY <1>2, <2>0, <3>1, <3>5
  <2>3. CASE ~(\/ BootSettle("language") \/ SaveOpen("language") \/ SaveWrite("language")
               \/ SaveFinish("language") \/ DriveStep \/ ExecuteTask)
    <3>1. /\ UNCHANGED <<pc["language"], ticks>>
          /\ k <= Len(goals') /\ goals'[k] = goals[k]
      BY <1>2, <2>0, <2>3, OthersKeepGoals
    <3> QED BY <1>2, <2>0, <3>1
  <2> QED BY <2>1, <2>2, <2>3
<1>3. TypeOK /\ TypeOK' /\ GoalsInv /\ [Next]_vars =>
        [\A k \in 1 .. Len(goals) : goals[k] = "estop" =>
           \/ estop'["language"] \/ pc'["language"] = "off"
           \/ \E j \in 1 .. k :
                 /\ j <= Len(goals') /\ goals'[j] = "estop"
                 /\ \/ StepsBefore(j)' < StepsBefore(k)
                    \/ j = k /\ UNCHANGED <<pc["language"], ticks>>]_vars
  BY <1>2
<1> QED BY <1>1, <1>3, GoalsStep, TypeCorrect, PTL DEF Spec, EstopGoalNears
=============================================================================
