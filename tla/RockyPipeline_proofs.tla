------------------------- MODULE RockyPipeline_proofs -------------------------
(***************************************************************************)
(* Proofs about RockyPipeline, for any number of calls on one database,    *)
(* every typed action and however the owner sets the capabilities.         *)
(***************************************************************************)
EXTENDS RockyPipeline, TLAPS

LEMMA DecideType ==
    \A a \in Action : Decide(a) \in {"allow", "ask_user", "deny"}
  BY DEF Decide

LEMMA TypeStep == TypeOK /\ PipelineInv /\ [Next]_vars => TypeOK'
<1> SUFFICES ASSUME TypeOK, PipelineInv, [Next]_vars PROVE TypeOK'
  OBVIOUS
<1> USE ActionsAssumption, CapSetsAssumption DEF TypeOK, order, db, Goto, Working, Events
<1>1. ASSUME NEW p \in Invocations, Step(p) PROVE TypeOK'
  <2>1. CASE CmdInit(p) \/ CmdMemoryAdd(p) \/ Dies(p)
    BY <2>1 DEF CmdInit, CmdMemoryAdd, Dies
  <2>2. CASE CreateTable(p)
    BY <2>2 DEF CreateTable, TablesAfter
  <2>3. CASE AddItem(p)
    BY <2>3 DEF AddItem
  <2>4. CASE LogOnly(p) \/ LogAsk(p) \/ LogOutcome(p)
    BY <2>4 DEF LogOnly, LogAsk, LogOutcome, Log
  <2>5. CASE \E a \in Actions, y \in BOOLEAN : CmdPropose(p, a, y)
    BY <2>5 DEF CmdPropose
  <2>6. CASE \E y \in BOOLEAN : CmdAsk(p, y)
    BY <2>6 DEF CmdAsk
  <2>7. CASE ModelReplies(p)
    BY <2>7 DEF ModelReplies
  <2>8. CASE ValidateAndDecide(p)
    <3>1. Decide(act[p]) \in {"allow", "ask_user", "deny"}
      BY DecideType
    <3> QED BY <2>8, <3>1 DEF ValidateAndDecide
  <2>9. CASE RecordAction(p) \/ Refuse(p) \/ UpdateStatus(p)
    BY <2>9 DEF RecordAction, Refuse, UpdateStatus
  <2>10. CASE Execute(p) \/ HandlerReturns(p)
    BY <2>10 DEF Execute, HandlerReturns
  <2>11. CASE RecordToolCall(p)
    <3>1. ran[p] \in {"ok", "failed"}
      BY <2>11 DEF RecordToolCall, PipelineInv, CallInv
    <3> QED BY <2>11, <3>1 DEF RecordToolCall
  <2> QED
    BY <1>1, <2>1, <2>2, <2>3, <2>4, <2>5, <2>6, <2>7, <2>8, <2>9, <2>10, <2>11 DEF Step
<1>2. CASE EditCapabilities
  BY <1>2 DEF EditCapabilities
<1>3. CASE UNCHANGED vars
  BY <1>3 DEF vars
<1> QED BY <1>1, <1>2, <1>3 DEF Next

-----------------------------------------------------------------------------
(* What PipelineInv says about one call *)
CallOK(q) ==
    /\ CallInv(q)
    /\ ran[q] # "no" => row[q] # "none" /\ Approved(q)
    /\ row[q] = "succeeded" => /\ ran[q] = "ok" /\ call[q] = "ok"
                               /\ act[q].kind = "memory.write" => q \in items
    /\ row[q] = "failed" => ran[q] = "failed" /\ call[q] = "failed"
    /\ row[q] \in {"denied", "awaiting_confirmation"} => ran[q] = "no"
    /\ "execute" \in logged[q] => row[q] \in {"succeeded", "failed"}

(* A call is judged by its own rows, so another call's step leaves it as it
   was; its own step keeps it sound. *)
LEMMA PipelineStep == TypeOK /\ PipelineInv /\ [Next]_vars => PipelineInv'
<1> SUFFICES ASSUME TypeOK, \A q \in Invocations : CallOK(q), [Next]_vars,
                    NEW q \in Invocations
             PROVE  CallOK(q)'
  BY DEF PipelineInv, NothingRunsUnrecorded, TrailIsTruthful, CallOK
<1>0. CallOK(q)
  OBVIOUS
<1> USE DEF TypeOK, order, db, Goto, CallOK, CallInv, Approved
<1>1. ASSUME NEW p \in Invocations, Step(p) PROVE CallOK(q)'
  <2>1. CASE CmdInit(p) \/ CmdMemoryAdd(p) \/ Dies(p)
    BY <1>0, <2>1 DEF CmdInit, CmdMemoryAdd, Dies
  <2>2. CASE CreateTable(p)
    BY <1>0, <2>2 DEF CreateTable
  <2>3. CASE AddItem(p)
    BY <1>0, <2>3 DEF AddItem
  <2>4. CASE LogOnly(p) \/ LogAsk(p) \/ LogOutcome(p)
    BY <1>0, <2>4 DEF LogOnly, LogAsk, LogOutcome, Log
  <2>5. CASE \E a \in Actions, y \in BOOLEAN : CmdPropose(p, a, y)
    BY <1>0, <2>5 DEF CmdPropose
  <2>6. CASE \E y \in BOOLEAN : CmdAsk(p, y)
    BY <1>0, <2>6 DEF CmdAsk
  <2>7. CASE ModelReplies(p)
    BY <1>0, <2>7 DEF ModelReplies
  <2>8. CASE ValidateAndDecide(p)
    BY <1>0, <2>8 DEF ValidateAndDecide
  <2>9. CASE RecordAction(p) \/ Refuse(p) \/ UpdateStatus(p)
    BY <1>0, <2>9 DEF RecordAction, Refuse, UpdateStatus
  <2>10. CASE Execute(p) \/ HandlerReturns(p)
    BY <1>0, <2>10 DEF Execute, HandlerReturns
  <2>11. CASE RecordToolCall(p)
    BY <1>0, <2>11 DEF RecordToolCall
  <2> QED
    BY <1>1, <2>1, <2>2, <2>3, <2>4, <2>5, <2>6, <2>7, <2>8, <2>9, <2>10, <2>11 DEF Step
<1>2. CASE EditCapabilities
  BY <1>0, <1>2 DEF EditCapabilities
<1>3. CASE UNCHANGED vars
  BY <1>0, <1>3 DEF vars
<1> QED BY <1>1, <1>2, <1>3 DEF Next

LEMMA PipelineHolds == Spec => [](TypeOK /\ PipelineInv)
<1>1. Init => TypeOK /\ PipelineInv
  BY CapSetsAssumption
  DEF Init, TypeOK, NoAction, Action, Kinds, Risks, Commands, PipelineInv,
      NothingRunsUnrecorded, TrailIsTruthful, CallInv
<1> QED BY <1>1, TypeStep, PipelineStep, PTL DEF Spec

(* The variables keep their types. *)
THEOREM TypeCorrect == Spec => []TypeOK
BY PipelineHolds, PTL

(* However many calls share the database, whichever of them fail or die, and
   whatever the model proposes: nothing runs without its row and a decision
   for it. *)
THEOREM RunsAreRecorded == Spec => []NothingRunsUnrecorded
<1>1. PipelineInv => NothingRunsUnrecorded
  BY DEF PipelineInv
<1> QED BY <1>1, PipelineHolds, PTL

(* The rows never tell of something that did not happen, wherever a call was
   cut off. *)
THEOREM TrailHolds == Spec => []TrailIsTruthful
<1>1. PipelineInv => TrailIsTruthful
  BY DEF PipelineInv
<1> QED BY <1>1, PipelineHolds, PTL
=============================================================================
