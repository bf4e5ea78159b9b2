-------------------------- MODULE CommandGate_proofs --------------------------
(***************************************************************************)
(* Proofs about CommandGate, for both kinds of session, every rank and     *)
(* body, every provider chain and any answer of the language model.        *)
(***************************************************************************)
EXTENDS CommandGate, TLAPS

(* The offline parser proposes a tool of the catalog, or nothing it knows. *)
LEMMA ParseType == \A l : Parse(l) \in Proposals \cup {Unknown}
  BY DEF Parse, Proposals, IntentOf, Tools, Places, Unknown

(* A tool that is always available never asks. *)
LEMMA AlwaysNeverAsks ==
    \A i \in Proposals : ToolSpec[i.tool].always => ~NeedsConfirmation(i)
  BY DEF Proposals, Tools, ToolSpec, Spec_, NeedsConfirmation

(* Each step keeps AskInv. *)
LEMMA AskStep == AskInv /\ [Next]_vars => AskInv'
<1> SUFFICES ASSUME AskInv, [Next]_vars PROVE AskInv'
  OBVIOUS
<1> USE DEF AskInv, call
<1>1. ASSUME NEW q \in Proposals \cup {NoIntent}, NEW t, Respond(q, t) PROVE AskInv'
  BY <1>1 DEF Respond, PendingAfter
<1>2. ASSUME pc = "prompt", StartChain PROVE AskInv'
  BY <1>2 DEF StartChain
<1>3. ASSUME NEW l \in Lines, TypedLine(l) PROVE AskInv'
  <2>1. CASE Respond(NoIntent, "nothing")
    BY <1>1, <2>1
  <2>2. CASE StartChain
    BY <1>2, <1>3, <2>2 DEF TypedLine
  <2>3. CASE /\ pending # NoIntent /\ IsAffirmative(l)
             /\ intent' = pending /\ confirmed' = TRUE /\ pc' = "dispatch"
             /\ UNCHANGED <<at, pending, known, asked, ran>>
    BY <1>3, <2>3 DEF TypedLine, IsAffirmative
  <2> QED BY <1>3, <2>1, <2>2, <2>3 DEF TypedLine
<1>4. ASSUME NEW l \in Lines, Utterance(l) PROVE AskInv'
  BY <1>1, <1>2, <1>4 DEF Utterance
<1>5. CASE TryProvider \/ RequestAnswered
  BY <1>5, ParseType DEF TryProvider, RequestAnswered, Propose
<1>6. CASE RequestFails \/ RequestRaises
  BY <1>6 DEF RequestFails, RequestRaises
<1>7. CASE Dispatch
  <2>1. CASE Validate(intent, confirmed) = "confirmation_required"
    <3>1. intent \in Proposals
      BY <1>7, <2>1 DEF Dispatch, Validate
    <3> QED BY <1>1, <1>7, <2>1, <3>1 DEF Dispatch
  <2>2. CASE Validate(intent, confirmed) # "confirmation_required"
    BY <1>1, <1>7, <2>2 DEF Dispatch
  <2> QED BY <2>1, <2>2
<1>8. CASE EndpointChanges \/ ReadinessChanges
  BY <1>8 DEF EndpointChanges, ReadinessChanges, IsAffirmative
<1>9. CASE UNCHANGED vars
  BY <1>9 DEF vars, IsAffirmative
<1> QED
  BY <1>3, <1>4, <1>5, <1>6, <1>7, <1>8, <1>9 DEF Next, Process

(* An intent runs only in Dispatch, and only if validate approves it. *)
LEMMA RunsAreApproved ==
    [Next]_vars /\ Runs => Dispatch /\ Validate(intent, confirmed) = "approved"
<1> SUFFICES ASSUME [Next]_vars, Runs
             PROVE  Dispatch /\ Validate(intent, confirmed) = "approved"
  OBVIOUS
<1>1. Dispatch
  BY DEF Runs, Next, Process, vars, call, TypedLine, Utterance, TryProvider, Propose,
         RequestFails, RequestAnswered, RequestRaises, EndpointChanges, ReadinessChanges
<1>2. Validate(intent, confirmed) \in {"rejected", "confirmation_required", "approved"}
  BY DEF Validate
<1> QED BY <1>1, <1>2 DEF Runs, Dispatch, Respond

(* What needs confirmation runs only on a yes to the question just asked
   about it, whatever the model proposes and however long the answer takes. *)
THEOREM GateHolds == Spec => ConfirmedWasAsked
<1>1. Init => AskInv
  BY DEF Init, AskInv
<1>2. AskInv /\ [Next]_vars
        => (Runs /\ NeedsConfirmation(intent) => asked = intent /\ IsAffirmative(line))
  <2> SUFFICES ASSUME AskInv, [Next]_vars, Runs, NeedsConfirmation(intent)
               PROVE  asked = intent /\ IsAffirmative(line)
    OBVIOUS
  <2>1. Validate(intent, confirmed) = "approved"
    BY RunsAreApproved
  <2>2. ToolSpec[intent.tool].always \/ confirmed
    BY <2>1 DEF Validate
  <2>3. intent \in Proposals
    BY <2>1, RunsAreApproved DEF AskInv, Dispatch, Validate
  <2> QED BY <2>2, <2>3, AlwaysNeverAsks DEF AskInv
<1> QED BY <1>1, <1>2, AskStep, PTL DEF Spec, ConfirmedWasAsked

(* Nothing runs without the permission the broker finds at that moment. *)
THEOREM BrokerDecides == Spec => RunsArePermitted
<1>1. [Next]_vars => (Runs => ToolSpec[intent.tool].always \/ Permitted(intent))
  BY RunsAreApproved DEF Validate
<1> QED BY <1>1, PTL DEF Spec, RunsArePermitted
-----------------------------------------------------------------------------
(* The chain that is searched has an offline provider in it. *)
LEMMA ChainEnds ==
    /\ Providers \in Seq({"http", "disabled", "offline"})
    /\ \E i \in DOMAIN Providers : Providers[i] = "offline"
<1>1. CASE \E i \in 1 .. Len(Chain) : Chain[i] = "offline"
  BY <1>1, ChainAssumption DEF Providers
<1>2. CASE ~ \E i \in 1 .. Len(Chain) : Chain[i] = "offline"
  <2>1. Providers = Append(Chain, "offline")
    BY <1>2 DEF Providers
  <2>2. Len(Providers) = Len(Chain) + 1 /\ Providers[Len(Chain) + 1] = "offline"
    BY <2>1, ChainAssumption
  <2> QED BY <2>1, <2>2, ChainAssumption
<1> QED BY <1>1, <1>2

(* Why the search stays inside the chain: it has passed no offline provider,
   and only an HTTP provider is sent a request. *)
SearchInv ==
    /\ \A i \in 1 .. at - 1 : Providers[i] # "offline"
    /\ pc = "generate" => Providers[at] = "http"

IInv == TypeOK /\ AskInv /\ SearchInv

(* Past a provider that is not the offline one there is another. *)
LEMMA NextProvider ==
    ASSUME TypeOK, SearchInv, Providers[at] # "offline"
    PROVE  /\ at + 1 \in DOMAIN Providers
           /\ \A i \in 1 .. at : Providers[i] # "offline"
<1> DEFINE n == Len(Providers)
<1>1. n \in Nat /\ DOMAIN Providers = 1 .. n /\ at \in 1 .. n
  BY ChainEnds DEF TypeOK
<1>2. \A i \in 1 .. at : Providers[i] # "offline"
  BY <1>1 DEF SearchInv
<1>3. PICK j \in 1 .. n : Providers[j] = "offline"
  BY <1>1, ChainEnds
<1>4. j > at
  BY <1>1, <1>2, <1>3
<1> QED BY <1>1, <1>2, <1>3, <1>4

LEMMA TypeStep == IInv /\ [Next]_vars => TypeOK' /\ SearchInv'
<1> SUFFICES ASSUME IInv, [Next]_vars PROVE TypeOK' /\ SearchInv'
  OBVIOUS
<1> DEFINE Intents == Proposals \cup {Unknown, NoIntent}
<1>0. TypeOK /\ AskInv /\ SearchInv
  BY DEF IInv
<1>1. 1 \in DOMAIN Providers
  BY <1>0, ChainEnds DEF TypeOK
<1>2. ASSUME NEW q \in Intents, NEW t \in Tools \cup {"nothing"}, Respond(q, t),
             NEW l \in Lines, line' = l, known' \subseteq Places, UNCHANGED <<session, llm, ready>>
      PROVE  TypeOK' /\ SearchInv'
  <2>1. SearchInv'
    BY <1>2 DEF SearchInv, Respond
  <2>2. confirmed' \in BOOLEAN /\ ready' \in BOOLEAN
    BY <1>0, <1>2, Zenon DEF TypeOK, Respond
  <2>3. {intent', pending', asked'} \subseteq Intents
    BY <1>2 DEF Respond, PendingAfter
  <2> QED BY <1>0, <1>1, <1>2, <2>1, <2>2, <2>3 DEF TypeOK, Respond
<1>3. ASSUME StartChain, NEW l \in Lines, line' = l, UNCHANGED <<session, llm, ready>>
      PROVE  TypeOK' /\ SearchInv'
  <2>1. SearchInv'
    BY <1>3 DEF SearchInv, StartChain
  <2>2. confirmed' \in BOOLEAN /\ ready' \in BOOLEAN
    BY <1>0, <1>3, Zenon DEF TypeOK, StartChain
  <2> QED BY <1>0, <1>1, <1>3, <2>1, <2>2 DEF TypeOK, StartChain
<1>4. ASSUME NEW l \in Lines, TypedLine(l) PROVE TypeOK' /\ SearchInv'
  <2>1. CASE Respond(NoIntent, "nothing") /\ known' = known
    BY <1>0, <1>2, <1>4, <2>1 DEF TypedLine, TypeOK
  <2>2. CASE StartChain
    BY <1>3, <1>4, <2>2 DEF TypedLine
  <2>3. CASE /\ pending # NoIntent /\ IsAffirmative(l)
             /\ intent' = pending /\ confirmed' = TRUE /\ pc' = "dispatch"
             /\ UNCHANGED <<at, pending, known, asked, ran>>
    BY <1>0, <1>4, <2>3 DEF TypedLine, TypeOK, SearchInv
  <2> QED BY <1>4, <2>1, <2>2, <2>3 DEF TypedLine
<1>5. ASSUME NEW l \in Lines, Utterance(l) PROVE TypeOK' /\ SearchInv'
  <2>1. CASE DetectEmergency(l) # NoIntent
    <3>1. DetectEmergency(l).tool \in Tools
      BY <2>1 DEF DetectEmergency, Parse, IntentOf, Tools
    <3> QED BY <1>0, <1>2, <1>5, <2>1, <3>1 DEF Utterance, TypeOK
  <2>2. CASE DetectEmergency(l) = NoIntent
    BY <1>0, <1>2, <1>3, <1>5, <2>2 DEF Utterance, TypeOK
  <2> QED BY <2>1, <2>2
<1>6. CASE TryProvider
  <2>1. CASE Providers[at] = "offline" /\ Propose(Parse(line))
    BY <1>0, <1>6, <2>1, ParseType DEF TryProvider, Propose, TypeOK, SearchInv
  <2>2. CASE Providers[at] = "http" /\ pc' = "generate" /\ UNCHANGED <<at, intent>>
    BY <1>0, <1>6, <2>2 DEF TryProvider, TypeOK, SearchInv
  <2>3. CASE Providers[at] # "offline" /\ at' = at + 1 /\ UNCHANGED <<pc, intent>>
    <3>1. at' \in DOMAIN Providers /\ \A i \in 1 .. at' - 1 : Providers[i] # "offline"
      BY <1>0, <2>3, NextProvider, ChainEnds DEF TypeOK
    <3> QED BY <1>0, <1>6, <2>3, <3>1 DEF TryProvider, TypeOK, SearchInv
  <2> QED BY <1>6, <2>1, <2>2, <2>3 DEF TryProvider
<1>7. CASE RequestFails
  <2>1. at' \in DOMAIN Providers /\ \A i \in 1 .. at' - 1 : Providers[i] # "offline"
    BY <1>0, <1>7, NextProvider, ChainEnds DEF RequestFails, TypeOK, SearchInv
  <2> QED BY <1>0, <1>7, <2>1 DEF RequestFails, TypeOK, SearchInv
<1>8. CASE RequestAnswered
  BY <1>0, <1>8, ParseType DEF RequestAnswered, Propose, TypeOK, SearchInv
<1>9. CASE RequestRaises
  BY <1>0, <1>9 DEF RequestRaises, TypeOK, SearchInv, call
<1>10. CASE Dispatch
  <2>1. intent \in Proposals \cup {Unknown} /\ line \in Lines
    BY <1>0, <1>10 DEF Dispatch, AskInv, TypeOK
  <2>2. CASE Validate(intent, confirmed) \in {"rejected", "confirmation_required"}
    BY <1>0, <1>2, <1>10, <2>1, <2>2 DEF Dispatch, TypeOK
  <2>3. CASE Validate(intent, confirmed) \notin {"rejected", "confirmation_required"}
    <3>1. intent \in Proposals
      BY <2>1, <2>3 DEF Validate
    <3>2. intent.tool \in Tools
      BY <3>1 DEF Proposals
    <3>3. KnownAfter(intent) \subseteq Places
      BY <1>0 DEF KnownAfter, TypeOK
    <3> QED BY <1>2, <1>10, <2>1, <2>3, <3>2, <3>3 DEF Dispatch
  <2> QED BY <2>2, <2>3
<1>11. CASE EndpointChanges
  BY <1>0, <1>11 DEF EndpointChanges, TypeOK, SearchInv, call
<1>12. CASE ReadinessChanges
  BY <1>0, <1>12 DEF ReadinessChanges, TypeOK, SearchInv, call
<1>13. CASE UNCHANGED vars
  BY <1>0, <1>13 DEF vars, TypeOK, SearchInv, call
<1> QED
  BY <1>4, <1>5, <1>6, <1>7, <1>8, <1>9, <1>10, <1>11, <1>12, <1>13 DEF Next, Process

LEMMA InvHolds == Spec => []IInv
<1>1. Init => IInv
  <2> SUFFICES ASSUME Init PROVE IInv
    OBVIOUS
  <2>1. 1 \in DOMAIN Providers
    BY ChainEnds
  <2>2. confirmed \in BOOLEAN /\ ready \in BOOLEAN
    BY Zenon DEF Init
  <2>3. TypeOK
    BY <2>1, <2>2 DEF Init, TypeOK, Lines, Places
  <2>4. AskInv /\ SearchInv
    BY DEF Init, AskInv, SearchInv
  <2> QED BY <2>3, <2>4 DEF IInv
<1>2. IInv /\ [Next]_vars => IInv'
  BY TypeStep, AskStep DEF IInv
<1> QED BY <1>1, <1>2, PTL DEF Spec

(* What a session keeps has its type, and the search for a provider ends
   inside the chain: no request of the model that fails, and no provider that
   is not there, leads past the offline parser. *)
THEOREM TypeCorrect == Spec => []TypeOK
<1>1. IInv => TypeOK
  BY DEF IInv
<1> QED BY <1>1, InvHolds, PTL

-----------------------------------------------------------------------------
(* The steps left, by what process() is doing. *)
LEMMA StepsByPc ==
    ASSUME TypeOK
    PROVE  LET later == Len(Providers) - at IN
           /\ later \in Nat
           /\ pc = "chain" => StepsLeft = 2 * later + 3
           /\ pc = "generate" => StepsLeft = 2 * later + 2
           /\ pc = "dispatch" => StepsLeft = 1
           /\ pc \in {"prompt", "gone"} => StepsLeft = 0
<1>1. Len(Providers) \in Nat /\ at \in 1 .. Len(Providers)
  BY ChainEnds DEF TypeOK
<1>2. Len(Providers) - at \in Nat
  BY <1>1
<1> QED BY <1>2 DEF StepsLeft

LEMMA ProcessAdvances ==
    ASSUME IInv, Process, TypeOK'
    PROVE  StepsLeft' \in Nat /\ StepsLeft' < StepsLeft
<1> DEFINE later == Len(Providers) - at
           then  == Len(Providers) - at'
<1>0. TypeOK /\ SearchInv
  BY DEF IInv
<1>1. /\ later \in Nat
      /\ pc = "chain" => StepsLeft = 2 * later + 3
      /\ pc = "generate" => StepsLeft = 2 * later + 2
      /\ pc = "dispatch" => StepsLeft = 1
  BY <1>0, StepsByPc
<1>2. /\ then \in Nat
      /\ pc' = "chain" => StepsLeft' = 2 * then + 3
      /\ pc' = "generate" => StepsLeft' = 2 * then + 2
      /\ pc' = "dispatch" => StepsLeft' = 1
      /\ pc' \in {"prompt", "gone"} => StepsLeft' = 0
  <2>1. Len(Providers) \in Nat /\ at' \in 1 .. Len(Providers)
    BY ChainEnds DEF TypeOK
  <2>2. then \in Nat
    BY <2>1
  <2> QED BY <2>2 DEF StepsLeft
<1>3. Len(Providers) \in Nat /\ at \in 1 .. Len(Providers) /\ at' \in 1 .. Len(Providers)
  BY <1>0, ChainEnds DEF TypeOK
<1>4. (at' = at => then = later) /\ (at' = at + 1 => later = then + 1)
  BY <1>3
<1> HIDE DEF later, then
<1>5. CASE TryProvider
  <2>1. \/ pc = "chain" /\ pc' = "dispatch"
        \/ pc = "chain" /\ pc' = "generate" /\ at' = at
        \/ pc = "chain" /\ pc' = "chain" /\ at' = at + 1
    BY <1>5 DEF TryProvider, Propose
  <2> QED BY <1>1, <1>2, <1>4, <2>1
<1>6. CASE RequestFails
  <2>1. pc = "generate" /\ pc' = "chain" /\ at' = at + 1
    BY <1>6 DEF RequestFails
  <2> QED BY <1>1, <1>2, <1>4, <2>1
<1>7. CASE RequestAnswered \/ RequestRaises
  <2>1. pc = "generate" /\ pc' \in {"dispatch", "gone"}
    BY <1>7 DEF RequestAnswered, RequestRaises, Propose
  <2> QED BY <1>1, <1>2, <2>1
<1>8. CASE Dispatch
  <2>1. pc = "dispatch" /\ pc' = "prompt"
    BY <1>8 DEF Dispatch, Respond
  <2> QED BY <1>1, <1>2, <2>1
<1> QED BY <1>5, <1>6, <1>7, <1>8 DEF Process

(* Every step of process() brings the response to a line nearer, whichever
   providers are configured and however the model's endpoint comes and goes:
   after at most 2 * Len(Providers) + 1 steps the line is answered, or the
   session has died over the model's answer. *)
THEOREM LineIsBounded == Spec => LineAdvances
<1>1. IInv /\ IInv' /\ [Next]_vars =>
        [StepsLeft > 0 /\ ~UNCHANGED <<pc, call>>
            => StepsLeft' \in Nat /\ StepsLeft' < StepsLeft]_vars
  <2> SUFFICES ASSUME IInv, IInv', Next, StepsLeft > 0, ~UNCHANGED <<pc, call>>
               PROVE  StepsLeft' \in Nat /\ StepsLeft' < StepsLeft
    BY DEF vars
  <2>1. pc \notin {"prompt", "gone"}
    BY StepsByPc DEF IInv
  <2>2. Process
    BY <2>1 DEF Next, TypedLine, Utterance, EndpointChanges, ReadinessChanges
  <2> QED BY <2>2, ProcessAdvances DEF IInv
<1> QED BY <1>1, InvHolds, PTL DEF Spec, LineAdvances

-----------------------------------------------------------------------------
(* Emergency words that are spoken never reach the language service. *)
VoiceInv ==
    session = "voice" /\ pc \in {"chain", "generate", "dispatch"}
        => DetectEmergency(line) = NoIntent

LEMMA VoiceStep == VoiceInv /\ [Next]_vars => VoiceInv'
<1> USE DEF VoiceInv
<1> SUFFICES ASSUME VoiceInv, [Next]_vars PROVE VoiceInv'
  OBVIOUS
<1>1. ASSUME NEW l \in Lines, TypedLine(l) PROVE VoiceInv'
  BY <1>1 DEF TypedLine
<1>2. ASSUME NEW l \in Lines, Utterance(l) PROVE VoiceInv'
  BY <1>2 DEF Utterance, Respond, DetectEmergency
<1>3. CASE Process
  BY <1>3 DEF Process, TryProvider, Propose, RequestFails, RequestAnswered, RequestRaises,
              Dispatch, Respond, call, DetectEmergency
<1>4. CASE EndpointChanges \/ ReadinessChanges \/ UNCHANGED vars
  BY <1>4 DEF EndpointChanges, ReadinessChanges, vars, call, DetectEmergency
<1> QED BY <1>1, <1>2, <1>3, <1>4 DEF Next

(* A spoken emergency stop is answered by an emergency stop, whatever the
   language model does and whichever providers are configured. *)
THEOREM SpokenStopIsServed == Spec => SpokenStopNeedsNoModel
<1> DEFINE Stop == "emergency stop"
<1>1. Init => VoiceInv
  BY DEF Init, VoiceInv
<1>2. ASSUME VoiceInv, [Next]_vars, session = "voice", Answers(Stop)
      PROVE  ran' = "motion.emergency_stop"
  <2>1. DetectEmergency(Stop).tool = "motion.emergency_stop" /\ DetectEmergency(Stop) # NoIntent
    BY DEF DetectEmergency, Parse, IntentOf, NoIntent
  <2>2. CASE pc = "dispatch"
    BY <1>2, <2>1, <2>2 DEF VoiceInv, Answers, Next, Process, vars, call, TypedLine, Utterance,
       TryProvider, RequestFails, RequestAnswered, RequestRaises, Dispatch,
       EndpointChanges, ReadinessChanges
  <2>3. CASE line' # line
    <3>1. PICK l \in Lines : Utterance(l)
      BY <1>2, <2>3 DEF Next, Process, vars, call, TypedLine, TryProvider, RequestFails,
         RequestAnswered, RequestRaises, Dispatch, EndpointChanges, ReadinessChanges
    <3>2. l = Stop
      BY <1>2, <3>1 DEF Utterance, Answers
    <3>3. Respond(NoIntent, DetectEmergency(Stop).tool)
      BY <2>1, <3>1, <3>2 DEF Utterance
    <3> QED BY <2>1, <3>3 DEF Respond
  <2> QED BY <1>2, <2>2, <2>3 DEF Answers
<1>3. VoiceInv /\ [Next]_vars => (session = "voice" /\ Answers(Stop)
                                    => ran' = "motion.emergency_stop")
  BY <1>2
<1> QED BY <1>1, <1>3, VoiceStep, PTL DEF Spec, SpokenStopNeedsNoModel
=============================================================================
