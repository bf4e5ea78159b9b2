------------------------------ MODULE CommandGate ------------------------------
(***************************************************************************)
(* From a line of English to an action: the session (typed or voice) with  *)
(* its question waiting for an answer, the provider chain that turns the   *)
(* line into an intent, and the command broker that approves it, asks for  *)
(* confirmation or rejects it. The language model is outside: it is up or  *)
(* down from one call to the next and may answer with any intent at all.   *)
(*                                                                         *)
(* What an approved motion or e-stop does then is DroidBrain's subject.    *)
(***************************************************************************)
EXTENDS Naturals, Sequences

CONSTANTS
    Sessions, \* kinds of session: "typed" (droid interactive), "voice" (droid --voice)
    Rank,     \* rank of the user's role: 0 guest .. 3 owner
    Caps,     \* capabilities of the body
    Chain     \* configured providers in order: "http", "disabled" or "offline"

ASSUME SessionsAssumption == Sessions \subseteq {"typed", "voice"}
ASSUME RankAssumption == Rank \in 0 .. 3
ASSUME CapsAssumption == Caps \subseteq {"locomotion", "front_camera"}
ASSUME ChainAssumption == Chain \in Seq({"http", "disabled", "offline"})

(* ProviderChain: an offline provider is appended when none is configured. *)
Providers ==
    IF \E i \in 1 .. Len(Chain) : Chain[i] = "offline" THEN Chain
    ELSE Append(Chain, "offline")

Places == {"hall", "stairs", "charging station"}

(* One tool for each kind that the broker tells apart *)
Spec_(always, rank, motion, capability, confirmation) ==
    [always |-> always, rank |-> rank, motion |-> motion,
     capability |-> capability, confirmation |-> confirmation]

Tools ==
    {"robot.get_status", "perception.describe_scene", "motion.stop",
     "motion.emergency_stop", "navigation.navigate_to", "navigation.go_charge",
     "inspect.named_target", "memory.store_place", "memory.forget", "system.shutdown"}

ToolSpec ==
    [t \in Tools |->
        CASE t = "robot.get_status"          -> Spec_(FALSE, 0, FALSE, "none", "none")
          [] t = "perception.describe_scene" -> Spec_(FALSE, 0, FALSE, "front_camera", "none")
          [] t \in {"motion.stop", "motion.emergency_stop"}
                                             -> Spec_(TRUE, 0, FALSE, "none", "none")
          [] t \in {"navigation.navigate_to", "inspect.named_target"}
                                             -> Spec_(FALSE, 1, TRUE, "locomotion", "conditional")
          [] t = "navigation.go_charge"      -> Spec_(FALSE, 1, TRUE, "locomotion", "none")
          [] t = "memory.store_place"        -> Spec_(FALSE, 1, FALSE, "none", "conditional")
          [] t = "memory.forget"             -> Spec_(FALSE, 1, FALSE, "none", "required")
          [] t = "system.shutdown"           -> Spec_(FALSE, 3, FALSE, "none", "required")]

(* StructuredIntent. plain: cautious speed for a motion, nothing personal in
   the text of a memory; either makes a conditional confirmation needless. *)
IntentOf(t, d, p) == [tool |-> t, dest |-> d, plain |-> p]
Proposals == [tool : Tools, dest : Places \cup {"none"}, plain : BOOLEAN]
Unknown  == IntentOf("unknown", "none", TRUE)
NoIntent == IntentOf("none", "none", TRUE)

VARIABLES
    session,  \* which kind of session this is
    pc,       \* "prompt", then the call of process() step by step; "gone" when it raised
    line,     \* the line being handled
    at,       \* position in the provider chain
    intent,   \* the proposed intent
    confirmed,\* the argument of validate
    pending,  \* the typed session's question waiting for an answer
    llm,      \* whether the language model's endpoint answers
    ready,    \* the supervisor's readiness permits motion
    known,    \* places that resolve and are traversable
    asked,    \* history: what the last response asked to confirm
    ran       \* history: the tool the last response reports as run

call == <<line, at, intent, confirmed>>
vars == <<session, pc, call, pending, llm, ready, known, asked, ran>>

Lines == {"yes", "no", "stop", "emergency stop", "go to the hall",
          "go slowly to the hall", "forget the hall", "shut down", "mumble"}

TypeOK ==
    /\ session \in Sessions
    /\ pc \in {"prompt", "chain", "generate", "dispatch", "gone"}
    /\ line \in Lines /\ at \in DOMAIN Providers /\ confirmed \in BOOLEAN
    /\ {intent, pending, asked} \subseteq Proposals \cup {Unknown, NoIntent}
    /\ ran \in Tools \cup {"nothing"}
    /\ llm \in {"up", "down"} /\ ready \in BOOLEAN /\ known \subseteq Places

Init ==
    /\ session \in Sessions /\ pc = "prompt" /\ line = "mumble" /\ at = 1 /\ intent = NoIntent
    /\ confirmed = FALSE /\ pending = NoIntent
    /\ llm \in {"up", "down"} /\ ready \in BOOLEAN /\ known = Places
    /\ asked = NoIntent /\ ran = "nothing"

-----------------------------------------------------------------------------
(* offline_parser *)

IsAffirmative(l) == l = "yes"
IsNegative(l) == l \in {"no", "stop"}

Parse(l) ==
    CASE l = "stop"                  -> IntentOf("motion.stop", "none", TRUE)
      [] l = "emergency stop"        -> IntentOf("motion.emergency_stop", "none", TRUE)
      [] l = "go to the hall"        -> IntentOf("navigation.navigate_to", "hall", FALSE)
      [] l = "go slowly to the hall" -> IntentOf("navigation.navigate_to", "hall", TRUE)
      [] l = "forget the hall"       -> IntentOf("memory.forget", "hall", TRUE)
      [] l = "shut down"             -> IntentOf("system.shutdown", "none", TRUE)
      [] OTHER                       -> Unknown

-----------------------------------------------------------------------------
(* CommandBroker *)

CapabilityOk(t) == ToolSpec[t].capability \in Caps \cup {"none"}

Destination(i) ==
    IF i.tool = "navigation.go_charge" THEN "charging station" ELSE i.dest

DestinationOk(i) ==
    \/ Destination(i) \in known
    \/ Destination(i) = "none" /\ i.tool = "inspect.named_target"

(* A destination that does not resolve was rejected before. *)
NeedsConfirmation(i) ==
    \/ ToolSpec[i.tool].confirmation = "required"
    \/ /\ ToolSpec[i.tool].confirmation = "conditional"
       /\ ~i.plain \/ (ToolSpec[i.tool].motion /\ i.dest = "stairs")

Permitted(i) ==
    /\ Rank >= ToolSpec[i.tool].rank /\ CapabilityOk(i.tool)
    /\ ToolSpec[i.tool].motion => DestinationOk(i) /\ ready

(* Faulty: a confirmed intent was checked when it was asked about. *)
ValidateOnce(i, yes) ==
    CASE i = Unknown                      -> "rejected"
      [] i # Unknown /\ (ToolSpec[i.tool].always \/ yes) -> "approved"
      [] OTHER -> IF ~Permitted(i) THEN "rejected"
                  ELSE IF NeedsConfirmation(i) THEN "confirmation_required"
                  ELSE "approved"

Validate(i, yes) ==
    CASE i = Unknown                           -> "rejected"
      [] i # Unknown /\ ToolSpec[i.tool].always -> "approved"
      [] OTHER -> IF ~Permitted(i) THEN "rejected"
                  ELSE IF NeedsConfirmation(i) /\ ~yes THEN "confirmation_required"
                  ELSE "approved"

-----------------------------------------------------------------------------
(* The session *)

(* Faulty: a question stays open until the next one. *)
PendingAfterAll(question) ==
    IF session = "typed" /\ question = NoIntent THEN pending ELSE question

(* The loop of interactive() keeps the question of the last response only. *)
PendingAfter(question) == IF session = "typed" THEN question ELSE NoIntent

(* process() has returned a response and the loop is back at its prompt. *)
Respond(question, run) ==
    /\ pc' = "prompt" /\ asked' = question /\ ran' = run
    /\ at' = 1 /\ intent' = NoIntent /\ confirmed' = FALSE
    /\ pending' = PendingAfter(question)

StartChain ==
    /\ pc' = "chain" /\ at' = 1 /\ confirmed' = FALSE
    /\ UNCHANGED <<intent, pending, known, asked, ran>>

(* interactive(): an answer to the pending question, or a fresh command *)
TypedLine(l) ==
    /\ session = "typed" /\ pc = "prompt" /\ line' = l
    /\ \/ /\ pending # NoIntent /\ IsAffirmative(l)
          /\ intent' = pending /\ confirmed' = TRUE /\ pc' = "dispatch"
          /\ UNCHANGED <<at, pending, known, asked, ran>>
       \/ /\ pending # NoIntent /\ IsNegative(l)
          /\ Respond(NoIntent, "nothing") /\ known' = known
       \/ /\ pending = NoIntent \/ ~(IsAffirmative(l) \/ IsNegative(l))
          /\ StartChain
    /\ UNCHANGED <<session, llm, ready>>

(* Faulty: emergency words go through the language service like any other. *)
DetectNoEmergency(l) == NoIntent

(* Voice.detect_emergency, before the wake word and the language service *)
DetectEmergency(l) ==
    IF l \in {"stop", "emergency stop"} THEN Parse(l) ELSE NoIntent

(* handle_utterance: process() is called without a pending question *)
Utterance(l) ==
    /\ session = "voice" /\ pc = "prompt" /\ line' = l
    /\ IF DetectEmergency(l) # NoIntent
       THEN Respond(NoIntent, DetectEmergency(l).tool) /\ known' = known
       ELSE \/ Respond(NoIntent, "nothing") /\ known' = known
            \/ StartChain
    /\ UNCHANGED <<session, llm, ready>>

-----------------------------------------------------------------------------
(* ProviderChain.generate_structured_intent *)

Propose(i) == intent' = i /\ pc' = "dispatch" /\ at' = at

(* available(); the search ends at the offline provider at the latest *)
TryProvider ==
    /\ pc = "chain"
    /\ \/ Providers[at] = "offline" /\ Propose(Parse(line))
       \/ /\ Providers[at] = "http" /\ llm = "up"
          /\ pc' = "generate" /\ UNCHANGED <<at, intent>>
       \/ /\ Providers[at] = "disabled" \/ (Providers[at] = "http" /\ llm = "down")
          /\ at' = at + 1 /\ UNCHANGED <<pc, intent>>
    /\ UNCHANGED <<session, line, confirmed, pending, llm, ready, known, asked, ran>>

(* Faulty: the same provider is asked again. *)
RequestRetried ==
    /\ pc = "generate" /\ llm = "down"
    /\ pc' = "chain"
    /\ UNCHANGED <<session, call, pending, llm, ready, known, asked, ran>>

(* The request may fail although the endpoint was there a moment ago. *)
RequestFails ==
    /\ pc = "generate" /\ llm = "down"
    /\ pc' = "chain" /\ at' = at + 1
    /\ UNCHANGED <<session, line, intent, confirmed, pending, llm, ready, known, asked, ran>>

(* _parse_intent: an intent of the catalog, or the offline parser's *)
RequestAnswered ==
    /\ pc = "generate" /\ llm = "up"
    /\ \E i \in Proposals \cup {Parse(line)} : Propose(i)
    /\ UNCHANGED <<session, line, confirmed, pending, llm, ready, known, asked, ran>>

(* float(obj.get("confidence")) of something else: no ProviderError, so
   nothing catches it before the end of the session *)
RequestRaises ==
    /\ pc = "generate" /\ llm = "up" /\ pc' = "gone"
    /\ UNCHANGED <<session, call, pending, llm, ready, known, asked, ran>>

-----------------------------------------------------------------------------
(* LanguageService._dispatch *)

(* what Executive.run_intent does to the places *)
KnownAfter(i) ==
    CASE i.tool = "memory.forget"      -> known \ {i.dest}
      [] i.tool = "memory.store_place" -> known \cup ({i.dest} \cap Places)
      [] OTHER                         -> known

Dispatch ==
    /\ pc = "dispatch"
    /\ CASE Validate(intent, confirmed) = "rejected" -> Respond(NoIntent, "nothing") /\ known' = known
         [] Validate(intent, confirmed) = "confirmation_required"
                                                     -> Respond(intent, "nothing") /\ known' = known
         [] OTHER -> Respond(NoIntent, intent.tool) /\ known' = KnownAfter(intent)
    /\ UNCHANGED <<session, line, llm, ready>>

-----------------------------------------------------------------------------
(* The world *)

EndpointChanges ==
    /\ llm' \in {"up", "down"} \ {llm}
    /\ UNCHANGED <<session, pc, call, pending, ready, known, asked, ran>>

ReadinessChanges ==
    /\ ready' = ~ready
    /\ UNCHANGED <<session, pc, call, pending, llm, known, asked, ran>>

Process == TryProvider \/ RequestFails \/ RequestAnswered \/ RequestRaises \/ Dispatch

Next ==
    \/ \E l \in Lines : TypedLine(l) \/ Utterance(l)
    \/ Process \/ EndpointChanges \/ ReadinessChanges

(* A call of process() runs to its end: every request has a timeout. *)
Spec == Init /\ [][Next]_vars /\ WF_vars(Process)

-----------------------------------------------------------------------------
(* What must hold *)

(* The step in which the intent is approved and run *)
Runs == pc = "dispatch" /\ pc' = "prompt" /\ ran' # "nothing"

(* The step that ends the handling of a line *)
Answers(l) == line' = l /\ pc' = "prompt" /\ (pc = "dispatch" \/ line' # line)

(* An intent that needs confirmation runs only when the answer is yes and
   the response just before that answer asked about this very intent: not an
   earlier question, nor one with other arguments. *)
ConfirmedWasAsked ==
    [][Runs /\ NeedsConfirmation(intent)
         => asked = intent /\ IsAffirmative(line)]_vars

(* Why, as an inductive invariant: the question that waits is the one just
   asked, an intent goes to the broker as confirmed only from there, and what
   the broker sees or asks about is a tool of the catalog, or unknown. *)
AskInv ==
    /\ pending # NoIntent => pending = asked
    /\ confirmed => pc = "dispatch" /\ intent = asked /\ IsAffirmative(line)
    /\ asked \in Proposals \cup {NoIntent}
    /\ pc = "dispatch" => intent \in Proposals \cup {Unknown}

(* Whatever a motion was confirmed for, it runs only if the user's rank, the
   body, the destination and the readiness allow it at that moment: the
   droid may have lost its readiness, or forgotten the place, since it asked. *)
RunsArePermitted ==
    [][Runs => ToolSpec[intent.tool].always \/ Permitted(intent)]_vars

(* Every line gets its response, however the language model comes and goes,
   unless the session dies over the model's answer. *)
LineIsAnswered == pc # "prompt" ~> pc \in {"prompt", "gone"}

(* How many steps of process() are left at most: two for every provider that
   may yet be tried, and the dispatch. *)
StepsLeft ==
    LET later == Len(Providers) - at IN
    CASE pc = "chain"    -> 2 * later + 3
      [] pc = "generate" -> 2 * later + 2
      [] pc = "dispatch" -> 1
      [] OTHER           -> 0

(* Every step of process() brings the response nearer: a provider that fails,
   before or after it is asked, is not asked again for this line, however
   often the endpoint comes and goes meanwhile. *)
LineAdvances ==
    [][StepsLeft > 0 /\ ~UNCHANGED <<pc, call>>
         => StepsLeft' \in Nat /\ StepsLeft' < StepsLeft]_vars

(* "Emergency words work at any time and bypass the LLM": whatever the model
   does and whatever the session is about, a spoken emergency stop is answered
   by an emergency stop. (A typed one goes to the model first.) *)
SpokenStopNeedsNoModel ==
    [][session = "voice" /\ Answers("emergency stop")
         => ran' = "motion.emergency_stop"]_vars
=============================================================================
