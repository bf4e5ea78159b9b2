----------------------------- MODULE RockyPipeline -----------------------------
(***************************************************************************)
(* Rocky, the typed control layer (rocky/): "The LLM proposes. The policy  *)
(* decides. The executor acts. The audit log remembers."                   *)
(*                                                                         *)
(* Every call of rockyctl is a process of its own, and all of them share   *)
(* one SQLite database. Each access is a transaction; it fails when its    *)
(* table is missing, the database is locked or the disk is full, and the   *)
(* exception ends the call, just as a crash does (Dies). The commands that *)
(* only print (search, tail, list) are left out.                           *)
(***************************************************************************)
EXTENDS Naturals

CONSTANTS
    Invocations,  \* bound: the calls of rockyctl in the life of the database
    Actions,      \* typed actions that may be proposed
    CapSets       \* capabilities that capabilities.yaml may have enabled

Kinds == {"debian.command", "file.read", "file.write", "file.delete",
          "memory.write", "memory.search", "notify", "speak"}
Risks == {"read_only", "write", "network", "private", "destructive",
          "privileged", "forbidden"}

(* tool_registry.yaml and _PRIVILEGED_COMMANDS, one command for each
   combination that decide() tells apart *)
Commands           == {"none", "ls", "rm", "sudo", "mount", "git"}
ReadOnlyCommands   == {"ls", "mount"}
DangerousCommands  == {"rm", "sudo", "mount"}
PrivilegedCommands == {"sudo", "mount"}

(* pattern: some forbidden pattern occurs in the command or the content.
   form: "invalid" fails validate_action; "odd" passes it and makes decide()
   raise, for instance with args that are no list. *)
Action == [kind : Kinds, risk : Risks, command : Commands, pattern : BOOLEAN,
           form : {"valid", "invalid", "odd"}]

Capabilities == {"shell_read", "shell_write", "file_read", "file_write",
                 "file_delete", "memory_read", "memory_write", "network", "privileged"}

ASSUME ActionsAssumption == Actions \subseteq Action
ASSUME CapSetsAssumption == CapSets \subseteq SUBSET Capabilities

VARIABLES
    pc,        \* where each call is
    act,       \* the action it handles
    yes,       \* --yes was given
    decision,  \* the policy's decision
    row,       \* status of its row in actions; "none" without a row
    call,      \* outcome in its row in tool_calls; "none" without a row
    logged,    \* event types of its rows in audit_log
    items,     \* calls that added a row to memory_items
    tables,    \* how many tables of memory_schema.sql exist
    enabled,   \* capabilities enabled in capabilities.yaml
    ran        \* history: what became of running the action

order == <<act, yes, decision>>
db    == <<row, call, logged, items, tables>>
vars == <<pc, order, db, enabled, ran>>

Tables == <<"memory_items", "actions", "tool_calls", "audit_log">>
Exists(t) == \E i \in 1 .. tables : Tables[i] = t

Working == {"init", "log_init", "add", "log_add", "ask", "llm", "handle", "log_reject",
            "record", "refuse", "execute", "running", "call", "status", "log"}
Events == {"init", "ask", "memory_add", "schema_reject", "decision", "execute"}

TypeOK ==
    /\ pc \in [Invocations -> Working \cup {"new", "ended"}]
    /\ act \in [Invocations -> Action] /\ yes \in [Invocations -> BOOLEAN]
    /\ decision \in [Invocations -> {"none", "allow", "ask_user", "deny"}]
    /\ row \in [Invocations -> {"none", "proposed", "denied", "awaiting_confirmation",
                                "succeeded", "failed"}]
    /\ call \in [Invocations -> {"none", "ok", "failed"}]
    /\ logged \in [Invocations -> SUBSET Events]
    /\ items \subseteq Invocations /\ tables \in 0 .. 4 /\ enabled \subseteq Capabilities
    /\ ran \in [Invocations -> {"no", "begun", "ok", "failed"}]

NoAction == [kind |-> "notify", risk |-> "read_only", command |-> "none",
             pattern |-> FALSE, form |-> "invalid"]

Init ==
    /\ pc = [p \in Invocations |-> "new"] /\ act = [p \in Invocations |-> NoAction]
    /\ yes = [p \in Invocations |-> FALSE]
    /\ decision = [p \in Invocations |-> "none"] /\ row = [p \in Invocations |-> "none"]
    /\ call = [p \in Invocations |-> "none"] /\ logged = [p \in Invocations |-> {}]
    /\ items = {} /\ tables = 0 /\ enabled \in CapSets
    /\ ran = [p \in Invocations |-> "no"]

-----------------------------------------------------------------------------
(* policy.py *)

RequiredCapability(a) ==
    CASE a.kind = "debian.command" ->
            IF a.command \in PrivilegedCommands \/ a.risk = "privileged" THEN "privileged"
            ELSE IF a.risk = "network" THEN "network"
            ELSE IF a.risk = "read_only" /\ a.command \in ReadOnlyCommands THEN "shell_read"
            ELSE "shell_write"
      [] a.kind # "debian.command" /\ a.risk = "network" -> "network"
      [] OTHER -> CASE a.kind = "file.read"     -> "file_read"
                    [] a.kind = "file.write"    -> "file_write"
                    [] a.kind = "file.delete"   -> "file_delete"
                    [] a.kind = "memory.write"  -> "memory_write"
                    [] a.kind = "memory.search" -> "memory_read"
                    [] OTHER                    -> "none"

Denied(a) ==
    \/ a.risk = "forbidden" \/ a.pattern
    \/ RequiredCapability(a) \notin enabled \cup {"none"}
    \/ a.kind = "debian.command" /\ a.command = "none"

(* The risk is the label that came with the action; only commands are held
   against a list. *)
RunsUnasked(a) ==
    /\ a.risk = "read_only"
    /\ a.kind = "debian.command" => a.command \in ReadOnlyCommands \ DangerousCommands

Decide(a) ==
    IF Denied(a) THEN "deny" ELSE IF RunsUnasked(a) THEN "allow" ELSE "ask_user"

-----------------------------------------------------------------------------
(* rockyctl *)

Goto(p, where) == pc' = [pc EXCEPT ![p] = where]

(* rockyctl init: executescript creates one table after the other, and a
   repeated call those that are missing *)
CmdInit(p) ==
    /\ pc[p] = "new" /\ Goto(p, "init") /\ UNCHANGED <<order, db, enabled, ran>>

TablesAfter == IF tables < 4 THEN tables + 1 ELSE tables

CreateTable(p) ==
    /\ pc[p] = "init" /\ tables' = TablesAfter
    /\ Goto(p, IF tables' >= 4 THEN "log_init" ELSE "init")
    /\ UNCHANGED <<order, row, call, logged, items, enabled, ran>>

(* rockyctl memory add: the item, then the line in the audit log *)
CmdMemoryAdd(p) ==
    /\ pc[p] = "new" /\ Goto(p, "add") /\ UNCHANGED <<order, db, enabled, ran>>

AddItem(p) ==
    /\ pc[p] = "add" /\ Exists("memory_items")
    /\ items' = items \cup {p} /\ Goto(p, "log_add")
    /\ UNCHANGED <<order, row, call, logged, tables, enabled, ran>>

(* audit.log *)
Log(p, event) ==
    /\ Exists("audit_log") /\ logged' = [logged EXCEPT ![p] = @ \cup {event}]
    /\ UNCHANGED <<order, row, call, items, tables, enabled, ran>>

(* the last line of init, of memory add and of a rejected action *)
LogOnly(p) ==
    /\ \/ pc[p] = "log_init" /\ Log(p, "init")
       \/ pc[p] = "log_add" /\ Log(p, "memory_add")
       \/ pc[p] = "log_reject" /\ Log(p, "schema_reject")
    /\ Goto(p, "ended")

CmdPropose(p, a, y) ==
    /\ pc[p] = "new" /\ Goto(p, "handle")
    /\ act' = [act EXCEPT ![p] = a] /\ yes' = [yes EXCEPT ![p] = y]
    /\ UNCHANGED <<decision, db, enabled, ran>>

(* rockyctl ask, unless resolve_llm finds no model *)
CmdAsk(p, y) ==
    /\ pc[p] = "new" /\ yes' = [yes EXCEPT ![p] = y]
    /\ Goto(p, "ask") \/ Goto(p, "ended")
    /\ UNCHANGED <<act, decision, db, enabled, ran>>

LogAsk(p) == pc[p] = "ask" /\ Log(p, "ask") /\ Goto(p, "llm")

(* The reply is an action; or a plain answer, or there is none. *)
ModelReplies(p) ==
    /\ pc[p] = "llm"
    /\ \/ \E a \in Actions : act' = [act EXCEPT ![p] = a] /\ Goto(p, "handle")
       \/ act' = act /\ Goto(p, "ended")
    /\ UNCHANGED <<yes, decision, db, enabled, ran>>

-----------------------------------------------------------------------------
(* handle_action *)

ValidateAndDecide(p) ==
    /\ pc[p] = "handle"
    /\ \/ act[p].form = "invalid" /\ Goto(p, "log_reject") /\ UNCHANGED decision
       \/ act[p].form = "odd" /\ Goto(p, "ended") /\ UNCHANGED decision
       \/ /\ act[p].form = "valid" /\ Goto(p, "record")
          /\ decision' = [decision EXCEPT ![p] = Decide(act[p])]
    /\ UNCHANGED <<act, yes, db, enabled, ran>>

(* allow, or ask_user confirmed with --yes *)
Approved(p) == decision[p] = "allow" \/ (decision[p] = "ask_user" /\ yes[p])

(* Faulty: a database error is passed over here. *)
RecordActionIfPossible(p) ==
    /\ pc[p] = "record"
    /\ \/ Exists("actions") /\ row' = [row EXCEPT ![p] = "proposed"]
       \/ row' = row
    /\ Goto(p, IF Approved(p) THEN "execute" ELSE "refuse")
    /\ UNCHANGED <<order, call, logged, items, tables, enabled, ran>>

RecordAction(p) ==
    /\ pc[p] = "record" /\ Exists("actions")
    /\ row' = [row EXCEPT ![p] = "proposed"]
    /\ Goto(p, IF Approved(p) THEN "execute" ELSE "refuse")
    /\ UNCHANGED <<order, call, logged, items, tables, enabled, ran>>

Refuse(p) ==
    /\ pc[p] = "refuse" /\ Goto(p, "log")
    /\ row' = [row EXCEPT ![p] =
                   IF decision[p] = "deny" THEN "denied" ELSE "awaiting_confirmation"]
    /\ UNCHANGED <<order, call, logged, items, tables, enabled, ran>>

(* executor.run begins the handler of the kind, which takes its time ... *)
Execute(p) ==
    /\ pc[p] = "execute" /\ Goto(p, "running") /\ ran' = [ran EXCEPT ![p] = "begun"]
    /\ UNCHANGED <<order, db, enabled>>

(* ... and ends well, or fails, is not found, times out or raises. Whatever
   kind it is, run() returns a result. *)
HandlerReturns(p) ==
    /\ pc[p] = "running" /\ Goto(p, "call")
    /\ \/ /\ ran' = [ran EXCEPT ![p] = "ok"]
          /\ act[p].kind \in {"memory.write", "memory.search"} => Exists("memory_items")
          /\ items' = IF act[p].kind = "memory.write" THEN items \cup {p} ELSE items
       \/ ran' = [ran EXCEPT ![p] = "failed"] /\ items' = items
    /\ UNCHANGED <<order, row, call, logged, tables, enabled>>

(* Faulty: a database error is passed over here. *)
RecordToolCallIfPossible(p) ==
    /\ pc[p] = "call" /\ Goto(p, "status")
    /\ \/ Exists("tool_calls") /\ call' = [call EXCEPT ![p] = ran[p]]
       \/ call' = call
    /\ UNCHANGED <<order, row, logged, items, tables, enabled, ran>>

(* The foreign key needs the row in actions. *)
RecordToolCall(p) ==
    /\ pc[p] = "call" /\ Exists("tool_calls") /\ row[p] # "none"
    /\ call' = [call EXCEPT ![p] = ran[p]] /\ Goto(p, "status")
    /\ UNCHANGED <<order, row, logged, items, tables, enabled, ran>>

UpdateStatus(p) ==
    /\ pc[p] = "status" /\ Goto(p, "log")
    /\ row' = [row EXCEPT ![p] = IF ran[p] = "ok" THEN "succeeded" ELSE "failed"]
    /\ UNCHANGED <<order, call, logged, items, tables, enabled, ran>>

LogOutcome(p) ==
    /\ pc[p] = "log" /\ Goto(p, "ended")
    /\ Log(p, IF row[p] \in {"succeeded", "failed"} THEN "execute" ELSE "decision")

-----------------------------------------------------------------------------
(* The call is killed, or the database raises. *)
Dies(p) ==
    /\ pc[p] \in Working /\ Goto(p, "ended") /\ UNCHANGED <<order, db, enabled, ran>>

(* The owner edits capabilities.yaml. *)
EditCapabilities ==
    /\ enabled' \in CapSets /\ enabled' # enabled
    /\ UNCHANGED <<pc, order, db, ran>>

Step(p) ==
    \/ CmdInit(p) \/ CreateTable(p) \/ CmdMemoryAdd(p) \/ AddItem(p) \/ LogOnly(p)
    \/ (\E a \in Actions, y \in BOOLEAN : CmdPropose(p, a, y))
    \/ (\E y \in BOOLEAN : CmdAsk(p, y)) \/ LogAsk(p) \/ ModelReplies(p)
    \/ ValidateAndDecide(p) \/ RecordAction(p) \/ Refuse(p) \/ Execute(p)
    \/ HandlerReturns(p) \/ RecordToolCall(p) \/ UpdateStatus(p) \/ LogOutcome(p)
    \/ Dies(p)

Next == (\E p \in Invocations : Step(p)) \/ EditCapabilities

Spec == Init /\ [][Next]_vars

-----------------------------------------------------------------------------
(* What must hold *)

(* "The policy decides. The executor acts. The audit log remembers": whatever
   fails or dies on the way, and in whatever state the database is, an action
   was begun only after its row was in actions, and only if the policy allowed
   it or the user confirmed it. *)
NothingRunsUnrecorded ==
    \A p \in Invocations : ran[p] # "no" => row[p] # "none" /\ Approved(p)

(* The database may know less than what happened, never something else: a
   status says what became of the action and has the row in tool_calls behind
   it, a refused action was not begun, a stored memory is there, and the audit
   log speaks of an execution only once its status is final. *)
TrailIsTruthful ==
    \A p \in Invocations :
        /\ row[p] = "succeeded" => /\ ran[p] = "ok" /\ call[p] = "ok"
                                   /\ act[p].kind = "memory.write" => p \in items
        /\ row[p] = "failed" => ran[p] = "failed" /\ call[p] = "failed"
        /\ row[p] \in {"denied", "awaiting_confirmation"} => ran[p] = "no"
        /\ "execute" \in logged[p] => row[p] \in {"succeeded", "failed"}

(* Why, as an inductive invariant: how far a call has come tells what is in
   its rows. *)
CallInv(p) ==
    /\ ran[p] = "no" => call[p] = "none"
    /\ pc[p] \in {"new", "ask", "llm", "handle", "record"} => row[p] = "none"
    /\ pc[p] \in {"new", "ask", "llm", "handle"} => decision[p] = "none"
    /\ pc[p] \in {"init", "log_init", "add", "log_add", "log_reject"} => row[p] = "none"
    /\ pc[p] \in {"refuse", "execute", "running", "call", "status"} => row[p] = "proposed"
    /\ pc[p] \in {"refuse", "execute"} => ran[p] = "no"
    /\ pc[p] \in {"execute", "running", "call", "status"} => Approved(p)
    /\ pc[p] \in {"call", "status"} => ran[p] \in {"ok", "failed"}
    /\ pc[p] \in {"call", "status"} /\ ran[p] = "ok" /\ act[p].kind = "memory.write" => p \in items
    /\ pc[p] = "status" => call[p] = ran[p]
    /\ pc[p] = "log" => row[p] \notin {"none", "proposed"}

PipelineInv ==
    NothingRunsUnrecorded /\ TrailIsTruthful /\ \A p \in Invocations : CallInv(p)
=============================================================================
