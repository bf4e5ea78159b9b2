------------------------------ MODULE UpdateSlots ------------------------------
(***************************************************************************)
(* The A/B update service (services/update.py): what each process believes *)
(* about the two system slots, and the file update.json they all load and  *)
(* rewrite, and from which the boot loader takes the slot to start.        *)
(*                                                                         *)
(* A process loads the file once, when its update service is configured;   *)
(* afterwards every operation works on its own copy and saves all of it.   *)
(***************************************************************************)
EXTENDS Naturals

CONSTANTS
    Procs,       \* DroidOS processes that share the state directory
    Versions,    \* versions a slot may hold
    Base,        \* __version__
    SaveFaults   \* what may go wrong while update.json is written

NoVersion == "none"

ASSUME VersionsAssumption == Base \in Versions /\ NoVersion \notin Versions
ASSUME SlotSaveFaultsAssumption == SaveFaults \subseteq {"open", "write", "crash"}

VARIABLES
    pc,        \* where each process is
    uinfo,     \* Update.uinfo of each process; the default while it is off
    intact,    \* update.json is there and can be parsed
    saved,     \* the uinfo in it; the default while it is not intact
    astray,    \* history: in the past of a process's copy a failed boot check
               \* was reported while no new slot was on trial
    fileAstray \* history: the same for update.json

vars == <<pc, uinfo, intact, saved, astray, fileAstray>>

Slots == {"A", "B"}

SlotInfo == [active_slot : Slots, next_boot : Slots, running_version : Versions,
             version : [Slots -> Versions \cup {NoVersion}],
             healthy : [Slots -> BOOLEAN]]

Other(s) == IF s = "A" THEN "B" ELSE "A"

DefaultState ==
    [active_slot |-> "A", next_boot |-> "A", running_version |-> Base,
     version |-> [s \in Slots |-> IF s = "A" THEN Base ELSE NoVersion],
     healthy |-> [s \in Slots |-> s = "A"]]

TypeOK ==
    /\ pc \in [Procs -> {"off", "idle", "open", "write"}]
    /\ uinfo \in [Procs -> SlotInfo]
    /\ intact \in BOOLEAN /\ saved \in SlotInfo
    /\ astray \in [Procs -> BOOLEAN] /\ fileAstray \in BOOLEAN

Init ==
    /\ pc = [p \in Procs |-> "off"] /\ uinfo = [p \in Procs |-> DefaultState]
    /\ intact = FALSE /\ saved = DefaultState
    /\ astray = [p \in Procs |-> FALSE] /\ fileAstray = FALSE

-----------------------------------------------------------------------------
(* _load: an unreadable file is replaced by the default *)
Loaded == IF intact THEN saved ELSE DefaultState

Start(p) ==
    /\ pc[p] = "off"
    /\ pc' = [pc EXCEPT ![p] = "idle"] /\ uinfo' = [uinfo EXCEPT ![p] = Loaded]
    /\ astray' = [astray EXCEPT ![p] = fileAstray]
    /\ UNCHANGED <<intact, saved, fileAstray>>

(* An operation replaces the process's copy and goes on to save it. *)
Change(p, u) ==
    /\ pc[p] = "idle"
    /\ pc' = [pc EXCEPT ![p] = "open"] /\ uinfo' = [uinfo EXCEPT ![p] = u]
    /\ UNCHANGED <<intact, saved, fileAstray>>

(* _inactive *)
Inactive(u) == Other(u.active_slot)

(* verify_bundle turns the bundle down: unreadable, malformed, incompatible,
   wrong checksum or unsigned. Only last_result changes, but the whole copy
   is saved. *)
InstallRejected(p) ==
    Change(p, uinfo[p]) /\ UNCHANGED astray

Installed(u, v) ==
    [u EXCEPT !.version[Inactive(u)] = v, !.healthy[Inactive(u)] = FALSE,
              !.next_boot = Inactive(u)]

Install(p, v) == Change(p, Installed(uinfo[p], v)) /\ UNCHANGED astray

(* confirm_boot_health takes next_boot for the slot that was started, and
   does not ask whether it was, nor whether it has been judged before. *)
Confirmed(u) ==
    [u EXCEPT !.active_slot = u.next_boot, !.healthy[u.next_boot] = TRUE,
              !.running_version =
                  IF u.version[u.next_boot] = NoVersion THEN Base
                  ELSE u.version[u.next_boot]]

ConfirmHealthy(p) ==
    Change(p, Confirmed(uinfo[p])) /\ UNCHANGED astray

RolledBack(u) ==
    [u EXCEPT !.next_boot = Other(u.next_boot), !.active_slot = Other(u.next_boot)]

(* A new slot is the next to start and not yet the active one. *)
OnTrial(u) == u.next_boot # u.active_slot

ConfirmFailed(p) ==
    /\ Change(p, RolledBack(uinfo[p]))
    /\ astray' = [astray EXCEPT ![p] = @ \/ ~OnTrial(uinfo[p])]

(* Faulty: an empty slot will do. *)
CanRollBackAnyway(u) == TRUE

CanRollBack(u) == u.version[Inactive(u)] # NoVersion

Rollback(p) ==
    /\ CanRollBack(uinfo[p])
    /\ Change(p, [uinfo[p] EXCEPT !.active_slot = Inactive(uinfo[p]),
                                  !.next_boot = Inactive(uinfo[p]),
                                  !.running_version = uinfo[p].version[Inactive(uinfo[p])]])
    /\ UNCHANGED astray

Tear == intact' = FALSE /\ saved' = DefaultState /\ fileAstray' = FALSE

(* _save: write_text truncates, then writes; an OSError is swallowed. *)
SaveOpen(p) ==
    /\ pc[p] = "open"
    /\ \/ Tear /\ pc' = [pc EXCEPT ![p] = "write"]
       \/ /\ "open" \in SaveFaults /\ UNCHANGED <<intact, saved, fileAstray>>
          /\ pc' = [pc EXCEPT ![p] = "idle"]
    /\ UNCHANGED <<uinfo, astray>>

(* A file that is intact here was written by another process since this one
   opened it: the longer of the two texts shows behind the other. *)
SaveWrite(p) ==
    /\ pc[p] = "write"
    /\ \/ intact' = TRUE /\ saved' = uinfo[p] /\ fileAstray' = astray[p]
       \/ intact /\ Tear
       \/ "write" \in SaveFaults /\ UNCHANGED <<intact, saved, fileAstray>>
    /\ pc' = [pc EXCEPT ![p] = "idle"]
    /\ UNCHANGED <<uinfo, astray>>

-----------------------------------------------------------------------------
(* A process ends, as all of them do in a reboot. One that is cut short
   while it saves is a "crash". *)

MayStop(p) == pc[p] \in {"open", "write"} => "crash" \in SaveFaults

ProcessEnds(p) ==
    /\ pc[p] # "off" /\ MayStop(p)
    /\ pc' = [pc EXCEPT ![p] = "off"] /\ uinfo' = [uinfo EXCEPT ![p] = DefaultState]
    /\ astray' = [astray EXCEPT ![p] = FALSE]
    /\ UNCHANGED <<intact, saved, fileAstray>>

-----------------------------------------------------------------------------
Step(p) ==
    \/ Start(p) \/ InstallRejected(p) \/ (\E v \in Versions : Install(p, v))
    \/ ConfirmHealthy(p) \/ ConfirmFailed(p) \/ Rollback(p)
    \/ SaveOpen(p) \/ SaveWrite(p) \/ ProcessEnds(p)

Next == \E p \in Procs : Step(p)

Spec == Init /\ [][Next]_vars

-----------------------------------------------------------------------------
(* What must hold *)

(* A copy is sound: its next boot and its active slot hold an image, the
   version it reports is the one of the active slot, and a slot on trial is
   not marked healthy ("Mark B successful only after those checks pass"). *)
Sound(u) ==
    /\ u.version[u.next_boot] # NoVersion /\ u.version[u.active_slot] # NoVersion
    /\ u.running_version = u.version[u.active_slot]
    /\ OnTrial(u) => ~u.healthy[u.next_boot]

(* Whatever processes did to the file, in whatever order and from however old
   a copy, and whatever went wrong while they wrote it, a readable file never
   sends the boot loader to an empty slot, never reports the version of the
   other slot, and never calls a slot healthy that is still to be tried. The
   one condition is what confirm_boot_health asks of its caller ("Run after
   booting the new slot"): no failure is reported in the past of what the
   file holds while no new slot is on trial. *)
FileIsSound == intact /\ ~fileAstray => Sound(saved)

(* Why: every copy a process works on is sound under the same condition. *)
CopiesAreSound == \A p \in Procs : astray[p] \/ Sound(uinfo[p])
=============================================================================
