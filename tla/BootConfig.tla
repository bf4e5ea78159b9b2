------------------------------ MODULE BootConfig ------------------------------
(***************************************************************************)
(* What a DroidOS process finds out before it boots (DroidSystem.boot):    *)
(* its configuration (core/config.py), the selected body package           *)
(* (body/loader.py, body/manifest.py), the backend that is built for it    *)
(* (backends/__init__.py) and the gait policy (gait/policy.py); and how    *)
(* set_active changes the selection, a YAML file that is rewritten in      *)
(* place (util/miniyaml.py).                                               *)
(*                                                                         *)
(* Configuration and packages are installed and do not change; processes   *)
(* share the selection body.yaml in the state directory.                   *)
(***************************************************************************)
EXTENDS YamlValues

CONSTANTS
    Procs,       \* processes that share the state directory
    Bodies,      \* names of body packages
    Shipped,     \* the selection in config/body.yaml
    MaxSets,     \* how often the selection is changed
    Setups,      \* droidos.yaml and the packages that may be installed
    Kinds,       \* texts that may be read as a backend, also from a cut file
    YamlLoad(_), \* miniyaml.load_file of a text
    YamlDump(_), \* miniyaml.dump of a document
    ConfigOf(_)  \* Config.load with a given droidos.yaml

Backends == {"simulation", "physical"}

ASSUME MaxSetsAssumption == MaxSets \in Nat
ASSUME ShippedAssumption == Shipped.body_id \in Bodies /\ Shipped.backend \in Backends

VARIABLES
    conf,      \* droidos.yaml: the document its author means, and its text
    pkgs,      \* the installed packages
    select,    \* the lines of the state directory's body.yaml; none if missing
    pc,        \* what each process does
    sets,      \* calls of set_active so far
    new,       \* the selection a process is writing
    body,      \* Runtime.body of a process, and what hangs on it
    wanted,    \* history: the selection of the last set_active that returned;
               \* not followed further once torn
    torn,      \* history: a write of body.yaml failed, or two overlapped
    asked      \* history: the physical backend was selected at some time

vars == <<conf, pkgs, select, pc, sets, new, body, wanted, torn, asked>>

-----------------------------------------------------------------------------
(* Configuration *)

(* Config.data, for each droidos.yaml there may be *)
Loaded == [c \in {s.conf : s \in Setups} |-> ConfigOf(c)]

-----------------------------------------------------------------------------
(* The selection: its engine and profile keys decide nothing here. *)

Selection(b, k) ==
    Map(<<[key |-> "body_id", val |-> Str(b)], [key |-> "backend", val |-> Str(k)]>>)

DefaultSelection == Selection(Shipped.body_id, "simulation")

ShippedSelection == Selection(Shipped.body_id, Shipped.backend)

(* What a text selects: the defaults with its entries, if it is a mapping
   that names a body. *)
Selects(doc) == doc.kind = "map" /\ "body_id" \in Keys(doc) /\ Lookup(doc, "body_id") # None

MergedSelection(doc) ==
    Selection(Lookup(doc, "body_id").text,
              IF "backend" \in Keys(doc) THEN Lookup(doc, "backend").text
              ELSE Lookup(DefaultSelection, "backend").text)

(* BodyManager.selection: the state's file, else the shipped one; a text
   that is not YAML raises. *)
SelectionIn(text) ==
    LET doc == YamlLoad(text) IN
    IF doc = Bad THEN Bad
    ELSE IF Selects(doc) THEN MergedSelection(doc) ELSE ShippedSelection

CurrentSelection == SelectionIn(select)

BodyOf(sel)    == Lookup(sel, "body_id").text
BackendOf(sel) == Lookup(sel, "backend").text

(* Text that ends before the colon of its line. *)
CutLine == Line(0, FALSE, NoKey, Plain("cut"))

(* What may be left of a text: its first lines, and then perhaps a line that
   ends before the colon or in the value. *)
Cuts(text) ==
    UNION {{SubSeq(text, 1, k - 1), Append(SubSeq(text, 1, k - 1), CutLine)}
           \cup {Append(SubSeq(text, 1, k - 1), [text[k] EXCEPT !.rest = t]) :
                    t \in {Nothing, Plain("cut"), text[k].rest}} : k \in 1 .. Len(text)}

(* What the file may hold of a selection that was not simply written: the
   text cut short, or with the end of another one behind it. *)
Leftovers(b, k) ==
    LET text == YamlDump(Selection(b, k)) IN Cuts(text) \cup {Append(text, CutLine)}

(* What reader and writer have to be for a selection: nothing is read from
   an empty file, a selection is read back as it was written, and what is left
   of one does not turn into another backend that drives hardware. *)
ASSUME ReaderAssumption ==
    /\ Backends \subseteq Kinds /\ YamlLoad(<< >>) = None
    /\ \A b \in Bodies, k \in Kinds :
          /\ SelectionIn(YamlDump(Selection(b, k))) = Selection(b, k)
          /\ \A text \in Leftovers(b, k) :
                LET sel == SelectionIn(text) IN
                sel # Bad => /\ BackendOf(sel) \in Kinds
                             /\ BackendOf(sel) = "physical" => "physical" \in {k, Shipped.backend}

-----------------------------------------------------------------------------
(* Body packages. A package is known by what its checks look at. *)

(* BodyManager.load raises for an unknown body or an unreadable manifest. *)
Loads(b) == b \in Bodies /\ pkgs[b].manifest

(* The revision a manifest or a policy file names for its gait policy is this
   one or another one; one that names none passes. *)
GaitIssues(g, backend) ==
    {i \in {"no_checksum", "revision", "not_approved"} :
        \/ i = "no_checksum" /\ g.checksum = "none"
        \/ i = "revision" /\ g.revision = "other"
        \/ i = "not_approved" /\ backend = "physical" /\ ~g.approved}

(* Faulty: the approval is looked up for the simulation. *)
StaticValidateSim(pkg, backend) ==
    (IF pkg.sensors THEN {} ELSE {"sensor"})
    \cup (IF pkg.coherent THEN {} ELSE {"locomotion"})
    \cup (IF pkg.biped
          THEN (IF pkg.gait.declared THEN GaitIssues(pkg.gait, "simulation") ELSE {"no_gait"})
          ELSE {})
    \cup {"placeholder"}

(* _static_validate. No body is signed: each has the placeholder issue. *)
StaticValidate(pkg, backend) ==
    (IF pkg.sensors THEN {} ELSE {"sensor"})
    \cup (IF pkg.coherent THEN {} ELSE {"locomotion"})
    \cup (IF pkg.biped
          THEN (IF pkg.gait.declared THEN GaitIssues(pkg.gait, backend) ELSE {"no_gait"})
          ELSE {})
    \cup {"placeholder"}

(* load_for_body: no policy without a file, with another checksum than the
   manifest's, with text that is not JSON, or made for another body. *)
PolicyLoads(g) == g.declared /\ g.file /\ g.checksum # "other" /\ g.thisBody

PolicyIssues(g, backend) ==
    IF ~PolicyLoads(g) THEN {"no_policy"}
    ELSE {i \in {"revision", "joints", "imu", "not_approved"} :
             \/ i = "revision" /\ g.fileRevision = "other"
             \/ i = "joints" /\ ~g.joints
             \/ i = "imu" /\ ~g.imu
             \/ i = "not_approved" /\ backend = "physical" /\ ~g.approved}

(* Faulty: whatever is not the simulation is hardware. *)
HardwareUnlessSim(backend) == IF backend = "simulation" THEN "simulation" ELSE "hardware"

(* make_backend; the mock and the CAN-FD backend are the hardware *)
MakeBackend(backend) == IF backend = "physical" THEN "hardware" ELSE "simulation"

(* Runtime.body, Runtime.backend and, once Motion is configured, its gait
   policy and gait_issues *)
LoadedBody(sel) ==
    LET b == BodyOf(sel) g == pkgs[b].gait IN
    [body_id |-> b, backend_kind |-> BackendOf(sel), backend |-> MakeBackend(BackendOf(sel)),
     issues |-> StaticValidate(pkgs[b], BackendOf(sel)),
     policy |-> pkgs[b].biped /\ PolicyLoads(g),
     gait_issues |-> IF pkgs[b].biped THEN PolicyIssues(g, BackendOf(sel)) ELSE {}]

NoBody == [body_id |-> "none"]

(* A placeholder signature is the only issue that does not inhibit motion. *)
Fatal(p) == {i \in body[p].issues : i # "placeholder"}

(* The static checks let this process move its body: assess_readiness finds
   no fatal issue, and the capabilities support motion. *)
MayDrive(p) == body[p] # NoBody /\ Fatal(p) = {} /\ pkgs[body[p].body_id].moves

-----------------------------------------------------------------------------
Init ==
    /\ \E s \in Setups : conf = s.conf /\ pkgs = s.pkgs
    /\ select = << >> /\ pc = [p \in Procs |-> "off"] /\ sets = 0
    /\ new = [p \in Procs |-> NoBody] /\ body = [p \in Procs |-> NoBody]
    /\ wanted = ShippedSelection /\ torn = FALSE /\ asked = (Shipped.backend = "physical")

(* DroidSystem.boot: what raises here ends the process. *)
Boots ==
    Loaded[conf] # Bad /\ CurrentSelection # Bad /\ Loads(BodyOf(CurrentSelection))

Boot(p) ==
    /\ pc[p] = "off" /\ Boots
    /\ pc' = [pc EXCEPT ![p] = "up"]
    /\ body' = [body EXCEPT ![p] = LoadedBody(CurrentSelection)]
    /\ UNCHANGED <<conf, pkgs, sets, select, new, wanted, torn, asked>>

(* The selection set_active is going to write: the backend stays as it is
   unless one is named. *)
NewSelection(b, k) ==
    Selection(b, IF k = "same" THEN BackendOf(CurrentSelection) ELSE k)

(* Faulty: it is written without being loaded first. *)
SetAnyActive(p, b, k) ==
    /\ pc[p] = "up" /\ sets < MaxSets /\ sets' = sets + 1 /\ CurrentSelection # Bad
    /\ pc' = [pc EXCEPT ![p] = "open"]
    /\ new' = [new EXCEPT ![p] = NewSelection(b, k)]
    /\ torn' = (torn \/ \E q \in Procs : pc[q] \in {"open", "write"})
    /\ wanted' = IF torn' THEN ShippedSelection ELSE wanted
    /\ asked' = (asked \/ BackendOf(new'[p]) = "physical")
    /\ UNCHANGED <<conf, pkgs, select, body>>

(* BodyManager.set_active, from droidctl body set or system.set_body: it
   raises for a body that does not load. *)
SetActive(p, b, k) ==
    /\ pc[p] = "up" /\ sets < MaxSets /\ sets' = sets + 1 /\ CurrentSelection # Bad /\ Loads(b)
    /\ pc' = [pc EXCEPT ![p] = "open"]
    /\ new' = [new EXCEPT ![p] = NewSelection(b, k)]
    /\ torn' = (torn \/ \E q \in Procs : pc[q] \in {"open", "write"})
    /\ wanted' = IF torn' THEN ShippedSelection ELSE wanted
    /\ asked' = (asked \/ BackendOf(new'[p]) = "physical")
    /\ UNCHANGED <<conf, pkgs, select, body>>

(* write_text truncates the file ... *)
SelectOpen(p) ==
    /\ pc[p] = "open"
    /\ pc' = [pc EXCEPT ![p] = "write"] /\ select' = << >>
    /\ UNCHANGED <<conf, pkgs, sets, new, body, wanted, torn, asked>>

(* ... and writes the text. A file that is not empty here was written by
   another process since this one opened it: the end of a longer text shows
   behind this one. *)
SelectWrite(p) ==
    /\ pc[p] = "write" /\ pc' = [pc EXCEPT ![p] = "up"]
    /\ \/ select' = YamlDump(new[p])
       \/ select # << >> /\ select' = Append(YamlDump(new[p]), CutLine)
    /\ wanted' = IF torn THEN wanted ELSE new[p]
    /\ new' = [new EXCEPT ![p] = NoBody]
    /\ UNCHANGED <<conf, pkgs, sets, body, torn, asked>>

(* The process is killed, or it goes on: system.set_body answers with the
   error that was raised, droidctl ends with it. *)
Ends(p) == pc' = [pc EXCEPT ![p] = "off"] /\ body' = [body EXCEPT ![p] = NoBody]

GoesOn(p) == pc' = [pc EXCEPT ![p] = "up"] /\ UNCHANGED body

(* The file cannot be opened. *)
SelectOpenFails(p) ==
    /\ pc[p] = "open" /\ (Ends(p) \/ GoesOn(p))
    /\ new' = [new EXCEPT ![p] = NoBody]
    /\ UNCHANGED <<conf, pkgs, sets, select, wanted, torn, asked>>

(* The write fails, or the process is killed in it. *)
SelectCut(p) ==
    /\ pc[p] = "write" /\ (Ends(p) \/ GoesOn(p))
    /\ torn' = TRUE /\ wanted' = ShippedSelection
    /\ select' \in Cuts(YamlDump(new[p]))
    /\ new' = [new EXCEPT ![p] = NoBody]
    /\ UNCHANGED <<conf, pkgs, sets, asked>>

ProcessEnds(p) ==
    /\ pc[p] = "up" /\ Ends(p)
    /\ UNCHANGED <<conf, pkgs, sets, select, new, wanted, torn, asked>>

Next ==
    \E p \in Procs :
        \/ Boot(p) \/ SelectOpen(p) \/ SelectOpenFails(p) \/ SelectWrite(p) \/ SelectCut(p)
        \/ ProcessEnds(p)
        \/ \E b \in Bodies, k \in Backends \cup {"same"} : SetActive(p, b, k)

Spec == Init /\ [][Next]_vars

-----------------------------------------------------------------------------
(* What must hold *)

TypeOK ==
    /\ \E s \in Setups : conf = s.conf /\ pkgs = s.pkgs
    /\ pc \in [Procs -> {"off", "up", "open", "write"}]
    /\ DOMAIN body = Procs /\ DOMAIN new = Procs
    /\ \A p \in Procs : (body[p] = NoBody) = (pc[p] = "off")
    /\ \A p \in Procs : (new[p] = NoBody) = (pc[p] \in {"off", "up"})
    /\ sets \in 0 .. MaxSets /\ asked \in BOOLEAN /\ torn \in BOOLEAN
    /\ wanted \in {Selection(b, k) : b \in Bodies, k \in Backends}

(* Unless a write of the file was cut short or two overlapped, the next boot
   takes the body and backend of the last set_active, and it can: what
   set_active commits has been loaded, and is read back as it was meant. *)
BootsAsSelected ==
    ~torn /\ (\A p \in Procs : pc[p] # "write") =>
        CurrentSelection = wanted /\ (wanted # ShippedSelection => Loads(BodyOf(wanted)))

(* Whatever is left of the file, hardware is driven only after somebody has
   selected the physical backend. *)
HardwareIsAskedFor ==
    \A p \in Procs : body[p] # NoBody /\ body[p].backend = "hardware" => asked

(* No process moves a walking body on hardware unless its gait policy has
   been approved for that and is not declared for another revision of the
   body: the selection, the loader's checks and the choice of the backend
   agree. *)
WalkOnHardwareIsApproved ==
    \A p \in Procs : MayDrive(p) /\ body[p].backend = "hardware" =>
        LET pkg == pkgs[body[p].body_id] IN
        pkg.biped => /\ pkg.gait.declared /\ pkg.gait.approved
                     /\ pkg.gait.revision # "other"

(* Why, as an inductive invariant. Each is about a backend k that somebody
   has asked for if it is the physical one: the selection being written, the
   text in the file, the body of a process. *)
AskedFor(k) == k = "physical" => asked

WriteInv ==
    \A p \in Procs : pc[p] \in {"open", "write"} =>
        \E b \in Bodies, k \in Kinds :
            /\ new[p] = Selection(b, k) /\ Loads(b) /\ AskedFor(k)
            /\ ~torn => k \in Backends

FileInv ==
    \E b \in Bodies, k \in Kinds :
        /\ select \in {<< >>, YamlDump(Selection(b, k))} \cup Leftovers(b, k)
        /\ AskedFor(k) /\ AskedFor(Shipped.backend)

BodyInv ==
    \A p \in Procs : pc[p] # "off" =>
        \E b \in Bodies, k \in Kinds : body[p] = LoadedBody(Selection(b, k)) /\ AskedFor(k)

(* Processes that take turns: one writes at a time, into an empty file. *)
TurnsInv ==
    ~torn =>
        /\ \A p, q \in Procs : pc[p] \in {"open", "write"} /\ pc[q] \in {"open", "write"} => p = q
        /\ (\E p \in Procs : pc[p] = "write") => select = << >>
        /\ (\A p \in Procs : pc[p] # "write") => CurrentSelection = wanted
        /\ wanted # ShippedSelection => Loads(BodyOf(wanted))

SelectInv == WriteInv /\ FileInv /\ BodyInv /\ TurnsInv
=============================================================================
