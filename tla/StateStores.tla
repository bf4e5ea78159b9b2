------------------------------ MODULE StateStores ------------------------------
(***************************************************************************)
(* What the droid knows: memory.json (services/memory.py) and the places   *)
(* of world_model.json (services/world_model.py), and the handlers of      *)
(* executive.py that change them.                                          *)
(*                                                                         *)
(* Every process loads both files when its services are configured and     *)
(* afterwards works on its own copy, saving the whole copy at each change. *)
(* A handler may change both stores, one after the other; nothing locks    *)
(* the files, and a failed save is swallowed.                              *)
(***************************************************************************)
EXTENDS Naturals, Sequences

CONSTANTS
    Procs,     \* DroidOS processes that share the state directory
    Names,     \* names of places, and subjects of remembered facts
    Defaults,  \* the places of DEFAULT_WORLD
    Queries,   \* what the user may ask to forget
    Hits       \* Hits[q]: the names whose remembered text contains q

ASSUME NamesAssumption == Defaults \subseteq Names

(* A name occurs in every text about it, and the empty query in all texts. *)
ASSUME HitsAssumption ==
    /\ Names \subseteq Queries /\ Hits \in [Queries -> SUBSET Names]
    /\ \A n \in Names : n \in Hits[n]

Files == {"memory", "world"}

(* A remembered text is known by its subject and its category; of the two
   categories the handlers use, "place" marks the texts of store_place. *)
Texts == Names \X {"fact", "place"}

Items == Texts \cup Names

VARIABLES
    pc,        \* where each process is
    todo,      \* the changes its handler has still to make
    copy,      \* Memory.entries and WorldModel.data["places"] of each process
    disk,      \* what each file holds; the default while it is not intact
    intact,    \* the file can be parsed (a missing file counts as the default)
    fresh,     \* history: the files a process's copy has followed so far
    known,     \* history: the completed changes, applied one after the other
    spoiled,   \* history: files a save failed on, or was made from an old
               \* copy; what is known of such a file is not followed further
    overlap    \* history: a process has loaded in the middle of a handler

vars == <<pc, todo, copy, disk, intact, fresh, known, spoiled, overlap>>

-----------------------------------------------------------------------------
(* A change of one store. A removal that finds nothing does not save. *)
Edits ==
    {e \in [file : Files, add : SUBSET Items, del : SUBSET Items, always : BOOLEAN] :
        e.always \/ e.add = {}}

Applied(e, s) == (s \ e.del) \cup e.add

(* Faulty: only what was added is saved. *)
SavesAdditions(e, s) == e.always

Saves(e, s) == e.always \/ e.del \cap s # {}

(* Memory.remember; WorldModel.add_place, remove_place, set_obstacle;
   Memory.forget *)
Remember(n, category) ==
    [file |-> "memory", add |-> {<<n, category>>}, del |-> {}, always |-> TRUE]

AddPlace(n) == [file |-> "world", add |-> {n}, del |-> {}, always |-> TRUE]

RemovePlace(q) ==
    [file |-> "world", add |-> {}, del |-> {q} \cap Names, always |-> FALSE]

(* The obstacle itself is not used again; the places are saved with it. *)
SetObstacle == [file |-> "world", add |-> {}, del |-> {}, always |-> TRUE]

Forget(q) ==
    [file |-> "memory", add |-> {}, del |-> Hits[q] \X {"fact", "place"}, always |-> FALSE]

-----------------------------------------------------------------------------
Default == [f \in Files |-> IF f = "world" THEN Defaults ELSE {}]

TypeOK ==
    /\ pc \in [Procs -> {"off", "idle", "open", "write"}]
    /\ todo \in [Procs -> Seq(Edits)]
    /\ copy \in [Procs -> [Files -> SUBSET Items]]
    /\ disk \in [Files -> SUBSET Items] /\ intact \in [Files -> BOOLEAN]
    /\ fresh \in [Procs -> SUBSET Files] /\ known \in [Files -> SUBSET Items]
    /\ spoiled \subseteq Files /\ overlap \in BOOLEAN

Init ==
    /\ pc = [p \in Procs |-> "off"] /\ todo = [p \in Procs |-> << >>]
    /\ copy = [p \in Procs |-> Default] /\ disk = Default
    /\ intact = [f \in Files |-> TRUE] /\ fresh = [p \in Procs |-> {}]
    /\ known = Default /\ spoiled = {} /\ overlap = FALSE

-----------------------------------------------------------------------------
(* _load: an unreadable file leaves the default of __init__. *)
Loaded(f) == IF intact[f] THEN disk[f] ELSE Default[f]

(* The services are configured at boot. *)
Start(p) ==
    /\ pc[p] = "off"
    /\ pc' = [pc EXCEPT ![p] = "idle"]
    /\ copy' = [copy EXCEPT ![p] = [f \in Files |-> Loaded(f)]]
    /\ fresh' = [fresh EXCEPT ![p] = {f \in Files \ spoiled : intact[f]}]
    /\ overlap' = (overlap \/ \E q \in Procs : todo[q] # << >>)
    /\ UNCHANGED <<todo, disk, intact, known, spoiled>>

(* A handler of the executive starts on its changes. *)
Handle(p, edits) ==
    /\ pc[p] = "idle" /\ todo[p] = << >>
    /\ todo' = [todo EXCEPT ![p] = edits]
    /\ UNCHANGED <<pc, copy, disk, intact, fresh, known, spoiled, overlap>>

HRemember(p, n) == Handle(p, <<Remember(n, "fact")>>)

(* Faulty: the memory is written before the place it is about. *)
HStoreMemoryFirst(p, n) == Handle(p, <<Remember(n, "place"), AddPlace(n)>>)

HStorePlace(p, n) == Handle(p, <<AddPlace(n), Remember(n, "place")>>)

HForget(p, q) == Handle(p, <<Forget(q), RemovePlace(q)>>)

DriveBlocked(p) == Handle(p, <<SetObstacle>>)

(* The next change is made to the copy, and saved if it is one. *)
Change(p) ==
    /\ pc[p] = "idle" /\ todo[p] # << >>
    /\ LET e == Head(todo[p]) IN
       /\ copy' = [copy EXCEPT ![p][e.file] = Applied(e, @)]
       /\ IF Saves(e, copy[p][e.file])
          THEN pc' = [pc EXCEPT ![p] = "open"] /\ UNCHANGED todo
          ELSE todo' = [todo EXCEPT ![p] = Tail(@)] /\ UNCHANGED pc
    /\ UNCHANGED <<disk, intact, fresh, known, spoiled, overlap>>

Tear(f) ==
    intact' = [intact EXCEPT ![f] = FALSE] /\ disk' = [disk EXCEPT ![f] = Default[f]]

Spoil(f) ==
    /\ spoiled' = spoiled \cup {f} /\ known' = [known EXCEPT ![f] = {}]
    /\ fresh' = [q \in Procs |-> fresh[q] \ {f}]

(* The handler goes on to its next change, or returns. *)
SaveEnds(p) ==
    pc' = [pc EXCEPT ![p] = "idle"] /\ todo' = [todo EXCEPT ![p] = Tail(@)]

(* _save: write_text opens and thereby truncates the file ... *)
SaveOpen(p) ==
    /\ pc[p] = "open"
    /\ pc' = [pc EXCEPT ![p] = "write"]
    /\ Tear(Head(todo[p]).file)
    /\ UNCHANGED <<todo, copy, fresh, known, spoiled, overlap>>

(* ... and writes all of the copy; every other copy is now an old one. A
   file that can be parsed here was written by another process since this
   one opened it: the longer of the two texts shows behind the other. *)
SaveWrite(p) ==
    /\ pc[p] = "write" /\ SaveEnds(p)
    /\ LET f == Head(todo[p]).file IN
       /\ \/ /\ intact' = [intact EXCEPT ![f] = TRUE]
             /\ disk' = [disk EXCEPT ![f] = copy[p][f]]
          \/ intact[f] /\ Tear(f)
       /\ IF f \in fresh[p]
          THEN /\ known' = [known EXCEPT ![f] = Applied(Head(todo[p]), @)]
               /\ fresh' = [q \in Procs |-> IF q = p THEN fresh[q] ELSE fresh[q] \ {f}]
               /\ UNCHANGED spoiled
          ELSE Spoil(f)
    /\ UNCHANGED <<copy, overlap>>

(* Either step may raise an OSError, which is swallowed. *)
SaveFails(p) ==
    /\ pc[p] \in {"open", "write"} /\ SaveEnds(p)
    /\ Spoil(Head(todo[p]).file)
    /\ UNCHANGED <<copy, disk, intact, overlap>>

(* A process exits, or is killed wherever it is. *)
ProcessEnds(p) ==
    /\ pc[p] # "off"
    /\ pc' = [pc EXCEPT ![p] = "off"] /\ todo' = [todo EXCEPT ![p] = << >>]
    /\ copy' = [copy EXCEPT ![p] = Default]
    /\ IF pc[p] = "write" THEN Spoil(Head(todo[p]).file)
       ELSE UNCHANGED <<fresh, spoiled, known>>
    /\ UNCHANGED <<disk, intact, overlap>>

-----------------------------------------------------------------------------
Step(p) ==
    \/ Start(p) \/ (\E n \in Names : HRemember(p, n) \/ HStorePlace(p, n))
    \/ (\E q \in Queries : HForget(p, q)) \/ DriveBlocked(p)
    \/ Change(p) \/ SaveOpen(p) \/ SaveWrite(p) \/ SaveFails(p) \/ ProcessEnds(p)

Next == \E p \in Procs : Step(p)

Spec == Init /\ [][Next]_vars

-----------------------------------------------------------------------------
(* What must hold *)

Saving(p, f) == pc[p] \in {"open", "write"} /\ Head(todo[p]).file = f

Writing(f) == \E p \in Procs : pc[p] = "write" /\ Saving(p, f)

HandlersInv ==
    \A p \in Procs : /\ pc[p] \in {"open", "write"} => todo[p] # << >>
                     /\ pc[p] = "off" => todo[p] = << >>

CopiesInv ==
    \A p \in Procs : \A f \in fresh[p] :
        /\ f \notin spoiled
        /\ pc[p] # "off" => copy[p][f] = IF Saving(p, f)
                                        THEN Applied(Head(todo[p]), known[f]) ELSE known[f]
        /\ pc[p] = "write" /\ Saving(p, f) => ~intact[f]

FilesInv ==
    \A f \in Files \ spoiled : IF intact[f] THEN disk[f] = known[f] ELSE Writing(f)

(* Unless a save of it failed, was cut short, or was made from a copy older
   than the file, a file that nobody is writing holds exactly what all the
   completed changes of all processes add up to: processes that take turns
   lose nothing, and what was forgotten stays forgotten. *)
StoresAreDurable ==
    \A f \in Files \ spoiled : ~Writing(f) => intact[f] /\ disk[f] = known[f]

(* Why: a copy that has followed its file is what is known of it, with the
   change being saved on top; a file is torn only while somebody writes it,
   and who finds it written under his hands has lost track of it. *)
StoreInv == HandlersInv /\ CopiesInv /\ FilesInv

(* store_place writes the place before the memory of it, forget the other
   way round: between two changes, and after a process was killed anywhere
   outside a write, a remembered place is one the world model knows. *)
PlaceMemoriesArePlaces ==
    spoiled = {} /\ ~overlap /\ ~Writing("memory") /\ ~Writing("world") =>
        \A n \in Names : <<n, "place">> \in disk["memory"] => n \in disk["world"]

(* Why: as long as the handlers of two processes do not overlap, whoever is
   about to remember a place is the only one whose copy of the world model is
   up to date, and who is about to remove one has made sure, by a copy that
   holds every place memory there is, that nobody remembers it. *)
Handlers ==
    {<< >>, <<SetObstacle>>}
    \cup {<<Remember(n, "fact")>> : n \in Names} \cup {<<Remember(n, "place")>> : n \in Names}
    \cup {<<AddPlace(n), Remember(n, "place")>> : n \in Names}
    \cup {<<RemovePlace(q)>> : q \in Queries}
    \cup {<<Forget(q), RemovePlace(q)>> : q \in Queries}

StoresPlace(p, n) == todo[p] = <<Remember(n, "place")>>

KnownMemory(n) == <<n, "place">> \in known["memory"]

RememberedPlacesInv == \A n \in Names : KnownMemory(n) => n \in known["world"]

StoringInv ==
    \A p \in Procs, n \in Names : StoresPlace(p, n) =>
        n \in known["world"] /\ \A r \in Procs \ {p} : "world" \notin fresh[r]

ForgettingInv ==
    \A p \in Procs, n \in Names :
        todo[p] = <<RemovePlace(n)>> /\ "world" \in fresh[p] => ~KnownMemory(n)

MemoryCopyInv ==
    \A p \in Procs, n \in Names :
        pc[p] # "off" /\ "world" \in fresh[p] /\ ~Saving(p, "memory") /\ KnownMemory(n)
            => <<n, "place">> \in copy[p]["memory"]

PlaceInv ==
    /\ \A p \in Procs : todo[p] \in Handlers
    /\ spoiled = {} /\ ~overlap =>
          RememberedPlacesInv /\ StoringInv /\ ForgettingInv /\ MemoryCopyInv
=============================================================================
