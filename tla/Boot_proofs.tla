------------------------------ MODULE Boot_proofs ------------------------------
(***************************************************************************)
(* Proofs about how a process comes up. First the body it selects          *)
(* (BootConfig), for any number of processes, bodies, packages and         *)
(* changes, and for every reader and writer of the file that               *)
(* ReaderAssumption describes. Then the services it starts, retries and    *)
(* shuts down (ServiceStartup), whichever of their hooks may fail.         *)
(***************************************************************************)
EXTENDS BootConfig, ServiceStartup, TLAPS

IInv == TypeOK /\ SelectInv

-----------------------------------------------------------------------------
(* Records with other fields are other values. *)
LEMMA SelectionIsNoError == \A b, k : Selection(b, k) # Bad /\ Selection(b, k) # NoBody
<1> TAKE b, k
<1>1. Selection(b, k).kind = "map" /\ Bad.kind = "error"
  BY DEF Selection, Map, Bad
<1>2. DOMAIN Selection(b, k) = {"kind", "entries"} /\ DOMAIN NoBody = {"body_id"}
  BY DEF Selection, Map, NoBody
<1> QED BY <1>1, <1>2

LEMMA LoadedIsABody == \A sel : LoadedBody(sel) # NoBody
<1> TAKE sel
<1>1. DOMAIN LoadedBody(sel) = {"body_id", "backend_kind", "backend", "issues", "policy", "gait_issues"}
  BY DEF LoadedBody
<1>2. DOMAIN NoBody = {"body_id"}
  BY DEF NoBody
<1> QED BY <1>1, <1>2

(* A selection is its body and its backend. *)
LEMMA SelectionParts == \A b, k : BodyOf(Selection(b, k)) = b /\ BackendOf(Selection(b, k)) = k
<1> TAKE b, k
<1> DEFINE e1 == [key |-> "body_id", val |-> Str(b)]
           e2 == [key |-> "backend", val |-> Str(k)]
           s == <<e1, e2>>
<1>1. Selection(b, k).entries = s
  BY DEF Selection, Map
<1>2. Len(s) = 2 /\ s[1] = e1 /\ s[2] = e2
  OBVIOUS
<1>3. e1.key = "body_id" /\ e2.key = "backend" /\ e1.val.text = b /\ e2.val.text = k
  BY DEF Str, Scalar
<1> HIDE DEF e1, e2, s
<1>4. (CHOOSE i \in 1 .. Len(s) : s[i].key = "body_id") = 1
  BY <1>2, <1>3
<1>5. (CHOOSE i \in 1 .. Len(s) : s[i].key = "backend") = 2
  BY <1>2, <1>3
<1> QED BY <1>1, <1>2, <1>3, <1>4, <1>5 DEF BodyOf, BackendOf, Lookup

(* What the file holds selects one of the backends that may be read, and the
   physical one only if somebody has asked for it. *)
LEMMA FileSelects ==
    ASSUME FileInv, CurrentSelection # Bad
    PROVE  BackendOf(CurrentSelection) \in Kinds /\ AskedFor(BackendOf(CurrentSelection))
<1>1. PICK b \in Bodies, k \in Kinds :
        /\ select \in {<< >>, YamlDump(Selection(b, k))} \cup Leftovers(b, k)
        /\ AskedFor(k) /\ AskedFor(Shipped.backend)
  BY DEF FileInv
<1>2. CASE select = << >>
  <2>1. ~Selects(None) /\ None # Bad
    BY DEF Selects, None, Scalar, Bad
  <2>2. CurrentSelection = Selection(Shipped.body_id, Shipped.backend)
    BY <1>2, <2>1, ReaderAssumption DEF CurrentSelection, SelectionIn, ShippedSelection
  <2> QED BY <1>1, <2>2, SelectionParts, ShippedAssumption, ReaderAssumption
<1>3. CASE select = YamlDump(Selection(b, k))
  BY <1>1, <1>3, SelectionParts, ReaderAssumption DEF CurrentSelection
<1>4. CASE select \in Leftovers(b, k)
  BY <1>1, <1>4, ReaderAssumption DEF CurrentSelection, AskedFor
<1> QED BY <1>1, <1>2, <1>3, <1>4

LEMMA EmptySelects == SelectionIn(<< >>) = ShippedSelection
<1>1. ~Selects(None) /\ None # Bad
  BY DEF Selects, None, Scalar, Bad
<1> QED BY <1>1, ReaderAssumption DEF SelectionIn

-----------------------------------------------------------------------------
LEMMA InitInv == Init => IInv
<1> SUFFICES ASSUME Init PROVE IInv
  OBVIOUS
<1>1. asked \in BOOLEAN /\ torn \in BOOLEAN
  BY Zenon DEF Init
<1>2. ShippedSelection \in {Selection(b, k) : b \in Bodies, k \in Backends}
  BY ShippedAssumption DEF ShippedSelection
<1>3. TypeOK
  BY <1>1, <1>2, MaxSetsAssumption DEF Init, TypeOK
<1>4. FileInv
  <2>1. Shipped.body_id \in Bodies /\ Shipped.backend \in Kinds /\ AskedFor(Shipped.backend)
    BY ShippedAssumption, ReaderAssumption DEF Init, AskedFor
  <2> QED BY <2>1 DEF Init, FileInv
<1>5. WriteInv /\ BodyInv
  BY DEF Init, WriteInv, BodyInv
<1>6. TurnsInv
  BY EmptySelects DEF Init, TurnsInv, CurrentSelection
<1> QED BY <1>3, <1>4, <1>5, <1>6 DEF IInv, SelectInv

(* A step that leaves the file, and does not take back who asked for what,
   leaves what is read from it. *)
LEMMA FileKept ==
    ASSUME FileInv, select' = select, asked => asked'
    PROVE  FileInv'
BY DEF FileInv, AskedFor

(* What a process does changes only what is its own. *)
Others(p) ==
    \A q \in Procs \ {p} : pc'[q] = pc[q] /\ body'[q] = body[q] /\ new'[q] = new[q]

(* The selections being written, and the bodies, of the other processes *)
LEMMA OthersKept ==
    ASSUME IInv, NEW p \in Procs, Others(p), UNCHANGED <<pkgs>>, asked => asked', torn => torn'
    PROVE  /\ \A q \in Procs \ {p} : pc'[q] \in {"open", "write"} =>
                 \E b \in Bodies, k \in Kinds :
                    /\ new'[q] = Selection(b, k) /\ Loads(b)' /\ AskedFor(k)'
                    /\ ~torn' => k \in Backends
           /\ \A q \in Procs \ {p} : pc'[q] # "off" =>
                 \E b \in Bodies, k \in Kinds :
                    body'[q] = LoadedBody(Selection(b, k))' /\ AskedFor(k)'
           /\ \A q \in Procs \ {p} : (body'[q] = NoBody) = (pc'[q] = "off")
           /\ \A q \in Procs \ {p} : (new'[q] = NoBody) = (pc'[q] \in {"off", "up"})
<1>1. \A b : Loads(b)' = Loads(b)
  BY DEF Loads
<1>2. \A sel : LoadedBody(sel)' = LoadedBody(sel)
  BY DEF LoadedBody
<1>3. \A k : AskedFor(k) => AskedFor(k)'
  BY DEF AskedFor
<1>4. ASSUME NEW q \in Procs \ {p}, pc'[q] \in {"open", "write"}
      PROVE  \E b \in Bodies, k \in Kinds :
                /\ new'[q] = Selection(b, k) /\ Loads(b)' /\ AskedFor(k)'
                /\ ~torn' => k \in Backends
  BY <1>1, <1>3, <1>4 DEF IInv, SelectInv, WriteInv, Others
<1>5. ASSUME NEW q \in Procs \ {p}, pc'[q] # "off"
      PROVE  \E b \in Bodies, k \in Kinds :
                body'[q] = LoadedBody(Selection(b, k))' /\ AskedFor(k)'
  BY <1>2, <1>3, <1>5 DEF IInv, SelectInv, BodyInv, Others
<1>6. \A q \in Procs \ {p} : /\ (body'[q] = NoBody) = (pc'[q] = "off")
                              /\ (new'[q] = NoBody) = (pc'[q] \in {"off", "up"})
  BY DEF IInv, TypeOK, Others
<1> QED BY <1>4, <1>5, <1>6

LEMMA BootStep ==
    ASSUME IInv, NEW p \in Procs, Boot(p)
    PROVE  IInv'
<1> DEFINE b == BodyOf(CurrentSelection)  k == BackendOf(CurrentSelection)
<1>0. TypeOK /\ WriteInv /\ FileInv /\ BodyInv /\ TurnsInv
  BY DEF IInv, SelectInv
<1>1. /\ pc[p] = "off" /\ pc'[p] = "up" /\ new'[p] = NoBody
      /\ body'[p] = LoadedBody(CurrentSelection) /\ Others(p)
      /\ UNCHANGED <<conf, pkgs, sets, select, new, wanted, torn, asked>>
  BY <1>0 DEF TypeOK, Boot, Others
<1>2. b \in Bodies /\ k \in Kinds /\ AskedFor(k)
  BY <1>0, FileSelects DEF Boot, Boots, Loads
<1>3. LoadedBody(CurrentSelection) = LoadedBody(Selection(b, k))
  BY SelectionParts DEF LoadedBody
<1>4. LoadedBody(CurrentSelection) # NoBody
  BY LoadedIsABody
<1>5. TypeOK'
  <2>1. pc' \in [Procs -> {"off", "up", "open", "write"}] /\ DOMAIN body' = Procs /\ DOMAIN new' = Procs
    BY <1>0 DEF TypeOK, Boot
  <2> QED BY <1>0, <1>1, <1>4, <2>1, OthersKept DEF TypeOK
<1>6. WriteInv'
  BY <1>1, OthersKept DEF WriteInv
<1>7. FileInv'
  BY <1>0, <1>1, FileKept
<1>8. BodyInv'
  <2>1. \E c \in Bodies, j \in Kinds : body'[p] = LoadedBody(Selection(c, j))' /\ AskedFor(j)'
    <3>1. body'[p] = LoadedBody(Selection(b, k))
      BY <1>1, <1>3
    <3>2. \A c, j : LoadedBody(Selection(c, j))' = LoadedBody(Selection(c, j))
      BY <1>1 DEF LoadedBody
    <3>3. \A j : AskedFor(j)' = AskedFor(j)
      BY <1>1 DEF AskedFor
    <3> HIDE DEF b, k
    <3> QED BY <1>2, <3>1, <3>2, <3>3
  <2> QED BY <1>1, <2>1, OthersKept DEF BodyInv
<1>9. TurnsInv'
  <2>1. \A q \in Procs : /\ pc'[q] \in {"open", "write"} <=> pc[q] \in {"open", "write"}
                         /\ pc'[q] = "write" <=> pc[q] = "write"
    BY <1>1 DEF Others
  <2>2. \A c : Loads(c)' = Loads(c)
    BY <1>1 DEF Loads
  <2> QED BY <1>0, <1>1, <2>1, <2>2 DEF TurnsInv, CurrentSelection
<1> QED BY <1>5, <1>6, <1>7, <1>8, <1>9 DEF IInv, SelectInv

LEMMA SetActiveStep ==
    ASSUME IInv, NEW p \in Procs, NEW b \in Bodies, NEW named \in Backends \cup {"same"},
           SetActive(p, b, named)
    PROVE  IInv'
<1>0. TypeOK /\ WriteInv /\ FileInv /\ BodyInv /\ TurnsInv
  BY DEF IInv, SelectInv
<1>1. PICK k \in Kinds : k = IF named = "same" THEN BackendOf(CurrentSelection) ELSE named
  BY <1>0, FileSelects, ReaderAssumption DEF SetActive
<1>2. /\ pc[p] = "up" /\ pc'[p] = "open" /\ new'[p] = Selection(b, k) /\ body'[p] = body[p]
      /\ Others(p) /\ UNCHANGED <<conf, pkgs, select, body>>
      /\ torn' = (torn \/ \E q \in Procs : pc[q] \in {"open", "write"})
      /\ wanted' = IF torn' THEN ShippedSelection ELSE wanted
      /\ sets < MaxSets /\ sets' = sets + 1 /\ Loads(b)
  BY <1>0, <1>1 DEF TypeOK, SetActive, NewSelection, Others
<1>3. asked' = (asked \/ k = "physical")
  <2>1. asked' = (asked \/ BackendOf(new'[p]) = "physical")
    BY DEF SetActive
  <2> QED BY <1>2, <2>1, SelectionParts
<1>4. ASSUME ~torn'
      PROVE  ~torn /\ k \in Backends /\ CurrentSelection = wanted
             /\ \A q \in Procs : pc[q] \notin {"open", "write"}
  <2>1. ~torn /\ \A q \in Procs : pc[q] \notin {"open", "write"}
    BY <1>2, <1>4
  <2>2. CurrentSelection = wanted
    BY <1>0, <2>1 DEF TurnsInv
  <2>3. BackendOf(wanted) \in Backends
    BY <1>0, SelectionParts DEF TypeOK
  <2> QED BY <1>1, <2>1, <2>2, <2>3
<1>5. torn => torn'
  BY <1>2
<1>6. asked => asked'
  BY <1>3
<1>7. AskedFor(k)'
  BY <1>3 DEF AskedFor
<1>8. \A c : Loads(c)' = Loads(c)
  BY <1>2 DEF Loads
<1>9. TypeOK'
  <2>1. pc' \in [Procs -> {"off", "up", "open", "write"}] /\ DOMAIN body' = Procs /\ DOMAIN new' = Procs
    BY <1>0 DEF TypeOK, SetActive
  <2>2. sets' \in 0 .. MaxSets
    BY <1>0, <1>2, MaxSetsAssumption DEF TypeOK
  <2>3. asked' \in BOOLEAN /\ torn' \in BOOLEAN
    BY <1>2, <1>3
  <2>4. wanted' \in {Selection(c, j) : c \in Bodies, j \in Backends}
    BY <1>0, <1>2, ShippedAssumption DEF TypeOK, ShippedSelection
  <2>5. new'[p] # NoBody /\ body'[p] # NoBody
    BY <1>0, <1>2, SelectionIsNoError DEF TypeOK
  <2>6. \E s \in Setups : conf' = s.conf /\ pkgs' = s.pkgs
    BY <1>0, <1>2 DEF TypeOK
  <2>7. \A q \in Procs : /\ (body'[q] = NoBody) = (pc'[q] = "off")
                         /\ (new'[q] = NoBody) = (pc'[q] \in {"off", "up"})
    BY <1>2, <1>5, <1>6, <2>5, OthersKept
  <2> QED BY <2>1, <2>2, <2>3, <2>4, <2>6, <2>7 DEF TypeOK
<1>10. WriteInv'
  BY <1>1, <1>2, <1>4, <1>5, <1>6, <1>7, <1>8, OthersKept DEF WriteInv
<1>11. FileInv'
  BY <1>0, <1>2, <1>6, FileKept
<1>12. BodyInv'
  <2>1. \A c, j : LoadedBody(Selection(c, j))' = LoadedBody(Selection(c, j))
    BY <1>2 DEF LoadedBody
  <2>2. \A j : AskedFor(j) => AskedFor(j)'
    BY <1>6 DEF AskedFor
  <2> QED BY <1>0, <1>2, <1>5, <1>6, <2>1, <2>2, OthersKept DEF BodyInv
<1>13. TurnsInv'
  BY <1>0, <1>2, <1>4, <1>8 DEF TurnsInv, CurrentSelection, Others
<1> QED BY <1>9, <1>10, <1>11, <1>12, <1>13 DEF IInv, SelectInv

LEMMA SelectOpenStep ==
    ASSUME IInv, NEW p \in Procs, SelectOpen(p)
    PROVE  IInv'
<1>0. TypeOK /\ WriteInv /\ FileInv /\ BodyInv /\ TurnsInv
  BY DEF IInv, SelectInv
<1>1. /\ pc[p] = "open" /\ pc'[p] = "write" /\ Others(p) /\ select' = << >>
      /\ UNCHANGED <<conf, pkgs, sets, new, body, wanted, torn, asked>>
  BY <1>0 DEF TypeOK, SelectOpen, Others
<1>2. TypeOK'
  <2>1. pc' \in [Procs -> {"off", "up", "open", "write"}]
    BY <1>0 DEF TypeOK, SelectOpen
  <2> QED BY <1>0, <1>1, <2>1, OthersKept DEF TypeOK
<1>3. (\A c : Loads(c)' = Loads(c)) /\ (\A j : AskedFor(j)' = AskedFor(j))
      /\ \A c, j : LoadedBody(Selection(c, j))' = LoadedBody(Selection(c, j))
  BY <1>1 DEF Loads, AskedFor, LoadedBody
<1>4. WriteInv'
  BY <1>0, <1>1, <1>3, OthersKept DEF WriteInv
<1>5. FileInv'
  BY <1>0, <1>1, <1>3 DEF FileInv
<1>6. BodyInv'
  BY <1>0, <1>1, <1>3, OthersKept DEF BodyInv
<1>7. TurnsInv'
  BY <1>0, <1>1, <1>3 DEF TurnsInv, Others
<1> QED BY <1>2, <1>4, <1>5, <1>6, <1>7 DEF IInv, SelectInv

LEMMA SelectWriteStep ==
    ASSUME IInv, NEW p \in Procs, SelectWrite(p)
    PROVE  IInv'
<1>0. TypeOK /\ WriteInv /\ FileInv /\ BodyInv /\ TurnsInv
  BY DEF IInv, SelectInv
<1>1. /\ pc[p] = "write" /\ pc'[p] = "up" /\ Others(p) /\ new'[p] = NoBody
      /\ wanted' = IF torn THEN wanted ELSE new[p]
      /\ UNCHANGED <<conf, pkgs, sets, body, torn, asked>>
  BY <1>0 DEF TypeOK, SelectWrite, Others
<1>2. PICK b \in Bodies, k \in Kinds :
        new[p] = Selection(b, k) /\ Loads(b) /\ AskedFor(k) /\ (~torn => k \in Backends)
  BY <1>0, <1>1 DEF WriteInv
<1>3. \/ select' = YamlDump(Selection(b, k))
      \/ select # << >> /\ select' \in Leftovers(b, k)
  BY <1>2 DEF SelectWrite, Leftovers
<1>4. TypeOK'
  <2>1. pc' \in [Procs -> {"off", "up", "open", "write"}] /\ DOMAIN body' = Procs /\ DOMAIN new' = Procs
    BY <1>0 DEF TypeOK, SelectWrite
  <2>2. wanted' \in {Selection(c, j) : c \in Bodies, j \in Backends}
    BY <1>0, <1>1, <1>2 DEF TypeOK
  <2>3. \A q \in Procs : /\ (body'[q] = NoBody) = (pc'[q] = "off")
                         /\ (new'[q] = NoBody) = (pc'[q] \in {"off", "up"})
    BY <1>0, <1>1, OthersKept DEF TypeOK
  <2> QED BY <1>0, <1>1, <2>1, <2>2, <2>3 DEF TypeOK
<1>5. (\A c : Loads(c)' = Loads(c)) /\ (\A j : AskedFor(j)' = AskedFor(j))
      /\ \A c, j : LoadedBody(Selection(c, j))' = LoadedBody(Selection(c, j))
  BY <1>1 DEF Loads, AskedFor, LoadedBody
<1>6. WriteInv'
  BY <1>1, OthersKept DEF WriteInv
<1>7. FileInv'
  <2>1. AskedFor(Shipped.backend)'
    BY <1>0, <1>5 DEF FileInv
  <2> QED BY <1>2, <1>3, <1>5, <2>1 DEF FileInv
<1>8. BodyInv'
  BY <1>0, <1>1, <1>5, OthersKept DEF BodyInv
<1>9. TurnsInv'
  <2> SUFFICES ASSUME ~torn' PROVE TurnsInv'
    BY DEF TurnsInv
  <2>1. select = << >> /\ \A q \in Procs \ {p} : pc'[q] \notin {"open", "write"}
    BY <1>0, <1>1 DEF TurnsInv, Others
  <2>2. CurrentSelection' = Selection(b, k) /\ wanted' = Selection(b, k)
    BY <1>1, <1>2, <1>3, <2>1, ReaderAssumption DEF CurrentSelection
  <2>3. BodyOf(wanted)' = b /\ Loads(b)'
    <3>1. BodyOf(wanted)' = Lookup(wanted', "body_id").text
      BY DEF BodyOf
    <3>2. Lookup(Selection(b, k), "body_id").text = b
      BY SelectionParts DEF BodyOf
    <3> QED BY <1>2, <1>5, <2>2, <3>1, <3>2
  <2>4. Loads(BodyOf(wanted))' /\ CurrentSelection' = wanted'
    BY <2>2, <2>3 DEF Loads
  <2> QED BY <1>1, <2>1, <2>4 DEF TurnsInv
<1> QED BY <1>4, <1>6, <1>7, <1>8, <1>9 DEF IInv, SelectInv

(* The steps after which a process has given up writing, or is gone: the
   selection that was wanted and the file are left, or no longer followed. *)
LEMMA GivingUpStep ==
    ASSUME IInv, NEW p \in Procs, SelectOpenFails(p) \/ SelectCut(p) \/ ProcessEnds(p)
    PROVE  IInv'
<1>0. TypeOK /\ WriteInv /\ FileInv /\ BodyInv /\ TurnsInv
  BY DEF IInv, SelectInv
<1>1. /\ pc[p] # "off" /\ Others(p) /\ new'[p] = NoBody
      /\ \/ pc'[p] = "off" /\ body'[p] = NoBody
         \/ pc'[p] = "up" /\ body'[p] = body[p]
      /\ UNCHANGED <<conf, pkgs, sets, asked>>
  <2>1. \A q \in Procs : pc[q] = "up" => new[q] = NoBody
    BY <1>0 DEF TypeOK
  <2> QED BY <1>0, <2>1 DEF TypeOK, SelectOpenFails, SelectCut, ProcessEnds, Ends, GoesOn, Others
<1>2. /\ pc' \in [Procs -> {"off", "up", "open", "write"}] /\ DOMAIN body' = Procs
      /\ DOMAIN new' = Procs
  BY <1>0 DEF TypeOK, SelectOpenFails, SelectCut, ProcessEnds, Ends, GoesOn
<1>3. \/ torn' = TRUE /\ wanted' = ShippedSelection
      \/ UNCHANGED <<select, wanted, torn>> /\ pc[p] # "write"
  BY DEF SelectOpenFails, SelectCut, ProcessEnds
<1>4. torn => torn'
  BY <1>3
<1>5. (\A c : Loads(c)' = Loads(c)) /\ (\A j : AskedFor(j)' = AskedFor(j))
      /\ \A c, j : LoadedBody(Selection(c, j))' = LoadedBody(Selection(c, j))
  BY <1>1 DEF Loads, AskedFor, LoadedBody
<1>6. TypeOK'
  <2>1. wanted' \in {Selection(c, j) : c \in Bodies, j \in Backends}
    BY <1>0, <1>3, ShippedAssumption DEF TypeOK, ShippedSelection
  <2>2. torn' \in BOOLEAN
    <3>1. torn \in BOOLEAN
      BY <1>0 DEF TypeOK
    <3>2. CASE torn' = TRUE
      BY <3>2, Zenon
    <3>3. CASE torn' = torn
      BY <3>1, <3>3, Zenon
    <3> QED BY <1>3, <3>2, <3>3, Zenon
  <2>3. \A q \in Procs : /\ (body'[q] = NoBody) = (pc'[q] = "off")
                         /\ (new'[q] = NoBody) = (pc'[q] \in {"off", "up"})
    BY <1>0, <1>1, <1>4, OthersKept DEF TypeOK
  <2> QED BY <1>0, <1>1, <1>2, <2>1, <2>2, <2>3 DEF TypeOK
<1>7. WriteInv'
  BY <1>1, <1>4, OthersKept DEF WriteInv
<1>8. FileInv'
  <2>1. CASE select' = select
    BY <1>0, <1>1, <2>1, FileKept
  <2>2. CASE SelectCut(p)
    <3>1. PICK b \in Bodies, k \in Kinds : new[p] = Selection(b, k) /\ AskedFor(k)
      BY <1>0, <2>2 DEF WriteInv, SelectCut
    <3>2. select' \in Leftovers(b, k)
      BY <2>2, <3>1 DEF SelectCut, Leftovers
    <3>3. AskedFor(Shipped.backend)'
      BY <1>0, <1>5 DEF FileInv
    <3> QED BY <1>5, <3>1, <3>2, <3>3 DEF FileInv
  <2> QED BY <2>1, <2>2 DEF SelectOpenFails, ProcessEnds
<1>9. BodyInv'
  BY <1>0, <1>1, <1>4, <1>5, OthersKept DEF BodyInv
<1>10. TurnsInv'
  <2> SUFFICES ASSUME ~torn' PROVE TurnsInv'
    BY DEF TurnsInv
  <2>1. UNCHANGED <<select, wanted, torn>> /\ pc[p] # "write" /\ CurrentSelection' = CurrentSelection
    BY <1>3 DEF CurrentSelection
  <2>2. \A q \in Procs : /\ pc'[q] \in {"open", "write"} => pc[q] \in {"open", "write"}
                         /\ pc'[q] = "write" <=> pc[q] = "write"
    BY <1>1, <2>1 DEF Others
  <2> QED BY <1>0, <1>5, <2>1, <2>2 DEF TurnsInv
<1> QED BY <1>6, <1>7, <1>8, <1>9, <1>10 DEF IInv, SelectInv

LEMMA NextInv == IInv /\ [Next]_vars => IInv'
<1> SUFFICES ASSUME IInv, [Next]_vars PROVE IInv'
  OBVIOUS
<1>1. CASE UNCHANGED vars
  <2>1. TypeOK'
    BY <1>1 DEF IInv, TypeOK, vars
  <2>2. (\A c : Loads(c)' = Loads(c)) /\ (\A j : AskedFor(j)' = AskedFor(j))
        /\ (\A c, j : LoadedBody(Selection(c, j))' = LoadedBody(Selection(c, j)))
        /\ CurrentSelection' = CurrentSelection
    BY <1>1 DEF Loads, AskedFor, LoadedBody, CurrentSelection, vars
  <2>3. SelectInv'
    BY <1>1, <2>2 DEF IInv, SelectInv, WriteInv, FileInv, BodyInv, TurnsInv, vars
  <2> QED BY <2>1, <2>3 DEF IInv
<1>2. CASE Next
  BY <1>2, BootStep, SetActiveStep, SelectOpenStep, SelectWriteStep, GivingUpStep DEF Next
<1> QED BY <1>1, <1>2

-----------------------------------------------------------------------------
(* Every process is in a state of the boot or of set_active, has a body
   exactly while it runs and a selection exactly while it writes one. *)
THEOREM TypeCorrect == Spec => []TypeOK
<1>1. IInv => TypeOK
  BY DEF IInv
<1> QED BY <1>1, InitInv, NextInv, PTL DEF Spec

(* As long as no write of body.yaml is cut short and no two overlap, the next
   boot takes the body and the backend of the last set_active that returned,
   and that body loads. *)
THEOREM SelectionIsKept == Spec => []BootsAsSelected
<1>1. IInv => BootsAsSelected
  BY DEF IInv, SelectInv, TurnsInv, BootsAsSelected
<1> QED BY <1>1, InitInv, NextInv, PTL DEF Spec

(* Whatever cut or overlapping writes leave in body.yaml, make_backend builds
   the hardware backend only after the physical one was asked for. *)
THEOREM HardwareIsNeverGuessed == Spec => []HardwareIsAskedFor
<1>1. ASSUME IInv PROVE HardwareIsAskedFor
  <2> SUFFICES ASSUME NEW p \in Procs, body[p] # NoBody, body[p].backend = "hardware"
               PROVE  asked
    BY DEF HardwareIsAskedFor
  <2>1. PICK b \in Bodies, k \in Kinds : body[p] = LoadedBody(Selection(b, k)) /\ AskedFor(k)
    BY <1>1 DEF IInv, TypeOK, SelectInv, BodyInv
  <2>2. body[p].backend = MakeBackend(k)
    BY <2>1, SelectionParts DEF LoadedBody
  <2> QED BY <2>1, <2>2 DEF MakeBackend, AskedFor
<1> QED BY <1>1, InitInv, NextInv, PTL DEF Spec

(* A process whose static checks let it move a walking body on hardware has
   a gait policy that is declared, approved for hardware and not declared for
   another revision of the body, for every package that may be installed. *)
THEOREM WalksAreApproved == Spec => []WalkOnHardwareIsApproved
<1>1. ASSUME IInv PROVE WalkOnHardwareIsApproved
  <2> SUFFICES ASSUME NEW p \in Procs, MayDrive(p), body[p].backend = "hardware",
                      pkgs[body[p].body_id].biped
               PROVE  LET g == pkgs[body[p].body_id].gait IN
                      g.declared /\ g.approved /\ g.revision # "other"
    BY DEF WalkOnHardwareIsApproved
  <2>1. PICK b \in Bodies, k \in Kinds : body[p] = LoadedBody(Selection(b, k))
    BY <1>1 DEF IInv, TypeOK, SelectInv, BodyInv, MayDrive
  <2>2. /\ body[p].body_id = b /\ body[p].backend = MakeBackend(k)
        /\ body[p].issues = StaticValidate(pkgs[b], k)
    BY <2>1, SelectionParts DEF LoadedBody
  <2>3. k = "physical"
    BY <2>2 DEF MakeBackend
  <2>4. \A i \in StaticValidate(pkgs[b], "physical") : i = "placeholder"
    BY <2>2, <2>3 DEF MayDrive, Fatal
  <2>5. pkgs[b].gait.declared /\ \A i \in GaitIssues(pkgs[b].gait, "physical") : i = "placeholder"
    BY <2>2, <2>4 DEF StaticValidate
  <2>6. pkgs[b].gait.approved /\ pkgs[b].gait.revision # "other"
    BY <2>5 DEF GaitIssues
  <2> QED BY <2>2, <2>5, <2>6
<1> QED BY <1>1, InitInv, NextInv, PTL DEF Spec

-----------------------------------------------------------------------------
(* The managed services *)

ServicesIInv == ServicesTypeOK /\ StartupInv

(* The two orders, entry by entry. *)
LEMMA RegistryEntries ==
    LET R == Registry IN
    /\ Len(R) = 12 /\ DOMAIN R = 1 .. 12
    /\ R[1] = "safety_gateway" /\ R[2] = "hardware" /\ R[3] = "diagnostics"
    /\ R[4] = "state_estimator" /\ R[5] = "world_model" /\ R[6] = "memory"
    /\ R[7] = "perception" /\ R[8] = "navigation" /\ R[9] = "motion"
    /\ R[10] = "update" /\ R[11] = "executive" /\ R[12] = "voice"
BY DEF Registry

LEMMA ActivationEntries ==
    LET A == ActivationOrder IN
    /\ Len(A) = 11 /\ DOMAIN A = 1 .. 11
    /\ A[1] = "hardware" /\ A[2] = "diagnostics" /\ A[3] = "state_estimator"
    /\ A[4] = "world_model" /\ A[5] = "memory" /\ A[6] = "perception"
    /\ A[7] = "navigation" /\ A[8] = "motion" /\ A[9] = "update"
    /\ A[10] = "executive" /\ A[11] = "voice"
BY DEF ActivationOrder

LEMMA ServiceNames ==
    Services =
        {"safety_gateway", "hardware", "diagnostics", "state_estimator", "world_model", "memory",
         "perception", "navigation", "motion", "update", "executive", "voice"}
BY RegistryEntries DEF Services, ToSet

(* The loop of boot takes a turn for every service but the safety gateway. *)
LEMMA ActivationIsComplete ==
    /\ \A i \in 1 .. 11 : ActivationOrder[i] \in Services
    /\ \A s \in Services \ {"safety_gateway"} :
          \E i \in 1 .. 11 : ActivationOrder[i] = s
<1>1. \A i \in 1 .. 11 : \/ i = 1 \/ i = 2 \/ i = 3 \/ i = 4 \/ i = 5 \/ i = 6
                         \/ i = 7 \/ i = 8 \/ i = 9 \/ i = 10 \/ i = 11
  OBVIOUS
<1> QED BY <1>1, ActivationEntries, ServiceNames

(* Shutdown comes to every service once, ... *)
LEMMA ShutdownEntries ==
    /\ \A i \in 1 .. 12 : /\ ShutdownOrder[i] = Registry[13 - i]
                          /\ ShutdownOrder[i] \in Services
    /\ \A s \in Services : \E i \in 1 .. 12 : ShutdownOrder[i] = s
    /\ \A i, j \in 1 .. 12 : ShutdownOrder[i] = ShutdownOrder[j] => i = j
<1>1. \A i \in 1 .. 12 : ShutdownOrder[i] = Registry[13 - i]
  BY RegistryEntries DEF ShutdownOrder, Reverse
<1>2. \A i \in 1 .. 12 : \/ i = 1 \/ i = 2 \/ i = 3 \/ i = 4 \/ i = 5 \/ i = 6 \/ i = 7
                         \/ i = 8 \/ i = 9 \/ i = 10 \/ i = 11 \/ i = 12
  OBVIOUS
<1>3. \A i \in 1 .. 12 : Registry[i] \in Services
  BY RegistryEntries DEF Services, ToSet
<1>4. \A s \in Services : \E i \in 1 .. 12 : Registry[i] = s
  BY RegistryEntries DEF Services, ToSet
<1>5. \A i, j \in 1 .. 12 : Registry[i] = Registry[j] => i = j
  BY <1>2, RegistryEntries
<1>6. \A i \in 1 .. 12 : 13 - i \in 1 .. 12
  OBVIOUS
<1>7. ASSUME NEW s \in Services PROVE \E i \in 1 .. 12 : ShutdownOrder[i] = s
  <2>1. PICK k \in 1 .. 12 : Registry[k] = s
    BY <1>4
  <2>2. 13 - k \in 1 .. 12 /\ 13 - (13 - k) = k
    OBVIOUS
  <2> QED BY <1>1, <2>1, <2>2
<1>8. ASSUME NEW i \in 1 .. 12, NEW j \in 1 .. 12, ShutdownOrder[i] = ShutdownOrder[j]
      PROVE  i = j
  <2>1. 13 - i = 13 - j
    BY <1>1, <1>5, <1>6, <1>8
  <2> QED BY <2>1
<1> QED BY <1>1, <1>3, <1>6, <1>7, <1>8

(* What each service requires. *)
LEMMA Requirements ==
    ASSUME NEW s \in Services
    PROVE  /\ Requires[s] \in Seq(Services)
           /\ ToSet(Requires[s]) =
                CASE s \in {"safety_gateway", "world_model", "memory"} -> {}
                  [] s = "navigation" -> {"safety_gateway", "state_estimator", "world_model"}
                  [] s = "executive" -> {"safety_gateway", "motion", "navigation", "state_estimator"}
                  [] OTHER -> {"safety_gateway"}
<1>1. CASE s \in {"safety_gateway", "world_model", "memory"}
  <2>1. Requires[s] = << >>
    BY <1>1 DEF Requires
  <2> QED BY <1>1, <2>1 DEF ToSet
<1>2. CASE s = "navigation"
  <2>1. Requires[s] = <<"safety_gateway", "state_estimator", "world_model">>
    BY <1>2 DEF Requires
  <2>2. ToSet(Requires[s]) = {"safety_gateway", "state_estimator", "world_model"}
    BY <2>1 DEF ToSet
  <2> QED BY <1>2, <2>1, <2>2, ServiceNames
<1>3. CASE s = "executive"
  <2>1. Requires[s] = <<"safety_gateway", "motion", "navigation", "state_estimator">>
    BY <1>3 DEF Requires
  <2>2. ToSet(Requires[s]) = {"safety_gateway", "motion", "navigation", "state_estimator"}
    BY <2>1 DEF ToSet
  <2> QED BY <1>3, <2>1, <2>2, ServiceNames
<1>4. CASE s \notin {"safety_gateway", "world_model", "memory", "navigation", "executive"}
  <2>1. Requires[s] = <<"safety_gateway">>
    BY <1>4 DEF Requires
  <2>2. ToSet(Requires[s]) = {"safety_gateway"}
    BY <2>1 DEF ToSet
  <2> QED BY <1>4, <2>1, <2>2, ServiceNames
<1> QED BY <1>1, <1>2, <1>3, <1>4

(* ... and to a service before what it requires. *)
LEMMA RequirementsComeLater ==
    ASSUME NEW i \in 1 .. 12, NEW d \in ToSet(Requires[ShutdownOrder[i]])
    PROVE  \E j \in 1 .. 12 : ShutdownOrder[j] = d /\ i < j
<1>1. /\ ShutdownOrder[1] = "voice" /\ ShutdownOrder[2] = "executive"
      /\ ShutdownOrder[3] = "update" /\ ShutdownOrder[4] = "motion"
      /\ ShutdownOrder[5] = "navigation" /\ ShutdownOrder[6] = "perception"
      /\ ShutdownOrder[7] = "memory" /\ ShutdownOrder[8] = "world_model"
      /\ ShutdownOrder[9] = "state_estimator" /\ ShutdownOrder[10] = "diagnostics"
      /\ ShutdownOrder[11] = "hardware" /\ ShutdownOrder[12] = "safety_gateway"
  BY ShutdownEntries, RegistryEntries
<1>2. CASE d = "safety_gateway"
  <2>1. i # 12
    <3>1. ShutdownOrder[12] \in Services
      BY ShutdownEntries
    <3> QED BY <1>1, <3>1, Requirements
  <2> QED BY <1>1, <1>2, <2>1
<1>3. CASE d # "safety_gateway"
  <2>1. ShutdownOrder[i] \in Services
    BY ShutdownEntries
  <2>2. \/ ShutdownOrder[i] = "navigation" /\ d \in {"state_estimator", "world_model"}
        \/ ShutdownOrder[i] = "executive" /\ d \in {"motion", "navigation", "state_estimator"}
    BY <1>3, <2>1, Requirements
  <2>3. \/ i = 5 /\ d \in {"state_estimator", "world_model"}
        \/ i = 2 /\ d \in {"motion", "navigation", "state_estimator"}
    BY <1>1, <2>2, ShutdownEntries
  <2> QED BY <1>1, <2>3
<1> QED BY <1>2, <1>3

(* An active service stays active, whichever call comes, and none is
   finalized by being activated. *)
LEMMA ActivateKeeps ==
    ASSUME NEW s \in Services, NEW old \in LifecycleState, old # "FINALIZED",
           NEW after \in AfterActivate(s, old)
    PROVE  /\ after \in LifecycleState /\ after # "FINALIZED"
           /\ old = "ACTIVE" => after = "ACTIVE"
BY DEF AfterActivate, AfterConfigure, LifecycleState

(* The calls in progress. *)
Frames == [svc : Services, deps : Seq(Services)]

LEMMA FrameIsTyped == \A s \in Services : Frame(s) \in Frames /\ Frame(s).svc = s
BY Requirements DEF Frame, Frames

LEMMA DepsReplaced ==
    ASSUME NEW S, NEW D, NEW f \in [svc : S, deps : D], NEW d \in D
    PROVE  [f EXCEPT !.deps = d] \in [svc : S, deps : D] /\ [f EXCEPT !.deps = d].svc = f.svc
OBVIOUS

LEMMA InnermostCall ==
    ASSUME NEW calls \in Seq(Frames), calls # << >>
    PROVE  /\ Head(calls) \in Frames /\ Head(calls) = calls[1] /\ Len(calls) \in Nat \ {0}
           /\ Tail(calls) \in Seq(Frames) /\ Len(Tail(calls)) = Len(calls) - 1
           /\ \A i \in 1 .. Len(calls) - 1 : Tail(calls)[i] = calls[i + 1]
           /\ Len(calls) = 1 => Tail(calls) = << >>
<1>1. Len(calls) \in Nat /\ Len(calls) # 0
  OBVIOUS
<1>2. Head(calls) = calls[1] /\ calls[1] \in Frames
  BY <1>1
<1>3. Tail(calls) \in Seq(Frames) /\ Len(Tail(calls)) = Len(calls) - 1
  OBVIOUS
<1>4. \A i \in 1 .. Len(calls) - 1 : Tail(calls)[i] = calls[i + 1]
  BY <1>1
<1>5. ASSUME Len(calls) = 1 PROVE Tail(calls) = << >>
  <2> DEFINE t == Tail(calls)
  <2>1. t \in Seq(Frames) /\ Len(t) = 0
    BY <1>3, <1>5
  <2> HIDE DEF t
  <2>2. t = << >>
    BY <2>1
  <2> QED BY <2>2 DEF t
<1> QED BY <1>1, <1>2, <1>3, <1>4, <1>5

-----------------------------------------------------------------------------
LEMMA StartupInit == ServicesInit => ServicesIInv
<1> SUFFICES ASSUME ServicesInit PROVE ServicesIInv
  OBVIOUS
<1>1. ServicesTypeOK
  BY RegistryEntries DEF ServicesInit, ServicesTypeOK, LifecycleState
<1>2. StartupInv
  BY DEF ServicesInit, StartupInv, CallsInv, TriedInv,
         FinalizedInv, FailuresAreListed
<1> QED BY <1>1, <1>2 DEF ServicesIInv

LEMMA ContactStep == ServicesIInv /\ ContactSafety => ServicesIInv'
<1> SUFFICES ASSUME ServicesIInv, ContactSafety PROVE ServicesIInv'
  OBVIOUS
<1>0. ServicesTypeOK /\ FinalizedInv /\ CallsInv
  BY DEF ServicesIInv, StartupInv
<1>1. "safety_gateway" \in Services
  BY ServiceNames
<1>2. PICK after \in AfterActivate("safety_gateway", st["safety_gateway"]) :
        st' = [st EXCEPT !["safety_gateway"] = after]
  BY DEF ContactSafety
<1>3. after \in LifecycleState /\ after # "FINALIZED"
  BY <1>0, <1>1, <1>2, ActivateKeeps DEF ServicesTypeOK, FinalizedInv, ContactSafety
<1>4. phase = "contact" /\ phase' = "boot" /\ turn = 1 /\ UNCHANGED <<turn, stack, failed, retry>>
  BY <1>0 DEF ContactSafety, FinalizedInv
<1>5. ServicesTypeOK'
  BY <1>0, <1>2, <1>3, <1>4 DEF ServicesTypeOK
<1>6. \A s \in Services : st'[s] # "FINALIZED"
  BY <1>0, <1>2, <1>3, <1>4 DEF ServicesTypeOK, FinalizedInv
<1>7. FinalizedInv' /\ TriedInv' /\ CallsInv' /\ FailuresAreListed'
  BY <1>0, <1>4, <1>6, ActivationEntries
  DEF FinalizedInv, TriedInv, CallsInv, FailuresAreListed
<1> QED BY <1>5, <1>7 DEF ServicesIInv, StartupInv

(* boot calls _activate_with_deps, and that calls itself: no service changes. *)
LEMMA CallStep ==
    ServicesIInv /\ (StartService \/ VisitDependency) => ServicesIInv'
<1> SUFFICES ASSUME ServicesIInv, StartService \/ VisitDependency PROVE ServicesIInv'
  OBVIOUS
<1>0. ServicesTypeOK /\ FinalizedInv /\ CallsInv /\ TriedInv /\ FailuresAreListed
  BY DEF ServicesIInv, StartupInv
<1>1. stack \in Seq(Frames) /\ UNCHANGED <<phase, turn, st, failed, retry>>
  BY <1>0 DEF ServicesTypeOK, Frames, StartService, VisitDependency
<1>2. stack' \in Seq(Frames) /\ CallsInv'
  <2>1. CASE StartService
    <3> DEFINE s == ActivationOrder[turn]
    <3>1. turn \in 1 .. 11 /\ stack' = <<Frame(s)>> /\ phase = "boot"
      BY <1>0, <2>1, ActivationEntries, RegistryEntries DEF StartService, ServicesTypeOK
    <3>2. s \in Services
      BY <3>1, ActivationIsComplete
    <3> HIDE DEF s
    <3>3. stack' \in Seq(Frames) /\ stack'[Len(stack')].svc = s
      BY <3>1, <3>2, FrameIsTyped
    <3> QED BY <1>1, <3>1, <3>3, ActivationEntries DEF CallsInv, s
  <2>2. CASE VisitDependency
    <3> DEFINE rest == [Head(stack) EXCEPT !.deps = Tail(@)]
               call == Frame(Head(Head(stack).deps))
    <3>1. stack # << >> /\ Head(stack).deps # << >> /\ stack' = <<call, rest>> \o Tail(stack)
      BY <2>2 DEF VisitDependency
    <3>2. Head(stack) \in Frames /\ Head(stack) = stack[1] /\ Tail(stack) \in Seq(Frames)
          /\ Len(stack) \in Nat \ {0} /\ Len(Tail(stack)) = Len(stack) - 1
          /\ \A i \in 1 .. Len(stack) - 1 : Tail(stack)[i] = stack[i + 1]
      BY <1>1, <3>1, InnermostCall
    <3>3. rest \in Frames /\ rest.svc = Head(stack).svc
      <4>1. Tail(Head(stack).deps) \in Seq(Services)
        BY <3>1, <3>2 DEF Frames
      <4> QED BY <3>2, <4>1, DepsReplaced DEF Frames
    <3>4. call \in Frames
      BY <3>1, <3>2, FrameIsTyped DEF Frames
    <3> HIDE DEF rest, call
    <3>5. stack' \in Seq(Frames) /\ Len(stack') = Len(stack) + 1
      BY <3>1, <3>2, <3>3, <3>4
    <3>6. stack'[Len(stack')].svc = stack[Len(stack)].svc
      <4>1. CASE Len(stack) = 1
        BY <3>1, <3>2, <3>3, <3>4, <3>5, <4>1
      <4>2. CASE Len(stack) # 1
        <5>1. stack'[Len(stack) + 1] = Tail(stack)[Len(stack) - 1]
          BY <3>1, <3>2, <3>3, <3>4, <4>2
        <5> QED BY <3>2, <3>5, <4>2, <5>1
      <4> QED BY <4>1, <4>2
    <3> QED BY <1>0, <1>1, <3>1, <3>5, <3>6 DEF CallsInv
  <2> QED BY <2>1, <2>2
<1>3. ServicesTypeOK'
  BY <1>0, <1>1, <1>2 DEF ServicesTypeOK, Frames
<1>4. FinalizedInv' /\ TriedInv' /\ FailuresAreListed'
  BY <1>0, <1>1 DEF FinalizedInv, TriedInv, FailuresAreListed
<1> QED BY <1>2, <1>3, <1>4 DEF ServicesIInv, StartupInv

(* A call reaches the service it is for. The outermost one ends the turn, and
   its service is active then or on the list; one for a dependency may change
   a service that had its turn, but an active one stays as it is. *)
LEMMA ActivateStep == ServicesIInv /\ ActivateService => ServicesIInv'
<1> SUFFICES ASSUME ServicesIInv, ActivateService PROVE ServicesIInv'
  OBVIOUS
<1> DEFINE s == Head(stack).svc
<1>0. ServicesTypeOK /\ FinalizedInv /\ CallsInv /\ TriedInv
  BY DEF ServicesIInv, StartupInv
<1>1. stack # << >> /\ stack \in Seq(Frames) /\ stack' = Tail(stack) /\ UNCHANGED <<phase, retry>>
  BY <1>0 DEF ActivateService, ServicesTypeOK, Frames
<1>2. s \in Services /\ Head(stack) = stack[1] /\ Len(stack) \in Nat \ {0}
      /\ stack' \in Seq(Frames) /\ Len(stack') = Len(stack) - 1
      /\ (Len(stack) # 1 => stack'[Len(stack')] = stack[Len(stack)])
      /\ (Len(stack) = 1 => stack' = << >>)
  <2>1. /\ Head(stack) \in Frames /\ Head(stack) = stack[1] /\ Len(stack) \in Nat \ {0}
        /\ stack' \in Seq(Frames) /\ Len(stack') = Len(stack) - 1
        /\ \A i \in 1 .. Len(stack) - 1 : stack'[i] = stack[i + 1]
        /\ Len(stack) = 1 => stack' = << >>
    BY <1>1, InnermostCall
  <2>2. s \in Services
    BY <2>1 DEF Frames
  <2>3. Len(stack) # 1 => stack'[Len(stack')] = stack[Len(stack)]
    <3>1. Len(stack) # 1 => Len(stack') \in 1 .. Len(stack) - 1 /\ Len(stack') + 1 = Len(stack)
      BY <2>1
    <3> HIDE DEF s
    <3> QED BY <2>1, <3>1
  <2> QED BY <2>1, <2>2, <2>3
<1>3. phase = "boot" /\ phase' = "boot" /\ turn \in 1 .. 11
      /\ stack[Len(stack)].svc = ActivationOrder[turn]
  BY <1>0, <1>1, ActivationEntries, RegistryEntries DEF CallsInv, ServicesTypeOK
<1>4. PICK after \in AfterActivate(s, st[s]) :
        /\ st' = [st EXCEPT ![s] = after]
        /\ turn' = TurnAfter(after = "ACTIVE")
        /\ failed' = FailedAfter(s, after = "ACTIVE")
  BY DEF ActivateService
<1> HIDE DEF s
<1>5. st[s] \in LifecycleState /\ st[s] # "FINALIZED"
  BY <1>0, <1>2, <1>3 DEF ServicesTypeOK, FinalizedInv
<1>6. after \in LifecycleState /\ after # "FINALIZED" /\ (st[s] = "ACTIVE" => after = "ACTIVE")
  BY <1>2, <1>4, <1>5, ActivateKeeps
<1>7. st' \in [Services -> LifecycleState] /\ st'[s] = after
      /\ \A r \in Services : r # s => st'[r] = st[r]
  BY <1>0, <1>2, <1>4, <1>6 DEF ServicesTypeOK
<1>8. /\ failed \subseteq failed' /\ failed' \subseteq Services
      /\ turn' = IF Len(stack) = 1 THEN turn + 1 ELSE turn
      /\ Len(stack) = 1 /\ after # "ACTIVE" => s \in failed'
  BY <1>0, <1>2, <1>4 DEF TurnAfter, FailedAfter, ServicesTypeOK
<1>9. ServicesTypeOK'
  <2>1. turn' \in 1 .. Len(Registry) + 1
    BY <1>3, <1>8, RegistryEntries
  <2>2. stack' \in Seq([svc : Services, deps : Seq(Services)])
    BY <1>2 DEF Frames
  <2>3. retry' \subseteq failed'
    BY <1>0, <1>1, <1>8 DEF ServicesTypeOK
  <2> QED BY <1>0, <1>1, <1>7, <1>8, <2>1, <2>2, <2>3 DEF ServicesTypeOK
<1>10. CallsInv'
  <2>1. CASE Len(stack) = 1
    BY <1>2, <2>1 DEF CallsInv
  <2>2. CASE Len(stack) # 1
    <3>1. turn' = turn /\ turn \in 1 .. 11 /\ phase' = "boot"
      BY <1>3, <1>8, <2>2
    <3>2. stack'[Len(stack')].svc = ActivationOrder[turn']
      BY <1>2, <1>3, <2>2, <3>1
    <3>3. turn' <= Len(ActivationOrder)
      BY <3>1, ActivationEntries
    <3> QED BY <3>1, <3>2, <3>3 DEF CallsInv
  <2> QED BY <2>1, <2>2
<1>11. TriedInv'
  <2> SUFFICES ASSUME NEW i \in 1 .. turn' - 1
               PROVE  st'[ActivationOrder[i]] = "ACTIVE" \/ ActivationOrder[i] \in failed'
    BY <1>3, <1>8, ActivationEntries DEF TriedInv
  <2>1. i \in 1 .. 11 /\ ActivationOrder[i] \in Services
    BY <1>3, <1>8, ActivationIsComplete
  <2>2. CASE i \in 1 .. turn - 1
    <3>1. st[ActivationOrder[i]] = "ACTIVE" \/ ActivationOrder[i] \in failed
      BY <1>0, <1>3, <2>2 DEF TriedInv
    <3> QED BY <1>6, <1>7, <1>8, <2>1, <3>1
  <2>3. CASE i \notin 1 .. turn - 1
    <3>1. i = turn /\ Len(stack) = 1
      BY <1>3, <1>8, <2>3
    <3>2. ActivationOrder[i] = s
      BY <1>2, <1>3, <3>1 DEF s
    <3> QED BY <1>7, <1>8, <3>1, <3>2
  <2> QED BY <2>2, <2>3
<1>12. FinalizedInv' /\ FailuresAreListed'
  BY <1>0, <1>3, <1>6, <1>7 DEF FinalizedInv, FailuresAreListed
<1> QED BY <1>9, <1>10, <1>11, <1>12 DEF ServicesIInv, StartupInv

(* The loop is over: every service but the safety gateway had its turn. *)
LEMMA BootDoneStep == ServicesIInv /\ BootDone => ServicesIInv'
<1> SUFFICES ASSUME ServicesIInv, BootDone PROVE ServicesIInv'
  OBVIOUS
<1>0. ServicesTypeOK /\ FinalizedInv /\ CallsInv /\ TriedInv
  BY DEF ServicesIInv, StartupInv
<1>1. phase = "boot" /\ phase' = "up" /\ turn = 12 /\ turn' = 1 /\ stack = << >>
      /\ UNCHANGED <<stack, st, failed, retry>>
  BY <1>0, ActivationEntries, RegistryEntries DEF BootDone, TriedInv, ServicesTypeOK
<1>2. ServicesTypeOK'
  BY <1>0, <1>1, RegistryEntries DEF ServicesTypeOK
<1>3. FailuresAreListed'
  <2>1. \A i \in 1 .. 11 : st[ActivationOrder[i]] = "ACTIVE" \/ ActivationOrder[i] \in failed
    BY <1>0, <1>1 DEF TriedInv
  <2> QED BY <1>1, <2>1, ActivationIsComplete DEF FailuresAreListed
<1>4. FinalizedInv' /\ CallsInv' /\ TriedInv'
  BY <1>0, <1>1 DEF FinalizedInv, CallsInv, TriedInv
<1> QED BY <1>2, <1>3, <1>4 DEF ServicesIInv, StartupInv

(* restart_failed tries those on the list again; what stays down stays on it. *)
LEMMA RestartStep ==
    ServicesIInv /\ (RestartFailed \/ RestartService \/ RestartDone) => ServicesIInv'
<1> SUFFICES ASSUME ServicesIInv,
                    RestartFailed \/ RestartService \/ RestartDone
             PROVE  ServicesIInv'
  OBVIOUS
<1>0. ServicesTypeOK /\ FinalizedInv /\ CallsInv /\ FailuresAreListed
  BY DEF ServicesIInv, StartupInv
<1>1. /\ phase \in {"up", "restart"} /\ phase' \in {"up", "restart"}
      /\ UNCHANGED <<turn, stack>> /\ stack = << >>
  BY <1>0 DEF RestartFailed, RestartService, RestartDone, CallsInv
<1>2. CASE RestartFailed \/ RestartDone
  <2>1. UNCHANGED <<st, failed>> /\ retry' \subseteq failed'
    BY <1>0, <1>2 DEF RestartFailed, RestartDone, ServicesTypeOK
  <2>2. ServicesTypeOK'
    BY <1>0, <1>1, <2>1 DEF ServicesTypeOK
  <2>3. FinalizedInv' /\ CallsInv' /\ TriedInv' /\ FailuresAreListed'
    BY <1>0, <1>1, <2>1
    DEF FinalizedInv, CallsInv, TriedInv, FailuresAreListed
  <2> QED BY <2>2, <2>3 DEF ServicesIInv, StartupInv
<1>3. CASE RestartService
  <2>0. PICK s \in retry : \E after \in AfterActivate(s, "UNCONFIGURED") :
          /\ st' = [st EXCEPT ![s] = after]
          /\ failed' = FailedAfterRestart(s, after = "ACTIVE")
          /\ retry' = retry \ {s}
    BY <1>3 DEF RestartService
  <2>1. PICK after \in AfterActivate(s, "UNCONFIGURED") :
          /\ st' = [st EXCEPT ![s] = after]
          /\ failed' = FailedAfterRestart(s, after = "ACTIVE")
          /\ retry' = retry \ {s}
    BY <2>0
  <2>2. s \in Services /\ s \in failed
    BY <1>0 DEF ServicesTypeOK
  <2>3. after \in LifecycleState /\ after # "FINALIZED"
    BY <2>1, <2>2, ActivateKeeps DEF LifecycleState
  <2>4. failed' \subseteq failed /\ failed \subseteq failed' \cup {s} /\ (after # "ACTIVE" => s \in failed')
    BY <2>1, <2>2 DEF FailedAfterRestart
  <2>5. st' \in [Services -> LifecycleState] /\ st'[s] = after
        /\ \A r \in Services : r # s => st'[r] = st[r]
    BY <1>0, <2>1, <2>2, <2>3 DEF ServicesTypeOK
  <2>6. retry' \subseteq failed'
    BY <1>0, <2>1, <2>4 DEF ServicesTypeOK
  <2>7. ServicesTypeOK'
    BY <1>0, <1>1, <2>4, <2>5, <2>6 DEF ServicesTypeOK
  <2>8. FailuresAreListed'
    BY <1>0, <1>1, <2>4, <2>5 DEF FailuresAreListed
  <2>9. FinalizedInv' /\ CallsInv' /\ TriedInv'
    BY <1>0, <1>1, <2>3, <2>5 DEF FinalizedInv, CallsInv, TriedInv
  <2> QED BY <2>7, <2>8, <2>9 DEF ServicesIInv, StartupInv
<1> QED BY <1>2, <1>3

LEMMA ShutdownStep ==
    ServicesIInv /\ (RequestShutdown \/ ShutdownService \/ ShutdownDone)
        => ServicesIInv'
<1> SUFFICES ASSUME ServicesIInv,
                    RequestShutdown \/ ShutdownService \/ ShutdownDone
             PROVE  ServicesIInv'
  OBVIOUS
<1>0. ServicesTypeOK /\ FinalizedInv /\ CallsInv
  BY DEF ServicesIInv, StartupInv
<1>1. phase' \in {"shutdown", "down"} /\ UNCHANGED <<stack, failed, retry>> /\ stack = << >>
  BY <1>0 DEF RequestShutdown, ShutdownService, ShutdownDone, CallsInv
<1>2. CallsInv' /\ TriedInv' /\ FailuresAreListed'
  BY <1>1 DEF CallsInv, TriedInv, FailuresAreListed
<1>3. turn \in 1 .. 13
  BY <1>0, RegistryEntries DEF ServicesTypeOK
<1>4. CASE RequestShutdown
  <2>1. phase = "up" /\ phase' = "shutdown" /\ turn' = 1 /\ st' = st
    BY <1>4 DEF RequestShutdown
  <2>2. ServicesTypeOK'
    BY <1>0, <1>1, <2>1, RegistryEntries DEF ServicesTypeOK
  <2>3. FinalizedInv'
    BY <1>0, <2>1, RegistryEntries, ShutdownEntries DEF FinalizedInv
  <2> QED BY <1>2, <2>2, <2>3 DEF ServicesIInv, StartupInv
<1>5. CASE ShutdownService
  <2> DEFINE s == ShutdownOrder[turn]
  <2>1. phase = "shutdown" /\ phase' = "shutdown" /\ turn \in 1 .. 12 /\ turn' = turn + 1
        /\ st' = [st EXCEPT ![s] = "FINALIZED"]
    BY <1>3, <1>5, RegistryEntries DEF ShutdownService
  <2>2. s \in Services
    BY <2>1, ShutdownEntries
  <2>3. \A i \in 1 .. 12 : ShutdownOrder[i] \in Services
                           /\ (ShutdownOrder[i] = s => i = turn)
    BY <2>1, ShutdownEntries
  <2> HIDE DEF s
  <2>4. st' \in [Services -> LifecycleState] /\ st'[s] = "FINALIZED"
        /\ \A r \in Services : r # s => st'[r] = st[r]
    BY <1>0, <2>1, <2>2 DEF ServicesTypeOK, LifecycleState
  <2>5. ServicesTypeOK'
    BY <1>0, <1>1, <2>1, <2>4, RegistryEntries DEF ServicesTypeOK
  <2>6. ASSUME NEW i \in 1 .. 12
        PROVE  st'[ShutdownOrder[i]] = "FINALIZED" <=> i < turn'
    <3>1. st[ShutdownOrder[i]] = "FINALIZED" <=> i < turn
      BY <1>0, <2>1, RegistryEntries DEF FinalizedInv
    <3>2. CASE i = turn
      BY <2>1, <2>4, <3>2 DEF s
    <3>3. CASE i # turn
      BY <2>1, <2>3, <2>4, <3>1, <3>3
    <3> QED BY <3>2, <3>3
  <2>7. FinalizedInv'
    BY <2>1, <2>6, RegistryEntries DEF FinalizedInv
  <2> QED BY <1>2, <2>5, <2>7 DEF ServicesIInv, StartupInv
<1>6. CASE ShutdownDone
  <2>1. phase = "shutdown" /\ phase' = "down" /\ turn = 13 /\ turn' = 1 /\ st' = st
    BY <1>3, <1>6, RegistryEntries DEF ShutdownDone
  <2>2. \A i \in 1 .. 12 : st[ShutdownOrder[i]] = "FINALIZED"
    BY <1>0, <2>1, RegistryEntries DEF FinalizedInv
  <2>3. FinalizedInv'
    BY <2>1, <2>2, ShutdownEntries DEF FinalizedInv
  <2>4. ServicesTypeOK'
    BY <1>0, <1>1, <2>1, RegistryEntries DEF ServicesTypeOK
  <2> QED BY <1>2, <2>3, <2>4 DEF ServicesIInv, StartupInv
<1> QED BY <1>4, <1>5, <1>6

LEMMA StartupNext == ServicesIInv /\ [ServicesNext]_servicesVars => ServicesIInv'
<1> SUFFICES ASSUME ServicesIInv, [ServicesNext]_servicesVars PROVE ServicesIInv'
  OBVIOUS
<1>1. CASE UNCHANGED servicesVars
  BY <1>1 DEF servicesVars, ServicesIInv, ServicesTypeOK, StartupInv, CallsInv,
              TriedInv, FinalizedInv, FailuresAreListed
<1>2. CASE ServicesNext
  BY <1>2, ContactStep, CallStep, ActivateStep, BootDoneStep, RestartStep, ShutdownStep
  DEF ServicesNext, BootServices
<1> QED BY <1>1, <1>2

(* What is finalized already is all that shutdown has come to, and a service
   comes before what it requires. *)
LEMMA DependentsFirst == ServicesIInv => DependentsStopFirst
<1> SUFFICES ASSUME ServicesIInv, NEW s \in Services,
                    NEW d \in ToSet(Requires[s]), st[d] = "FINALIZED"
             PROVE  st[s] = "FINALIZED"
  BY DEF DependentsStopFirst
<1>0. ServicesTypeOK /\ FinalizedInv
  BY DEF ServicesIInv, StartupInv
<1>1. PICK i \in 1 .. 12 : ShutdownOrder[i] = s
  BY ShutdownEntries
<1>2. PICK j \in 1 .. 12 : ShutdownOrder[j] = d /\ i < j
  BY <1>1, RequirementsComeLater
<1>3. d \in Services
  BY <1>2, ShutdownEntries
<1>4. CASE phase = "shutdown"
  <2>1. j < turn /\ turn \in 1 .. 13
    BY <1>0, <1>2, <1>4, RegistryEntries DEF FinalizedInv, ServicesTypeOK
  <2>2. i < turn
    BY <1>2, <2>1
  <2> QED BY <1>0, <1>1, <1>4, <2>2, RegistryEntries DEF FinalizedInv
<1>5. CASE phase # "shutdown"
  BY <1>0, <1>3, <1>5 DEF FinalizedInv, ServicesTypeOK
<1> QED BY <1>4, <1>5

LEMMA StartupHolds == ServicesSpec => []ServicesIInv
BY StartupInit, StartupNext, PTL DEF ServicesSpec

-----------------------------------------------------------------------------
(* Every service is in a state of ManagedService, the calls of
   _activate_with_deps are for registered services, and restart_failed goes
   through services that are still on the list of failed ones. *)
THEOREM ServicesTypeCorrect == ServicesSpec => []ServicesTypeOK
<1>1. ServicesIInv => ServicesTypeOK
  BY DEF ServicesIInv
<1> QED BY <1>1, StartupHolds, PTL

(* Once boot is over, every service that is not active, the safety gateway
   apart, is on the supervisor's list of failed services, before, during and
   after restart_failed: whichever hooks fail, and however often a service is
   tried as a dependency and in its own turn. *)
THEOREM FailedServicesAreListed == ServicesSpec => []FailuresAreListed
<1>1. ServicesIInv => FailuresAreListed
  BY DEF ServicesIInv, StartupInv
<1> QED BY <1>1, StartupHolds, PTL

(* request_shutdown finalizes no service before those that require it. *)
THEOREM ShutdownRespectsRequirements == ServicesSpec => []DependentsStopFirst
BY DependentsFirst, StartupHolds, PTL
-----------------------------------------------------------------------------
(* How long boot can take *)

LEMMA DepthsAndSteps ==
    ASSUME NEW s \in Services
    PROVE  Depth[s] \in 0 .. 3 /\ CallSteps[s] \in 1 .. 21
BY DEF Depth, CallSteps

LEMMA UpToFour == \A n \in Nat : n # 0 /\ n <= 4 => n \in 1 .. 4
OBVIOUS

LEMMA CallIsForAService ==
    ASSUME ServicesTypeOK, NEW i \in 1 .. Len(stack)
    PROVE  stack[i] \in Frames /\ stack[i].svc \in Services /\ Depth[stack[i].svc] \in 0 .. 3
<1>1. stack \in Seq(Frames)
  BY DEF ServicesTypeOK, Frames
<1>2. stack[i] \in Frames
  BY <1>1
<1>3. stack[i].svc \in Services
  BY <1>2 DEF Frames
<1> QED BY <1>2, <1>3, DepthsAndSteps

LEMMA StepsAreNatural ==
    ASSUME NEW deps \in Seq(Services)
    PROVE  StepsOf(deps) \in Nat /\ StepsOf(deps) >= 1
<1> DEFINE visit(i) == IF i <= Len(deps) THEN 1 + CallSteps[deps[i]] ELSE 0
<1>1. \A i \in 1 .. 4 : visit(i) \in Nat
  <2> SUFFICES ASSUME NEW i \in 1 .. 4 PROVE visit(i) \in Nat
    OBVIOUS
  <2>1. CASE i <= Len(deps)
    <3>1. deps[i] \in Services
      BY <2>1
    <3> DEFINE c == CallSteps[deps[i]]
    <3>2. c \in 1 .. 21
      BY <3>1, DepthsAndSteps
    <3>3. visit(i) = 1 + c
      BY <2>1
    <3> HIDE DEF c, visit
    <3>4. 1 + c \in Nat
      BY <3>2
    <3> QED BY <3>3, <3>4
  <2>2. CASE ~(i <= Len(deps))
    BY <2>2
  <2> QED BY <2>1, <2>2
<1>2. StepsOf(deps) = 1 + visit(1) + visit(2) + visit(3) + visit(4)
  BY DEF StepsOf
<1>3. visit(1) \in Nat /\ visit(2) \in Nat /\ visit(3) \in Nat /\ visit(4) \in Nat
  BY <1>1
<1> HIDE DEF visit
<1> QED BY <1>2, <1>3

(* What a call has to do at first: the services required are of a smaller
   depth, and the steps add up to those of the whole call. *)
LEMMA WholeCall ==
    ASSUME NEW s \in Services
    PROVE  /\ Len(Requires[s]) <= 4
           /\ \A j \in 1 .. Len(Requires[s]) : Depth[Requires[s][j]] < Depth[s]
           /\ StepsOf(Requires[s]) = CallSteps[s]
<1>0. /\ CallSteps["safety_gateway"] = 1 /\ CallSteps["world_model"] = 1
      /\ CallSteps["state_estimator"] = 3 /\ CallSteps["motion"] = 3
      /\ CallSteps["navigation"] = 9 /\ CallSteps["executive"] = 21
      /\ Depth["safety_gateway"] = 0 /\ Depth["world_model"] = 0
      /\ Depth["state_estimator"] = 1 /\ Depth["motion"] = 1
      /\ Depth["navigation"] = 2 /\ Depth["executive"] = 3
  BY ServiceNames DEF CallSteps, Depth
<1>1. CASE s \in {"safety_gateway", "world_model", "memory"}
  <2>1. Requires[s] = << >> /\ CallSteps[s] = 1
    BY <1>1 DEF Requires, CallSteps
  <2>2. StepsOf(<< >>) = 1
    BY DEF StepsOf
  <2> QED BY <2>1, <2>2
<1>2. CASE s = "navigation"
  <2> DEFINE r == <<"safety_gateway", "state_estimator", "world_model">>
  <2>1. Requires[s] = r
    BY <1>2 DEF Requires
  <2>2. Len(r) = 3 /\ r[1] = "safety_gateway" /\ r[2] = "state_estimator" /\ r[3] = "world_model"
    OBVIOUS
  <2> HIDE DEF r
  <2>3. StepsOf(r) = 9
    BY <1>0, <2>2 DEF StepsOf
  <2>4. \A j \in 1 .. 3 : j = 1 \/ j = 2 \/ j = 3
    OBVIOUS
  <2> QED BY <1>0, <1>2, <2>1, <2>2, <2>3, <2>4
<1>3. CASE s = "executive"
  <2> DEFINE r == <<"safety_gateway", "motion", "navigation", "state_estimator">>
  <2>1. Requires[s] = r
    BY <1>3 DEF Requires
  <2>2. /\ Len(r) = 4 /\ r[1] = "safety_gateway" /\ r[2] = "motion" /\ r[3] = "navigation"
        /\ r[4] = "state_estimator"
    OBVIOUS
  <2> HIDE DEF r
  <2>3. StepsOf(r) = 21
    BY <1>0, <2>2 DEF StepsOf
  <2>4. \A j \in 1 .. 4 : j = 1 \/ j = 2 \/ j = 3 \/ j = 4
    OBVIOUS
  <2> QED BY <1>0, <1>3, <2>1, <2>2, <2>3, <2>4
<1>4. CASE s \notin {"safety_gateway", "world_model", "memory", "navigation", "executive"}
  <2> DEFINE r == <<"safety_gateway">>
  <2>1. Requires[s] = r /\ CallSteps[s] = 3 /\ Depth[s] = 1
    BY <1>4 DEF Requires, CallSteps, Depth
  <2>2. Len(r) = 1 /\ r[1] = "safety_gateway"
    OBVIOUS
  <2> HIDE DEF r
  <2>3. StepsOf(r) = 3
    BY <1>0, <2>2 DEF StepsOf
  <2>4. \A j \in 1 .. 1 : j = 1
    OBVIOUS
  <2> QED BY <1>0, <2>1, <2>2, <2>3, <2>4
<1> QED BY <1>1, <1>2, <1>3, <1>4

(* A visit takes its own step and those of the call it makes from the rest. *)
LEMMA OneVisit ==
    ASSUME NEW deps \in Seq(Services), deps # << >>, Len(deps) <= 4
    PROVE  StepsOf(deps) = StepsOf(Tail(deps)) + 1 + CallSteps[Head(deps)]
<1> DEFINE t == Tail(deps)
           v(d, i) == IF i <= Len(d) THEN 1 + CallSteps[d[i]] ELSE 0
<1>1. Len(deps) \in 1 .. 4 /\ Head(deps) = deps[1] /\ Len(t) = Len(deps) - 1
      /\ \A i \in 1 .. Len(t) : t[i] = deps[i + 1]
  <2>1. Len(deps) \in 1 .. 4
    <3>1. Len(deps) \in Nat /\ Len(deps) # 0
      OBVIOUS
    <3> QED BY <3>1, UpToFour
  <2>2. Len(t) = Len(deps) - 1 /\ Head(deps) = deps[1]
    OBVIOUS
  <2>3. \A i \in 1 .. Len(deps) - 1 : t[i] = deps[i + 1]
    OBVIOUS
  <2> QED BY <2>1, <2>2, <2>3
<1>2. \A i \in 1 .. Len(deps) : CallSteps[deps[i]] \in Nat
  <2> TAKE i \in 1 .. Len(deps)
  <2>1. deps[i] \in Services
    OBVIOUS
  <2>2. CallSteps[deps[i]] \in 1 .. 21
    BY <2>1, DepthsAndSteps
  <2> QED BY <2>2
<1>3. StepsOf(deps) = 1 + v(deps, 1) + v(deps, 2) + v(deps, 3) + v(deps, 4)
      /\ StepsOf(t) = 1 + v(t, 1) + v(t, 2) + v(t, 3) + v(t, 4)
  BY DEF StepsOf
<1> HIDE DEF t
<1>4. v(deps, 1) = 1 + CallSteps[deps[1]] /\ v(t, 4) = 0
      /\ v(t, 1) = v(deps, 2) /\ v(t, 2) = v(deps, 3) /\ v(t, 3) = v(deps, 4)
  BY <1>1
<1>5. v(deps, 2) \in Nat /\ v(deps, 3) \in Nat /\ v(deps, 4) \in Nat /\ CallSteps[deps[1]] \in Nat
  BY <1>1, <1>2
<1> HIDE DEF v
<1>6. StepsOf(deps) = StepsOf(t) + 1 + CallSteps[Head(deps)]
  BY <1>1, <1>3, <1>4, <1>5
<1> QED BY <1>6 DEF t

(* The calls in progress after a visit *)
LEMMA VisitedCalls ==
    ASSUME ServicesTypeOK, VisitDependency
    PROVE  /\ stack[1] \in Frames /\ stack[1].deps # << >> /\ Len(stack) \in Nat \ {0}
           /\ Head(stack[1].deps) \in Services
           /\ stack' \in Seq(Frames) /\ Len(stack') = Len(stack) + 1
           /\ stack'[1] = Frame(Head(stack[1].deps))
           /\ stack'[2].svc = stack[1].svc /\ stack'[2].deps = Tail(stack[1].deps)
           /\ \A i \in 3 .. Len(stack) + 1 : stack'[i] = stack[i - 1]
<1> DEFINE rest == [Head(stack) EXCEPT !.deps = Tail(@)]
           call == Frame(Head(Head(stack).deps))
           tail == Tail(stack)
<1>1. /\ stack # << >> /\ Head(stack).deps # << >> /\ stack' = <<call, rest>> \o tail
      /\ stack \in Seq(Frames)
  BY DEF VisitDependency, ServicesTypeOK, Frames
<1>2. Head(stack) \in Frames /\ Head(stack) = stack[1] /\ tail \in Seq(Frames)
      /\ Len(stack) \in Nat \ {0} /\ Len(tail) = Len(stack) - 1
      /\ \A i \in 1 .. Len(stack) - 1 : tail[i] = stack[i + 1]
  BY <1>1, InnermostCall
<1>3. Head(stack).deps \in Seq(Services) /\ Head(Head(stack).deps) \in Services
      /\ Tail(Head(stack).deps) \in Seq(Services)
  BY <1>1, <1>2 DEF Frames
<1>4. rest \in Frames /\ rest.svc = stack[1].svc /\ rest.deps = Tail(stack[1].deps)
  BY <1>2, <1>3, DepsReplaced DEF Frames
<1>5. call \in Frames /\ call = Frame(Head(stack[1].deps))
  BY <1>2, <1>3, FrameIsTyped
<1> HIDE DEF rest, call, tail
<1>6. stack' \in Seq(Frames) /\ Len(stack') = Len(stack) + 1
      /\ stack'[1] = call /\ stack'[2] = rest
      /\ \A i \in 3 .. Len(stack) + 1 : stack'[i] = tail[i - 2]
  BY <1>1, <1>2, <1>4, <1>5
<1>7. ASSUME NEW i \in 3 .. Len(stack) + 1 PROVE stack'[i] = stack[i - 1]
  <2>1. i - 2 \in 1 .. Len(stack) - 1 /\ (i - 2) + 1 = i - 1
    BY <1>2
  <2> QED BY <1>2, <1>6, <2>1
<1> QED BY <1>1, <1>2, <1>3, <1>4, <1>5, <1>6, <1>7

-----------------------------------------------------------------------------
(* A visited service is below the one that requires it. *)
LEMMA NestingVisit == ServicesTypeOK /\ NestingInv /\ VisitDependency => NestingInv'
<1> SUFFICES ASSUME ServicesTypeOK, NestingInv, VisitDependency,
                    NEW i \in 1 .. Len(stack')
             PROVE  /\ Depth[stack'[i].svc] + Len(stack') <= 3 + i
                    /\ Len(stack'[i].deps) <= 4
                    /\ \A j \in 1 .. Len(stack'[i].deps) :
                          Depth[stack'[i].deps[j]] < Depth[stack'[i].svc]
  BY DEF NestingInv
<1> DEFINE d == Head(stack[1].deps)
<1>1. /\ stack[1] \in Frames /\ stack[1].deps # << >> /\ Len(stack) \in Nat \ {0} /\ d \in Services
      /\ Len(stack') = Len(stack) + 1 /\ stack'[1] = Frame(d)
      /\ stack'[2].svc = stack[1].svc /\ stack'[2].deps = Tail(stack[1].deps)
      /\ \A k \in 3 .. Len(stack) + 1 : stack'[k] = stack[k - 1]
  BY VisitedCalls
<1>2. /\ Depth[stack[1].svc] + Len(stack) <= 4 /\ Len(stack[1].deps) <= 4
      /\ \A j \in 1 .. Len(stack[1].deps) : Depth[stack[1].deps[j]] < Depth[stack[1].svc]
  BY <1>1 DEF NestingInv
<1>3. /\ stack[1].svc \in Services /\ stack[1].deps \in Seq(Services)
      /\ Len(stack[1].deps) \in Nat \ {0} /\ d = stack[1].deps[1]
  BY <1>1 DEF Frames
<1>4. Depth[d] < Depth[stack[1].svc] /\ Depth[d] \in 0 .. 3 /\ Depth[stack[1].svc] \in 0 .. 3
  BY <1>1, <1>2, <1>3, DepthsAndSteps
<1> HIDE DEF d
<1>5. CASE i = 1
  <2>1. stack'[1].svc = d /\ stack'[1].deps = Requires[d]
    BY <1>1 DEF Frame
  <2> QED BY <1>1, <1>2, <1>4, <1>5, <2>1, WholeCall
<1>6. CASE i = 2
  <2> DEFINE e == stack[1].deps
  <2>1. Len(Tail(e)) = Len(e) - 1 /\ \A j \in 1 .. Len(e) - 1 : Tail(e)[j] = e[j + 1]
    BY <1>1, <1>3
  <2>2. Len(e) \in 1 .. 4 /\ \A j \in 1 .. Len(e) : Depth[e[j]] < Depth[stack[1].svc]
    BY <1>2, <1>3, UpToFour, Zenon
  <2>3. stack'[2].deps = Tail(e) /\ stack'[2].svc = stack[1].svc
    BY <1>1
  <2> HIDE DEF e
  <2>4. \A j \in 1 .. Len(e) - 1 : j + 1 \in 1 .. Len(e)
    BY <2>2
  <2>5. \A j \in 1 .. Len(Tail(e)) : Depth[Tail(e)[j]] < Depth[stack[1].svc]
    BY <2>1, <2>2, <2>4
  <2>6. Len(Tail(e)) <= 4
    BY <2>1, <2>2
  <2>7. Depth[stack'[2].svc] + Len(stack') <= 3 + 2
    BY <1>1, <1>2, <1>4
  <2> QED BY <1>6, <2>3, <2>5, <2>6, <2>7
<1>7. CASE i \in 3 .. Len(stack) + 1
  <2>1. i - 1 \in 1 .. Len(stack) /\ stack'[i] = stack[i - 1]
    BY <1>1, <1>7
  <2>3. Depth[stack[i - 1].svc] \in 0 .. 3
    BY <2>1, CallIsForAService
  <2>4. Depth[stack[i - 1].svc] + Len(stack) <= 3 + (i - 1)
    BY <2>1 DEF NestingInv
  <2>5. Depth[stack'[i].svc] + Len(stack') <= 3 + i
    BY <1>1, <2>1, <2>3, <2>4
  <2> QED BY <2>1, <2>5 DEF NestingInv
<1> QED BY <1>1, <1>5, <1>6, <1>7

LEMMA NestingNext == ServicesTypeOK /\ NestingInv /\ [ServicesNext]_servicesVars => NestingInv'
<1> SUFFICES ASSUME ServicesTypeOK, NestingInv, [ServicesNext]_servicesVars PROVE NestingInv'
  OBVIOUS
<1>1. CASE VisitDependency
  BY <1>1, NestingVisit
<1>2. CASE StartService
  <2> DEFINE s == ActivationOrder[turn]
  <2>1. s \in Services /\ stack' = <<Frame(s)>>
    BY <1>2, ActivationEntries, ActivationIsComplete DEF StartService, ServicesTypeOK
  <2> HIDE DEF s
  <2>2. Len(stack') = 1 /\ stack'[1].svc = s /\ stack'[1].deps = Requires[s]
    BY <2>1 DEF Frame
  <2>3. Depth[s] \in 0 .. 3
    BY <2>1, DepthsAndSteps
  <2> QED BY <2>1, <2>2, <2>3, WholeCall DEF NestingInv
<1>3. CASE ActivateService
  <2>1. /\ stack \in Seq(Frames) /\ stack # << >> /\ stack' = Tail(stack)
    BY <1>3 DEF ActivateService, ServicesTypeOK, Frames
  <2>2. /\ Len(stack) \in Nat \ {0} /\ Len(stack') = Len(stack) - 1
        /\ \A i \in 1 .. Len(stack) - 1 : stack'[i] = stack[i + 1]
    BY <2>1, InnermostCall
  <2> SUFFICES ASSUME NEW i \in 1 .. Len(stack')
               PROVE  /\ Depth[stack'[i].svc] + Len(stack') <= 3 + i
                      /\ Len(stack'[i].deps) <= 4
                      /\ \A j \in 1 .. Len(stack'[i].deps) :
                            Depth[stack'[i].deps[j]] < Depth[stack'[i].svc]
    BY DEF NestingInv
  <2>3. i + 1 \in 1 .. Len(stack) /\ stack'[i] = stack[i + 1]
    BY <2>2
  <2>5. Depth[stack[i + 1].svc] \in 0 .. 3
    BY <2>3, CallIsForAService
  <2>6. Depth[stack[i + 1].svc] + Len(stack) <= 3 + (i + 1)
    BY <2>3 DEF NestingInv
  <2>7. Depth[stack'[i].svc] + Len(stack') <= 3 + i
    BY <2>2, <2>3, <2>5, <2>6
  <2> QED BY <2>3, <2>7 DEF NestingInv
<1>4. CASE ~(VisitDependency \/ StartService \/ ActivateService)
  <2>1. stack' = stack
    BY <1>4 DEF ServicesNext, BootServices, ContactSafety, BootDone, RestartFailed, RestartService,
                RestartDone, RequestShutdown, ShutdownService, ShutdownDone, servicesVars
  <2> QED BY <2>1 DEF NestingInv
<1> QED BY <1>1, <1>2, <1>3, <1>4

LEMMA NestingHolds == ServicesSpec => []NestingInv
<1>1. ServicesInit => NestingInv
  BY DEF ServicesInit, NestingInv
<1>2. ServicesIInv => ServicesTypeOK
  BY DEF ServicesIInv
<1> QED BY <1>1, <1>2, NestingNext, StartupHolds, PTL DEF ServicesSpec

-----------------------------------------------------------------------------
(* The steps left in the i-th of the calls in progress *)
CallAt(i) == IF i <= Len(stack) THEN StepsOf(stack[i].deps) ELSE 0

LEMMA CallSum == StepsInCalls = CallAt(1) + CallAt(2) + CallAt(3) + CallAt(4)
BY DEF StepsInCalls, CallAt

LEMMA CallAtIsNatural ==
    ASSUME ServicesTypeOK
    PROVE  CallAt(1) \in Nat /\ CallAt(2) \in Nat /\ CallAt(3) \in Nat /\ CallAt(4) \in Nat
<1>1. ASSUME NEW i \in 1 .. 4 PROVE CallAt(i) \in Nat
  <2>1. CASE i <= Len(stack)
    <3>1. i \in 1 .. Len(stack)
      BY <2>1 DEF ServicesTypeOK
    <3>2. stack[i] \in Frames
      BY <3>1, CallIsForAService
    <3>3. stack[i].deps \in Seq(Services)
      BY <3>2 DEF Frames
    <3> QED BY <2>1, <3>3, StepsAreNatural DEF CallAt
  <2>2. CASE ~(i <= Len(stack))
    BY <2>2 DEF CallAt
  <2> QED BY <2>1, <2>2
<1>2. 1 \in 1 .. 4 /\ 2 \in 1 .. 4 /\ 3 \in 1 .. 4 /\ 4 \in 1 .. 4
  OBVIOUS
<1> QED BY <1>1, <1>2

(* There is room for one call more: a service with something left to visit is
   not at the bottom. *)
LEMMA VisitAdvances ==
    ASSUME ServicesTypeOK, NestingInv, VisitDependency
    PROVE  StepsInCalls' = StepsInCalls - 1 /\ StepsInCalls \in Nat \ {0}
<1> DEFINE e == stack[1].deps
           d == Head(e)
<1>1. /\ stack[1] \in Frames /\ e # << >> /\ Len(stack) \in Nat \ {0} /\ d \in Services
      /\ stack' \in Seq(Frames) /\ Len(stack') = Len(stack) + 1 /\ stack'[1] = Frame(d)
      /\ stack'[2].svc = stack[1].svc /\ stack'[2].deps = Tail(e)
      /\ \A k \in 3 .. Len(stack) + 1 : stack'[k] = stack[k - 1]
  BY VisitedCalls
<1>2. e \in Seq(Services)
  BY <1>1 DEF Frames
<1>3. /\ Depth[stack[1].svc] + Len(stack) <= 4 /\ Len(e) <= 4
      /\ \A j \in 1 .. Len(e) : Depth[e[j]] < Depth[stack[1].svc]
  BY <1>1 DEF NestingInv
<1>4. Len(stack) \in 1 .. 3
  <2>1. Len(e) \in Nat \ {0} /\ d = e[1]
    BY <1>1, <1>2
  <2>2. Depth[d] < Depth[stack[1].svc] /\ Depth[d] \in 0 .. 3
    BY <1>1, <1>3, <2>1, DepthsAndSteps
  <2>3. Depth[stack[1].svc] \in 0 .. 3
    BY <1>1, CallIsForAService
  <2>4. \A a, b \in 0 .. 3, n \in Nat \ {0} : a < b /\ b + n <= 4 => n \in 1 .. 3
    OBVIOUS
  <2> HIDE DEF d, e
  <2> QED BY <1>1, <1>3, <2>2, <2>3, <2>4
<1>5. StepsOf(e) = StepsOf(Tail(e)) + 1 + CallSteps[d]
  BY <1>1, <1>2, <1>3, OneVisit
<1>6. StepsOf(Tail(e)) \in Nat /\ CallSteps[d] \in Nat
  <2>1. Tail(e) \in Seq(Services)
    BY <1>1, <1>2
  <2>2. CallSteps[d] \in 1 .. 21
    BY <1>1, DepthsAndSteps
  <2>3. StepsOf(Tail(e)) \in Nat
    BY <2>1, StepsAreNatural
  <2>4. \A n \in 1 .. 21 : n \in Nat
    OBVIOUS
  <2> QED BY <2>2, <2>3, <2>4, Zenon
<1>7. CallAt(1) = StepsOf(e) /\ CallAt(4) = 0
  BY <1>4 DEF CallAt
<1> DEFINE After(i) == IF i <= Len(stack') THEN StepsOf(stack'[i].deps) ELSE 0
<1>8. StepsInCalls' = After(1) + After(2) + After(3) + After(4)
  BY DEF StepsInCalls, StepsOf
<1>9. After(1) = CallSteps[d] /\ After(2) = StepsOf(Tail(e))
  <2>1. stack'[1].deps = Requires[d]
    BY <1>1 DEF Frame
  <2>2. StepsOf(Requires[d]) = CallSteps[d]
    BY <1>1, WholeCall
  <2> QED BY <1>1, <1>4, <2>1, <2>2
<1>10. After(3) = CallAt(2) /\ After(4) = CallAt(3)
  <2>1. 3 <= Len(stack') => stack'[3] = stack[2]
    BY <1>1
  <2>2. 4 <= Len(stack') => stack'[4] = stack[3]
    BY <1>1
  <2>3. (3 <= Len(stack') <=> 2 <= Len(stack)) /\ (4 <= Len(stack') <=> 3 <= Len(stack))
    BY <1>1
  <2> QED BY <2>1, <2>2, <2>3 DEF CallAt
<1> HIDE DEF e, d, After
<1> QED BY <1>5, <1>6, <1>7, <1>8, <1>9, <1>10, CallSum, CallAtIsNatural

(* The call that ends was at its last step. *)
LEMMA ActivateAdvances ==
    ASSUME ServicesTypeOK, NestingInv, ActivateService
    PROVE  /\ StepsInCalls' = StepsInCalls - 1 /\ StepsInCalls \in Nat \ {0}
           /\ Len(stack) = 1 => stack' = << >> /\ StepsInCalls = 1
           /\ Len(stack) # 1 => stack' # << >>
<1>1. /\ stack \in Seq(Frames) /\ stack # << >> /\ stack' = Tail(stack) /\ Head(stack).deps = << >>
  BY DEF ActivateService, ServicesTypeOK, Frames
<1>2. /\ Len(stack) \in Nat \ {0} /\ Len(stack') = Len(stack) - 1 /\ Head(stack) = stack[1]
      /\ stack' \in Seq(Frames)
      /\ \A i \in 1 .. Len(stack) - 1 : stack'[i] = stack[i + 1]
      /\ Len(stack) = 1 => stack' = << >>
  BY <1>1, InnermostCall
<1>3. Len(stack) <= 4
  <2>1. Depth[stack[1].svc] \in 0 .. 3 /\ Depth[stack[1].svc] + Len(stack) <= 4
    BY <1>2, CallIsForAService DEF NestingInv
  <2> QED BY <1>2, <2>1
<1>4. CallAt(1) = 1
  <2>1. StepsOf(<< >>) = 1
    BY DEF StepsOf
  <2> QED BY <1>1, <1>2, <2>1 DEF CallAt
<1>5. Len(stack) = 1 => CallAt(2) = 0 /\ CallAt(3) = 0 /\ CallAt(4) = 0
  BY DEF CallAt
<1> DEFINE After(i) == IF i <= Len(stack') THEN StepsOf(stack'[i].deps) ELSE 0
<1>6. StepsInCalls' = After(1) + After(2) + After(3) + After(4)
  BY DEF StepsInCalls, StepsOf
<1>7. ASSUME NEW i \in 1 .. 3 PROVE After(i) = CallAt(i + 1)
  <2>1. i <= Len(stack') <=> i + 1 <= Len(stack)
    BY <1>2
  <2>2. i <= Len(stack') => stack'[i] = stack[i + 1]
    BY <1>2
  <2> QED BY <2>1, <2>2 DEF CallAt
<1>8. After(1) = CallAt(2) /\ After(2) = CallAt(3) /\ After(3) = CallAt(4)
  <2>1. After(1) = CallAt(1 + 1) /\ After(2) = CallAt(2 + 1) /\ After(3) = CallAt(3 + 1)
    BY <1>7
  <2> HIDE DEF After
  <2> QED BY <2>1
<1>9. After(4) = 0
  BY <1>2, <1>3
<1>10. Len(stack) # 1 => stack' # << >>
  BY <1>2
<1> HIDE DEF After
<1> QED BY <1>2, <1>4, <1>5, <1>6, <1>8, <1>9, <1>10, CallSum, CallAtIsNatural

LEMMA BootStepAdvances ==
    ASSUME ServicesIInv, NestingInv, ServicesNext, phase = "contact" \/ phase = "boot"
    PROVE  StepsLeft' \in Nat /\ StepsLeft' < StepsLeft
<1>0. ServicesTypeOK /\ FinalizedInv /\ CallsInv /\ TriedInv
  BY DEF ServicesIInv, StartupInv
<1> DEFINE turns == 12 - turn
<1>1. turn \in 1 .. 12 /\ turns \in 0 .. 11
  BY <1>0, ActivationEntries, RegistryEntries DEF ServicesTypeOK, FinalizedInv, TriedInv
<1>2. /\ phase = "contact" => StepsLeft = 2 + 22 * turns
      /\ phase = "boot" /\ stack = << >> => StepsLeft = 1 + 22 * turns
      /\ phase = "boot" /\ stack # << >> => StepsLeft = 1 + 22 * (turns - 1) + StepsInCalls
  <2>1. Len(ActivationOrder) + 1 - turn = turns /\ MaxCallSteps + 1 = 22
    BY <1>1, ActivationEntries DEF MaxCallSteps
  <2> HIDE DEF turns
  <2> QED BY <2>1 DEF StepsLeft
<1> DEFINE left == 12 - turn'
<1>2a. /\ phase' = "boot" /\ stack' = << >> => StepsLeft' = 1 + 22 * left
       /\ phase' = "boot" /\ stack' # << >> => StepsLeft' = 1 + 22 * (left - 1) + StepsInCalls'
       /\ phase' = "up" => StepsLeft' = 0
  <2>1. turn' \in 1 .. 13
    BY StartupNext, RegistryEntries DEF ServicesIInv, ServicesTypeOK
  <2>2. Len(ActivationOrder) + 1 - turn' = left /\ MaxCallSteps + 1 = 22
    BY <2>1, ActivationEntries DEF MaxCallSteps
  <2> HIDE DEF left
  <2> QED BY <2>2 DEF StepsLeft
<1>3. ContactSafety \/ StartService \/ VisitDependency \/ ActivateService \/ BootDone
  BY DEF ServicesNext, BootServices, RestartFailed, RestartService, RestartDone, RequestShutdown,
         ShutdownService, ShutdownDone
<1>4. stack # << >> => phase = "boot" /\ turn \in 1 .. 11
  BY <1>0, <1>1, ActivationEntries DEF CallsInv
<1>5. CASE ContactSafety
  <2>1. phase = "contact" /\ phase' = "boot" /\ stack' = stack /\ stack = << >> /\ turn' = turn
    BY <1>4, <1>5 DEF ContactSafety
  <2>2. StepsLeft = 2 + 22 * turns /\ StepsLeft' = 1 + 22 * turns
    BY <1>2, <1>2a, <2>1
  <2> QED BY <1>1, <2>2
<1>6. CASE StartService
  <2> DEFINE s == ActivationOrder[turn]
  <2>1. phase = "boot" /\ phase' = "boot" /\ stack = << >> /\ turn' = turn /\ turn \in 1 .. 11
        /\ stack' = <<Frame(s)>>
    BY <1>1, <1>6, ActivationEntries DEF StartService
  <2>2. s \in Services
    BY <2>1, ActivationIsComplete
  <2> HIDE DEF s
  <2>3. StepsInCalls' = CallSteps[s]
    <3>1. Len(stack') = 1 /\ stack'[1].deps = Requires[s]
      BY <2>1 DEF Frame
    <3> DEFINE After(i) == IF i <= Len(stack') THEN StepsOf(stack'[i].deps) ELSE 0
    <3>2. StepsInCalls' = After(1) + After(2) + After(3) + After(4)
      BY DEF StepsInCalls, StepsOf
    <3>3. StepsOf(Requires[s]) = CallSteps[s] /\ CallSteps[s] \in 1 .. 21
      BY <2>2, WholeCall, DepthsAndSteps
    <3>4. After(1) = CallSteps[s] /\ After(2) = 0 /\ After(3) = 0 /\ After(4) = 0
      BY <3>1, <3>3
    <3> HIDE DEF After
    <3> QED BY <3>2, <3>3, <3>4
  <2>4. StepsInCalls' \in 1 .. 21
    BY <2>2, <2>3, DepthsAndSteps
  <2>5. StepsLeft = 1 + 22 * turns /\ StepsLeft' = 1 + 22 * (turns - 1) + StepsInCalls'
    BY <1>2, <1>2a, <2>1
  <2>6. turns - 1 \in Nat /\ 22 * turns = 22 * (turns - 1) + 22
    BY <2>1
  <2> HIDE DEF turns
  <2>7. \A n \in 1 .. 21 : n \in Nat /\ n < 22
    OBVIOUS
  <2>8. StepsInCalls' \in Nat /\ StepsInCalls' < 22
    BY <2>4, <2>7, Zenon
  <2> QED BY <2>5, <2>6, <2>8
<1>7. CASE VisitDependency
  <2>1. phase' = "boot" /\ phase = "boot" /\ turn' = turn /\ turn \in 1 .. 11 /\ stack # << >>
    BY <1>4, <1>7 DEF VisitDependency
  <2>2. stack' # << >>
    <3>1. Len(stack') = Len(stack) + 1 /\ Len(stack) \in Nat
      BY <1>0, <1>7, VisitedCalls
    <3> QED BY <3>1
  <2>3. StepsInCalls' = StepsInCalls - 1 /\ StepsInCalls \in Nat \ {0}
    BY <1>0, <1>7, VisitAdvances
  <2>4. StepsLeft = 1 + 22 * (turns - 1) + StepsInCalls
        /\ StepsLeft' = 1 + 22 * (turns - 1) + StepsInCalls'
    BY <1>2, <1>2a, <2>1, <2>2
  <2>5. turns - 1 \in Nat
    BY <2>1
  <2> HIDE DEF turns
  <2> QED BY <2>3, <2>4, <2>5
<1>8. CASE ActivateService
  <2>1. phase' = "boot" /\ phase = "boot" /\ turn \in 1 .. 11 /\ stack # << >>
        /\ turn' = IF Len(stack) = 1 THEN turn + 1 ELSE turn
    BY <1>4, <1>8 DEF ActivateService, TurnAfter
  <2>2. /\ StepsInCalls' = StepsInCalls - 1 /\ StepsInCalls \in Nat \ {0}
        /\ Len(stack) = 1 => stack' = << >> /\ StepsInCalls = 1
        /\ Len(stack) # 1 => stack' # << >>
    BY <1>0, <1>8, ActivateAdvances
  <2>3. turns - 1 \in Nat /\ 12 - (turn + 1) = turns - 1
    BY <2>1
  <2>4. StepsLeft = 1 + 22 * (turns - 1) + StepsInCalls
    BY <1>2, <2>1
  <2>5. CASE Len(stack) = 1
    <3>1. StepsLeft' = 1 + 22 * (turns - 1)
      BY <1>2a, <2>1, <2>2, <2>3, <2>5
    <3> HIDE DEF turns
    <3> QED BY <2>2, <2>3, <2>4, <2>5, <3>1
  <2>6. CASE Len(stack) # 1
    <3>1. StepsLeft' = 1 + 22 * (turns - 1) + StepsInCalls'
      BY <1>2a, <2>1, <2>2, <2>6
    <3> HIDE DEF turns
    <3> QED BY <2>2, <2>3, <2>4, <3>1
  <2> QED BY <2>5, <2>6
<1>9. CASE BootDone
  <2>1. phase = "boot" /\ phase' = "up" /\ stack = << >>
    BY <1>9 DEF BootDone
  <2>2. StepsLeft = 1 + 22 * turns /\ StepsLeft' = 0
    BY <1>2, <1>2a, <2>1
  <2> QED BY <1>1, <2>2
<1> QED BY <1>3, <1>5, <1>6, <1>7, <1>8, <1>9

(* Every step of boot brings its end nearer, by a measure that is a natural
   number: whichever hooks fail, the recursion of _activate_with_deps through
   what services require, and the loop over the activation order, come to an
   end after at most 244 steps. *)
THEOREM BootIsBounded == ServicesSpec => BootAdvances
<1>1. ServicesIInv /\ NestingInv /\ [ServicesNext]_servicesVars =>
        [phase = "contact" \/ phase = "boot"
            => StepsLeft' \in Nat /\ StepsLeft' < StepsLeft]_servicesVars
  BY BootStepAdvances
<1> QED BY <1>1, StartupHolds, NestingHolds, PTL DEF ServicesSpec, BootAdvances

================================================================================
