-------------------------- MODULE StateStores_proofs --------------------------
(***************************************************************************)
(* For any number of processes, names and queries: what the two stores     *)
(* hold is what the completed changes add up to, as long as no save of     *)
(* that file has failed or was made from an old copy; and a remembered     *)
(* place is a known one, as long as besides no two handlers overlap.       *)
(***************************************************************************)
EXTENDS StateStores, TLAPS

IInv == TypeOK /\ StoreInv

-----------------------------------------------------------------------------
(* The changes the handlers ask for *)

LEMMA AddingEdits ==
    ASSUME NEW n \in Names
    PROVE  /\ Remember(n, "fact") \in Edits /\ Remember(n, "place") \in Edits
           /\ AddPlace(n) \in Edits
<1>1. /\ {<<n, "fact">>} \in SUBSET Items /\ {<<n, "place">>} \in SUBSET Items
      /\ {n} \in SUBSET Items /\ {} \in SUBSET Items
  BY DEF Items, Texts
<1> QED
  BY <1>1 DEF Edits, Files, Remember, AddPlace

LEMMA ForgetEdits ==
    ASSUME NEW q \in Queries
    PROVE  Forget(q) \in Edits /\ RemovePlace(q) \in Edits
<1>1. Hits[q] \subseteq Names
  BY HitsAssumption
<1>2. /\ Hits[q] \X {"fact", "place"} \in SUBSET Items
      /\ {q} \cap Names \in SUBSET Items /\ {} \in SUBSET Items
  BY <1>1 DEF Items, Texts
<1> QED
  BY <1>2 DEF Edits, Files, Forget, RemovePlace

LEMMA ObstacleEdit == SetObstacle \in Edits
BY DEF SetObstacle, Edits, Files

LEMMA NextEdit ==
    ASSUME NEW s \in Seq(Edits), s # << >>
    PROVE  /\ Head(s) \in Edits /\ Tail(s) \in Seq(Edits)
           /\ Head(s).file \in Files
           /\ \A t \in SUBSET Items : Applied(Head(s), t) \in SUBSET Items
<1>1. Head(s) \in Edits /\ Tail(s) \in Seq(Edits)
  OBVIOUS
<1>2. Head(s).file \in Files /\ Head(s).add \subseteq Items
  BY <1>1 DEF Edits
<1> QED
  BY <1>1, <1>2 DEF Applied

(* A change that is not saved changes nothing. *)
LEMMA UnsavedChange ==
    ASSUME NEW e \in Edits, NEW t \in SUBSET Items, ~Saves(e, t)
    PROVE  Applied(e, t) = t
BY DEF Edits, Saves, Applied

-----------------------------------------------------------------------------
LEMMA InitInv == Init => IInv
<1> SUFFICES ASSUME Init PROVE IInv
  OBVIOUS
<1>1. Default \in [Files -> SUBSET Items]
  BY NamesAssumption DEF Default, Items
<1>2. intact \in [Files -> BOOLEAN] /\ overlap \in BOOLEAN
  BY Zenon DEF Init
<1>3. pc \in [Procs -> {"off", "idle", "open", "write"}] /\ todo \in [Procs -> Seq(Edits)]
  BY DEF Init
<1>4. TypeOK
  BY <1>1, <1>2, <1>3 DEF Init, TypeOK
<1>5. HandlersInv /\ CopiesInv
  BY DEF Init, HandlersInv, CopiesInv
<1>6. FilesInv
  BY DEF Init, FilesInv
<1> QED
  BY <1>4, <1>5, <1>6 DEF IInv, StoreInv

-----------------------------------------------------------------------------
LEMMA SpoilTypes ==
    ASSUME TypeOK, NEW f \in Files, Spoil(f)
    PROVE  /\ known' \in [Files -> SUBSET Items] /\ fresh' \in [Procs -> SUBSET Files]
           /\ spoiled' \subseteq Files
<1>1. known' \in [Files -> SUBSET Items]
  BY DEF TypeOK, Spoil
<1>2. fresh' \in [Procs -> SUBSET Files]
  BY DEF TypeOK, Spoil
<1>3. spoiled' \subseteq Files
  BY DEF TypeOK, Spoil
<1> QED
  BY <1>1, <1>2, <1>3

LEMMA TypeStep ==
    ASSUME TypeOK, HandlersInv, NEW p \in Procs, Step(p)
    PROVE  TypeOK'
<1> USE DEF TypeOK
<1>0. Default \in [Files -> SUBSET Items]
  BY NamesAssumption DEF Default, Items
<1>1. CASE Start(p)
  <2>1. \A f \in Files : Loaded(f) \in SUBSET Items
    BY <1>0 DEF Loaded
  <2>2. copy' \in [Procs -> [Files -> SUBSET Items]]
    BY <1>1, <2>1 DEF Start
  <2>3. overlap' \in BOOLEAN /\ fresh' \in [Procs -> SUBSET Files]
    BY <1>1 DEF Start
  <2> QED
    BY <1>1, <2>2, <2>3 DEF Start
<1>2. ASSUME NEW edits \in Seq(Edits), Handle(p, edits)
      PROVE  TypeOK'
  BY <1>2 DEF Handle
<1>3. ASSUME NEW n \in Names, HRemember(p, n) \/ HStorePlace(p, n)
      PROVE  TypeOK'
  <2>1. Remember(n, "fact") \in Edits /\ Remember(n, "place") \in Edits /\ AddPlace(n) \in Edits
    BY AddingEdits
  <2>2. <<Remember(n, "fact")>> \in Seq(Edits) /\ <<AddPlace(n), Remember(n, "place")>> \in Seq(Edits)
    BY <2>1
  <2> QED
    BY <1>2, <1>3, <2>2 DEF HRemember, HStorePlace
<1>4. ASSUME NEW q \in Queries, HForget(p, q)
      PROVE  TypeOK'
  <2>1. Forget(q) \in Edits /\ RemovePlace(q) \in Edits
    BY ForgetEdits
  <2>2. <<Forget(q), RemovePlace(q)>> \in Seq(Edits)
    BY <2>1
  <2> QED
    BY <1>2, <1>4, <2>2 DEF HForget
<1>5. CASE DriveBlocked(p)
  <2>1. <<SetObstacle>> \in Seq(Edits)
    BY ObstacleEdit
  <2> QED
    BY <1>2, <1>5, <2>1 DEF DriveBlocked
<1>6. CASE Change(p)
  <2> DEFINE e == Head(todo[p])
  <2>0. todo[p] \in Seq(Edits) /\ todo[p] # << >>
    BY <1>6 DEF Change
  <2>1. /\ e.file \in Files /\ Tail(todo[p]) \in Seq(Edits)
        /\ \A t \in SUBSET Items : Applied(e, t) \in SUBSET Items
    BY <2>0, NextEdit
  <2> HIDE DEF e
  <2>2. copy' \in [Procs -> [Files -> SUBSET Items]]
    <3>1. copy' = [copy EXCEPT ![p] = [copy[p] EXCEPT ![e.file] = Applied(e, copy[p][e.file])]]
      BY <1>6 DEF Change, e
    <3>2. [copy[p] EXCEPT ![e.file] = Applied(e, copy[p][e.file])] \in [Files -> SUBSET Items]
      BY <2>1
    <3> QED
      BY <3>1, <3>2
  <2>3. pc' \in [Procs -> {"off", "idle", "open", "write"}] /\ todo' \in [Procs -> Seq(Edits)]
    BY <1>6, <2>1 DEF Change, e
  <2> QED
    BY <1>6, <2>2, <2>3 DEF Change
<1>7. CASE SaveOpen(p)
  BY <1>0, <1>7, NextEdit DEF SaveOpen, Tear, HandlersInv
<1>8. CASE SaveWrite(p)
  <2> DEFINE f == Head(todo[p]).file
  <2>1. f \in Files /\ Tail(todo[p]) \in Seq(Edits)
        /\ \A t \in SUBSET Items : Applied(Head(todo[p]), t) \in SUBSET Items
    BY <1>8, NextEdit DEF SaveWrite, HandlersInv
  <2> HIDE DEF f
  <2>2. \/ /\ intact' = [intact EXCEPT ![f] = TRUE]
           /\ disk' = [disk EXCEPT ![f] = copy[p][f]]
        \/ /\ intact' = [intact EXCEPT ![f] = FALSE]
           /\ disk' = [disk EXCEPT ![f] = Default[f]]
    BY <1>8, Zenon DEF SaveWrite, Tear, f
  <2>3. intact' \in [Files -> BOOLEAN]
    BY <2>1, <2>2
  <2>4. disk' \in [Files -> SUBSET Items]
    BY <1>0, <2>1, <2>2
  <2>5. known' \in [Files -> SUBSET Items] /\ fresh' \in [Procs -> SUBSET Files]
        /\ spoiled' \subseteq Files
    <3>1. CASE f \in fresh[p]
      <4>1. /\ known' = [known EXCEPT ![f] = Applied(Head(todo[p]), @)] /\ UNCHANGED spoiled
            /\ fresh' = [q \in Procs |-> IF q = p THEN fresh[q] ELSE fresh[q] \ {f}]
        BY <1>8, <3>1 DEF SaveWrite, f
      <4> QED
        BY <2>1, <4>1
    <3>2. CASE f \notin fresh[p]
      <4>1. Spoil(f)
        BY <1>8, <3>2 DEF SaveWrite, f
      <4> QED
        BY <2>1, <4>1, SpoilTypes
    <3> QED
      BY <3>1, <3>2
  <2>6. pc' \in [Procs -> {"off", "idle", "open", "write"}] /\ todo' \in [Procs -> Seq(Edits)]
    BY <1>8, <2>1 DEF SaveWrite, SaveEnds
  <2> QED
    BY <1>8, <2>3, <2>4, <2>5, <2>6 DEF SaveWrite
<1>9. CASE SaveFails(p)
  <2>1. Head(todo[p]).file \in Files /\ Tail(todo[p]) \in Seq(Edits)
    BY <1>9, NextEdit DEF SaveFails, HandlersInv
  <2> QED
    BY <1>9, <2>1 DEF SaveFails, SaveEnds, Spoil
<1>10. CASE ProcessEnds(p)
  <2>1. pc[p] = "write" => Head(todo[p]).file \in Files
    BY NextEdit DEF HandlersInv
  <2>2. known' \in [Files -> SUBSET Items] /\ fresh' \in [Procs -> SUBSET Files]
        /\ spoiled' \subseteq Files
    <3>1. CASE pc[p] = "write"
      BY <1>10, <2>1, <3>1, SpoilTypes DEF ProcessEnds
    <3>2. CASE pc[p] # "write"
      BY <1>10, <3>2 DEF ProcessEnds
    <3> QED
      BY <3>1, <3>2
  <2>3. pc' \in [Procs -> {"off", "idle", "open", "write"}] /\ todo' \in [Procs -> Seq(Edits)]
    BY <1>10 DEF ProcessEnds
  <2>4. copy' \in [Procs -> [Files -> SUBSET Items]]
    BY <1>0, <1>10 DEF ProcessEnds
  <2> QED
    BY <1>10, <2>2, <2>3, <2>4 DEF ProcessEnds
<1> QED
  BY <1>1, <1>3, <1>4, <1>5, <1>6, <1>7, <1>8, <1>9, <1>10 DEF Step

-----------------------------------------------------------------------------
LEMMA StoreStep ==
    ASSUME IInv, NEW p \in Procs, Step(p)
    PROVE  StoreInv'
<1> USE DEF IInv, StoreInv
<1>0. TypeOK /\ TypeOK'
  BY TypeStep
<1>1. CASE Start(p)
  <2>1. HandlersInv'
    BY <1>0, <1>1 DEF TypeOK, HandlersInv, Start
  <2>2. CopiesInv'
    BY <1>0, <1>1 DEF TypeOK, HandlersInv, CopiesInv, FilesInv, Start, Loaded, Saving
  <2>3. FilesInv'
    BY <1>0, <1>1 DEF TypeOK, FilesInv, Start, Writing, Saving
  <2> QED
    BY <2>1, <2>2, <2>3
<1>2. ASSUME NEW edits, Handle(p, edits)
      PROVE  StoreInv'
  <2>1. HandlersInv'
    BY <1>0, <1>2 DEF TypeOK, HandlersInv, Handle
  <2>2. CopiesInv'
    BY <1>0, <1>2 DEF TypeOK, CopiesInv, Handle, Saving
  <2>3. FilesInv'
    BY <1>0, <1>2 DEF TypeOK, FilesInv, Handle, Writing, Saving
  <2> QED
    BY <2>1, <2>2, <2>3
<1>3. CASE Change(p)
  <2> DEFINE e == Head(todo[p])
  <2>1. e \in Edits /\ e.file \in Files /\ copy[p][e.file] \in SUBSET Items
    BY <1>0, <1>3, NextEdit DEF TypeOK, Change
  <2>2. ~Saves(e, copy[p][e.file]) => Applied(e, copy[p][e.file]) = copy[p][e.file]
    BY <2>1, UnsavedChange
  <2> HIDE DEF e
  <2>3. HandlersInv'
    BY <1>0, <1>3 DEF TypeOK, HandlersInv, Change
  <2>4. CopiesInv'
    <3>1. CASE Saves(e, copy[p][e.file])
      <4>1. /\ pc' = [pc EXCEPT ![p] = "open"] /\ UNCHANGED todo
            /\ copy' = [copy EXCEPT ![p][e.file] = Applied(e, @)]
        BY <1>3, <3>1 DEF Change, e
      <4> QED
        BY <1>0, <1>3, <2>1, <4>1 DEF TypeOK, CopiesInv, Change, Saving, e
    <3>2. CASE ~Saves(e, copy[p][e.file])
      <4>1. copy' = copy /\ UNCHANGED pc
        BY <1>0, <1>3, <2>1, <2>2, <3>2 DEF TypeOK, Change, e
      <4> QED
        BY <1>0, <1>3, <4>1 DEF TypeOK, CopiesInv, Change, Saving
    <3> QED
      BY <3>1, <3>2
  <2>5. FilesInv'
    <3>1. \A q \in Procs : pc[q] = "write" => pc'[q] = "write" /\ todo'[q] = todo[q]
      BY <1>0, <1>3 DEF TypeOK, Change
    <3>2. \A f \in Files : Writing(f) => Writing(f)'
      BY <3>1 DEF Writing, Saving
    <3> QED
      BY <1>3, <3>2 DEF FilesInv, Change
  <2> QED
    BY <2>3, <2>4, <2>5
<1>4. CASE SaveOpen(p)
  <2>1. Head(todo[p]).file \in Files
    BY <1>0, <1>4, NextEdit DEF TypeOK, SaveOpen, HandlersInv
  <2>2. HandlersInv'
    BY <1>0, <1>4 DEF TypeOK, HandlersInv, SaveOpen
  <2>3. CopiesInv'
    BY <1>0, <1>4, <2>1 DEF TypeOK, CopiesInv, SaveOpen, Tear, Saving
  <2>4. FilesInv'
    BY <1>0, <1>4, <2>1 DEF TypeOK, FilesInv, SaveOpen, Tear, Writing, Saving
  <2> QED
    BY <2>2, <2>3, <2>4
<1>5. CASE SaveWrite(p)
  <2> DEFINE f == Head(todo[p]).file
  <2>1. f \in Files /\ Saving(p, f) /\ \A g \in Files \ {f} : ~Saving(p, g)
    BY <1>0, <1>5, NextEdit DEF TypeOK, SaveWrite, HandlersInv, Saving
  <2> HIDE DEF f
  <2>2. HandlersInv'
    BY <1>0, <1>5 DEF TypeOK, HandlersInv, SaveWrite, SaveEnds
  <2>3. CASE f \in fresh[p]
    <3>1. copy[p][f] = Applied(Head(todo[p]), known[f]) /\ ~intact[f] /\ f \notin spoiled
      BY <1>5, <2>1, <2>3 DEF CopiesInv, SaveWrite
    <3>2. /\ intact' = [intact EXCEPT ![f] = TRUE] /\ disk' = [disk EXCEPT ![f] = copy[p][f]]
          /\ known' = [known EXCEPT ![f] = copy[p][f]] /\ UNCHANGED spoiled
          /\ fresh' = [q \in Procs |-> IF q = p THEN fresh[q] ELSE fresh[q] \ {f}]
      BY <1>0, <1>5, <2>1, <2>3, <3>1 DEF TypeOK, SaveWrite, f
    <3>3. CopiesInv'
      BY <1>0, <1>5, <2>1, <3>1, <3>2 DEF TypeOK, CopiesInv, SaveWrite, SaveEnds, Saving
    <3>4. FilesInv'
      BY <1>0, <1>5, <2>1, <3>1, <3>2 DEF TypeOK, FilesInv, SaveWrite, SaveEnds, Writing, Saving
    <3> QED
      BY <2>2, <3>3, <3>4
  <2>4. CASE f \notin fresh[p]
    <3>1. /\ Spoil(f) /\ \A g \in Files \ {f} : intact'[g] = intact[g] /\ disk'[g] = disk[g]
      BY <1>0, <1>5, <2>1, <2>4 DEF TypeOK, SaveWrite, Tear, f
    <3>2. CopiesInv'
      BY <1>0, <1>5, <2>1, <3>1 DEF TypeOK, CopiesInv, SaveWrite, SaveEnds, Spoil, Saving
    <3>3. FilesInv'
      BY <1>0, <1>5, <2>1, <3>1 DEF TypeOK, FilesInv, SaveWrite, SaveEnds, Spoil, Writing, Saving
    <3> QED
      BY <2>2, <3>2, <3>3
  <2> QED
    BY <2>3, <2>4
<1>6. CASE SaveFails(p)
  <2>1. Head(todo[p]).file \in Files
    BY <1>0, <1>6, NextEdit DEF TypeOK, SaveFails, HandlersInv
  <2>2. HandlersInv'
    BY <1>0, <1>6 DEF TypeOK, HandlersInv, SaveFails, SaveEnds
  <2>3. CopiesInv'
    BY <1>0, <1>6, <2>1 DEF TypeOK, CopiesInv, SaveFails, SaveEnds, Spoil, Saving
  <2>4. FilesInv'
    BY <1>0, <1>6, <2>1 DEF TypeOK, FilesInv, SaveFails, SaveEnds, Spoil, Writing, Saving
  <2> QED
    BY <2>2, <2>3, <2>4
<1>7. CASE ProcessEnds(p)
  <2>1. HandlersInv'
    BY <1>0, <1>7 DEF TypeOK, HandlersInv, ProcessEnds
  <2>2. CASE pc[p] = "write"
    <3>1. Head(todo[p]).file \in Files
      BY <1>0, <2>2, NextEdit DEF TypeOK, HandlersInv
    <3>2. CopiesInv'
      BY <1>0, <1>7, <2>2, <3>1 DEF TypeOK, CopiesInv, ProcessEnds, Spoil, Saving
    <3>3. FilesInv'
      BY <1>0, <1>7, <2>2, <3>1 DEF TypeOK, FilesInv, ProcessEnds, Spoil, Writing, Saving
    <3> QED
      BY <2>1, <3>2, <3>3
  <2>3. CASE pc[p] # "write"
    <3>1. CopiesInv'
      BY <1>0, <1>7, <2>3 DEF TypeOK, CopiesInv, ProcessEnds, Saving
    <3>2. FilesInv'
      BY <1>0, <1>7, <2>3 DEF TypeOK, FilesInv, ProcessEnds, Writing, Saving
    <3> QED
      BY <2>1, <3>1, <3>2
  <2> QED
    BY <2>2, <2>3
<1> QED
  BY <1>1, <1>2, <1>3, <1>4, <1>5, <1>6, <1>7
     DEF Step, HRemember, HStorePlace, HForget, DriveBlocked

LEMMA NextInv == IInv /\ [Next]_vars => IInv'
<1>1. ASSUME IInv, NEW p \in Procs, Step(p) PROVE IInv'
  BY <1>1, TypeStep, StoreStep DEF IInv, StoreInv
<1>2. ASSUME IInv, UNCHANGED vars PROVE IInv'
  BY <1>2 DEF IInv, TypeOK, StoreInv, HandlersInv, CopiesInv, FilesInv, Saving, Writing, vars
<1> QED
  BY <1>1, <1>2 DEF Next

(* Every variable keeps its type and every pending change is one the
   handlers make. *)
THEOREM TypeCorrect == Spec => []TypeOK
<1>1. IInv => TypeOK
  BY DEF IInv
<1> QED
  BY <1>1, InitInv, NextInv, PTL DEF Spec

(* A file of the droid's knowledge that nobody is writing, and on which no
   save has failed or used an old copy, holds what the completed calls of
   remember, forget, add_place, remove_place and set_obstacle add up to,
   whichever processes made them and wherever others were killed. *)
THEOREM ChangesAreKept == Spec => []StoresAreDurable
<1>1. IInv => StoresAreDurable
  BY DEF IInv, StoreInv, FilesInv, StoresAreDurable
<1> QED
  BY <1>1, InitInv, NextInv, PTL DEF Spec

-----------------------------------------------------------------------------
(* What a handler does in which order, read off the list of its changes *)

LEMMA HandlerKinds ==
    ASSUME NEW s \in Handlers, s # << >>
    PROVE  \/ s = <<SetObstacle>>
           \/ \E n \in Names : \/ s = <<Remember(n, "fact")>>
                              \/ s = <<Remember(n, "place")>>
                              \/ s = <<AddPlace(n), Remember(n, "place")>>
           \/ \E q \in Queries : s = <<RemovePlace(q)>> \/ s = <<Forget(q), RemovePlace(q)>>
BY DEF Handlers

LEMMA HandlerRest ==
    ASSUME NEW s \in Handlers, s # << >>
    PROVE  Tail(s) \in Handlers
<1>1. \A a, b : Tail(<<a>>) = << >> /\ Tail(<<a, b>>) = <<b>>
  OBVIOUS
<1>2. ASSUME NEW a, s = <<a>> PROVE Tail(s) \in Handlers
  BY <1>1, <1>2 DEF Handlers
<1>3. ASSUME NEW n \in Names, s = <<AddPlace(n), Remember(n, "place")>>
      PROVE  Tail(s) \in Handlers
  BY <1>1, <1>3 DEF Handlers
<1>4. ASSUME NEW q \in Queries, s = <<Forget(q), RemovePlace(q)>>
      PROVE  Tail(s) \in Handlers
  BY <1>1, <1>4 DEF Handlers
<1> QED BY <1>2, <1>3, <1>4, HandlerKinds

(* Edits that differ in one field are different. *)
LEMMA EditsDiffer ==
    ASSUME NEW n \in Names, NEW m, NEW q
    PROVE  /\ Remember(m, "fact") # Remember(n, "place")
           /\ Remember(m, "place") = Remember(n, "place") => m = n
           /\ RemovePlace(q) = RemovePlace(n) => q = n
           /\ SetObstacle # Remember(n, "place") /\ SetObstacle # RemovePlace(n)
           /\ RemovePlace(q) # Remember(n, "place") /\ Remember(m, "fact") # RemovePlace(n)
           /\ Remember(m, "place") # RemovePlace(n)
<1>1. /\ Remember(m, "fact").add = {<<m, "fact">>} /\ Remember(n, "place").add = {<<n, "place">>}
      /\ Remember(m, "place").add = {<<m, "place">>}
      /\ Remember(m, "fact").file = "memory" /\ Remember(n, "place").file = "memory"
      /\ Remember(m, "place").file = "memory"
  BY DEF Remember
<1>2. /\ RemovePlace(q).del = {q} \cap Names /\ RemovePlace(n).del = {n} \cap Names
      /\ RemovePlace(q).file = "world" /\ RemovePlace(n).file = "world"
      /\ RemovePlace(n).always = FALSE
  BY DEF RemovePlace
<1>3. SetObstacle.file = "world" /\ SetObstacle.always = TRUE
  BY DEF SetObstacle
<1>4. <<m, "fact">> # <<n, "place">> /\ (<<m, "place">> = <<n, "place">> => m = n)
  OBVIOUS
<1>5. SetObstacle # RemovePlace(n)
  BY <1>2, <1>3
<1>6. RemovePlace(q) = RemovePlace(n) => q = n
  BY <1>2
<1>7. /\ Remember(m, "fact") # Remember(n, "place")
      /\ Remember(m, "place") = Remember(n, "place") => m = n
  <2>1. {<<m, "fact">>} # {<<n, "place">>}
    BY <1>4
  <2>2. {<<m, "place">>} = {<<n, "place">>} => m = n
    BY <1>4
  <2> QED BY <1>1, <2>1, <2>2
<1>8. "world" # "memory"
  OBVIOUS
<1> QED BY <1>1, <1>2, <1>3, <1>5, <1>6, <1>7, <1>8

(* The place comes before the memory of it, and goes after it. *)
LEMMA HandlerOrder ==
    ASSUME NEW s \in Handlers, s # << >>, NEW n \in Names
    PROVE  /\ Tail(s) = <<Remember(n, "place")>> => Head(s) = AddPlace(n)
           /\ Tail(s) = <<RemovePlace(n)>> => Head(s) = Forget(n)
<1> DEFINE R == Remember(n, "place")  V == RemovePlace(n)
<1>1. \A a, b : Tail(<<a>>) = << >> /\ Tail(<<a, b>>) = <<b>> /\ Head(<<a, b>>) = a
  OBVIOUS
<1>2. \A a, b : (<<a>> = <<b>> => a = b) /\ << >> # <<b>>
  OBVIOUS
<1>3. ASSUME NEW a, s = <<a>> PROVE Tail(s) # <<R>> /\ Tail(s) # <<V>>
  BY <1>1, <1>2, <1>3
<1>4. ASSUME NEW m \in Names, s = <<AddPlace(m), Remember(m, "place")>>
      PROVE  (Tail(s) = <<R>> => Head(s) = AddPlace(n)) /\ Tail(s) # <<V>>
  BY <1>1, <1>2, <1>4, EditsDiffer
<1>5. ASSUME NEW q \in Queries, s = <<Forget(q), RemovePlace(q)>>
      PROVE  Tail(s) # <<R>> /\ (Tail(s) = <<V>> => Head(s) = Forget(n))
  BY <1>1, <1>2, <1>5, EditsDiffer
<1> QED BY <1>3, <1>4, <1>5, HandlerKinds

(* A place memory is added only as the last change of store_place, and a
   place removed only as the last change of forget. *)
LEMMA HandlerEnds ==
    ASSUME NEW s \in Handlers, s # << >>, NEW n \in Names
    PROVE  /\ <<n, "place">> \in Head(s).add /\ Head(s).file = "memory"
                 => s = <<Remember(n, "place")>>
           /\ n \in Head(s).del /\ Head(s).file = "world" => s = <<RemovePlace(n)>>
<1>1. \A a, b : Head(<<a>>) = a /\ Head(<<a, b>>) = a
  OBVIOUS
<1>2. CASE s = <<SetObstacle>>
  BY <1>1, <1>2 DEF SetObstacle
<1>3. ASSUME NEW m \in Names, s = <<Remember(m, "fact")>> \/ s = <<Remember(m, "place")>>
      PROVE  /\ Head(s).file = "memory"
             /\ <<n, "place">> \in Head(s).add => s = <<Remember(n, "place")>>
  <2>1. /\ Remember(m, "fact").add = {<<m, "fact">>} /\ Remember(m, "fact").file = "memory"
        /\ Remember(m, "place").add = {<<m, "place">>} /\ Remember(m, "place").file = "memory"
    BY DEF Remember
  <2>2. <<n, "place">> \notin {<<m, "fact">>} /\ (<<n, "place">> \in {<<m, "place">>} => n = m)
    OBVIOUS
  <2> QED BY <1>1, <1>3, <2>1, <2>2
<1>4. ASSUME NEW m \in Names, s = <<AddPlace(m), Remember(m, "place")>>
      PROVE  Head(s).file = "world" /\ Head(s).del = {}
  BY <1>1, <1>4 DEF AddPlace
<1>5. ASSUME NEW q \in Queries, s = <<Forget(q), RemovePlace(q)>>
      PROVE  Head(s).file = "memory" /\ Head(s).add = {}
  BY <1>1, <1>5 DEF Forget
<1>6. ASSUME NEW q \in Queries, s = <<RemovePlace(q)>>
      PROVE  Head(s).file = "world" /\ (n \in Head(s).del => s = <<RemovePlace(n)>>)
  <2>1. RemovePlace(q).file = "world" /\ RemovePlace(q).del = {q} \cap Names
    BY DEF RemovePlace
  <2> QED BY <1>1, <1>6, <2>1
<1> QED BY <1>2, <1>3, <1>4, <1>5, <1>6, HandlerKinds

(* What a handler starts with is neither. *)
LEMMA HandlerStarts ==
    ASSUME NEW n \in Names
    PROVE  LET Neither(s) == s # <<Remember(n, "place")>> /\ s # <<RemovePlace(n)>> IN
           /\ Neither(<<SetObstacle>>)
           /\ \A m : Neither(<<Remember(m, "fact")>>)
           /\ \A m : Neither(<<AddPlace(m), Remember(m, "place")>>)
           /\ \A q : Neither(<<Forget(q), RemovePlace(q)>>)
<1>1. \A a, b, c : (<<a>> = <<b>> => a = b) /\ <<a, c>> # <<b>>
  OBVIOUS
<1> QED BY <1>1, EditsDiffer

-----------------------------------------------------------------------------
LEMMA PlaceStep ==
    ASSUME IInv, PlaceInv, NEW p \in Procs, Step(p)
    PROVE  PlaceInv'
<1> DEFINE Ordered == RememberedPlacesInv /\ StoringInv /\ ForgettingInv /\ MemoryCopyInv
           s == todo[p]
           e == Head(todo[p])
           f == Head(todo[p]).file
<1>0. /\ TypeOK /\ TypeOK' /\ HandlersInv /\ CopiesInv /\ FilesInv
      /\ \A r \in Procs : todo[r] \in Handlers
      /\ spoiled = {} /\ ~overlap => Ordered
  BY TypeStep DEF IInv, StoreInv, PlaceInv
<1>1. ASSUME s # << >>
      PROVE  /\ e \in Edits /\ f \in Files /\ Tail(s) \in Handlers
             /\ \A n \in Names :
                  /\ Tail(s) = <<Remember(n, "place")>> => e = AddPlace(n)
                  /\ Tail(s) = <<RemovePlace(n)>> => e = Forget(n)
                  /\ <<n, "place">> \in e.add /\ f = "memory" => s = <<Remember(n, "place")>>
                  /\ n \in e.del /\ f = "world" => s = <<RemovePlace(n)>>
  <2>1. s \in Handlers /\ s \in Seq(Edits)
    BY <1>0 DEF TypeOK
  <2> QED BY <1>1, <2>1, NextEdit, HandlerRest, HandlerOrder, HandlerEnds
<1>2. \A n \in Names :
        /\ AddPlace(n).file = "world" /\ AddPlace(n).add = {n} /\ AddPlace(n).always
        /\ Forget(n).file = "memory" /\ Forget(n).add = {} /\ <<n, "place">> \in Forget(n).del
  BY HitsAssumption DEF AddPlace, Forget
<1>3. CASE Start(p)
  <2>1. \A r \in Procs : todo'[r] \in Handlers
    BY <1>0, <1>3 DEF Start
  <2>2. ASSUME spoiled' = {}, ~overlap' PROVE Ordered'
    <3>1. Ordered /\ \A r \in Procs : todo[r] = << >>
      BY <1>0, <1>3, <2>2 DEF Start
    <3>2. ~Writing("memory")
      BY <1>0, <3>1 DEF Writing, HandlersInv
    <3>3. intact["memory"] /\ disk["memory"] = known["memory"]
      BY <1>0, <1>3, <2>2, <3>2 DEF FilesInv, Start, Files
    <3>4. copy'[p]["memory"] = known["memory"]
      BY <1>0, <1>3, <3>3 DEF TypeOK, Start, Loaded, Files
    <3>5. \A r \in Procs \ {p} : /\ copy'[r] = copy[r] /\ fresh'[r] = fresh[r] /\ pc'[r] = pc[r]
      BY <1>0, <1>3 DEF TypeOK, Start
    <3>6. known' = known /\ todo' = todo
      BY <1>3 DEF Start
    <3>7. StoringInv' /\ ForgettingInv' /\ RememberedPlacesInv'
      BY <3>1, <3>6 DEF StoringInv, ForgettingInv, RememberedPlacesInv, StoresPlace, KnownMemory
    <3>8. MemoryCopyInv'
      BY <3>1, <3>4, <3>5, <3>6 DEF MemoryCopyInv, KnownMemory, Saving
    <3> QED BY <3>7, <3>8
  <2> QED BY <2>1, <2>2 DEF PlaceInv
<1>4. ASSUME NEW edits \in Handlers, Handle(p, edits),
             \A n \in Names : edits # <<Remember(n, "place")>> /\ edits # <<RemovePlace(n)>>
      PROVE  PlaceInv'
  <2>1. /\ UNCHANGED <<pc, copy, fresh, known, spoiled, overlap>> /\ pc[p] = "idle"
        /\ todo'[p] = edits /\ \A r \in Procs \ {p} : todo'[r] = todo[r]
    BY <1>0, <1>4 DEF TypeOK, Handle
  <2>2. \A r \in Procs : todo'[r] \in Handlers
    BY <1>0, <1>4, <2>1
  <2>3. ASSUME spoiled' = {}, ~overlap' PROVE Ordered'
    <3>1. Ordered
      BY <1>0, <2>1, <2>3
    <3>2. StoringInv' /\ ForgettingInv' /\ RememberedPlacesInv'
      BY <1>4, <2>1, <3>1 DEF StoringInv, ForgettingInv, RememberedPlacesInv, StoresPlace, KnownMemory
    <3>3. MemoryCopyInv'
      BY <2>1, <3>1 DEF MemoryCopyInv, KnownMemory, Saving
    <3> QED BY <3>2, <3>3
  <2> QED BY <2>2, <2>3 DEF PlaceInv
<1>5. CASE \/ \E n \in Names : HRemember(p, n) \/ HStorePlace(p, n)
           \/ \E q \in Queries : HForget(p, q)
           \/ DriveBlocked(p)
  <2>1. ASSUME NEW n \in Names, HRemember(p, n) PROVE PlaceInv'
    <3>1. <<Remember(n, "fact")>> \in Handlers
      BY DEF Handlers
    <3> QED BY <1>4, <2>1, <3>1, HandlerStarts DEF HRemember
  <2>2. ASSUME NEW n \in Names, HStorePlace(p, n) PROVE PlaceInv'
    <3>1. <<AddPlace(n), Remember(n, "place")>> \in Handlers
      BY DEF Handlers
    <3> QED BY <1>4, <2>2, <3>1, HandlerStarts DEF HStorePlace
  <2>3. ASSUME NEW q \in Queries, HForget(p, q) PROVE PlaceInv'
    <3>1. <<Forget(q), RemovePlace(q)>> \in Handlers
      BY DEF Handlers
    <3> QED BY <1>4, <2>3, <3>1, HandlerStarts DEF HForget
  <2>4. ASSUME DriveBlocked(p) PROVE PlaceInv'
    <3>1. <<SetObstacle>> \in Handlers
      BY DEF Handlers
    <3> QED BY <1>4, <2>4, <3>1, HandlerStarts DEF DriveBlocked
  <2> QED BY <1>5, <2>1, <2>2, <2>3, <2>4
<1>6. CASE Change(p)
  <2>1. /\ s # << >> /\ pc[p] = "idle" /\ UNCHANGED <<fresh, known, spoiled, overlap>>
        /\ copy[p][f] \in SUBSET Items
    BY <1>0, <1>1, <1>6 DEF TypeOK, Change
  <2>2. \A r \in Procs \ {p} : todo'[r] = todo[r] /\ pc'[r] = pc[r] /\ copy'[r] = copy[r]
    BY <1>0, <1>6 DEF TypeOK, Change
  <2>3. CASE Saves(e, copy[p][f])
    <3>1. /\ pc'[p] = "open" /\ todo' = todo
          /\ \A g \in Files \ {f} : copy'[p][g] = copy[p][g]
      BY <1>0, <1>1, <1>6, <2>1, <2>3 DEF TypeOK, Change
    <3>2. ASSUME spoiled' = {}, ~overlap' PROVE Ordered'
      <4>1. Ordered
        BY <1>0, <2>1, <3>2
      <4>2. StoringInv' /\ ForgettingInv' /\ RememberedPlacesInv'
        BY <2>1, <3>1, <4>1 DEF StoringInv, ForgettingInv, RememberedPlacesInv, StoresPlace, KnownMemory
      <4>3. MemoryCopyInv'
        BY <1>1, <2>1, <2>2, <3>1, <4>1 DEF MemoryCopyInv, KnownMemory, Saving, Files
      <4> QED BY <4>2, <4>3
    <3> QED BY <1>0, <3>1, <3>2 DEF PlaceInv
  <2>4. CASE ~Saves(e, copy[p][f])
    <3>1. Applied(e, copy[p][f]) = copy[p][f]
      BY <1>1, <2>1, <2>4, UnsavedChange
    <3>2. copy' = copy /\ pc' = pc /\ todo'[p] = Tail(s)
      BY <1>0, <1>1, <1>6, <2>1, <2>4, <3>1 DEF TypeOK, Change
    <3>3. \A r \in Procs : todo'[r] \in Handlers
      BY <1>0, <1>1, <2>1, <2>2, <3>2
    <3>4. ASSUME spoiled' = {}, ~overlap' PROVE Ordered'
      <4>1. Ordered
        BY <1>0, <2>1, <3>4
      <4>2. \A n \in Names : Tail(s) # <<Remember(n, "place")>>
        BY <1>1, <1>2, <2>1, <2>4 DEF Saves
      <4>3. ASSUME NEW n \in Names, Tail(s) = <<RemovePlace(n)>>, "world" \in fresh[p]
            PROVE  ~KnownMemory(n)
        <5>1. e = Forget(n)
          BY <1>1, <2>1, <4>3
        <5>2. <<n, "place">> \notin copy[p]["memory"]
          BY <1>2, <2>4, <5>1 DEF Saves
        <5> QED BY <2>1, <4>1, <4>3, <5>2 DEF MemoryCopyInv, Saving
      <4>4. StoringInv'
        BY <2>1, <2>2, <3>2, <4>1, <4>2 DEF StoringInv, StoresPlace
      <4>5. ForgettingInv'
        BY <2>1, <2>2, <3>2, <4>1, <4>3 DEF ForgettingInv, KnownMemory
      <4>6. RememberedPlacesInv'
        BY <2>1, <4>1 DEF RememberedPlacesInv, KnownMemory
      <4>7. MemoryCopyInv'
        BY <2>1, <2>2, <3>2, <4>1 DEF MemoryCopyInv, KnownMemory, Saving
      <4> QED BY <4>4, <4>5, <4>6, <4>7
    <3> QED BY <3>3, <3>4 DEF PlaceInv
  <2> QED BY <2>3, <2>4
<1>7. CASE SaveOpen(p)
  <2>1. /\ UNCHANGED <<todo, copy, fresh, known, spoiled, overlap>> /\ pc[p] = "open"
        /\ pc'[p] = "write" /\ \A r \in Procs \ {p} : pc'[r] = pc[r]
    BY <1>0, <1>7 DEF TypeOK, SaveOpen
  <2>2. ASSUME spoiled' = {}, ~overlap' PROVE Ordered'
    <3>1. Ordered
      BY <1>0, <2>1, <2>2
    <3>2. StoringInv' /\ ForgettingInv' /\ RememberedPlacesInv'
      BY <2>1, <3>1 DEF StoringInv, ForgettingInv, RememberedPlacesInv, StoresPlace, KnownMemory
    <3>3. MemoryCopyInv'
      BY <2>1, <3>1 DEF MemoryCopyInv, KnownMemory, Saving
    <3> QED BY <3>2, <3>3
  <2> QED BY <1>0, <2>1, <2>2 DEF PlaceInv
<1>8. CASE SaveWrite(p)
  <2>1. /\ s # << >> /\ pc[p] = "write" /\ pc'[p] = "idle" /\ todo'[p] = Tail(s)
        /\ UNCHANGED <<copy, overlap>>
        /\ \A r \in Procs \ {p} : todo'[r] = todo[r] /\ pc'[r] = pc[r]
    BY <1>0, <1>8 DEF TypeOK, HandlersInv, SaveWrite, SaveEnds
  <2>2. \A r \in Procs : todo'[r] \in Handlers
    BY <1>0, <1>1, <2>1
  <2>3. ASSUME spoiled' = {}, ~overlap' PROVE Ordered'
    <3>1. f \in fresh[p] /\ spoiled = {}
      BY <1>8, <2>3 DEF SaveWrite, Spoil
    <3>2. /\ known'[f] = Applied(e, known[f])
          /\ \A g \in Files \ {f} : known'[g] = known[g]
          /\ fresh'[p] = fresh[p] /\ \A r \in Procs \ {p} : fresh'[r] = fresh[r] \ {f}
      BY <1>0, <1>1, <1>8, <2>1, <3>1 DEF TypeOK, SaveWrite
    <3>3. Ordered
      BY <1>0, <2>1, <2>3, <3>1
    <3>4. ASSUME NEW n \in Names, KnownMemory(n)', ~KnownMemory(n)
          PROVE  f = "memory" /\ StoresPlace(p, n)
      BY <1>1, <2>1, <3>2, <3>4 DEF KnownMemory, Applied, StoresPlace, Files
    <3>5. ASSUME NEW n \in Names, n \in known["world"], n \notin known'["world"]
          PROVE  f = "world" /\ s = <<RemovePlace(n)>>
      BY <1>1, <2>1, <3>2, <3>5 DEF Applied, Files
    <3>6. RememberedPlacesInv'
      <4> SUFFICES ASSUME NEW n \in Names, KnownMemory(n)' PROVE n \in known'["world"]
        BY DEF RememberedPlacesInv
      <4>1. CASE ~KnownMemory(n)
        BY <3>2, <3>3, <3>4, <4>1 DEF StoringInv, Files
      <4>2. CASE KnownMemory(n)
        BY <3>1, <3>3, <3>5, <4>2 DEF RememberedPlacesInv, ForgettingInv
      <4> QED BY <4>1, <4>2
    <3>7. StoringInv'
      <4> SUFFICES ASSUME NEW r \in Procs, NEW n \in Names, StoresPlace(r, n)'
                   PROVE  n \in known'["world"] /\ \A x \in Procs \ {r} : "world" \notin fresh'[x]
        BY DEF StoringInv
      <4>1. CASE r = p
        <5>1. e = AddPlace(n) /\ f = "world"
          BY <1>1, <1>2, <2>1, <4>1 DEF StoresPlace
        <5> QED BY <1>2, <3>2, <4>1, <5>1 DEF Applied
      <4>2. CASE r # p
        <5>1. StoresPlace(r, n)
          BY <2>1, <4>2 DEF StoresPlace
        <5>2. n \in known["world"] /\ \A x \in Procs \ {r} : "world" \notin fresh[x]
          BY <3>3, <5>1 DEF StoringInv
        <5>3. f # "world"
          BY <3>1, <4>2, <5>2
        <5> QED BY <3>2, <5>2, <5>3 DEF Files
      <4> QED BY <4>1, <4>2
    <3>8. ForgettingInv'
      <4> SUFFICES ASSUME NEW r \in Procs, NEW n \in Names,
                          todo'[r] = <<RemovePlace(n)>>, "world" \in fresh'[r]
                   PROVE  ~KnownMemory(n)'
        BY DEF ForgettingInv
      <4>1. CASE r = p
        <5>1. e = Forget(n) /\ f = "memory"
          BY <1>1, <1>2, <2>1, <4>1
        <5> QED BY <1>2, <3>2, <5>1 DEF Applied, KnownMemory
      <4>2. CASE r # p
        <5>1. ~KnownMemory(n) /\ "world" \in fresh[r]
          BY <2>1, <3>2, <3>3, <4>2 DEF ForgettingInv
        <5> QED BY <3>3, <3>4, <4>2, <5>1 DEF StoringInv
      <4> QED BY <4>1, <4>2
    <3>9. MemoryCopyInv'
      <4> SUFFICES ASSUME NEW r \in Procs, NEW n \in Names, pc'[r] # "off", "world" \in fresh'[r],
                          ~Saving(r, "memory")', KnownMemory(n)'
                   PROVE  <<n, "place">> \in copy'[r]["memory"]
        BY DEF MemoryCopyInv
      <4>1. CASE r = p /\ f = "memory"
        <5>1. copy[p]["memory"] = Applied(e, known["memory"])
          BY <1>0, <2>1, <3>1, <4>1 DEF CopiesInv, Saving
        <5> QED BY <2>1, <3>2, <4>1, <5>1 DEF KnownMemory
      <4>2. CASE r = p /\ f # "memory"
        <5>1. KnownMemory(n) /\ ~Saving(p, "memory")
          BY <3>4, <4>2 DEF Saving
        <5> QED BY <2>1, <3>2, <3>3, <4>2, <5>1 DEF MemoryCopyInv
      <4>3. CASE r # p
        <5>1. pc[r] # "off" /\ "world" \in fresh[r] /\ ~Saving(r, "memory")
          BY <2>1, <3>2, <4>3 DEF Saving
        <5>2. KnownMemory(n)
          BY <3>3, <3>4, <4>3, <5>1 DEF StoringInv
        <5> QED BY <2>1, <3>3, <5>1, <5>2 DEF MemoryCopyInv
      <4> QED BY <4>1, <4>2, <4>3
    <3> QED BY <3>6, <3>7, <3>8, <3>9
  <2> QED BY <2>2, <2>3 DEF PlaceInv
<1>9. CASE SaveFails(p)
  <2>1. s # << >> /\ todo'[p] = Tail(s) /\ \A r \in Procs \ {p} : todo'[r] = todo[r]
    BY <1>0, <1>9 DEF TypeOK, HandlersInv, SaveFails, SaveEnds
  <2>2. spoiled' # {}
    BY <1>9 DEF SaveFails, Spoil
  <2> QED BY <1>0, <1>1, <2>1, <2>2 DEF PlaceInv
<1>10. CASE ProcessEnds(p)
  <2>1. /\ todo'[p] = << >> /\ pc'[p] = "off" /\ UNCHANGED overlap
        /\ \A r \in Procs \ {p} : todo'[r] = todo[r] /\ pc'[r] = pc[r] /\ copy'[r] = copy[r]
    BY <1>0, <1>10 DEF TypeOK, ProcessEnds
  <2>2. \A r \in Procs : todo'[r] \in Handlers
    BY <1>0, <2>1 DEF Handlers
  <2>3. ASSUME spoiled' = {}, ~overlap' PROVE Ordered'
    <3>1. UNCHANGED <<fresh, spoiled, known>>
      BY <1>10, <2>3 DEF ProcessEnds, Spoil
    <3>2. Ordered
      BY <1>0, <2>1, <2>3, <3>1
    <3>3. \A n \in Names : todo'[p] # <<Remember(n, "place")>> /\ todo'[p] # <<RemovePlace(n)>>
      BY <2>1
    <3>4. StoringInv' /\ ForgettingInv' /\ RememberedPlacesInv'
      BY <2>1, <3>1, <3>2, <3>3 DEF StoringInv, ForgettingInv, RememberedPlacesInv, StoresPlace, KnownMemory
    <3>5. MemoryCopyInv'
      BY <2>1, <3>1, <3>2 DEF MemoryCopyInv, KnownMemory, Saving
    <3> QED BY <3>4, <3>5
  <2> QED BY <2>2, <2>3 DEF PlaceInv
<1> QED
  BY <1>3, <1>5, <1>6, <1>7, <1>8, <1>9, <1>10 DEF Step

(* As long as the handlers of two processes do not overlap and no save is
   lost, the files agree: every place memory in memory.json, between any two
   changes and after a process was killed, is about a place that
   world_model.json has. *)
THEOREM FilesAgree == Spec => []PlaceMemoriesArePlaces
<1>1. Init => IInv /\ PlaceInv
  <2> SUFFICES ASSUME Init PROVE PlaceInv
    BY InitInv
  <2>1. /\ known["memory"] = {} /\ \A p \in Procs : todo[p] = << >> /\ todo[p] \in Handlers
    BY DEF Init, Default, Files, Handlers
  <2>2. \A a : <<a>> # << >>
    OBVIOUS
  <2> QED BY <2>1, <2>2 DEF PlaceInv, RememberedPlacesInv, StoringInv, ForgettingInv,
                            MemoryCopyInv, StoresPlace, KnownMemory
<1>2. IInv /\ PlaceInv /\ [Next]_vars => (IInv /\ PlaceInv)'
  <2> SUFFICES ASSUME IInv, PlaceInv, [Next]_vars PROVE PlaceInv'
    BY NextInv
  <2>1. CASE UNCHANGED vars
    BY <2>1 DEF vars, PlaceInv, RememberedPlacesInv, StoringInv, ForgettingInv,
                MemoryCopyInv, StoresPlace, KnownMemory, Saving
  <2> QED BY <2>1, PlaceStep DEF Next
<1>3. IInv /\ PlaceInv => PlaceMemoriesArePlaces
  BY DEF IInv, StoreInv, FilesInv, PlaceInv, RememberedPlacesInv, KnownMemory,
         PlaceMemoriesArePlaces, Files
<1> QED BY <1>1, <1>2, <1>3, PTL DEF Spec
=============================================================================
