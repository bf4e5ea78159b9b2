----------------------------- MODULE MCStateStores -----------------------------
(* StateStores for TLC: two processes and a place the droid is shipped with,
   which it may forget and learn again. *)
EXTENDS StateStores, TLC

MCNames == {"hallway"}
MCDefaults == {"hallway"}
MCQueries == {"hallway", "everything"}

(* "hall" would do as well as "hallway"; the empty query is in every text. *)
MCHits == [q \in MCQueries |-> IF q = "everything" THEN MCNames ELSE {q}]

ProcSymmetry == Permutations(Procs)
=============================================================================
