----------------------------- MODULE MCUpdateSlots -----------------------------
(* UpdateSlots for TLC: two processes that share the state directory. *)
EXTENDS UpdateSlots, TLC

MCVersions == {"v1", "v2"}

ProcSymmetry == Permutations(Procs)

(* What is in a copy that has gone astray decides nothing that a property
   looks at: whatever it holds, the same steps lead to the same pc, intact,
   astray and fileAstray. States that differ only there are taken as one. *)
Followed(u, stray) == IF stray THEN DefaultState ELSE u

FollowedCopies ==
    <<pc, [p \in Procs |-> Followed(uinfo[p], astray[p])], intact,
      Followed(saved, fileAstray), astray, fileAstray>>
=============================================================================
