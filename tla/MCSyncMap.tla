----------------------------- MODULE MCSyncMap -----------------------------
(* SyncMap for TLC.  Two states that differ in the pointer of an entry that *)
(* nobody can reach are the same.                                           *)
EXTENDS SyncMap, TLC

Reachable ==
    <<maps, [e \in Entries |-> IF e \in Used THEN ptr[e] ELSE Nil],
      mu, expunging, pc, call, answer, ent, view, seen, effect>>

Symmetry ==
    Permutations(Procs) \cup Permutations(Keys) \cup Permutations(Values)
=============================================================================
