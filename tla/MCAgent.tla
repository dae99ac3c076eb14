------------------------------ MODULE MCAgent ------------------------------
(* Agent for TLC: the loops and the waiters are interchangeable in the runs *)
(* without liveness.                                                        *)
EXTENDS Agent, TLC

Symmetry == Permutations(Loops) \cup Permutations(Waiters)
=============================================================================
