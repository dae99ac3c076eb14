-------------------------- MODULE MCAgentRegistry --------------------------
(* AgentRegistry on a small instance: as many client objects as connections *)
(* are enough, a new one is made only by a handler that holds none and when *)
(* the id it looks up has none.                                             *)
EXTENDS AgentRegistry, TLC

Symmetry ==
    Permutations(Conns) \cup Permutations(Clients)
        \cup Permutations(Ids) \cup Permutations(Secrets)
=============================================================================
