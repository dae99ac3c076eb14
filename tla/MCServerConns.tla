--------------------------- MODULE MCServerConns ---------------------------
(* ServerConns on a small instance, without API server and auth API: those   *)
(* are the concern of AgentRegistry's own run.                               *)
EXTENDS ServerConns, TLC

MCInit == ServerInit /\ mode # "authAPI" /\ ~apiServer

MCSpec == MCInit /\ [][ServerNext]_serverVars

\* Liveness where the server only accepts configured users.
MCConfigInit == MCInit /\ mode = "config"

MCFairSpec ==
    MCConfigInit /\ [][ServerNext]_serverVars /\ ServerFairness

Symmetry ==
    Permutations(Conns) \cup Permutations(Requests) \cup Permutations(Clients)
=============================================================================
