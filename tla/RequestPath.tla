----------------------------- MODULE RequestPath -----------------------------
(***************************************************************************)
(* The data of one public connection on its way to an agent, as            *)
(* processData of client/conn.go takes it: either a request of the local   *)
(* service, which the server has routed by its first bytes, or a           *)
(* peer-to-peer exchange. Which one it is shows in the first bytes of the  *)
(* task; the two share nothing but the map lookups that PeerTask has.      *)
(* Or the connections of one agent, with nothing but their ids.            *)
(***************************************************************************)
EXTENDS PublicRequest, PeerTask, TaskIds

dataVars == <<vars, pubVars, peerVars, idVars>>

NoRequest  == request = <<>> /\ ~useLocalAsHTTPHost /\ routing = "peeking"
NoExchange == messages = <<>> /\ ~stuns
NoIds      == seed = 0

PathInit ==
    /\ Init /\ PublicInit /\ PeerFresh /\ IdsFresh
    /\ \/ NoExchange /\ NoIds
       \/ NoRequest /\ messages \in Exchanges /\ NoIds
       \/ NoRequest /\ NoExchange

\* handle of the server, then processData for a connection that does not
\* begin with X1.
HTTPData == NoExchange /\ PublicNext /\ UNCHANGED <<peerVars, idVars>>

PeerData == messages # <<>> /\ PeerNext /\ UNCHANGED <<vars, pubVars, idVars>>

\* client.process of the server, for the connections of one agent.
TaskData == NoRequest /\ NoExchange /\ IdNext /\ UNCHANGED <<vars, pubVars, peerVars>>

PathNext == HTTPData \/ PeerData \/ TaskData

\* Goroutines run and the timer fires.  Neither WebRTC nor the public side has
\* to do anything.
PathFairness ==
    /\ WF_dataVars(LoopStep /\ UNCHANGED <<vars, pubVars, idVars>>)
    /\ WF_dataVars(SDPStep /\ UNCHANGED <<vars, pubVars, idVars>>)
    /\ WF_dataVars(TimerFires /\ UNCHANGED <<vars, pubVars, idVars>>)

PathSpec == PathInit /\ [][PathNext]_dataVars /\ PathFairness

\* The types of all parts.
PathTypeOK == PublicTypeOK /\ PeerTypeOK /\ IdTypeOK
=============================================================================
