------------------------------- MODULE Agent -------------------------------
(***************************************************************************)
(* The agent's side of its tunnels: client/client.go and the signals of    *)
(* client/conn.go.  A connectLoop goroutine per remote connection dials    *)
(* the server, sends the handshake and runs readLoop; the tunnel is ready  *)
(* when the server's ready signal was read.  Close stops the agent;        *)
(* WaitUntilReady waits for the first tunnel.                              *)
(*                                                                         *)
(* The server and the network are an environment: the server answers the   *)
(* handshake with ready or an error, answers pings, and may send a close   *)
(* signal or end the connection at any time.                               *)
(***************************************************************************)
EXTENDS Naturals, Sequences, FiniteSets

CONSTANTS Loops,      \* the connectLoop goroutines: RemoteConnections of them
          Waiters,    \* callers of WaitUntilReady
          NoLoop,
          MaxInbox    \* bound: signals of the server on their way

ASSUME MaxInboxAssumption == MaxInbox \in Nat

VARIABLES
    closing,    \* Client.closing
    tunnels,    \* the loops whose connection is in Client.tunnels
    initMtx,    \* who holds initConnMtx
    loop,       \* per loop: where connectLoop is
    open,       \* per loop: its connection carries bytes
    closed,     \* per loop: conn.Closing
    server,     \* per loop: what the server did with the connection
    inbox,      \* per loop: signals of the server, in order
    pinged,     \* per loop: pings on their way to the server
    pings,      \* per loop: readLoop's count
    wait,       \* per waiter: where WaitUntilReady is
    fired,      \* per waiter: its timer ran and stored the error
    connected,  \* history: a tunnel became ready so far
    missed      \* history: connections being made or not ready when Close ran

conn == <<open, closed, server, inbox, pinged, pings>>
waiting == <<wait, fired, connected>>
vars == <<closing, missed, tunnels, initMtx, loop, conn, waiting>>

TypeOK ==
    /\ closing \in BOOLEAN
    /\ tunnels \subseteq Loops
    /\ initMtx \in Loops \cup {NoLoop}
    /\ loop \in [Loops -> {"top", "lock", "init", "read", "leave",
                          "slow", "exit"}]
    /\ open \in [Loops -> BOOLEAN]
    /\ closed \in [Loops -> BOOLEAN]
    /\ server \in [Loops -> {"new", "ready", "refused", "left"}]
    /\ inbox \in [Loops -> Seq({"ready", "error", "close", "ping"})]
    /\ \A l \in Loops : Len(inbox[l]) <= MaxInbox
    /\ pinged \in [Loops -> 0 .. 1]
    /\ pings \in [Loops -> 0 .. 1]
    /\ wait \in [Waiters -> {"idle", "armed", "waiting", "woken", "ready",
                             "timeout"}]
    /\ fired \in [Waiters -> BOOLEAN]
    /\ connected \in BOOLEAN
    /\ missed \subseteq Loops

Init ==
    /\ closing = FALSE /\ tunnels = {} /\ initMtx = NoLoop
    /\ loop = [l \in Loops |-> "top"]
    /\ open = [l \in Loops |-> FALSE]
    /\ closed = [l \in Loops |-> FALSE]
    /\ server = [l \in Loops |-> "new"]
    /\ inbox = [l \in Loops |-> <<>>]
    /\ pinged = [l \in Loops |-> 0]
    /\ pings = [l \in Loops |-> 0]
    /\ wait = [w \in Waiters |-> "idle"]
    /\ fired = [w \in Waiters |-> FALSE]
    /\ connected = FALSE /\ missed = {}

Set(f, x, v) == [f EXCEPT ![x] = v]

\* Everyone on the condition's list wakes up.
Broadcast(ws) == [w \in Waiters |-> IF ws[w] = "waiting" THEN "woken" ELSE ws[w]]

\* tunnelsRWMtx can be locked for writing: nobody is between the look at the
\* tunnels and the condition's list.
Lockable == \A w \in Waiters : wait[w] # "armed"

-----------------------------------------------------------------------------
(* connectLoop and connect *)

LoopTop(l) ==
    /\ loop[l] = "top"
    /\ loop' = Set(loop, l, IF closing THEN "exit" ELSE "lock")
    /\ UNCHANGED <<closing, missed, tunnels, initMtx, conn, waiting>>

LockInit(l) ==
    /\ loop[l] = "lock" /\ initMtx = NoLoop
    /\ initMtx' = l
    /\ loop' = Set(loop, l, "init")
    /\ UNCHANGED <<closing, missed, tunnels, conn, waiting>>

\* initConn: the connection is made and the handshake written.
InitConn(l) ==
    /\ loop[l] = "init"
    /\ initMtx' = NoLoop
    /\ loop' = Set(loop, l, "read")
    /\ open' = Set(open, l, TRUE) /\ closed' = Set(closed, l, FALSE)
    /\ UNCHANGED <<closing, missed, tunnels, server, inbox, pinged, pings, waiting>>

\* Mutation: initConnMtx is not released when dialing fails.
InitConnFailsLocked(l) ==
    /\ loop[l] = "init"
    /\ loop' = Set(loop, l, "leave")
    /\ UNCHANGED <<closing, missed, tunnels, initMtx, conn, waiting>>

\* Dialing or writing the handshake fails.
InitConnFails(l) ==
    /\ loop[l] = "init"
    /\ initMtx' = NoLoop
    /\ loop' = Set(loop, l, "leave")
    /\ UNCHANGED <<closing, missed, tunnels, conn, waiting>>

\* connect: after the connection, closing is looked at before the delay.
Leave(l) ==
    /\ loop[l] = "leave"
    /\ loop' = Set(loop, l, IF closing THEN "exit" ELSE "slow")
    /\ UNCHANGED <<closing, missed, tunnels, initMtx, conn, waiting>>

\* The reconnect delay is over and, with a remote API, its answer is there;
\* while the API does not answer, closing is looked at again.
Reconnect(l) ==
    /\ loop[l] = "slow"
    /\ loop' = Set(loop, l, "top")
    /\ UNCHANGED <<closing, missed, tunnels, initMtx, conn, waiting>>

RemoteAPIFails(l) ==
    /\ loop[l] = "slow" /\ closing
    /\ loop' = Set(loop, l, "exit")
    /\ UNCHANGED <<closing, missed, tunnels, initMtx, conn, waiting>>

-----------------------------------------------------------------------------
(* readLoop *)

\* Mutation: the tunnel is not removed.
EndReadLoopOnly(l, next) ==
    /\ Lockable
    /\ closed' = Set(closed, l, TRUE)
    /\ open' = Set(open, l, FALSE)
    /\ loop' = Set(loop, l, next)
    /\ server' = Set(server, l, "new")
    /\ inbox' = Set(inbox, l, <<>>)
    /\ pinged' = Set(pinged, l, 0) /\ pings' = Set(pings, l, 0)
    /\ UNCHANGED <<closing, missed, tunnels, initMtx, waiting>>

\* readLoop's deferred function: removeTunnel and conn.Close.  The state of the
\* connection is of no interest any more.  After a panic that connect recovers
\* from, connectLoop goes on without a delay.
EndReadLoop(l, next) ==
    /\ Lockable
    /\ tunnels' = tunnels \ {l}
    /\ closed' = Set(closed, l, TRUE)
    /\ open' = Set(open, l, FALSE)
    /\ loop' = Set(loop, l, next)
    /\ server' = Set(server, l, "new")
    /\ inbox' = Set(inbox, l, <<>>)
    /\ pinged' = Set(pinged, l, 0) /\ pings' = Set(pings, l, 0)
    /\ UNCHANGED <<closing, missed, initMtx, waiting>>

Reads(l, signal) ==
    loop[l] = "read" /\ inbox[l] # <<>> /\ Head(inbox[l]) = signal

Take(l) == inbox' = Set(inbox, l, Tail(inbox[l]))

\* addTunnel, and everyone in WaitUntilReady wakes up.
ReadReady(l) ==
    /\ Reads(l, "ready") /\ Take(l)
    /\ tunnels' = tunnels \cup {l}
    /\ Lockable
    /\ wait' = Broadcast(wait) /\ connected' = TRUE
    /\ UNCHANGED <<closing, missed, initMtx, loop, open, closed, server, pinged, pings,
                   fired>>

\* Mutation: the answer to a ping is not counted.
ReadPingOnly(l) ==
    /\ Reads(l, "ping") /\ Take(l)
    /\ UNCHANGED <<closing, missed, tunnels, initMtx, loop, open, closed, server,
                   pinged, pings, waiting>>

ReadPing(l) ==
    /\ Reads(l, "ping") /\ Take(l)
    /\ pings' = Set(pings, l, pings[l] - 1)
    /\ UNCHANGED <<closing, missed, tunnels, initMtx, loop, open, closed, server,
                   pinged, waiting>>

ReadEnds(l) ==
    /\ Reads(l, "close") \/ Reads(l, "error")
    /\ EndReadLoop(l, "leave")

\* Mutation: one more ping is sent.
ReadTimeoutMore(l) ==
    /\ loop[l] = "read" /\ open[l] /\ inbox[l] = <<>>
    /\ pings[l] <= 1
    /\ pinged' = Set(pinged, l, pinged[l] + 1)
    /\ pings' = Set(pings, l, pings[l] + 1)
    /\ UNCHANGED <<closing, missed, initMtx, tunnels, loop, open, closed, server,
                   inbox, waiting>>

\* Nothing came for RemoteTimeout: a ping is sent, and the loop goes on while
\* no other ping is unanswered.
ReadTimeout(l) ==
    /\ loop[l] = "read" /\ open[l] /\ inbox[l] = <<>>
    /\ pings[l] + 1 <= 1
    /\ pinged' = Set(pinged, l, pinged[l] + 1)
    /\ pings' = Set(pings, l, pings[l] + 1)
    /\ UNCHANGED <<closing, missed, initMtx, tunnels, loop, open, closed, server, inbox,
                   waiting>>

\* The second ping without an answer ends it.
LastPing(l) ==
    /\ loop[l] = "read" /\ open[l] /\ inbox[l] = <<>>
    /\ pings[l] + 1 > 1
    /\ EndReadLoop(l, "leave")

\* The connection ended, or this side closed it.  What had come may have been
\* read before or not.
ReadFails(l) ==
    /\ loop[l] = "read" /\ ~open[l]
    /\ EndReadLoop(l, "leave")

ReadPanics(l) ==
    /\ loop[l] = "read" /\ server[l] = "ready"
    /\ EndReadLoop(l, "top")

-----------------------------------------------------------------------------
(* Client.Close, with tunnelsRWMtx held for all of it *)

Missed == {l \in Loops : loop[l] \in {"lock", "init", "read"}} \ tunnels

\* Mutation: the tunnels are told, but not closed.
CloseSignalOnly ==
    /\ ~closing /\ Lockable
    /\ closing' = TRUE /\ missed' = Missed
    /\ UNCHANGED <<tunnels, initMtx, loop, conn, waiting>>

Close ==
    /\ ~closing /\ Lockable
    /\ closing' = TRUE /\ missed' = Missed
    /\ closed' = [l \in Loops |-> closed[l] \/ l \in tunnels]
    /\ open' = [l \in Loops |-> open[l] /\ l \notin tunnels]
    /\ UNCHANGED <<tunnels, initMtx, loop, server, inbox, pinged, pings,
                   waiting>>

-----------------------------------------------------------------------------
(* WaitUntilReady *)

\* The read lock is held from the look at the tunnels until the condition's
\* list has the caller.
WaitCheck(w) ==
    /\ wait[w] = "idle"
    /\ wait' = Set(wait, w, IF tunnels = {} THEN "armed" ELSE "ready")
    /\ UNCHANGED <<closing, missed, tunnels, initMtx, loop, conn, fired, connected>>

WaitBegin(w) ==
    /\ wait[w] = "armed"
    /\ wait' = Set(wait, w, "waiting")
    /\ UNCHANGED <<closing, missed, tunnels, initMtx, loop, conn, fired, connected>>

\* Mutation: the timer wakes nobody.
WaitTimerSilent(w) ==
    /\ wait[w] \in {"armed", "waiting", "woken"} /\ ~fired[w]
    /\ fired' = Set(fired, w, TRUE)
    /\ UNCHANGED <<closing, missed, tunnels, initMtx, loop, conn, wait,
                   connected>>

\* The timer stores its error and wakes everyone; it needs no lock.
WaitTimer(w) ==
    /\ wait[w] \in {"armed", "waiting", "woken"} /\ ~fired[w]
    /\ fired' = Set(fired, w, TRUE)
    /\ wait' = Broadcast(wait)
    /\ UNCHANGED <<closing, missed, tunnels, initMtx, loop, conn, connected>>

\* Without an error of its own timer the woken caller returns nil at once.
WaitReturn(w) ==
    /\ wait[w] = "woken"
    /\ wait' = Set(wait, w, IF fired[w] THEN "timeout" ELSE "ready")
    /\ UNCHANGED <<closing, missed, tunnels, initMtx, loop, conn, fired, connected>>

-----------------------------------------------------------------------------
(* The server and the network, external *)

Connected(l) == loop[l] = "read" /\ open[l]

ServerSends(l, signal) ==
    /\ Connected(l) /\ Len(inbox[l]) < MaxInbox
    /\ inbox' = Set(inbox, l, Append(inbox[l], signal))
    /\ UNCHANGED <<closing, missed, tunnels, initMtx, loop, closed, waiting>>

ServerReady(l) ==
    /\ server[l] = "new" /\ ServerSends(l, "ready")
    /\ server' = Set(server, l, "ready")
    /\ UNCHANGED <<open, pinged, pings>>

ServerRefuses(l) ==
    /\ server[l] = "new" /\ ServerSends(l, "error")
    /\ server' = Set(server, l, "refused")
    /\ open' = Set(open, l, FALSE)
    /\ UNCHANGED <<pinged, pings>>

ServerAnswersPing(l) ==
    /\ server[l] = "ready" /\ pinged[l] > 0 /\ ServerSends(l, "ping")
    /\ pinged' = Set(pinged, l, pinged[l] - 1)
    /\ UNCHANGED <<server, open, pings>>

ServerCloses(l) ==
    /\ server[l] = "ready" /\ ServerSends(l, "close")
    /\ server' = Set(server, l, "left")
    /\ UNCHANGED <<open, pinged, pings>>

ConnectionBreaks(l) ==
    /\ Connected(l)
    /\ open' = Set(open, l, FALSE)
    /\ UNCHANGED <<closing, missed, tunnels, initMtx, loop, closed, server, inbox,
                   pinged, pings, waiting>>

-----------------------------------------------------------------------------
ReadSignal(l) == ReadReady(l) \/ ReadPing(l) \/ ReadEnds(l)

\* Everything but the calls of Close and WaitUntilReady.
Step ==
    \/ \E l \in Loops :
          \/ LoopTop(l) \/ LockInit(l) \/ InitConn(l) \/ InitConnFails(l)
          \/ Leave(l) \/ Reconnect(l) \/ RemoteAPIFails(l)
          \/ ReadSignal(l) \/ ReadTimeout(l) \/ LastPing(l) \/ ReadFails(l)
          \/ ReadPanics(l)
          \/ ServerReady(l) \/ ServerRefuses(l) \/ ServerAnswersPing(l)
          \/ ServerCloses(l) \/ ConnectionBreaks(l)
    \/ \E w \in Waiters : WaitBegin(w) \/ WaitTimer(w) \/ WaitReturn(w)

Next == Step \/ Close \/ \E w \in Waiters : WaitCheck(w)

Spec == Init /\ [][Next]_vars

\* Goroutines run, timers fire, a dial comes to an end.  Go's mutexes do not
\* starve a goroutine.  Nothing is assumed of the server, of the network, and
\* of whoever calls Close or WaitUntilReady.
Fairness ==
    /\ \A l \in Loops :
          /\ WF_vars(LoopTop(l))
          /\ SF_vars(LockInit(l))
          /\ WF_vars(InitConn(l) \/ InitConnFails(l))
          /\ WF_vars(Leave(l) \/ Reconnect(l) \/ RemoteAPIFails(l))
          /\ WF_vars(ReadSignal(l) \/ ReadFails(l))
    /\ \A w \in Waiters :
          /\ WF_vars(WaitBegin(w))
          /\ WF_vars(WaitTimer(w))
          /\ WF_vars(WaitReturn(w))

FairSpec == Init /\ [][Next]_vars /\ Fairness

-----------------------------------------------------------------------------
(* Properties *)

\* Every tunnel of Client.tunnels is one the server accepted and some readLoop
\* still serves; none is left behind by a readLoop that ended, however it
\* ended (client.go:318-329, conn.go:105-117, 155-158).
TunnelsServed ==
    \A l \in tunnels : loop[l] = "read" /\ server[l] \in {"ready", "left"}

\* readLoop's count is the pings that are not answered yet, those whose answer
\* is on its way included, so a timeout ends the connection only when the ping
\* before it was not answered (conn.go:120-150).
PingsCounted ==
    \A l \in Loops :
        loop[l] = "read" =>
            pings[l] = pinged[l] + Cardinality({i \in DOMAIN inbox[l] :
                                                    inbox[l][i] = "ping"})

\* An agent that is not closed dials again after every lost connection, also
\* after a failed dial and a recovered panic (client.go:272-316).
Reconnects ==
    \A l \in Loops : loop[l] \in {"leave", "slow", "top", "lock"}
                         ~> closing \/ loop[l] = "init"

\* After Close every connectLoop exits.  The exception is a connection that
\* was being made or not ready yet when Close ran: it stays as long as the
\* server keeps it (client.go:242-253, 290-316).  ~closing is another agent,
\* where a caller has several in turn.
CloseEndsLoops ==
    closing ~> \/ ~closing
               \/ \A l \in Loops :
                      loop[l] = "exit" \/ (l \in missed /\ loop[l] = "read")

\* A caller of WaitUntilReady that is on the condition's list when its timer
\* fires returns (client.go:334-357).
WaitEnds ==
    \A w \in Waiters :
        wait[w] = "waiting" /\ ~fired[w] ~> wait[w] \in {"ready", "timeout"}

\* "Close stops the client agent" (client.go:241): a closed agent has no
\* tunnel that still works.
CloseStops == closing => \A l \in tunnels : closed[l]
=============================================================================
