--------------------------- MODULE TunnelProtocol ---------------------------
(***************************************************************************)
(* One tunnel between the server and an agent, and the tasks multiplexed   *)
(* over it.  A task is a public connection; its id names it in every       *)
(* frame.  On each side a goroutine per task copies from its socket into   *)
(* the tunnel, and one readLoop takes frames out of the tunnel and writes  *)
(* them to the task's other socket.  The agent dials the local service     *)
(* when the first frame of an id it does not know arrives.                 *)
(*                                                                         *)
(* A frame is written under the connection's write lock, so frames are     *)
(* whole in the stream.  Payloads are numbered chunks: chunk n of the      *)
(* public side, chunk n of the g-th local connection of a task.            *)
(***************************************************************************)
EXTENDS Naturals, Sequences

CONSTANTS
    Tasks,
    MaxChunks,  \* bound: chunks either side of a task sends
    MaxDials,   \* bound: local connections the agent opens for one id
    MaxFrames   \* bound: frames in flight in each direction

ASSUME BoundsAssumption == {MaxChunks, MaxDials, MaxFrames} \subseteq Nat

VARIABLES
    up,         \* the tunnel connection still takes writes
    aligned,    \* the server's readLoop is at a frame boundary
    timeout,    \* the server runs with a timeout: deadlines on reads, writes
    toAgent, toServer,   \* the two directions of the tunnel
    serverLoop, agentLoop,   \* the readLoop of that side runs
    srv,        \* per task: the goroutine in the server's conn.process
    peer,       \* per task: the public socket
    sent,       \* per task: chunks the public side sent into the tunnel
    pubGot,     \* per task: chunks written to the public side
    agt,        \* per task: the goroutine in httpTask.process
    dials,      \* per task: local connections opened
    local,      \* per task: the socket to the local service
    back,       \* per task: chunks the local connection sent back
    localGot,   \* per task: chunks written to the local side
    agentClosed \* the agent's conn.Close ran

tunnel     == <<up, toAgent, toServer>>
serverSide == <<aligned, timeout, serverLoop, srv, peer, sent, pubGot>>
agentSide  == <<agentLoop, agt, dials, local, back, localGot, agentClosed>>
vars == <<tunnel, serverSide, agentSide>>

\* A socket is open, left by its peer (reads end; writes may still succeed
\* and are lost), or closed by this side.
Sockets == {"open", "left", "closed"}
Chunks  == 1 .. MaxChunks
Dials   == 1 .. MaxDials

Frame(op, t, g, n) == [op |-> op, task |-> t, dial |-> g, chunk |-> n]
Frames == [op : {"data", "close"}, task : Tasks,
           dial : 0 .. MaxDials, chunk : 0 .. MaxChunks]

TypeOK ==
    /\ {up, aligned, timeout, serverLoop, agentLoop, agentClosed} \subseteq BOOLEAN
    /\ toAgent \in Seq(Frames) /\ Len(toAgent) <= MaxFrames
    /\ toServer \in Seq(Frames) /\ Len(toServer) <= MaxFrames
    /\ srv \in [Tasks -> {"new", "copy", "remove", "gone"}]
    /\ peer \in [Tasks -> Sockets]
    /\ sent \in [Tasks -> 0 .. MaxChunks]
    /\ pubGot \in [Tasks -> Seq(Dials \X Chunks)]
    /\ agt \in [Tasks -> {"none", "copy", "remove", "fail"}]
    /\ dials \in [Tasks -> 0 .. MaxDials]
    /\ local \in [Tasks -> Sockets]
    /\ back \in [Tasks -> 0 .. MaxChunks]
    /\ localGot \in [Tasks -> Seq(Dials \X Chunks)]

Init ==
    /\ up = TRUE /\ aligned = TRUE /\ timeout \in BOOLEAN
    /\ toAgent = <<>> /\ toServer = <<>>
    /\ serverLoop = TRUE /\ agentLoop = TRUE /\ agentClosed = FALSE
    /\ srv = [t \in Tasks |-> "new"]
    /\ peer = [t \in Tasks |-> "open"]
    /\ sent = [t \in Tasks |-> 0]
    /\ pubGot = [t \in Tasks |-> <<>>]
    /\ agt = [t \in Tasks |-> "none"]
    /\ dials = [t \in Tasks |-> 0]
    /\ local = [t \in Tasks |-> "closed"]
    /\ back = [t \in Tasks |-> 0]
    /\ localGot = [t \in Tasks |-> <<>>]

Set(f, t, v) == [f EXCEPT ![t] = v]

\* Mutation: a writer gets in front of what is already queued.
SendInFront(queue, frame) == <<frame>> \o queue

Send(queue, frame) == Append(queue, frame)
Room(queue) == Len(queue) < MaxFrames

-----------------------------------------------------------------------------
(* The server: conn.process of each task *)

InServerMap(t) == srv[t] \in {"copy", "remove"}

ServerStart(t) ==
    /\ srv[t] = "new" /\ up
    /\ srv' = Set(srv, t, "copy")
    /\ UNCHANGED <<tunnel, aligned, timeout, serverLoop, peer, sent, pubGot,
                   agentSide>>

\* A chunk read from the public side, written into the tunnel.
ServerSend(t) ==
    /\ srv[t] = "copy" /\ up /\ Room(toAgent)
    /\ peer[t] # "closed" /\ sent[t] < MaxChunks
    /\ sent' = Set(sent, t, sent[t] + 1)
    /\ toAgent' = Send(toAgent, Frame("data", t, 0, sent[t] + 1))
    /\ UNCHANGED <<up, toServer, aligned, timeout, serverLoop, srv, peer,
                   pubGot, agentSide>>

\* Reading from the public side ends (its peer left, its deadline passed,
\* this side closed it) or writing into the tunnel fails.  The deferred
\* function sends a close frame if writing still works.
ServerTaskEnds(t) ==
    /\ srv[t] = "copy"
    /\ peer[t] # "open" \/ timeout \/ ~up
    /\ up => Room(toAgent)
    /\ toAgent' = IF up THEN Send(toAgent, Frame("close", t, 0, 0)) ELSE toAgent
    /\ srv' = Set(srv, t, "remove")
    /\ UNCHANGED <<up, toServer, aligned, timeout, serverLoop, peer, sent,
                   pubGot, agentSide>>

\* client.process removes the task, conn.handle closes the public connection.
ServerRemoveTask(t) ==
    /\ srv[t] = "remove"
    /\ srv' = Set(srv, t, "gone")
    /\ peer' = Set(peer, t, "closed")
    /\ UNCHANGED <<tunnel, aligned, timeout, serverLoop, sent, pubGot,
                   agentSide>>

PublicLeaves(t) ==
    /\ srv[t] = "copy" /\ peer[t] = "open"
    /\ peer' = Set(peer, t, "left")
    /\ UNCHANGED <<tunnel, aligned, timeout, serverLoop, srv, sent, pubGot,
                   agentSide>>

-----------------------------------------------------------------------------
(* The server's readLoop *)

ServerReads(op, t) ==
    /\ serverLoop /\ aligned /\ toServer # <<>>
    /\ Head(toServer).op = op /\ Head(toServer).task = t
    /\ toServer' = Tail(toServer)

ServerData(t) ==
    /\ ServerReads("data", t)
    /\ InServerMap(t) /\ peer[t] = "open"
    /\ pubGot' = Set(pubGot, t,
           Append(pubGot[t], <<Head(toServer).dial, Head(toServer).chunk>>))
    /\ UNCHANGED <<up, toAgent, aligned, timeout, serverLoop, srv, peer, sent,
                   agentSide>>

\* The kernel still takes the data, nobody gets it.
ServerDataLost(t) ==
    /\ ServerReads("data", t)
    /\ InServerMap(t) /\ peer[t] = "left"
    /\ UNCHANGED <<up, toAgent, serverSide, agentSide>>

\* The write fails: the task is closed, and the loop continues without
\* reading the rest of the frame.
ServerDataWriteFails(t) ==
    /\ ServerReads("data", t)
    /\ InServerMap(t)
    /\ peer[t] = "left" \/ (peer[t] = "closed" /\ ~timeout)
    /\ peer' = Set(peer, t, "closed")
    /\ aligned' = FALSE
    /\ UNCHANGED <<up, toAgent, timeout, serverLoop, srv, sent, pubGot,
                   agentSide>>

\* With a timeout the write sets a deadline first.  On a connection this side
\* closed that fails, as an error that is not one of a write: readLoop
\* returns and the tunnel is closed.
ServerDataEndsTunnel(t) ==
    /\ ServerReads("data", t)
    /\ InServerMap(t) /\ peer[t] = "closed" /\ timeout
    /\ up' = FALSE /\ serverLoop' = FALSE
    /\ UNCHANGED <<toAgent, aligned, timeout, srv, peer, sent, pubGot,
                   agentSide>>

\* The task is gone.  ReadAll reads through a LimitedReader whose N is 0, so
\* the length and the payload stay in the stream.
ServerOrphanData(t) ==
    /\ ServerReads("data", t)
    /\ ~InServerMap(t)
    /\ aligned' = FALSE
    /\ UNCHANGED <<up, toAgent, timeout, serverLoop, srv, peer, sent, pubGot,
                   agentSide>>

\* Mutation: a close frame is read and ignored.
ServerCloseIgnored(t) ==
    /\ ServerReads("close", t)
    /\ UNCHANGED <<up, toAgent, serverSide, agentSide>>

ServerClose(t) ==
    /\ ServerReads("close", t)
    /\ peer' = IF InServerMap(t) THEN Set(peer, t, "closed") ELSE peer
    /\ UNCHANGED <<up, toAgent, aligned, timeout, serverLoop, srv, sent,
                   pubGot, agentSide>>

\* Off a frame boundary any bytes may be taken for an id and an operation:
\* nothing happens, some task is closed, or the loop returns.  What garbage
\* may be written to a task is not kept.
ServerReadsGarbage ==
    /\ serverLoop /\ ~aligned /\ toServer # <<>>
    /\ toServer' = Tail(toServer)
    /\ \/ UNCHANGED <<up, serverLoop, peer>>
       \/ /\ \E t \in Tasks : InServerMap(t) /\ peer' = Set(peer, t, "closed")
          /\ UNCHANGED <<up, serverLoop>>
       \/ up' = FALSE /\ serverLoop' = FALSE /\ UNCHANGED peer
    /\ UNCHANGED <<toAgent, aligned, timeout, srv, sent, pubGot, agentSide>>

\* The tunnel cannot be read any more, or nothing came until its deadline.
ServerLoopEnds ==
    /\ serverLoop /\ (~up \/ timeout)
    /\ serverLoop' = FALSE /\ up' = FALSE
    /\ UNCHANGED <<toAgent, toServer, aligned, timeout, srv, peer, sent,
                   pubGot, agentSide>>

-----------------------------------------------------------------------------
(* The agent's readLoop *)

InAgentMap(t) == agt[t] # "none"

AgentReads(op, t) ==
    /\ agentLoop /\ toAgent # <<>>
    /\ Head(toAgent).op = op /\ Head(toAgent).task = t
    /\ toAgent' = Tail(toAgent)

\* processData for a known task.  When the write fails the rest of the frame
\* is discarded, so the loop stays at a frame boundary.
AgentData(t) ==
    /\ AgentReads("data", t) /\ InAgentMap(t)
    /\ localGot' =
         IF local[t] = "open"
         THEN Set(localGot, t,
                  Append(localGot[t], <<dials[t], Head(toAgent).chunk>>))
         ELSE localGot
    /\ UNCHANGED <<up, toServer, serverSide,
                   agentLoop, agt, dials, local, back, agentClosed>>

\* Mutation: the local connection is numbered before it is counted.
AgentDialsStale(t) ==
    /\ AgentReads("data", t) /\ ~InAgentMap(t)
    /\ dials[t] < MaxDials
    /\ dials' = Set(dials, t, dials[t] + 1)
    /\ local' = Set(local, t, "open")
    /\ back' = Set(back, t, 0)
    /\ agt' = Set(agt, t, "copy")
    /\ localGot' = Set(localGot, t,
           Append(localGot[t], <<dials[t], Head(toAgent).chunk>>))
    /\ UNCHANGED <<up, toServer, serverSide, agentLoop, agentClosed>>

\* processData for an unknown id: dial, start httpTask.process, write.
AgentDials(t) ==
    /\ AgentReads("data", t) /\ ~InAgentMap(t)
    /\ dials[t] < MaxDials
    /\ dials' = Set(dials, t, dials[t] + 1)
    /\ local' = Set(local, t, "open")
    /\ back' = Set(back, t, 0)
    /\ agt' = Set(agt, t, "copy")
    /\ localGot' = Set(localGot, t,
           Append(localGot[t], <<dials[t] + 1, Head(toAgent).chunk>>))
    /\ UNCHANGED <<up, toServer, serverSide, agentLoop, agentClosed>>

\* The local service does not accept: the frame is discarded.
AgentDialFails(t) ==
    /\ AgentReads("data", t) /\ ~InAgentMap(t)
    /\ UNCHANGED <<up, toServer, serverSide, agentSide>>

\* Mutation: a close frame is read and ignored.
AgentCloseIgnored(t) ==
    /\ AgentReads("close", t)
    /\ UNCHANGED <<up, toServer, serverSide, agentSide>>

AgentClose(t) ==
    /\ AgentReads("close", t)
    /\ local' = IF InAgentMap(t) THEN Set(local, t, "closed") ELSE local
    /\ UNCHANGED <<up, toServer, serverSide,
                   agentLoop, agt, dials, back, localGot, agentClosed>>

\* conn.Close of the agent, with the tasks of the map "running": the first
\* call closes them all and the connection.
AgentConnClose(running) ==
    /\ up' = FALSE /\ agentClosed' = TRUE
    /\ local' = [t \in Tasks |->
                    IF t \in running /\ ~agentClosed THEN "closed" ELSE local[t]]

\* The tunnel cannot be read any more.  Frames that are in the buffer may
\* still be handled before, even after another goroutine's conn.Close.
AgentLoopEnds ==
    /\ agentLoop /\ ~up
    /\ agentLoop' = FALSE
    /\ AgentConnClose({t \in Tasks : InAgentMap(t)})
    /\ UNCHANGED <<toAgent, toServer, serverSide, agt, dials, back, localGot>>

-----------------------------------------------------------------------------
(* The agent: httpTask.process of each task *)

AgentSend(t) ==
    /\ agt[t] = "copy" /\ up /\ Room(toServer)
    /\ local[t] # "closed" /\ back[t] < MaxChunks
    /\ back' = Set(back, t, back[t] + 1)
    /\ toServer' = Send(toServer, Frame("data", t, dials[t], back[t] + 1))
    /\ UNCHANGED <<up, toAgent, serverSide,
                   agentLoop, agt, dials, local, localGot, agentClosed>>

LocalLeaves(t) ==
    /\ agt[t] = "copy" /\ local[t] = "open"
    /\ local' = Set(local, t, "left")
    /\ UNCHANGED <<tunnel, serverSide,
                   agentLoop, agt, dials, back, localGot, agentClosed>>

\* Mutation: no close frame is sent.
AgentTaskEndsSilently(t) ==
    /\ agt[t] = "copy"
    /\ agt' = Set(agt, t, IF up THEN "remove" ELSE "fail")
    /\ UNCHANGED <<tunnel, serverSide,
                   agentLoop, dials, local, back, localGot, agentClosed>>

\* Reading from the local service ends, by its deadline too, or writing into
\* the tunnel fails.
AgentTaskEnds(t) ==
    /\ agt[t] = "copy"
    /\ up => Room(toServer)
    /\ toServer' = IF up THEN Send(toServer, Frame("close", t, dials[t], 0))
                         ELSE toServer
    /\ agt' = Set(agt, t, IF up THEN "remove" ELSE "fail")
    /\ UNCHANGED <<up, toAgent, serverSide,
                   agentLoop, dials, local, back, localGot, agentClosed>>

\* The task leaves the map and closes its socket.
AgentRemoveTask(t) ==
    /\ agt[t] = "remove"
    /\ agt' = Set(agt, t, "none")
    /\ local' = Set(local, t, "closed")
    /\ UNCHANGED <<tunnel, serverSide,
                   agentLoop, dials, back, localGot, agentClosed>>

\* The same after a failed write, which closes the connection.
AgentRemoveFailed(t) ==
    /\ agt[t] = "fail"
    /\ agt' = Set(agt, t, "none")
    /\ up' = FALSE /\ agentClosed' = TRUE
    /\ local' = [u \in Tasks |->
                    IF u = t \/ (InAgentMap(u) /\ ~agentClosed)
                    THEN "closed" ELSE local[u]]
    /\ UNCHANGED <<toAgent, toServer, serverSide,
                   agentLoop, dials, back, localGot>>

\* The network or the other end fails.
TunnelBreaks ==
    /\ up
    /\ up' = FALSE
    /\ UNCHANGED <<toAgent, toServer, serverSide, agentSide>>

-----------------------------------------------------------------------------
ServerRead(t) ==
    \/ ServerData(t) \/ ServerDataLost(t) \/ ServerDataWriteFails(t)
    \/ ServerDataEndsTunnel(t) \/ ServerOrphanData(t) \/ ServerClose(t)

AgentRead(t) ==
    \/ AgentData(t) \/ AgentDials(t) \/ AgentDialFails(t) \/ AgentClose(t)

Next ==
    \/ \E t \in Tasks :
          \/ ServerStart(t) \/ ServerSend(t) \/ ServerTaskEnds(t)
          \/ ServerRemoveTask(t) \/ PublicLeaves(t) \/ ServerRead(t)
          \/ AgentRead(t) \/ AgentSend(t) \/ LocalLeaves(t)
          \/ AgentTaskEnds(t) \/ AgentRemoveTask(t) \/ AgentRemoveFailed(t)
    \/ ServerReadsGarbage \/ ServerLoopEnds \/ AgentLoopEnds
    \/ TunnelBreaks

Spec == Init /\ [][Next]_vars

\* Goroutines run.  A read that can end ends, no peer is obliged to leave and
\* no network to fail.
Fairness ==
    /\ \A t \in Tasks :
          /\ WF_vars(peer[t] # "open" /\ ServerTaskEnds(t))
          /\ WF_vars(ServerRemoveTask(t))
          /\ WF_vars(local[t] # "open" /\ AgentTaskEnds(t))
          /\ WF_vars(AgentRemoveTask(t) \/ AgentRemoveFailed(t))
    /\ WF_vars(ServerReadsGarbage \/ \E t \in Tasks : ServerRead(t))
    /\ WF_vars(\E t \in Tasks : AgentRead(t))
    /\ WF_vars(ServerLoopEnds /\ ~up)
    /\ WF_vars(AgentLoopEnds)

FairSpec == Init /\ [][Next]_vars /\ Fairness

-----------------------------------------------------------------------------
(* Properties *)

\* What one local connection is given is a piece of the public side's stream
\* without a gap, and no chunk is given twice (client/conn.go:251-316).
LocalStreamWhole ==
    \A t \in Tasks : \A i \in 1 .. Len(localGot[t]) - 1 :
        LET a == localGot[t][i]  b == localGot[t][i + 1]
        IN  /\ a[2] < b[2]
            /\ a[1] = b[1] => b[2] = a[2] + 1

\* What the public side is given is the stream of one local connection from
\* its beginning: a second local connection that the agent opened for late
\* frames never answers into the same public connection, because the close
\* frame of the first is ahead of it (server/conn.go:331-412,
\* client/task.go:215-240).
PublicStreamWhole ==
    \A t \in Tasks : \A i \in 1 .. Len(pubGot[t]) :
        pubGot[t][i] = <<pubGot[t][1][1], i>>

\* When the public connection is gone, so is in the end every local
\* connection opened for it, those opened for late frames included: the close
\* frame comes after them.  The one exception is a connection that readLoop
\* dials after another goroutine's conn.Close already went over the tasks
\* (server/conn.go:421-440, client/conn.go:92-103 and 206-214).
LocalEndsWithPublic ==
    \A t \in Tasks :
        srv[t] = "gone" ~> agt[t] = "none" \/ (agentClosed /\ local[t] = "open")

\* When the local service ended the task, the public connection ends too, as
\* long as the tunnel works and the server still finds the frames
\* (client/task.go:220-243, server/conn.go:405-412).
PublicEndsWithLocal ==
    \A t \in Tasks : agt[t] = "remove" ~> srv[t] = "gone" \/ ~aligned \/ ~up

\* A frame for a task that is gone is taken whole: what "orphan resp" logs as
\* content is the content of that frame (server/conn.go:331-336).
OrphanFramesTaken ==
    [][\A t \in Tasks :
          ServerReads("data", t) /\ ~InServerMap(t) => aligned']_vars
=============================================================================
