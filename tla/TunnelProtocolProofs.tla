------------------------ MODULE TunnelProtocolProofs ------------------------
(* That the tunnel stays well typed, that what a local connection is given   *)
(* is a piece of the public stream without a gap, and that what the public   *)
(* side is given is the stream of one local connection from its beginning,   *)
(* for any numbers of tasks, chunks, local connections and frames in flight. *)
EXTENDS TunnelProtocol, TLAPS

IsData(f, t)  == f.op = "data" /\ f.task = t
IsClose(f, t) == f.op = "close" /\ f.task = t

\* Where the data of a task is in a queue; the part before a close frame of
\* the task; is there a close frame of it?
Data(q, t)     == {i \in DOMAIN q : IsData(q[i], t)}
Front(q, t)    == {i \in Data(q, t) : \A j \in 1 .. i - 1 : ~IsClose(q[j], t)}
HasClose(q, t) == \E j \in DOMAIN q : IsClose(q[j], t)

\* Data towards the agent is of no local connection yet, data towards the
\* server is of one.
FramesKnow ==
    /\ \A i \in DOMAIN toAgent :
          toAgent[i].op = "data" => toAgent[i].chunk \in Chunks
    /\ \A i \in DOMAIN toServer : toServer[i].op = "data" =>
          toServer[i].dial \in Dials /\ toServer[i].chunk \in Chunks

\* The agent has a task after it dialled.
AgentKnows ==
    \A t \in Tasks :
        /\ agt[t] # "none" => dials[t] \in Dials
        /\ local[t] = "open" => agt[t] # "none"

\* Before its handler started nothing of a task is anywhere; after it ended
\* the public socket is closed.
ServerKnows ==
    \A t \in Tasks :
        /\ srv[t] = "new" =>
              /\ dials[t] = 0 /\ agt[t] = "none"
              /\ \A i \in DOMAIN toAgent : toAgent[i].task # t
              /\ \A i \in DOMAIN toServer : toServer[i].task # t
        /\ srv[t] = "gone" => peer[t] = "closed"

TunnelInv == TypeOK /\ FramesKnow /\ AgentKnows /\ ServerKnows

\* The chunks m+1 .. n of a task are in a queue.
Queued(q, where, m, n) ==
    \A k \in m + 1 .. n : \E i \in where : q[i].chunk = k

Increasing(q, where) ==
    \A i, j \in where : i < j => q[i].chunk < q[j].chunk

\* What LocalStreamWhole says of one task.
WholePieces(got) ==
    \A i \in 1 .. Len(got) - 1 :
        /\ got[i][2] < got[i + 1][2]
        /\ got[i][1] = got[i + 1][1] => got[i + 1][2] = got[i][2] + 1

\* The queue holds public chunks of a task that no local connection was given,
\* in order and to the last one sent (m); d local connections were opened.
Ahead(q, t, m, got, d) ==
    /\ Increasing(q, Data(q, t))
    /\ \A i \in Data(q, t) :
          /\ q[i].chunk <= m
          /\ Queued(q, Data(q, t), q[i].chunk, m)
          /\ \A k \in DOMAIN got : got[k][2] < q[i].chunk
    /\ \A k \in DOMAIN got : got[k][1] <= d /\ got[k][2] <= m
    /\ WholePieces(got)

\* The last chunk was given to the local connection opened last, and those
\* after it are in the queue.
Serves(q, t, m, got, d) ==
    /\ got # <<>> /\ got[Len(got)][1] = d
    /\ Queued(q, Data(q, t), got[Len(got)][2], m)

LocalInv ==
    \A t \in Tasks :
        /\ Ahead(toAgent, t, sent[t], localGot[t], dials[t])
        /\ local[t] = "open" =>
              Serves(toAgent, t, sent[t], localGot[t], dials[t])

\* A task whose public socket is open gets what comes before the first close
\* frame: the next chunks of the one local connection it has heard of.
Live(t) == aligned /\ peer[t] = "open"

Stream(q, t, got) ==
    /\ Increasing(q, Front(q, t))
    /\ \A i \in Front(q, t) :
          Len(got) < q[i].chunk /\ Queued(q, Front(q, t), Len(got), q[i].chunk)
    /\ \E g \in 0 .. MaxDials :
          /\ \A i \in Front(q, t) : q[i].dial = g
          /\ \A k \in DOMAIN got : got[k] = <<g, k>>

\* Without a close frame on its way the agent's sender (its goroutine a, local
\* connection d, b chunks sent) is at the end of it.
Sender(q, t, got, a, d, b) ==
    \/ d = 0 /\ a = "none" /\ Front(q, t) = {} /\ got = <<>>
    \/ /\ a = "copy" /\ Len(got) <= b
       /\ got # <<>> => got[1][1] = d
       /\ Queued(q, Front(q, t), Len(got), b)
       /\ \A i \in Front(q, t) : q[i].dial = d /\ q[i].chunk <= b

\* What PublicStreamWhole says of one task.
FromStart(got) == \A i \in 1 .. Len(got) : got[i] = <<got[1][1], i>>

PublicInv ==
    \A t \in Tasks :
        /\ FromStart(pubGot[t])
        /\ Live(t) => Stream(toServer, t, pubGot[t])
        /\ Live(t) /\ up /\ ~HasClose(toServer, t) =>
              Sender(toServer, t, pubGot[t], agt[t], dials[t], back[t])

-----------------------------------------------------------------------------
(* Queues of frames.                                                        *)

\* The facts about Head and Tail the rest needs.
LEMMA QueueTail ==
    ASSUME NEW q \in Seq(Frames), q # <<>>
    PROVE  /\ Tail(q) \in Seq(Frames) /\ Len(Tail(q)) = Len(q) - 1
           /\ Len(q) \in Nat \ {0} /\ 1 \in DOMAIN q /\ q[1] \in Frames
           /\ Head(q) = q[1]
           /\ \A i \in DOMAIN Tail(q) : i + 1 \in DOMAIN q /\ Tail(q)[i] = q[i + 1]
           /\ \A i \in DOMAIN q : i # 1 => /\ i - 1 \in DOMAIN Tail(q)
                                           /\ Tail(q)[i - 1] = q[i]
    OBVIOUS

LEMMA QueueAppend ==
    ASSUME NEW q \in Seq(Frames), NEW f \in Frames
    PROVE  /\ Append(q, f) \in Seq(Frames) /\ Len(Append(q, f)) = Len(q) + 1
           /\ Len(q) + 1 \in DOMAIN Append(q, f)
           /\ Append(q, f)[Len(q) + 1] = f
           /\ \A i \in DOMAIN q : /\ i \in DOMAIN Append(q, f)
                                  /\ Append(q, f)[i] = q[i]
           /\ \A i \in DOMAIN Append(q, f) :
                 i \in DOMAIN q \/ i = Len(q) + 1
           /\ \A i \in DOMAIN q : i \in 1 .. Len(q)
    OBVIOUS

\* Reading a frame that is not a close frame of the task moves its data up.
LEMMA DataTail ==
    ASSUME NEW q \in Seq(Frames), q # <<>>, NEW t
    PROVE  /\ \A i \in Data(Tail(q), t) :
                 i + 1 \in Data(q, t) /\ Tail(q)[i] = q[i + 1]
           /\ \A i \in Data(q, t) : i # 1 =>
                 i - 1 \in Data(Tail(q), t) /\ Tail(q)[i - 1] = q[i]
           /\ \A i \in Data(q, t) : i \in 1 .. Len(q)
           /\ \A i \in Data(Tail(q), t) : i \in Nat
    BY QueueTail DEF Data

LEMMA FrontTail ==
    ASSUME NEW q \in Seq(Frames), q # <<>>, NEW t, ~IsClose(q[1], t)
    PROVE  /\ \A i \in Front(Tail(q), t) :
                 i + 1 \in Front(q, t) /\ Tail(q)[i] = q[i + 1] /\ i \in Nat \ {0}
           /\ \A i \in Front(q, t) : i # 1 =>
                 i - 1 \in Front(Tail(q), t) /\ Tail(q)[i - 1] = q[i]
           /\ \A i \in Front(q, t) : i \in 1 .. Len(q)
           /\ HasClose(Tail(q), t) <=> HasClose(q, t)
<1>1. ASSUME NEW i \in Front(Tail(q), t)
      PROVE  i + 1 \in Front(q, t) /\ Tail(q)[i] = q[i + 1] /\ i \in Nat \ {0}
  <2>1. i \in 1 .. Len(q) - 1 /\ i + 1 \in Data(q, t) /\ Tail(q)[i] = q[i + 1]
      BY QueueTail, DataTail DEF Front, Data
  <2>2. ASSUME NEW j \in 1 .. (i + 1) - 1 PROVE ~IsClose(q[j], t)
    <3>1. CASE j = 1
        BY <3>1
    <3>2. CASE j # 1
      <4>1. j - 1 \in 1 .. i - 1 /\ j \in 1 .. Len(q)
          BY <2>1, <3>2
      <4>2. Tail(q)[j - 1] = q[j]
          BY <3>2, <4>1, QueueTail
      <4> QED BY <4>1, <4>2 DEF Front
    <3> QED BY <3>1, <3>2
  <2> QED BY <2>1, <2>2 DEF Front
<1>2. ASSUME NEW i \in Front(q, t), i # 1
      PROVE  i - 1 \in Front(Tail(q), t) /\ Tail(q)[i - 1] = q[i]
  <2>1. /\ i \in 2 .. Len(q) /\ i - 1 \in Data(Tail(q), t)
        /\ Tail(q)[i - 1] = q[i]
      BY <1>2, QueueTail, DataTail DEF Front
  <2>2. ASSUME NEW j \in 1 .. (i - 1) - 1 PROVE ~IsClose(Tail(q)[j], t)
    <3>1. j + 1 \in 1 .. i - 1 /\ j \in 1 .. Len(q) - 1
        BY <2>1
    <3>2. Tail(q)[j] = q[j + 1]
        BY <3>1, QueueTail
    <3> QED BY <3>1, <3>2 DEF Front
  <2> QED BY <2>1, <2>2 DEF Front
<1>3. HasClose(Tail(q), t) <=> HasClose(q, t)
    BY QueueTail DEF HasClose
<1> QED BY <1>1, <1>2, <1>3, DataTail DEF Front

\* What is sent comes after all that is there.
LEMMA DataAppend ==
    ASSUME NEW q \in Seq(Frames), NEW f \in Frames, NEW t
    PROVE  /\ \A i \in Data(q, t) :
                 i \in Data(Append(q, f), t) /\ Append(q, f)[i] = q[i]
           /\ \A i \in Data(Append(q, f), t) :
                 i \in Data(q, t) \/ (i = Len(q) + 1 /\ IsData(f, t))
           /\ IsData(f, t) => Len(q) + 1 \in Data(Append(q, f), t)
           /\ Append(q, f)[Len(q) + 1] = f
           /\ \A i \in Data(q, t) : i \in 1 .. Len(q)
<1> USE DEF Data
<1>1. ASSUME NEW i \in Data(q, t)
      PROVE  i \in Data(Append(q, f), t) /\ Append(q, f)[i] = q[i]
    BY QueueAppend
<1>2. ASSUME NEW i \in Data(Append(q, f), t)
      PROVE  i \in Data(q, t) \/ (i = Len(q) + 1 /\ IsData(f, t))
  <2>1. CASE i \in DOMAIN q
    <3>1. Append(q, f)[i] = q[i]
        BY <2>1, QueueAppend
    <3> QED BY <1>2, <2>1, <3>1 DEF IsData
  <2>2. CASE i = Len(q) + 1
      BY <2>2, QueueAppend
  <2> QED BY <2>1, <2>2, QueueAppend
<1>3. IsData(f, t) => Len(q) + 1 \in Data(Append(q, f), t)
    BY QueueAppend
<1> QED BY <1>1, <1>2, <1>3, QueueAppend

LEMMA FrontAppend ==
    ASSUME NEW q \in Seq(Frames), NEW f \in Frames, NEW t
    PROVE  /\ \A i \in Front(q, t) :
                 i \in Front(Append(q, f), t) /\ Append(q, f)[i] = q[i]
           /\ \A i \in Front(Append(q, f), t) :
                 \/ i \in Front(q, t)
                 \/ i = Len(q) + 1 /\ IsData(f, t) /\ ~HasClose(q, t)
           /\ IsData(f, t) /\ ~HasClose(q, t) =>
                 Len(q) + 1 \in Front(Append(q, f), t)
           /\ Append(q, f)[Len(q) + 1] = f
           /\ \A i \in Front(q, t) : i \in 1 .. Len(q)
           /\ HasClose(Append(q, f), t) <=> HasClose(q, t) \/ IsClose(f, t)
<1>1. ASSUME NEW i \in Front(q, t)
      PROVE  i \in Front(Append(q, f), t) /\ Append(q, f)[i] = q[i]
  <2>1. /\ i \in 1 .. Len(q) /\ i \in Data(Append(q, f), t)
        /\ Append(q, f)[i] = q[i]
      BY DataAppend DEF Front
  <2>2. \A j \in 1 .. i - 1 : Append(q, f)[j] = q[j]
      BY <2>1, QueueAppend
  <2> QED BY <2>1, <2>2 DEF Front
<1>2. ASSUME NEW i \in Front(Append(q, f), t)
      PROVE  \/ i \in Front(q, t)
             \/ i = Len(q) + 1 /\ IsData(f, t) /\ ~HasClose(q, t)
  <2>1. CASE i \in Data(q, t)
    <3>1. \A j \in 1 .. i - 1 : Append(q, f)[j] = q[j]
        BY <2>1, DataAppend, QueueAppend
    <3> QED BY <2>1, <3>1 DEF Front
  <2>2. CASE i = Len(q) + 1 /\ IsData(f, t)
    <3>1. \A j \in DOMAIN q : ~IsClose(q[j], t)
        BY <2>2, QueueAppend DEF Front
    <3> QED BY <2>2, <3>1 DEF HasClose
  <2> QED BY <2>1, <2>2, DataAppend DEF Front
<1>3. ASSUME IsData(f, t), ~HasClose(q, t)
      PROVE  Len(q) + 1 \in Front(Append(q, f), t)
  <2>1. \A j \in 1 .. Len(q) : ~IsClose(Append(q, f)[j], t)
      BY <1>3, QueueAppend DEF HasClose
  <2>2. Len(q) \in Nat
      OBVIOUS
  <2> QED BY <1>3, <2>1, <2>2, DataAppend DEF Front
<1>4. HasClose(Append(q, f), t) <=> HasClose(q, t) \/ IsClose(f, t)
    BY QueueAppend DEF HasClose
<1> QED BY <1>1, <1>2, <1>3, <1>4, DataAppend DEF Front

-----------------------------------------------------------------------------
(* Types, and what the frames and the two sides know.                       *)

LEMMA FrameTypes ==
    ASSUME NEW t \in Tasks, NEW g \in 0 .. MaxDials, NEW n \in 0 .. MaxChunks,
           NEW op \in {"data", "close"}
    PROVE  /\ Frame(op, t, g, n) \in Frames
           /\ Frame(op, t, g, n).op = op /\ Frame(op, t, g, n).task = t
           /\ Frame(op, t, g, n).dial = g /\ Frame(op, t, g, n).chunk = n
    BY DEF Frame, Frames

\* What a step does to the queue towards the agent.
ToAgentStep ==
    \/ toAgent' = toAgent
    \/ toAgent # <<>> /\ toAgent' = Tail(toAgent)
    \/ \E t \in Tasks : /\ srv[t] = "copy" /\ Room(toAgent) /\ sent[t] < MaxChunks
                        /\ toAgent' = Append(toAgent, Frame("data", t, 0, sent[t] + 1))
    \/ \E t \in Tasks : /\ srv[t] = "copy" /\ Room(toAgent)
                        /\ toAgent' = Append(toAgent, Frame("close", t, 0, 0))

\* And to the queue towards the server.
ToServerStep ==
    \/ toServer' = toServer
    \/ toServer # <<>> /\ toServer' = Tail(toServer)
    \/ \E t \in Tasks :
          /\ agt[t] = "copy" /\ Room(toServer) /\ back[t] < MaxChunks
          /\ toServer' = Append(toServer, Frame("data", t, dials[t], back[t] + 1))
    \/ \E t \in Tasks :
          /\ agt[t] = "copy" /\ Room(toServer)
          /\ toServer' = Append(toServer, Frame("close", t, dials[t], 0))

LEMMA QueueSteps == Next => ToAgentStep /\ ToServerStep
<1> USE DEF ToAgentStep, ToServerStep, tunnel, serverSide, agentSide, Send
<1> SUFFICES ASSUME Next PROVE ToAgentStep /\ ToServerStep
    OBVIOUS
<1>1. ASSUME NEW t \in Tasks, ServerStart(t) \/ ServerSend(t) \/ ServerTaskEnds(t)
      PROVE  ToAgentStep /\ ToServerStep
    BY <1>1 DEF ServerStart, ServerSend, ServerTaskEnds
<1>2. ASSUME NEW t \in Tasks, ServerRemoveTask(t) \/ PublicLeaves(t)
      PROVE  ToAgentStep /\ ToServerStep
    BY <1>2 DEF ServerRemoveTask, PublicLeaves
<1>3. ASSUME NEW t \in Tasks, ServerRead(t)
      PROVE  ToAgentStep /\ ToServerStep
    BY <1>3 DEF ServerRead, ServerReads, ServerData, ServerDataLost,
                ServerDataWriteFails, ServerDataEndsTunnel, ServerOrphanData,
                ServerClose
<1>4. ASSUME NEW t \in Tasks, AgentRead(t)
      PROVE  ToAgentStep /\ ToServerStep
    BY <1>4 DEF AgentRead, AgentReads, AgentData, AgentDials, AgentDialFails,
                AgentClose
<1>5. ASSUME NEW t \in Tasks, AgentSend(t) \/ LocalLeaves(t) \/ AgentTaskEnds(t)
      PROVE  ToAgentStep /\ ToServerStep
    BY <1>5 DEF AgentSend, LocalLeaves, AgentTaskEnds
<1>6. ASSUME NEW t \in Tasks, AgentRemoveTask(t) \/ AgentRemoveFailed(t)
      PROVE  ToAgentStep /\ ToServerStep
    BY <1>6 DEF AgentRemoveTask, AgentRemoveFailed
<1>7. ASSUME ServerReadsGarbage \/ ServerLoopEnds \/ AgentLoopEnds \/ TunnelBreaks
      PROVE  ToAgentStep /\ ToServerStep
    BY <1>7 DEF ServerReadsGarbage, ServerLoopEnds, AgentLoopEnds, TunnelBreaks
<1> QED BY <1>1, <1>2, <1>3, <1>4, <1>5, <1>6, <1>7 DEF Next

\* The queues stay well typed and within their bound.
LEMMA QueueTypes ==
    ASSUME TypeOK, FramesKnow, AgentKnows, ToAgentStep, ToServerStep
    PROVE  /\ toAgent' \in Seq(Frames) /\ Len(toAgent') <= MaxFrames
           /\ toServer' \in Seq(Frames) /\ Len(toServer') <= MaxFrames
           /\ FramesKnow'
<1> USE BoundsAssumption
<1>1. /\ toAgent' \in Seq(Frames) /\ Len(toAgent') <= MaxFrames
      /\ \A i \in DOMAIN toAgent' :
            toAgent'[i].op = "data" => toAgent'[i].chunk \in Chunks
  <2>1. CASE toAgent' = toAgent
      BY <2>1 DEF TypeOK, FramesKnow
  <2>2. CASE toAgent # <<>> /\ toAgent' = Tail(toAgent)
      BY <2>2, QueueTail DEF TypeOK, FramesKnow
  <2>3. ASSUME NEW f \in Frames, Room(toAgent), toAgent' = Append(toAgent, f),
               f.op = "data" => f.chunk \in Chunks
        PROVE  /\ toAgent' \in Seq(Frames) /\ Len(toAgent') <= MaxFrames
               /\ \A i \in DOMAIN toAgent' :
                     toAgent'[i].op = "data" => toAgent'[i].chunk \in Chunks
    <3>1. toAgent' \in Seq(Frames) /\ Len(toAgent') <= MaxFrames
        BY <2>3, QueueAppend DEF TypeOK, Room
    <3>2. ASSUME NEW i \in DOMAIN toAgent', toAgent'[i].op = "data"
          PROVE  toAgent'[i].chunk \in Chunks
        BY <2>3, <3>2, QueueAppend DEF TypeOK, FramesKnow
    <3> QED BY <3>1, <3>2
  <2>4. ASSUME NEW t \in Tasks, sent[t] < MaxChunks
        PROVE  /\ Frame("data", t, 0, sent[t] + 1) \in Frames
               /\ Frame("data", t, 0, sent[t] + 1).chunk \in Chunks
    <3>1. 0 \in 0 .. MaxDials /\ sent[t] + 1 \in 1 .. MaxChunks
        BY <2>4 DEF TypeOK
    <3> QED BY <3>1, FrameTypes DEF Chunks
  <2>5. ASSUME NEW t \in Tasks
        PROVE  /\ Frame("close", t, 0, 0) \in Frames
               /\ Frame("close", t, 0, 0).op = "close"
    <3>1. 0 \in 0 .. MaxDials /\ 0 \in 0 .. MaxChunks
        OBVIOUS
    <3> QED BY <3>1, FrameTypes
  <2> QED BY <2>1, <2>2, <2>3, <2>4, <2>5 DEF ToAgentStep
<1>2. /\ toServer' \in Seq(Frames) /\ Len(toServer') <= MaxFrames
      /\ \A i \in DOMAIN toServer' : toServer'[i].op = "data" =>
            toServer'[i].dial \in Dials /\ toServer'[i].chunk \in Chunks
  <2>1. CASE toServer' = toServer
      BY <2>1 DEF TypeOK, FramesKnow
  <2>2. CASE toServer # <<>> /\ toServer' = Tail(toServer)
      BY <2>2, QueueTail DEF TypeOK, FramesKnow
  <2>3. ASSUME NEW f \in Frames, Room(toServer), toServer' = Append(toServer, f),
               f.op = "data" => f.dial \in Dials /\ f.chunk \in Chunks
        PROVE  /\ toServer' \in Seq(Frames) /\ Len(toServer') <= MaxFrames
               /\ \A i \in DOMAIN toServer' : toServer'[i].op = "data" =>
                     toServer'[i].dial \in Dials /\ toServer'[i].chunk \in Chunks
    <3>1. toServer' \in Seq(Frames) /\ Len(toServer') <= MaxFrames
        BY <2>3, QueueAppend DEF TypeOK, Room
    <3>2. ASSUME NEW i \in DOMAIN toServer', toServer'[i].op = "data"
          PROVE  toServer'[i].dial \in Dials /\ toServer'[i].chunk \in Chunks
        BY <2>3, <3>2, QueueAppend DEF TypeOK, FramesKnow
    <3> QED BY <3>1, <3>2
  <2>4. ASSUME NEW t \in Tasks, agt[t] = "copy", back[t] < MaxChunks
        PROVE  /\ Frame("data", t, dials[t], back[t] + 1) \in Frames
               /\ Frame("data", t, dials[t], back[t] + 1).dial \in Dials
               /\ Frame("data", t, dials[t], back[t] + 1).chunk \in Chunks
    <3>1. dials[t] \in 1 .. MaxDials /\ back[t] + 1 \in 1 .. MaxChunks
        BY <2>4 DEF TypeOK, AgentKnows, Dials
    <3> QED BY <3>1, FrameTypes DEF Chunks, Dials
  <2>5. ASSUME NEW t \in Tasks
        PROVE  /\ Frame("close", t, dials[t], 0) \in Frames
               /\ Frame("close", t, dials[t], 0).op = "close"
    <3>1. dials[t] \in 0 .. MaxDials /\ 0 \in 0 .. MaxChunks
        BY DEF TypeOK
    <3> QED BY <3>1, FrameTypes
  <2> QED BY <2>1, <2>2, <2>3, <2>4, <2>5 DEF ToServerStep
<1> QED BY <1>1, <1>2 DEF FramesKnow

\* Everything but the queues.
SideTypes ==
    /\ {up, aligned, timeout, serverLoop, agentLoop, agentClosed} \subseteq BOOLEAN
    /\ srv \in [Tasks -> {"new", "copy", "remove", "gone"}]
    /\ peer \in [Tasks -> Sockets]
    /\ sent \in [Tasks -> 0 .. MaxChunks]
    /\ pubGot \in [Tasks -> Seq(Dials \X Chunks)]
    /\ agt \in [Tasks -> {"none", "copy", "remove", "fail"}]
    /\ dials \in [Tasks -> 0 .. MaxDials]
    /\ local \in [Tasks -> Sockets]
    /\ back \in [Tasks -> 0 .. MaxChunks]
    /\ localGot \in [Tasks -> Seq(Dials \X Chunks)]

LEMMA HeadKnown ==
    ASSUME TypeOK, FramesKnow
    PROVE  /\ toAgent # <<>> /\ Head(toAgent).op = "data" =>
                 Head(toAgent).chunk \in Chunks
           /\ toServer # <<>> /\ Head(toServer).op = "data" =>
                 Head(toServer).dial \in Dials /\ Head(toServer).chunk \in Chunks
<1>1. ASSUME toAgent # <<>>, Head(toAgent).op = "data"
      PROVE  Head(toAgent).chunk \in Chunks
    BY <1>1, QueueTail DEF TypeOK, FramesKnow
<1>2. ASSUME toServer # <<>>, Head(toServer).op = "data"
      PROVE  Head(toServer).dial \in Dials /\ Head(toServer).chunk \in Chunks
    BY <1>2, QueueTail DEF TypeOK, FramesKnow
<1> QED BY <1>1, <1>2

LEMMA AppendTo ==
    ASSUME NEW S, NEW f \in [Tasks -> Seq(S)], NEW t \in Tasks, NEW e \in S
    PROVE  Set(f, t, Append(f[t], e)) \in [Tasks -> Seq(S)]
    BY DEF Set

LEMMA SideTypesStep ==
    ASSUME TypeOK, FramesKnow, AgentKnows, Next
    PROVE  SideTypes'
<1> USE BoundsAssumption DEF SideTypes, tunnel, serverSide, agentSide
<1>0. SideTypes /\ Sockets = {"open", "left", "closed"}
    BY DEF TypeOK, Sockets
<1>1. ASSUME NEW t \in Tasks, ServerStart(t) \/ ServerSend(t) \/ ServerTaskEnds(t)
      PROVE  SideTypes'
  <2>1. ASSUME ServerSend(t) PROVE sent' \in [Tasks -> 0 .. MaxChunks]
      BY <1>0, <2>1 DEF ServerSend, Set
  <2>2. srv' \in [Tasks -> {"new", "copy", "remove", "gone"}]
      BY <1>0, <1>1 DEF ServerStart, ServerSend, ServerTaskEnds, Set
  <2> QED BY <1>0, <1>1, <2>1, <2>2 DEF ServerStart, ServerSend, ServerTaskEnds
<1>2. ASSUME NEW t \in Tasks, ServerRemoveTask(t) \/ PublicLeaves(t)
      PROVE  SideTypes'
    BY <1>0, <1>2 DEF ServerRemoveTask, PublicLeaves, Set
<1>3. ASSUME NEW t \in Tasks, ServerData(t)
      PROVE  SideTypes'
  <2>1. <<Head(toServer).dial, Head(toServer).chunk>> \in Dials \X Chunks
      BY <1>3, HeadKnown DEF ServerData, ServerReads
  <2>2. pubGot' \in [Tasks -> Seq(Dials \X Chunks)]
      BY <1>0, <1>3, <2>1, AppendTo DEF ServerData
  <2> QED BY <1>0, <1>3, <2>2 DEF ServerData
<1>4. ASSUME NEW t \in Tasks, \/ ServerDataLost(t) \/ ServerDataWriteFails(t)
                              \/ ServerDataEndsTunnel(t) \/ ServerOrphanData(t)
                              \/ ServerClose(t)
      PROVE  SideTypes'
    BY <1>0, <1>4 DEF ServerDataLost, ServerDataWriteFails, ServerDataEndsTunnel,
                      ServerOrphanData, ServerClose, Set
<1>5. ASSUME NEW t \in Tasks, AgentData(t)
      PROVE  SideTypes'
  <2>1. <<dials[t], Head(toAgent).chunk>> \in Dials \X Chunks
      BY <1>0, <1>5, HeadKnown DEF AgentData, AgentReads, InAgentMap, AgentKnows
  <2>2. localGot' \in [Tasks -> Seq(Dials \X Chunks)]
      BY <1>0, <1>5, <2>1, AppendTo DEF AgentData
  <2> QED BY <1>0, <1>5, <2>2 DEF AgentData
<1>6. ASSUME NEW t \in Tasks, AgentDials(t)
      PROVE  SideTypes'
  <2>1. dials[t] + 1 \in Dials
      BY <1>0, <1>6 DEF AgentDials, Dials
  <2>2. <<dials[t] + 1, Head(toAgent).chunk>> \in Dials \X Chunks
      BY <1>6, <2>1, HeadKnown DEF AgentDials, AgentReads
  <2>3. localGot' \in [Tasks -> Seq(Dials \X Chunks)]
      BY <1>0, <1>6, <2>2, AppendTo DEF AgentDials
  <2>4. dials' \in [Tasks -> 0 .. MaxDials] /\ back' \in [Tasks -> 0 .. MaxChunks]
      BY <1>0, <1>6, <2>1 DEF AgentDials, Set, Dials
  <2>5. /\ agt' \in [Tasks -> {"none", "copy", "remove", "fail"}]
        /\ local' \in [Tasks -> Sockets]
      BY <1>0, <1>6 DEF AgentDials, Set
  <2> QED BY <1>0, <1>6, <2>3, <2>4, <2>5 DEF AgentDials
<1>7. ASSUME NEW t \in Tasks, AgentDialFails(t) \/ AgentClose(t)
      PROVE  SideTypes'
    BY <1>0, <1>7 DEF AgentDialFails, AgentClose, Set
<1>8. ASSUME NEW t \in Tasks, AgentSend(t) \/ LocalLeaves(t) \/ AgentTaskEnds(t)
      PROVE  SideTypes'
  <2>1. ASSUME AgentSend(t) PROVE back' \in [Tasks -> 0 .. MaxChunks]
      BY <1>0, <2>1 DEF AgentSend, Set
  <2>2. ASSUME AgentSend(t) PROVE SideTypes'
      BY <1>0, <2>1, <2>2 DEF AgentSend
  <2>3. ASSUME LocalLeaves(t) \/ AgentTaskEnds(t) PROVE SideTypes'
      BY <1>0, <2>3 DEF LocalLeaves, AgentTaskEnds, Set
  <2> QED BY <1>8, <2>2, <2>3
<1>9. ASSUME NEW t \in Tasks, AgentRemoveTask(t) \/ AgentRemoveFailed(t)
      PROVE  SideTypes'
    BY <1>0, <1>9 DEF AgentRemoveTask, AgentRemoveFailed, Set
<1>10. ASSUME ServerReadsGarbage \/ ServerLoopEnds \/ TunnelBreaks
       PROVE  SideTypes'
    BY <1>0, <1>10 DEF ServerReadsGarbage, ServerLoopEnds, TunnelBreaks, Set
<1>11. ASSUME AgentLoopEnds PROVE SideTypes'
    BY <1>0, <1>11 DEF AgentLoopEnds, AgentConnClose
<1> QED BY <1>1, <1>2, <1>3, <1>4, <1>5, <1>6, <1>7, <1>8, <1>9, <1>10, <1>11
        DEF Next, ServerRead, AgentRead

LEMMA AgentKnowsStep ==
    ASSUME TypeOK, AgentKnows, Next
    PROVE  AgentKnows'
<1> USE BoundsAssumption DEF TypeOK, AgentKnows, tunnel, serverSide, agentSide, Set
<1>1. ASSUME NEW t \in Tasks, ServerStart(t) \/ ServerSend(t) \/ ServerTaskEnds(t)
      PROVE  AgentKnows'
    BY <1>1 DEF ServerStart, ServerSend, ServerTaskEnds
<1>2. ASSUME NEW t \in Tasks, \/ ServerRemoveTask(t) \/ PublicLeaves(t)
                              \/ ServerRead(t)
      PROVE  AgentKnows'
    BY <1>2 DEF ServerRemoveTask, PublicLeaves, ServerRead, ServerData,
                ServerDataLost, ServerDataWriteFails, ServerDataEndsTunnel,
                ServerOrphanData, ServerClose
<1>3. ASSUME NEW t \in Tasks, \/ AgentData(t) \/ AgentDialFails(t) \/ AgentClose(t)
      PROVE  AgentKnows'
    BY <1>3 DEF AgentData, AgentDialFails, AgentClose
<1>4. ASSUME NEW t \in Tasks, AgentDials(t)
      PROVE  AgentKnows'
    BY <1>4 DEF AgentDials, Dials
<1>5. ASSUME NEW t \in Tasks, AgentSend(t) \/ LocalLeaves(t) \/ AgentTaskEnds(t)
      PROVE  AgentKnows'
    BY <1>5 DEF AgentSend, LocalLeaves, AgentTaskEnds
<1>6. ASSUME NEW t \in Tasks, AgentRemoveTask(t) \/ AgentRemoveFailed(t)
      PROVE  AgentKnows'
    BY <1>6 DEF AgentRemoveTask, AgentRemoveFailed
<1>7. ASSUME ServerReadsGarbage \/ ServerLoopEnds \/ TunnelBreaks
      PROVE  AgentKnows'
    BY <1>7 DEF ServerReadsGarbage, ServerLoopEnds, TunnelBreaks
<1>8. ASSUME AgentLoopEnds PROVE AgentKnows'
    BY <1>8 DEF AgentLoopEnds, AgentConnClose
<1> QED BY <1>1, <1>2, <1>3, <1>4, <1>5, <1>6, <1>7, <1>8 DEF Next, AgentRead

\* No action but the first of its handler is about a task that has not begun,
\* and the end of the handler closes the public socket for good.
LEMMA ServerKnowsStep ==
    ASSUME TypeOK, ServerKnows, Next, SideTypes', ToAgentStep, ToServerStep
    PROVE  ServerKnows'
<1> DEFINE NothingOf(t) == /\ \A i \in DOMAIN toAgent : toAgent[i].task # t
                           /\ \A i \in DOMAIN toServer : toServer[i].task # t
<1>1. ASSUME NEW t \in Tasks, srv[t] = "new", srv'[t] = "new"
      PROVE  NothingOf(t)'
  <2>1. ASSUME NEW q \in Seq(Frames), NEW u \in Tasks, u # t,
               NEW g \in 0 .. MaxDials, NEW n \in 0 .. MaxChunks,
               NEW op \in {"data", "close"},
               \A i \in DOMAIN q : q[i].task # t
        PROVE  \A i \in DOMAIN Append(q, Frame(op, u, g, n)) :
                  Append(q, Frame(op, u, g, n))[i].task # t
      BY <2>1, FrameTypes, QueueAppend
  <2>2. ASSUME NEW q \in Seq(Frames), q # <<>>, \A i \in DOMAIN q : q[i].task # t
        PROVE  \A i \in DOMAIN Tail(q) : Tail(q)[i].task # t
      BY <2>2, QueueTail
  <2>3. /\ \A i \in DOMAIN toAgent : toAgent[i].task # t
        /\ \A i \in DOMAIN toServer : toServer[i].task # t
        /\ toAgent \in Seq(Frames) /\ toServer \in Seq(Frames)
        /\ \A u \in Tasks : /\ sent[u] < MaxChunks => sent[u] + 1 \in 0 .. MaxChunks
                            /\ back[u] < MaxChunks => back[u] + 1 \in 0 .. MaxChunks
                            /\ dials[u] \in 0 .. MaxDials
        /\ 0 \in 0 .. MaxDials /\ 0 \in 0 .. MaxChunks
        /\ agt[t] = "none"
      BY <1>1, BoundsAssumption DEF ServerKnows, TypeOK
  <2>4. \A i \in DOMAIN toAgent' : toAgent'[i].task # t
    <3>1. ASSUME NEW u \in Tasks, srv[u] = "copy" PROVE u # t
        BY <1>1, <3>1
    <3> QED BY <2>1, <2>2, <2>3, <3>1 DEF ToAgentStep
  <2>5. \A i \in DOMAIN toServer' : toServer'[i].task # t
    <3>1. ASSUME NEW u \in Tasks, agt[u] = "copy" PROVE u # t
        BY <2>3, <3>1
    <3> QED BY <2>1, <2>2, <2>3, <3>1 DEF ToServerStep
  <2> QED BY <2>4, <2>5
<1> DEFINE Held(t) == /\ srv'[t] = "new" =>
                            /\ srv[t] = "new"
                            /\ dials'[t] = 0 /\ agt'[t] = "none"
                      /\ srv'[t] = "gone" => peer'[t] = "closed"
<1>2. \A t \in Tasks : Held(t)
  <2> USE DEF TypeOK, ServerKnows, tunnel, serverSide, agentSide, Set
  <2>1. ASSUME NEW u \in Tasks, ServerStart(u) \/ ServerSend(u) \/ ServerTaskEnds(u)
        PROVE  \A t \in Tasks : Held(t)
      BY <2>1 DEF ServerStart, ServerSend, ServerTaskEnds
  <2>2. ASSUME NEW u \in Tasks, ServerRemoveTask(u) \/ PublicLeaves(u)
        PROVE  \A t \in Tasks : Held(t)
      BY <2>2 DEF ServerRemoveTask, PublicLeaves
  <2>3. ASSUME NEW u \in Tasks, ServerRead(u)
        PROVE  \A t \in Tasks : Held(t)
      BY <2>3 DEF ServerRead, ServerData, ServerDataLost,
                  ServerDataWriteFails, ServerDataEndsTunnel,
                  ServerOrphanData, ServerClose, InServerMap
  <2>4. ASSUME NEW u \in Tasks, AgentRead(u)
        PROVE  \A t \in Tasks : Held(t)
    <3>1. srv[u] # "new"
        BY <2>4, QueueTail DEF AgentRead, AgentData, AgentDials, AgentDialFails,
                               AgentClose, AgentReads
    <3> QED BY <2>4, <3>1 DEF AgentRead, AgentData, AgentDials, AgentDialFails,
                              AgentClose
  <2>5. ASSUME NEW u \in Tasks, \/ AgentSend(u) \/ LocalLeaves(u)
                                \/ AgentTaskEnds(u) \/ AgentRemoveTask(u)
                                \/ AgentRemoveFailed(u)
        PROVE  \A t \in Tasks : Held(t)
      BY <2>5 DEF AgentSend, LocalLeaves, AgentTaskEnds, AgentRemoveTask,
                  AgentRemoveFailed
  <2>6. ASSUME ServerReadsGarbage \/ ServerLoopEnds \/ AgentLoopEnds \/ TunnelBreaks
        PROVE  \A t \in Tasks : Held(t)
      BY <2>6 DEF ServerReadsGarbage, ServerLoopEnds, AgentLoopEnds, TunnelBreaks,
                  InServerMap
  <2> QED BY <2>1, <2>2, <2>3, <2>4, <2>5, <2>6 DEF Next
<1> QED BY <1>1, <1>2 DEF ServerKnows

\* The types and what each side knows hold in every state, whatever the order
\* in which the two loops and the tasks run (server/conn.go:309-440,
\* client/conn.go:167-316).
LEMMA TunnelInit == Init => TunnelInv
<1> SUFFICES ASSUME Init PROVE TunnelInv
    OBVIOUS
<1>1. SideTypes
  <2>1. {up, aligned, timeout, serverLoop, agentLoop, agentClosed} \subseteq BOOLEAN
      BY DEF Init
  <2>2. /\ pubGot \in [Tasks -> Seq(Dials \X Chunks)]
        /\ localGot \in [Tasks -> Seq(Dials \X Chunks)]
    <3>1. <<>> \in Seq(Dials \X Chunks)
        OBVIOUS
    <3> QED BY <3>1 DEF Init
  <2>3. /\ sent \in [Tasks -> 0 .. MaxChunks] /\ back \in [Tasks -> 0 .. MaxChunks]
        /\ dials \in [Tasks -> 0 .. MaxDials]
      BY BoundsAssumption DEF Init
  <2> QED BY <2>1, <2>2, <2>3 DEF Init, SideTypes, Sockets
<1>2. /\ toAgent = <<>> /\ toServer = <<>>
      /\ <<>> \in Seq(Frames) /\ Len(<<>>) = 0 /\ MaxFrames \in Nat
    BY BoundsAssumption DEF Init
<1>3. TypeOK
    BY <1>1, <1>2 DEF SideTypes, TypeOK
<1>4. FramesKnow
    BY <1>2 DEF FramesKnow
<1>5. AgentKnows /\ ServerKnows
    BY <1>2 DEF Init, AgentKnows, ServerKnows
<1> QED BY <1>3, <1>4, <1>5 DEF TunnelInv

LEMMA TunnelStep == TunnelInv /\ [Next]_vars => TunnelInv'
<1> SUFFICES ASSUME TunnelInv, [Next]_vars PROVE TunnelInv'
    OBVIOUS
<1>1. CASE Next
  <2>1. TypeOK /\ FramesKnow /\ AgentKnows /\ ServerKnows
      BY DEF TunnelInv
  <2>2. ToAgentStep /\ ToServerStep
      BY <1>1, QueueSteps
  <2>3. FramesKnow' /\ TypeOK'
      BY <1>1, <2>1, <2>2, QueueTypes, SideTypesStep DEF TypeOK, SideTypes
  <2>4. AgentKnows' /\ ServerKnows'
      BY <1>1, <2>1, <2>2, SideTypesStep, AgentKnowsStep, ServerKnowsStep
  <2> QED BY <2>3, <2>4 DEF TunnelInv
<1>2. CASE UNCHANGED vars
    BY <1>2 DEF vars, tunnel, serverSide, agentSide, TunnelInv, TypeOK, FramesKnow,
                AgentKnows, ServerKnows
<1> QED BY <1>1, <1>2

\* Frames, task maps and both ends of the tunnel keep their types
\* (server/conn.go:271-473, client/conn.go:105-318).
THEOREM TunnelTypeCorrect == Spec => []TypeOK
<1>1. Spec => []TunnelInv
    BY TunnelInit, TunnelStep, PTL DEF Spec
<1> QED BY <1>1, PTL DEF TunnelInv

-----------------------------------------------------------------------------
(* What the agent writes to local connections.                              *)

LEMMA FrameNumbers ==
    ASSUME NEW q \in Seq(Frames), NEW i \in DOMAIN q
    PROVE  q[i].chunk \in Nat /\ q[i].dial \in Nat
<1>1. q[i] \in Frames
    OBVIOUS
<1> QED BY <1>1, BoundsAssumption DEF Frames

LEMMA PiecesAppend ==
    ASSUME NEW got \in Seq(Dials \X Chunks), NEW e \in Dials \X Chunks
    PROVE  /\ Append(got, e) \in Seq(Dials \X Chunks)
           /\ Len(Append(got, e)) = Len(got) + 1
           /\ Append(got, e)[Len(got) + 1] = e
           /\ \A k \in DOMAIN got : Append(got, e)[k] = got[k]
           /\ \A k \in DOMAIN Append(got, e) : k \in DOMAIN got \/ k = Len(got) + 1
           /\ Len(got) \in Nat /\ DOMAIN got = 1 .. Len(got)
           /\ \A k \in DOMAIN got : got[k][1] \in Nat /\ got[k][2] \in Nat
           /\ e[1] \in Nat /\ e[2] \in Nat
    BY BoundsAssumption DEF Dials, Chunks

\* A frame that is read and written nowhere leaves the rest in order.
LEMMA AheadTail ==
    ASSUME NEW q \in Seq(Frames), q # <<>>, NEW t, NEW m \in Nat, NEW got, NEW d,
           Ahead(q, t, m, got, d)
    PROVE  Ahead(Tail(q), t, m, got, d)
<1>1. ASSUME NEW i \in Data(Tail(q), t)
      PROVE  /\ i \in Nat \ {0} /\ i + 1 \in Data(q, t) /\ Tail(q)[i] = q[i + 1]
             /\ q[i + 1].chunk \in Nat
    BY QueueTail, DataTail, FrameNumbers DEF Data
<1>2. ASSUME NEW i \in Data(Tail(q), t), NEW j \in Data(Tail(q), t), i < j
      PROVE  Tail(q)[i].chunk < Tail(q)[j].chunk
  <2>1. i + 1 < j + 1 /\ i + 1 \in Data(q, t) /\ j + 1 \in Data(q, t)
      BY <1>1, <1>2
  <2>2. q[i + 1].chunk < q[j + 1].chunk
      BY <2>1 DEF Ahead, Increasing
  <2> QED BY <1>1, <2>2
<1>3. ASSUME NEW i \in Data(Tail(q), t), NEW k \in Tail(q)[i].chunk + 1 .. m
      PROVE  \E j \in Data(Tail(q), t) : Tail(q)[j].chunk = k
  <2>0. /\ i \in Nat \ {0} /\ i + 1 \in Data(q, t) /\ q[i + 1].chunk \in Nat
        /\ k \in q[i + 1].chunk + 1 .. m
      BY <1>1, <1>3
  <2>1. PICK j \in Data(q, t) : q[j].chunk = k
      BY <2>0 DEF Ahead, Queued
  <2>2. j # 1
    <3>1. j = 1 => q[j].chunk < q[i + 1].chunk
        BY <2>0 DEF Ahead, Increasing
    <3> QED BY <2>0, <2>1, <3>1
  <2> QED BY <2>1, <2>2, DataTail
<1>4. \A i \in Data(Tail(q), t) :
          /\ Tail(q)[i].chunk <= m
          /\ \A k \in DOMAIN got : got[k][2] < Tail(q)[i].chunk
    BY <1>1 DEF Ahead
<1> QED BY <1>2, <1>3, <1>4 DEF Ahead, Queued, Increasing

LEMMA ServesTail ==
    ASSUME NEW q \in Seq(Frames), q # <<>>, NEW t, NEW m \in Nat, NEW got, NEW d,
           Serves(q, t, m, got, d), ~IsData(q[1], t)
    PROVE  Serves(Tail(q), t, m, got, d)
<1>1. ASSUME NEW k \in got[Len(got)][2] + 1 .. m
      PROVE  \E j \in Data(Tail(q), t) : Tail(q)[j].chunk = k
  <2>1. PICK j \in Data(q, t) : q[j].chunk = k
      BY DEF Serves, Queued
  <2>2. j # 1
      BY DEF Data
  <2> QED BY <2>1, <2>2, DataTail
<1> QED BY <1>1 DEF Serves, Queued

\* A chunk written to the local connection it is for: that connection was
\* given the chunk before, or it is a new one.
LEMMA AheadStore ==
    ASSUME NEW q \in Seq(Frames), q # <<>>, NEW t, NEW m \in Nat,
           NEW got \in Seq(Dials \X Chunks), NEW d \in Nat, NEW e \in Dials,
           Ahead(q, t, m, got, d), IsData(q[1], t), q[1].chunk \in Chunks,
           \/ e = d /\ Serves(q, t, m, got, d)
           \/ e = d + 1
    PROVE  LET new == Append(got, <<e, q[1].chunk>>) IN
           Ahead(Tail(q), t, m, new, e) /\ Serves(Tail(q), t, m, new, e)
<1> DEFINE n == q[1].chunk
<1> DEFINE new == Append(got, <<e, n>>)
<1>1. 1 \in Data(q, t) /\ n \in Nat /\ e \in Nat /\ 1 \in DOMAIN q
    BY QueueTail, FrameNumbers, BoundsAssumption DEF Data, Dials
<1>2. /\ new \in Seq(Dials \X Chunks) /\ Len(new) = Len(got) + 1
      /\ new[Len(new)] = <<e, n>> /\ Len(got) \in Nat
      /\ DOMAIN got = 1 .. Len(got) /\ DOMAIN new = 1 .. Len(new)
      /\ \A k \in DOMAIN got : new[k] = got[k]
      /\ \A k \in DOMAIN got : got[k][1] \in Nat /\ got[k][2] \in Nat
  <2>1. <<e, n>> \in Dials \X Chunks /\ <<e, n>>[1] = e /\ <<e, n>>[2] = n
      OBVIOUS
  <2>2. /\ new \in Seq(Dials \X Chunks) /\ Len(new) = Len(got) + 1
        /\ new[Len(got) + 1] = <<e, n>>
        /\ \A k \in DOMAIN got : new[k] = got[k]
      BY <2>1, PiecesAppend
  <2>3. DOMAIN new = 1 .. Len(new)
      BY <2>2
  <2> QED BY <2>1, <2>2, <2>3, PiecesAppend
<1> HIDE DEF n, new
<1>3. n <= m /\ \A k \in DOMAIN got : got[k][2] < n /\ got[k][1] <= d
    BY <1>1 DEF Ahead, n
<1>4. got # <<>> /\ got[Len(got)][1] = e => n = got[Len(got)][2] + 1
  <2> SUFFICES ASSUME got # <<>>, got[Len(got)][1] = e
               PROVE  n = got[Len(got)][2] + 1
      OBVIOUS
  <2>0. Len(got) \in DOMAIN got
      BY <1>2
  <2>1. Serves(q, t, m, got, d)
    <3>1. e # d + 1
        BY <1>1, <1>2, <1>3, <2>0
    <3> QED BY <3>1
  <2>2. got[Len(got)][2] + 1 \in got[Len(got)][2] + 1 .. m
      BY <1>1, <1>2, <1>3, <2>0
  <2>3. PICK j \in Data(q, t) : q[j].chunk = got[Len(got)][2] + 1
      BY <2>1, <2>2 DEF Serves, Queued
  <2>4. j # 1 => n < q[j].chunk
    <3>1. j \in 1 .. Len(q)
        BY DataTail
    <3> QED BY <1>1, <3>1 DEF Ahead, Increasing, n
  <2>5. got[Len(got)][2] \in Nat /\ got[Len(got)][2] < n /\ n \in Nat
      BY <1>1, <1>2, <1>3, <2>0
  <2>6. CASE j = 1
      BY <2>3, <2>6 DEF n
  <2>7. CASE j # 1
      BY <2>3, <2>4, <2>5, <2>7
  <2> QED BY <2>6, <2>7
<1>5. WholePieces(new)
  <2>1. ASSUME NEW i \in 1 .. Len(new) - 1, i = Len(got)
        PROVE  /\ new[i][2] < new[i + 1][2]
               /\ new[i][1] = new[i + 1][1] => new[i + 1][2] = new[i][2] + 1
    <3>1. i \in DOMAIN got /\ got # <<>> /\ new[i] = got[i] /\ new[i + 1] = <<e, n>>
        BY <1>2, <2>1
    <3>2. got[i][2] < n /\ (got[i][1] = e => n = got[i][2] + 1)
        BY <1>3, <1>4, <2>1, <3>1
    <3> QED BY <3>1, <3>2
  <2>2. ASSUME NEW i \in 1 .. Len(new) - 1, i # Len(got)
        PROVE  /\ new[i][2] < new[i + 1][2]
               /\ new[i][1] = new[i + 1][1] => new[i + 1][2] = new[i][2] + 1
    <3>0. i \in 1 .. Len(got)
        BY <1>2
    <3>1. i \in 1 .. Len(got) - 1 /\ i + 1 \in 1 .. Len(got)
        BY <2>2, <3>0
    <3>2. new[i] = got[i] /\ new[i + 1] = got[i + 1]
        BY <1>2, <3>0, <3>1
    <3>3. WholePieces(got)
        BY DEF Ahead
    <3> QED BY <3>1, <3>2, <3>3 DEF WholePieces
  <2> QED BY <2>1, <2>2 DEF WholePieces
<1>6. Ahead(Tail(q), t, m, got, d)
    BY AheadTail
<1>7. ASSUME NEW i \in Data(Tail(q), t), NEW k \in DOMAIN new
      PROVE  new[k][2] < Tail(q)[i].chunk
  <2>1. CASE k \in DOMAIN got
      BY <1>2, <1>6, <2>1 DEF Ahead
  <2>2. CASE k \notin DOMAIN got
    <3>1. new[k][2] = n
        BY <1>2, <2>2
    <3>2. i \in Nat \ {0} /\ i + 1 \in Data(q, t) /\ Tail(q)[i] = q[i + 1]
        BY QueueTail, DataTail DEF Data
    <3>3. 1 < i + 1
        BY <3>2
    <3>4. n < q[i + 1].chunk
        BY <1>1, <3>2, <3>3 DEF Ahead, Increasing, n
    <3> QED BY <3>1, <3>2, <3>4
  <2> QED BY <2>1, <2>2
<1>8. \A k \in DOMAIN new : new[k][1] <= e /\ new[k][2] <= m
  <2>1. ASSUME NEW k \in DOMAIN got PROVE new[k][1] <= e /\ new[k][2] <= m
      BY <1>1, <1>2, <1>3 DEF Ahead
  <2>2. ASSUME NEW k \in DOMAIN new, k \notin DOMAIN got
        PROVE  new[k][1] <= e /\ new[k][2] <= m
      BY <1>1, <1>2, <1>3, <2>2
  <2> QED BY <2>1, <2>2
<1>9. ASSUME NEW k \in n + 1 .. m
      PROVE  \E j \in Data(Tail(q), t) : Tail(q)[j].chunk = k
  <2>1. PICK j \in Data(q, t) : q[j].chunk = k
      BY <1>1 DEF Ahead, Queued, n
  <2>2. j # 1
      BY <1>1, <2>1 DEF n
  <2> QED BY <2>1, <2>2, DataTail
<1>10. Ahead(Tail(q), t, m, new, e)
    BY <1>5, <1>6, <1>7, <1>8 DEF Ahead
<1>11. Serves(Tail(q), t, m, new, e)
  <2>1. new # <<>> /\ new[Len(new)][1] = e /\ new[Len(new)][2] = n
      BY <1>2
  <2> QED BY <1>9, <2>1 DEF Serves, Queued
<1> QED BY <1>10, <1>11 DEF new, n

\* The next chunk joins the queue.
LEMMA AheadSend ==
    ASSUME NEW q \in Seq(Frames), NEW f \in Frames, NEW t, NEW m \in Nat,
           NEW got \in Seq(Dials \X Chunks), NEW d,
           IsData(f, t), f.chunk = m + 1
    PROVE  /\ Ahead(q, t, m, got, d) => Ahead(Append(q, f), t, m + 1, got, d)
           /\ Serves(q, t, m, got, d) => Serves(Append(q, f), t, m + 1, got, d)
<1> DEFINE p == Append(q, f)
<1>1. /\ \A i \in Data(q, t) : i \in Data(p, t) /\ p[i] = q[i] /\ i \in 1 .. Len(q)
      /\ \A i \in Data(p, t) : i \in Data(q, t) \/ i = Len(q) + 1
      /\ Len(q) + 1 \in Data(p, t) /\ p[Len(q) + 1] = f /\ Len(q) \in Nat
    BY DataAppend
<1>2. \A i \in Data(q, t) : q[i].chunk \in Nat
    BY FrameNumbers DEF Data
<1>3. \A k \in DOMAIN got : got[k][2] \in Nat
    BY BoundsAssumption DEF Chunks
<1> HIDE DEF p
<1>4. ASSUME NEW c \in Nat, Queued(q, Data(q, t), c, m)
      PROVE  Queued(p, Data(p, t), c, m + 1)
  <2>1. ASSUME NEW k \in c + 1 .. m + 1
        PROVE  \E i \in Data(p, t) : p[i].chunk = k
    <3>1. CASE k = m + 1
        BY <1>1, <3>1
    <3>2. CASE k # m + 1
      <4>1. k \in c + 1 .. m
          BY <3>2
      <4> QED BY <1>1, <1>4, <4>1 DEF Queued
    <3> QED BY <3>1, <3>2
  <2> QED BY <2>1 DEF Queued
<1>5. ASSUME Ahead(q, t, m, got, d) PROVE Ahead(p, t, m + 1, got, d)
  <2>1. ASSUME NEW i \in Data(p, t), NEW j \in Data(p, t), i < j
        PROVE  p[i].chunk < p[j].chunk
    <3>1. i \in Data(q, t)
        BY <1>1, <2>1
    <3>2. CASE j \in Data(q, t)
        BY <1>1, <1>5, <2>1, <3>1, <3>2 DEF Ahead, Increasing
    <3>3. CASE j = Len(q) + 1
      <4>1. p[j].chunk = m + 1 /\ p[i] = q[i]
          BY <1>1, <3>1, <3>3
      <4>2. q[i].chunk <= m /\ q[i].chunk \in Nat
          BY <1>2, <1>5, <3>1 DEF Ahead
      <4> QED BY <4>1, <4>2
    <3> QED BY <1>1, <3>2, <3>3
  <2>2. ASSUME NEW i \in Data(p, t)
        PROVE  /\ p[i].chunk <= m + 1 /\ Queued(p, Data(p, t), p[i].chunk, m + 1)
               /\ \A k \in DOMAIN got : got[k][2] < p[i].chunk
    <3>1. CASE i \in Data(q, t)
      <4>1. p[i].chunk = q[i].chunk /\ q[i].chunk \in Nat
          BY <1>1, <1>2, <3>1
      <4>2. Queued(p, Data(p, t), p[i].chunk, m + 1)
          BY <1>4, <1>5, <3>1, <4>1 DEF Ahead
      <4> QED BY <1>5, <3>1, <4>1, <4>2 DEF Ahead
    <3>2. CASE i = Len(q) + 1
      <4>1. p[i].chunk = m + 1
          BY <1>1, <3>2
      <4> QED BY <1>3, <1>5, <4>1 DEF Ahead, Queued
    <3> QED BY <1>1, <3>1, <3>2
  <2>3. \A k \in DOMAIN got : got[k][1] <= d /\ got[k][2] <= m + 1
      BY <1>3, <1>5 DEF Ahead
  <2> QED BY <1>5, <2>1, <2>2, <2>3 DEF Ahead, Increasing
<1>6. ASSUME Serves(q, t, m, got, d) PROVE Serves(p, t, m + 1, got, d)
  <2>1. Len(got) \in DOMAIN got
      BY <1>6 DEF Serves
  <2> QED BY <1>3, <1>4, <1>6, <2>1 DEF Serves
<1> QED BY <1>5, <1>6 DEF p

\* A frame of another task, or a close frame.
LEMMA AheadOther ==
    ASSUME NEW q \in Seq(Frames), NEW f \in Frames, NEW t, NEW m,
           NEW got, NEW d, ~IsData(f, t)
    PROVE  /\ Ahead(q, t, m, got, d) => Ahead(Append(q, f), t, m, got, d)
           /\ Serves(q, t, m, got, d) => Serves(Append(q, f), t, m, got, d)
<1>1. /\ Data(Append(q, f), t) = Data(q, t)
      /\ \A i \in Data(q, t) : Append(q, f)[i] = q[i]
  <2>1. Data(Append(q, f), t) \subseteq Data(q, t)
      BY DataAppend
  <2>2. Data(q, t) \subseteq Data(Append(q, f), t)
      BY DataAppend
  <2>3. \A i \in Data(q, t) : Append(q, f)[i] = q[i]
      BY DataAppend
  <2> QED BY <2>1, <2>2, <2>3
<1>2. \A c : Queued(q, Data(q, t), c, m) => Queued(Append(q, f), Data(q, t), c, m)
    BY <1>1 DEF Queued
<1>3. Increasing(q, Data(q, t)) => Increasing(Append(q, f), Data(q, t))
    BY <1>1 DEF Increasing
<1> QED BY <1>1, <1>2, <1>3 DEF Ahead, Serves

LEMMA LocalInit == Init => LocalInv
<1> SUFFICES ASSUME Init PROVE LocalInv
    OBVIOUS
<1>1. \A t \in Tasks : Data(<<>>, t) = {} /\ DOMAIN <<>> = {} /\ WholePieces(<<>>)
    BY DEF Data, WholePieces
<1> QED BY <1>1 DEF Init, LocalInv, Ahead, Increasing

\* Whatever happens to the rest, as long as no local socket opens.
LEMMA LocalKept ==
    ASSUME LocalInv,
           toAgent' = toAgent, sent' = sent, localGot' = localGot, dials' = dials,
           \A t \in Tasks : local'[t] = "open" => local[t] = "open"
    PROVE  LocalInv'
    BY DEF LocalInv

LEMMA LocalStep ==
    ASSUME TunnelInv, LocalInv, Next
    PROVE  LocalInv'
<1> USE DEF tunnel, serverSide, agentSide, Set
<1>0. TypeOK /\ FramesKnow /\ AgentKnows
    BY DEF TunnelInv
<1>1. /\ toAgent \in Seq(Frames)
      /\ \A t \in Tasks : /\ sent[t] \in Nat /\ dials[t] \in Nat
                          /\ localGot[t] \in Seq(Dials \X Chunks)
    BY <1>0, BoundsAssumption DEF TypeOK
<1>2. ASSUME NEW u \in Tasks, ServerSend(u) PROVE LocalInv'
  <2> DEFINE f == Frame("data", u, 0, sent[u] + 1)
  <2>1. 0 \in 0 .. MaxDials /\ sent[u] + 1 \in 0 .. MaxChunks
      BY <1>0, <1>2, BoundsAssumption DEF ServerSend, TypeOK
  <2>2. f \in Frames /\ f.op = "data" /\ f.task = u /\ f.chunk = sent[u] + 1
      BY <2>1, FrameTypes
  <2>3. toAgent' = Append(toAgent, f)
      BY <1>2 DEF ServerSend, Send
  <2> HIDE DEF f
  <2>4. ASSUME NEW t \in Tasks
        PROVE  /\ Ahead(toAgent', t, sent'[t], localGot[t], dials[t])
               /\ local[t] = "open" =>
                     Serves(toAgent', t, sent'[t], localGot[t], dials[t])
    <3>1. CASE t = u
      <4>1. IsData(f, t) /\ sent'[t] = sent[t] + 1
          BY <1>0, <1>2, <2>2, <3>1 DEF ServerSend, TypeOK, IsData
      <4> QED BY <1>1, <2>2, <2>3, <3>1, <4>1, AheadSend DEF LocalInv
    <3>2. CASE t # u
      <4>1. ~IsData(f, t) /\ sent'[t] = sent[t]
          BY <1>0, <1>2, <2>2, <3>2 DEF ServerSend, TypeOK, IsData
      <4> QED BY <1>1, <2>2, <2>3, <4>1, AheadOther DEF LocalInv
    <3> QED BY <3>1, <3>2
  <2> QED BY <1>2, <2>4 DEF ServerSend, LocalInv
<1>3. ASSUME NEW u \in Tasks, ServerTaskEnds(u) PROVE LocalInv'
  <2> DEFINE f == Frame("close", u, 0, 0)
  <2>1. f \in Frames /\ f.op = "close"
    <3>1. 0 \in 0 .. MaxDials /\ 0 \in 0 .. MaxChunks
        BY BoundsAssumption
    <3> QED BY <3>1, FrameTypes
  <2>2. toAgent' = toAgent \/ toAgent' = Append(toAgent, f)
      BY <1>3 DEF ServerTaskEnds, Send
  <2>3. /\ sent' = sent /\ localGot' = localGot /\ dials' = dials
        /\ local' = local
      BY <1>3 DEF ServerTaskEnds
  <2>4. \A t : ~IsData(f, t)
      BY <2>1 DEF IsData
  <2> HIDE DEF f
  <2>5. CASE toAgent' = toAgent
      BY <2>3, <2>5, LocalKept
  <2>6. CASE toAgent' = Append(toAgent, f)
      BY <1>1, <2>1, <2>3, <2>4, <2>6, AheadOther DEF LocalInv
  <2> QED BY <2>2, <2>5, <2>6
<1>4. ASSUME NEW u \in Tasks, NEW op \in {"data", "close"}, AgentReads(op, u)
      PROVE  /\ toAgent # <<>> /\ toAgent' = Tail(toAgent)
             /\ Head(toAgent) = toAgent[1]
             /\ toAgent[1].op = op /\ toAgent[1].task = u
             /\ op = "data" => IsData(toAgent[1], u) /\ toAgent[1].chunk \in Chunks
             /\ \A t : t # u \/ op = "close" => ~IsData(toAgent[1], t)
    BY <1>0, <1>1, <1>4, QueueTail DEF AgentReads, IsData, FramesKnow
\* The other tasks see their data move up.
<1>5. ASSUME NEW u \in Tasks, NEW op \in {"data", "close"}, AgentReads(op, u),
             NEW t \in Tasks
      PROVE  /\ Ahead(toAgent', t, sent[t], localGot[t], dials[t])
             /\ t # u \/ op = "close" => (local[t] = "open" =>
                   Serves(toAgent', t, sent[t], localGot[t], dials[t]))
  <2>1. Ahead(toAgent', t, sent[t], localGot[t], dials[t])
      BY <1>1, <1>4, <1>5, AheadTail DEF LocalInv
  <2>2. ASSUME t # u \/ op = "close", local[t] = "open"
        PROVE  Serves(toAgent', t, sent[t], localGot[t], dials[t])
      BY <1>1, <1>4, <1>5, <2>2, ServesTail DEF LocalInv
  <2> QED BY <2>1, <2>2
<1>6. ASSUME NEW u \in Tasks, AgentData(u) PROVE LocalInv'
  <2>1. AgentReads("data", u) /\ sent' = sent /\ dials' = dials /\ local' = local
      BY <1>6 DEF AgentData
  <2>2. CASE local[u] # "open"
    <3>1. localGot' = localGot
        BY <1>6, <2>2 DEF AgentData
    <3> QED BY <1>5, <2>1, <2>2, <3>1 DEF LocalInv
  <2>3. CASE local[u] = "open"
    <3> DEFINE new == Append(localGot[u], <<dials[u], toAgent[1].chunk>>)
    <3>1. localGot'[u] = new /\ \A t \in Tasks : t # u => localGot'[t] = localGot[t]
        BY <1>0, <1>4, <1>6, <2>1, <2>3 DEF AgentData, TypeOK
    <3>2. dials[u] \in Dials
        BY <1>0, <2>3 DEF AgentKnows
    <3>3. /\ Ahead(toAgent', u, sent[u], new, dials[u])
          /\ Serves(toAgent', u, sent[u], new, dials[u])
        BY <1>1, <1>4, <2>1, <2>3, <3>2, AheadStore DEF LocalInv
    <3> HIDE DEF new
    <3> QED BY <1>5, <2>1, <3>1, <3>3 DEF LocalInv
  <2> QED BY <2>2, <2>3
<1>7. ASSUME NEW u \in Tasks, AgentDials(u) PROVE LocalInv'
  <2> DEFINE new == Append(localGot[u], <<dials[u] + 1, toAgent[1].chunk>>)
  <2>1. AgentReads("data", u) /\ sent' = sent
      BY <1>7 DEF AgentDials
  <2>2. /\ dials'[u] = dials[u] + 1 /\ localGot'[u] = new
        /\ \A t \in Tasks : t # u => /\ localGot'[t] = localGot[t]
                                     /\ dials'[t] = dials[t]
                                     /\ local'[t] = local[t]
      BY <1>0, <1>4, <1>7, <2>1 DEF AgentDials, TypeOK
  <2>3. dials[u] + 1 \in Dials
    <3>1. dials[u] \in 0 .. MaxDials /\ dials[u] < MaxDials
        BY <1>0, <1>7 DEF AgentDials, TypeOK
    <3> QED BY <3>1, BoundsAssumption DEF Dials
  <2>4. /\ Ahead(toAgent', u, sent[u], new, dials[u] + 1)
        /\ Serves(toAgent', u, sent[u], new, dials[u] + 1)
      BY <1>1, <1>4, <2>1, <2>3, AheadStore DEF LocalInv
  <2> HIDE DEF new
  <2> QED BY <1>5, <2>1, <2>2, <2>4 DEF LocalInv
<1>8. ASSUME NEW u \in Tasks, AgentDialFails(u) PROVE LocalInv'
  <2>1. /\ AgentReads("data", u) /\ sent' = sent /\ dials' = dials
        /\ local' = local /\ localGot' = localGot /\ local[u] # "open"
      BY <1>0, <1>8 DEF AgentDialFails, InAgentMap, AgentKnows
  <2> QED BY <1>5, <2>1 DEF LocalInv
<1>9. ASSUME NEW u \in Tasks, AgentClose(u) PROVE LocalInv'
  <2>1. /\ AgentReads("close", u) /\ sent' = sent /\ dials' = dials
        /\ localGot' = localGot
        /\ \A t \in Tasks : local'[t] = "open" => local[t] = "open"
      BY <1>0, <1>9 DEF AgentClose, TypeOK
  <2> QED BY <1>5, <2>1 DEF LocalInv
<1>10. ASSUME NEW u \in Tasks, \/ ServerStart(u) \/ ServerRemoveTask(u)
                               \/ PublicLeaves(u) \/ ServerRead(u)
       PROVE  LocalInv'
    BY <1>10, LocalKept DEF ServerStart, ServerRemoveTask, PublicLeaves, ServerRead,
           ServerData, ServerDataLost, ServerDataWriteFails, ServerDataEndsTunnel,
           ServerOrphanData, ServerClose
<1>11. ASSUME NEW u \in Tasks, \/ AgentSend(u) \/ LocalLeaves(u) \/ AgentTaskEnds(u)
                               \/ AgentRemoveTask(u) \/ AgentRemoveFailed(u)
       PROVE  LocalInv'
  <2>1. \A t \in Tasks : local'[t] = "open" => local[t] = "open"
      BY <1>0, <1>11 DEF AgentSend, LocalLeaves, AgentTaskEnds, AgentRemoveTask,
                         AgentRemoveFailed, TypeOK
  <2> QED BY <1>11, <2>1, LocalKept DEF AgentSend, LocalLeaves, AgentTaskEnds,
                         AgentRemoveTask, AgentRemoveFailed
<1>12. ASSUME ServerReadsGarbage \/ ServerLoopEnds \/ AgentLoopEnds \/ TunnelBreaks
       PROVE  LocalInv'
  <2>1. \A t \in Tasks : local'[t] = "open" => local[t] = "open"
      BY <1>12 DEF ServerReadsGarbage, ServerLoopEnds, AgentLoopEnds, TunnelBreaks,
                   AgentConnClose
  <2> QED BY <1>12, <2>1, LocalKept DEF ServerReadsGarbage, ServerLoopEnds,
                   AgentLoopEnds, AgentConnClose, TunnelBreaks
<1> QED BY <1>2, <1>3, <1>6, <1>7, <1>8, <1>9, <1>10, <1>11, <1>12
        DEF Next, AgentRead

\* What one local connection is given is a piece of the public stream without
\* a gap, and no chunk is given twice, for any number of tasks and chunks
\* (client/conn.go:251-316).
THEOREM LocalStreamsWhole == Spec => []LocalStreamWhole
<1>1. TunnelInv /\ LocalInv /\ [Next]_vars => LocalInv'
  <2> SUFFICES ASSUME TunnelInv, LocalInv, [Next]_vars PROVE LocalInv'
      OBVIOUS
  <2>1. CASE UNCHANGED vars
      BY <2>1, LocalKept DEF vars, tunnel, serverSide, agentSide
  <2> QED BY <2>1, LocalStep
<1>2. LocalInv => LocalStreamWhole
    BY DEF LocalInv, Ahead, WholePieces, LocalStreamWhole
<1> QED BY <1>1, <1>2, TunnelInit, TunnelStep, LocalInit, PTL DEF Spec

-----------------------------------------------------------------------------
(* What the server writes to public connections.                            *)

LEMMA FrontNumbers ==
    ASSUME NEW q \in Seq(Frames), NEW t, NEW i \in Front(q, t)
    PROVE  /\ i \in 1 .. Len(q) /\ i \in DOMAIN q
           /\ q[i].chunk \in Nat /\ q[i].dial \in 0 .. MaxDials
<1>1. i \in DOMAIN q /\ q[i] \in Frames
    BY DEF Front, Data
<1>2. q[i].dial \in 0 .. MaxDials
    BY <1>1 DEF Frames
<1> QED BY <1>1, <1>2, FrameNumbers

\* A frame of another task is taken.
LEMMA StreamTail ==
    ASSUME NEW q \in Seq(Frames), q # <<>>, NEW t,
           NEW got \in Seq(Dials \X Chunks), NEW a, NEW d, NEW b,
           ~IsData(q[1], t), ~IsClose(q[1], t)
    PROVE  /\ Stream(q, t, got) => Stream(Tail(q), t, got)
           /\ Sender(q, t, got, a, d, b) => Sender(Tail(q), t, got, a, d, b)
           /\ HasClose(Tail(q), t) <=> HasClose(q, t)
<1> DEFINE p == Tail(q)
<1>1. /\ \A i \in Front(p, t) : i + 1 \in Front(q, t) /\ p[i] = q[i + 1]
      /\ \A i \in Front(p, t) : i \in Nat \ {0}
      /\ \A i \in Front(q, t) : i - 1 \in Front(p, t) /\ p[i - 1] = q[i]
  <2>1. 1 \notin Front(q, t)
      BY DEF Front, Data
  <2> QED BY <2>1, FrontTail
<1> HIDE DEF p
<1>2. \A m, n : Queued(q, Front(q, t), m, n) => Queued(p, Front(p, t), m, n)
  <2>1. ASSUME NEW m, NEW n, Queued(q, Front(q, t), m, n), NEW k \in m + 1 .. n
        PROVE  \E i \in Front(p, t) : p[i].chunk = k
    <3>1. PICK j \in Front(q, t) : q[j].chunk = k
        BY <2>1 DEF Queued
    <3> QED BY <1>1, <3>1
  <2> QED BY <2>1 DEF Queued
<1>3. ASSUME Stream(q, t, got) PROVE Stream(p, t, got)
  <2>1. ASSUME NEW i \in Front(p, t), NEW j \in Front(p, t), i < j
        PROVE  p[i].chunk < p[j].chunk
    <3>1. i + 1 < j + 1 /\ i + 1 \in Front(q, t) /\ j + 1 \in Front(q, t)
        BY <1>1, <2>1
    <3>2. q[i + 1].chunk < q[j + 1].chunk
        BY <1>3, <3>1 DEF Stream, Increasing
    <3> QED BY <1>1, <3>2
  <2>2. ASSUME NEW i \in Front(p, t)
        PROVE  /\ Len(got) < p[i].chunk
               /\ Queued(p, Front(p, t), Len(got), p[i].chunk)
      BY <1>1, <1>2, <1>3 DEF Stream
  <2>3. \E g \in 0 .. MaxDials : /\ \A i \in Front(p, t) : p[i].dial = g
                                 /\ \A k \in DOMAIN got : got[k] = <<g, k>>
      BY <1>1, <1>3 DEF Stream
  <2> QED BY <2>1, <2>2, <2>3 DEF Stream, Increasing
<1>4. ASSUME Sender(q, t, got, a, d, b) PROVE Sender(p, t, got, a, d, b)
  <2>1. CASE d = 0 /\ a = "none" /\ Front(q, t) = {} /\ got = <<>>
    <3>1. Front(p, t) = {}
        BY <1>1, <2>1
    <3> QED BY <2>1, <3>1 DEF Sender
  <2>2. CASE /\ a = "copy" /\ Len(got) <= b
             /\ got # <<>> => got[1][1] = d
             /\ Queued(q, Front(q, t), Len(got), b)
             /\ \A i \in Front(q, t) : q[i].dial = d /\ q[i].chunk <= b
    <3>1. \A i \in Front(p, t) : p[i].dial = d /\ p[i].chunk <= b
        BY <1>1, <2>2
    <3> QED BY <1>2, <2>2, <3>1 DEF Sender
  <2> QED BY <1>4, <2>1, <2>2 DEF Sender
<1>5. HasClose(Tail(q), t) <=> HasClose(q, t)
    BY FrontTail
<1> QED BY <1>3, <1>4, <1>5 DEF p

\* The next chunk of the stream is taken and written.
LEMMA StreamTake ==
    ASSUME NEW q \in Seq(Frames), q # <<>>, NEW t,
           NEW got \in Seq(Dials \X Chunks), NEW a, NEW d, NEW b \in Nat,
           IsData(q[1], t), q[1].dial \in Dials, q[1].chunk \in Chunks,
           Stream(q, t, got)
    PROVE  LET new == Append(got, <<q[1].dial, q[1].chunk>>) IN
           /\ FromStart(new) /\ Stream(Tail(q), t, new)
           /\ Sender(q, t, got, a, d, b) => Sender(Tail(q), t, new, a, d, b)
           /\ HasClose(Tail(q), t) <=> HasClose(q, t)
<1> DEFINE p   == Tail(q)
           n   == q[1].chunk
           new == Append(got, <<q[1].dial, q[1].chunk>>)
<1>0. ~IsClose(q[1], t) /\ 1 \in Front(q, t)
    BY QueueTail DEF IsData, IsClose, Front, Data
<1>1. /\ \A i \in Front(p, t) : /\ i + 1 \in Front(q, t) /\ p[i] = q[i + 1]
                                /\ i \in Nat \ {0}
      /\ \A i \in Front(q, t) : i # 1 => i - 1 \in Front(p, t) /\ p[i - 1] = q[i]
      /\ HasClose(p, t) <=> HasClose(q, t)
    BY <1>0, FrontTail
<1>2. PICK g \in 0 .. MaxDials : /\ \A i \in Front(q, t) : q[i].dial = g
                                 /\ \A k \in DOMAIN got : got[k] = <<g, k>>
    BY DEF Stream
<1>3. Len(got) \in Nat /\ DOMAIN got = 1 .. Len(got)
    OBVIOUS
<1>4. n = Len(got) + 1
  <2>1. n \in Nat /\ Len(got) < n
      BY <1>0, FrontNumbers DEF Stream
  <2>2. PICK j \in Front(q, t) : q[j].chunk = Len(got) + 1
    <3>1. Len(got) + 1 \in Len(got) + 1 .. n
        BY <1>3, <2>1
    <3> QED BY <1>0, <3>1 DEF Stream, Queued
  <2>3. j # 1 => n < q[j].chunk
    <3>1. j \in 1 .. Len(q)
        BY FrontNumbers
    <3> QED BY <1>0, <3>1 DEF Stream, Increasing
  <2>4. CASE j = 1
      BY <2>2, <2>4
  <2>5. CASE j # 1
      BY <1>3, <2>1, <2>2, <2>3, <2>5
  <2> QED BY <2>4, <2>5
<1>5. /\ new \in Seq(Dials \X Chunks) /\ Len(new) = n /\ DOMAIN new = 1 .. n
      /\ \A k \in 1 .. n : new[k] = <<g, k>>
  <2>1. <<q[1].dial, n>> \in Dials \X Chunks /\ q[1].dial = g
      BY <1>0, <1>2
  <2>2. /\ new \in Seq(Dials \X Chunks) /\ Len(new) = Len(got) + 1
        /\ new[Len(got) + 1] = <<q[1].dial, n>>
        /\ \A k \in DOMAIN got : new[k] = got[k]
      BY <2>1, PiecesAppend
  <2>3. DOMAIN new = 1 .. Len(new)
      BY <2>2
  <2> HIDE DEF new
  <2>4. ASSUME NEW k \in 1 .. n PROVE new[k] = <<g, k>>
    <3>1. CASE k = n
        BY <1>4, <2>1, <2>2, <3>1
    <3>2. CASE k # n
      <4>1. k \in 1 .. Len(got)
          BY <1>3, <1>4, <3>2
      <4> QED BY <1>2, <1>3, <2>2, <4>1
    <3> QED BY <3>1, <3>2
  <2> QED BY <1>4, <2>2, <2>3, <2>4
<1> HIDE DEF p, n, new
<1>6. FromStart(new)
  <2>1. 1 \in 1 .. n
      BY <1>3, <1>4
  <2> QED BY <1>5, <2>1 DEF FromStart
<1>7. \A m : Queued(q, Front(q, t), Len(got), m) => Queued(p, Front(p, t), n, m)
  <2>1. ASSUME NEW m, Queued(q, Front(q, t), Len(got), m), NEW k \in n + 1 .. m
        PROVE  \E i \in Front(p, t) : p[i].chunk = k
    <3>1. k \in Len(got) + 1 .. m /\ k # n
        BY <1>3, <1>4
    <3>2. PICK j \in Front(q, t) : q[j].chunk = k
        BY <2>1, <3>1 DEF Queued
    <3>3. j # 1
        BY <3>1, <3>2 DEF n
    <3> QED BY <1>1, <3>2, <3>3
  <2> QED BY <2>1 DEF Queued
<1>8. Stream(p, t, new)
  <2>1. ASSUME NEW i \in Front(p, t), NEW j \in Front(p, t), i < j
        PROVE  p[i].chunk < p[j].chunk
    <3>1. i + 1 < j + 1 /\ i + 1 \in Front(q, t) /\ j + 1 \in Front(q, t)
        BY <1>1, <2>1
    <3>2. q[i + 1].chunk < q[j + 1].chunk
        BY <3>1 DEF Stream, Increasing
    <3> QED BY <1>1, <3>2
  <2>2. ASSUME NEW i \in Front(p, t)
        PROVE  Len(new) < p[i].chunk /\ Queued(p, Front(p, t), Len(new), p[i].chunk)
    <3>1. /\ i + 1 \in Front(q, t) /\ 1 < i + 1 /\ p[i] = q[i + 1]
        BY <1>1
    <3>2. n < q[i + 1].chunk
        BY <1>0, <3>1 DEF Stream, Increasing, n
    <3>3. Queued(q, Front(q, t), Len(got), q[i + 1].chunk)
        BY <3>1 DEF Stream
    <3> QED BY <1>5, <1>7, <3>1, <3>2, <3>3
  <2>3. \A i \in Front(p, t) : p[i].dial = g
      BY <1>1, <1>2
  <2> QED BY <1>5, <2>1, <2>2, <2>3 DEF Stream, Increasing
<1>9. ASSUME Sender(q, t, got, a, d, b) PROVE Sender(p, t, new, a, d, b)
  <2>1. /\ a = "copy" /\ Len(got) <= b
        /\ Queued(q, Front(q, t), Len(got), b)
        /\ \A i \in Front(q, t) : q[i].dial = d /\ q[i].chunk <= b
      BY <1>0, <1>9 DEF Sender
  <2>2. Len(new) <= b /\ g = d
      BY <1>0, <1>2, <1>5, <2>1 DEF n
  <2>3. new[1][1] = d
    <3>1. 1 \in 1 .. n
        BY <1>3, <1>4
    <3> QED BY <1>5, <2>2, <3>1
  <2>4. \A i \in Front(p, t) : p[i].dial = d /\ p[i].chunk <= b
      BY <1>1, <2>1
  <2> QED BY <1>5, <1>7, <2>1, <2>2, <2>3, <2>4 DEF Sender
<1> QED BY <1>1, <1>6, <1>8, <1>9 DEF p, new

\* A frame that is no data of the task, or comes after its close frame, is not
\* part of what it gets.
LEMMA StreamOther ==
    ASSUME NEW q \in Seq(Frames), NEW f \in Frames, NEW t, NEW got,
           NEW a, NEW d, NEW b,
           ~IsData(f, t) \/ HasClose(q, t)
    PROVE  /\ Stream(q, t, got) => Stream(Append(q, f), t, got)
           /\ Sender(q, t, got, a, d, b) => Sender(Append(q, f), t, got, a, d, b)
           /\ HasClose(Append(q, f), t) <=> HasClose(q, t) \/ IsClose(f, t)
<1>1. /\ Front(Append(q, f), t) = Front(q, t)
      /\ \A i \in Front(q, t) : Append(q, f)[i] = q[i]
  <2>1. Front(Append(q, f), t) \subseteq Front(q, t)
      BY FrontAppend
  <2>2. Front(q, t) \subseteq Front(Append(q, f), t)
      BY FrontAppend
  <2>3. \A i \in Front(q, t) : Append(q, f)[i] = q[i]
      BY FrontAppend
  <2> QED BY <2>1, <2>2, <2>3
<1>2. \A m, n : Queued(q, Front(q, t), m, n) => Queued(Append(q, f), Front(q, t), m, n)
    BY <1>1 DEF Queued
<1>3. Increasing(q, Front(q, t)) => Increasing(Append(q, f), Front(q, t))
    BY <1>1 DEF Increasing
<1>4. Stream(q, t, got) => Stream(Append(q, f), t, got)
    BY <1>1, <1>2, <1>3 DEF Stream
<1>5. Sender(q, t, got, a, d, b) => Sender(Append(q, f), t, got, a, d, b)
    BY <1>1, <1>2 DEF Sender
<1> QED BY <1>4, <1>5, FrontAppend

\* The sender's next chunk continues the stream.
LEMMA StreamSend ==
    ASSUME NEW q \in Seq(Frames), NEW f \in Frames, NEW t,
           NEW got \in Seq(Dials \X Chunks),
           NEW d \in 0 .. MaxDials, NEW b \in Nat,
           IsData(f, t), f.dial = d, f.chunk = b + 1, ~HasClose(q, t),
           Stream(q, t, got), Sender(q, t, got, "copy", d, b)
    PROVE  /\ Stream(Append(q, f), t, got)
           /\ Sender(Append(q, f), t, got, "copy", d, b + 1)
<1> DEFINE p == Append(q, f)
<1>1. /\ \A i \in Front(q, t) : i \in Front(p, t) /\ p[i] = q[i] /\ i \in 1 .. Len(q)
      /\ \A i \in Front(p, t) : i \in Front(q, t) \/ i = Len(q) + 1
      /\ Len(q) + 1 \in Front(p, t) /\ p[Len(q) + 1] = f /\ Len(q) \in Nat
    BY FrontAppend
<1> HIDE DEF p
<1>2. /\ Len(got) <= b /\ (got # <<>> => got[1][1] = d)
      /\ Queued(q, Front(q, t), Len(got), b)
      /\ \A i \in Front(q, t) : /\ q[i].dial = d /\ q[i].chunk <= b
                                /\ q[i].chunk \in Nat
    BY FrontNumbers DEF Sender
<1>3. Len(got) \in Nat /\ DOMAIN got = 1 .. Len(got)
    OBVIOUS
<1>4. \A m, n : Queued(q, Front(q, t), m, n) => Queued(p, Front(p, t), m, n)
  <2>1. ASSUME NEW m, NEW n, Queued(q, Front(q, t), m, n), NEW k \in m + 1 .. n
        PROVE  \E i \in Front(p, t) : p[i].chunk = k
    <3>1. PICK j \in Front(q, t) : q[j].chunk = k
        BY <2>1 DEF Queued
    <3> QED BY <1>1, <3>1
  <2> QED BY <2>1 DEF Queued
<1>5. Queued(p, Front(p, t), Len(got), b + 1)
  <2>1. ASSUME NEW k \in Len(got) + 1 .. b + 1
        PROVE  \E i \in Front(p, t) : p[i].chunk = k
    <3>1. CASE k = b + 1
        BY <1>1, <3>1
    <3>2. CASE k # b + 1
      <4>1. k \in Len(got) + 1 .. b
          BY <1>3, <3>2
      <4> QED BY <1>2, <1>4, <4>1 DEF Queued
    <3> QED BY <3>1, <3>2
  <2> QED BY <2>1 DEF Queued
<1>6. ASSUME NEW i \in Front(p, t), NEW j \in Front(p, t), i < j
      PROVE  p[i].chunk < p[j].chunk
  <2>1. i \in Front(q, t)
      BY <1>1, <1>6
  <2>2. CASE j \in Front(q, t)
      BY <1>1, <1>6, <2>1, <2>2 DEF Stream, Increasing
  <2>3. CASE j = Len(q) + 1
    <3>1. p[j].chunk = b + 1 /\ p[i] = q[i]
        BY <1>1, <2>1, <2>3
    <3>2. q[i].chunk <= b /\ q[i].chunk \in Nat
        BY <1>2, <2>1
    <3> QED BY <3>1, <3>2
  <2> QED BY <1>1, <2>2, <2>3
<1>7. ASSUME NEW i \in Front(p, t)
      PROVE  /\ Len(got) < p[i].chunk
             /\ Queued(p, Front(p, t), Len(got), p[i].chunk)
             /\ p[i].dial = d /\ p[i].chunk <= b + 1
  <2>1. CASE i \in Front(q, t)
    <3>1. p[i] = q[i] /\ q[i].chunk <= b /\ q[i].chunk \in Nat /\ q[i].dial = d
        BY <1>1, <1>2, <2>1
    <3>2. Len(got) < q[i].chunk /\ Queued(q, Front(q, t), Len(got), q[i].chunk)
        BY <2>1 DEF Stream
    <3>3. Queued(p, Front(p, t), Len(got), p[i].chunk)
        BY <1>4, <3>1, <3>2
    <3> QED BY <3>1, <3>2, <3>3
  <2>2. CASE i = Len(q) + 1
    <3>1. p[i].chunk = b + 1 /\ p[i].dial = d
        BY <1>1, <2>2
    <3> QED BY <1>2, <1>3, <1>5, <3>1
  <2> QED BY <1>1, <2>1, <2>2
<1>8. \A k \in DOMAIN got : got[k] = <<d, k>>
  <2>1. PICK g \in 0 .. MaxDials : \A k \in DOMAIN got : got[k] = <<g, k>>
      BY DEF Stream
  <2>2. ASSUME NEW k \in DOMAIN got PROVE g = d
    <3>1. 1 \in DOMAIN got /\ got # <<>>
        BY <1>3
    <3> QED BY <1>2, <2>1, <3>1
  <2> QED BY <2>1, <2>2
<1>9. Stream(p, t, got)
    BY <1>6, <1>7, <1>8 DEF Stream, Increasing
<1>10. Sender(p, t, got, "copy", d, b + 1)
    BY <1>2, <1>3, <1>5, <1>7 DEF Sender
<1> QED BY <1>9, <1>10 DEF p

\* A step that touches neither the queue nor what was written keeps the rest,
\* as long as no socket opens and the senders stay as they are.
LEMMA PublicKept ==
    ASSUME PublicInv, toServer' = toServer, pubGot' = pubGot,
           \A t \in Tasks : Live(t)' => Live(t),
           up' => up /\ agt' = agt /\ dials' = dials /\ back' = back
    PROVE  PublicInv'
<1> SUFFICES ASSUME NEW t \in Tasks
             PROVE  /\ FromStart(pubGot'[t])
                    /\ Live(t)' => Stream(toServer', t, pubGot'[t])
                    /\ Live(t)' /\ up' /\ ~HasClose(toServer', t) =>
                          Sender(toServer', t, pubGot'[t], agt'[t], dials'[t], back'[t])
    BY DEF PublicInv
<1> QED BY DEF PublicInv

LEMMA PublicInit == Init => PublicInv
<1> SUFFICES ASSUME Init PROVE PublicInv
    OBVIOUS
<1>1. \A t \in Tasks : Front(<<>>, t) = {} /\ DOMAIN <<>> = {} /\ FromStart(<<>>)
    BY DEF Front, Data, FromStart
<1>2. \A t \in Tasks : Stream(<<>>, t, <<>>)
  <2>1. 0 \in 0 .. MaxDials
      BY BoundsAssumption
  <2> QED BY <1>1, <2>1 DEF Stream, Increasing
<1>3. \A t \in Tasks : Sender(<<>>, t, <<>>, "none", 0, 0)
    BY <1>1 DEF Sender
<1> QED BY <1>1, <1>2, <1>3 DEF Init, PublicInv

\* What PublicInv says of one task after a step.
LEMMA PublicEach ==
    ASSUME \A t \in Tasks :
              /\ FromStart(pubGot'[t])
              /\ Live(t)' => Stream(toServer', t, pubGot'[t])
              /\ Live(t)' /\ up' /\ ~HasClose(toServer', t) =>
                    Sender(toServer', t, pubGot'[t], agt'[t], dials'[t], back'[t])
    PROVE  PublicInv'
    BY DEF PublicInv

LEMMA PublicStep ==
    ASSUME TunnelInv, PublicInv, Next
    PROVE  PublicInv'
<1> USE DEF tunnel, serverSide, agentSide, Set
<1>0. TypeOK /\ FramesKnow /\ AgentKnows /\ ServerKnows
    BY DEF TunnelInv
<1>1. /\ toServer \in Seq(Frames)
      /\ \A t \in Tasks : /\ back[t] \in Nat /\ dials[t] \in 0 .. MaxDials
                          /\ pubGot[t] \in Seq(Dials \X Chunks)
    BY <1>0, BoundsAssumption DEF TypeOK
<1>2. ASSUME NEW u \in Tasks, AgentSend(u) PROVE PublicInv'
  <2> DEFINE f == Frame("data", u, dials[u], back[u] + 1)
  <2>1. dials[u] \in 0 .. MaxDials /\ back[u] + 1 \in 0 .. MaxChunks
      BY <1>0, <1>2, BoundsAssumption DEF AgentSend, TypeOK
  <2>2. /\ f \in Frames /\ f.op = "data" /\ f.task = u
        /\ f.dial = dials[u] /\ f.chunk = back[u] + 1
      BY <2>1, FrameTypes
  <2>3. /\ toServer' = Append(toServer, f) /\ pubGot' = pubGot /\ up' = up
        /\ agt' = agt /\ dials' = dials /\ agt[u] = "copy"
        /\ back'[u] = back[u] + 1
        /\ \A t \in Tasks : /\ Live(t)' <=> Live(t)
                            /\ t # u => back'[t] = back[t]
      BY <1>0, <1>2 DEF AgentSend, Send, Live, TypeOK
  <2>4. ~IsClose(f, u) /\ IsData(f, u)
        /\ \A t \in Tasks : t # u => ~IsData(f, t) /\ ~IsClose(f, t)
      BY <2>2 DEF IsData, IsClose
  <2> HIDE DEF f
  <2>5. ASSUME NEW t \in Tasks, Live(t), t # u \/ HasClose(toServer, t)
        PROVE  /\ Stream(toServer', t, pubGot'[t])
               /\ up' /\ ~HasClose(toServer', t) =>
                     Sender(toServer', t, pubGot'[t], agt'[t], dials'[t], back'[t])
    <3>1. Stream(toServer, t, pubGot[t])
        BY <2>5 DEF PublicInv
    <3>2. Stream(Append(toServer, f), t, pubGot[t])
        BY <1>1, <2>2, <2>4, <2>5, <3>1, StreamOther
    <3>3. HasClose(toServer', t) <=> HasClose(toServer, t)
        BY <1>1, <2>2, <2>3, <2>4, <2>5, StreamOther
    <3>4. ASSUME up', ~HasClose(toServer', t)
          PROVE  Sender(toServer', t, pubGot'[t], agt'[t], dials'[t], back'[t])
      <4>1. Sender(toServer, t, pubGot[t], agt[t], dials[t], back[t])
          BY <2>3, <2>5, <3>3, <3>4 DEF PublicInv
      <4>2. t # u
          BY <2>5, <3>3, <3>4
      <4> QED BY <1>1, <2>2, <2>3, <2>4, <4>1, <4>2, StreamOther
    <3> QED BY <2>3, <3>2, <3>4
  <2>6. ASSUME Live(u), ~HasClose(toServer, u), up
        PROVE  /\ Stream(toServer', u, pubGot'[u])
               /\ Sender(toServer', u, pubGot'[u], agt'[u], dials'[u], back'[u])
    <3>1. /\ Stream(toServer, u, pubGot[u])
          /\ Sender(toServer, u, pubGot[u], "copy", dials[u], back[u])
        BY <2>3, <2>6 DEF PublicInv
    <3> QED BY <1>1, <2>2, <2>3, <2>4, <2>6, <3>1, StreamSend
  <2>7. up
      BY <1>2 DEF AgentSend
  <2>8. \A t \in Tasks : FromStart(pubGot'[t])
      BY <2>3 DEF PublicInv
  <2> QED BY <2>3, <2>5, <2>6, <2>7, <2>8, PublicEach
<1>3. ASSUME NEW u \in Tasks, AgentTaskEnds(u) PROVE PublicInv'
  <2> DEFINE f == Frame("close", u, dials[u], 0)
  <2>1. f \in Frames /\ f.op = "close" /\ f.task = u
    <3>1. dials[u] \in 0 .. MaxDials /\ 0 \in 0 .. MaxChunks
        BY <1>1, BoundsAssumption
    <3> QED BY <3>1, FrameTypes
  <2>2. /\ pubGot' = pubGot /\ up' = up /\ dials' = dials /\ back' = back
        /\ \A t \in Tasks : /\ Live(t)' <=> Live(t)
                            /\ t # u => agt'[t] = agt[t]
      BY <1>0, <1>3 DEF AgentTaskEnds, Live, TypeOK
  <2>3. toServer' = IF up THEN Append(toServer, f) ELSE toServer
      BY <1>3 DEF AgentTaskEnds, Send
  <2>4. IsClose(f, u) /\ \A t \in Tasks : /\ ~IsData(f, t)
                                          /\ t # u => ~IsClose(f, t)
      BY <2>1 DEF IsData, IsClose
  <2> HIDE DEF f
  <2>5. CASE ~up
    <3>1. toServer' = toServer /\ ~up'
        BY <2>2, <2>3, <2>5
    <3> QED BY <2>2, <3>1, PublicKept
  <2>6. CASE up
    <3>1. toServer' = Append(toServer, f)
        BY <2>3, <2>6
    <3>2. ASSUME NEW t \in Tasks, Live(t)
          PROVE  Stream(toServer', t, pubGot'[t])
        BY <1>1, <2>1, <2>2, <2>4, <3>1, <3>2, StreamOther DEF PublicInv
    <3>3. ASSUME NEW t \in Tasks, Live(t), ~HasClose(toServer', t)
          PROVE  Sender(toServer', t, pubGot'[t], agt'[t], dials'[t], back'[t])
      <4>1. t # u /\ ~HasClose(toServer, t)
          BY <1>1, <2>1, <2>4, <3>1, <3>3, StreamOther
      <4>2. Sender(toServer, t, pubGot[t], agt[t], dials[t], back[t])
          BY <2>6, <3>3, <4>1 DEF PublicInv
      <4> QED BY <1>1, <2>1, <2>2, <2>4, <3>1, <4>1, <4>2, StreamOther
    <3>4. \A t \in Tasks : FromStart(pubGot'[t])
        BY <2>2 DEF PublicInv
    <3> QED BY <2>2, <3>2, <3>3, <3>4, PublicEach
  <2> QED BY <2>5, <2>6
<1>4. ASSUME NEW u \in Tasks, AgentDials(u) PROVE PublicInv'
  <2>1. /\ toServer' = toServer /\ pubGot' = pubGot /\ up' = up
        /\ agt[u] = "none" /\ agt'[u] = "copy" /\ back'[u] = 0
        /\ \A t \in Tasks : /\ Live(t)' <=> Live(t)
                            /\ t # u => /\ agt'[t] = agt[t] /\ back'[t] = back[t]
                                        /\ dials'[t] = dials[t]
      BY <1>0, <1>4 DEF AgentDials, InAgentMap, Live, TypeOK
  <2>2. ASSUME Live(u), up, ~HasClose(toServer, u)
        PROVE  Sender(toServer, u, pubGot[u], "copy", dials'[u], 0)
    <3>1. Sender(toServer, u, pubGot[u], "none", dials[u], back[u])
        BY <2>1, <2>2 DEF PublicInv
    <3>2. Front(toServer, u) = {} /\ pubGot[u] = <<>>
        BY <3>1 DEF Sender
    <3> QED BY <3>2 DEF Sender, Queued
  <2>3. ASSUME NEW t \in Tasks, Live(t), up, ~HasClose(toServer, t)
        PROVE  Sender(toServer, t, pubGot[t], agt'[t], dials'[t], back'[t])
      BY <2>1, <2>2, <2>3 DEF PublicInv
  <2> QED BY <2>1, <2>3, PublicEach DEF PublicInv
<1>5. ASSUME NEW u \in Tasks, AgentRemoveTask(u) PROVE PublicInv'
  <2>1. /\ toServer' = toServer /\ pubGot' = pubGot /\ up' = up
        /\ agt[u] = "remove" /\ dials' = dials /\ back' = back
        /\ \A t \in Tasks : /\ Live(t)' <=> Live(t)
                            /\ t # u => agt'[t] = agt[t]
      BY <1>0, <1>5 DEF AgentRemoveTask, Live, TypeOK
  <2>2. ASSUME Live(u), up, ~HasClose(toServer, u) PROVE FALSE
      BY <2>1, <2>2 DEF PublicInv, Sender
  <2>3. ASSUME NEW t \in Tasks, Live(t), up, ~HasClose(toServer, t)
        PROVE  Sender(toServer, t, pubGot[t], agt'[t], dials'[t], back'[t])
      BY <2>1, <2>2, <2>3 DEF PublicInv
  <2> QED BY <2>1, <2>3, PublicEach DEF PublicInv
<1>6. ASSUME NEW u \in Tasks, NEW op \in {"data", "close"}, ServerReads(op, u)
      PROVE  /\ toServer # <<>> /\ toServer' = Tail(toServer)
             /\ Head(toServer) = toServer[1] /\ 1 \in DOMAIN toServer
             /\ toServer[1].op = op /\ toServer[1].task = u
             /\ op = "data" => /\ IsData(toServer[1], u)
                               /\ toServer[1].chunk \in Chunks
                               /\ toServer[1].dial \in Dials
             /\ \A t : t # u => /\ ~IsData(toServer[1], t)
                                /\ ~IsClose(toServer[1], t)
    BY <1>0, <1>1, <1>6, QueueTail DEF ServerReads, IsData, IsClose, FramesKnow
\* The other tasks see their frames move up.
<1>7. ASSUME NEW u \in Tasks, NEW op \in {"data", "close"}, ServerReads(op, u),
             NEW t \in Tasks, t # u, Live(t)
      PROVE  /\ Stream(toServer', t, pubGot[t])
             /\ up /\ ~HasClose(toServer', t) =>
                   Sender(toServer', t, pubGot[t], agt[t], dials[t], back[t])
  <2>1. Stream(toServer, t, pubGot[t])
      BY <1>7 DEF PublicInv
  <2>2. /\ Stream(toServer', t, pubGot[t])
        /\ HasClose(toServer', t) <=> HasClose(toServer, t)
    <3>1. toServer' = Tail(toServer) /\ toServer # <<>>
          /\ ~IsData(toServer[1], t) /\ ~IsClose(toServer[1], t)
        BY <1>6, <1>7
    <3>2. Stream(Tail(toServer), t, pubGot[t])
        BY <1>1, <2>1, <3>1, StreamTail
    <3>3. HasClose(Tail(toServer), t) <=> HasClose(toServer, t)
        BY <1>1, <3>1, FrontTail
    <3> QED BY <3>1, <3>2, <3>3
  <2>3. ASSUME up, ~HasClose(toServer', t)
        PROVE  Sender(toServer', t, pubGot[t], agt[t], dials[t], back[t])
    <3>1. Sender(toServer, t, pubGot[t], agt[t], dials[t], back[t])
        BY <1>7, <2>2, <2>3 DEF PublicInv
    <3> QED BY <1>1, <1>6, <1>7, <3>1, StreamTail
  <2> QED BY <2>2, <2>3
<1>8. ASSUME NEW u \in Tasks, ServerData(u) PROVE PublicInv'
  <2> DEFINE new == Append(pubGot[u], <<toServer[1].dial, toServer[1].chunk>>)
  <2>1. /\ ServerReads("data", u) /\ Live(u)
        /\ up' = up /\ agt' = agt /\ dials' = dials /\ back' = back
        /\ \A t \in Tasks : Live(t)' <=> Live(t)
      BY <1>8 DEF ServerData, ServerReads, Live
  <2>2. pubGot'[u] = new /\ \A t \in Tasks : t # u => pubGot'[t] = pubGot[t]
      BY <1>0, <1>6, <1>8, <2>1 DEF ServerData, TypeOK
  <2>3. Stream(toServer, u, pubGot[u])
      BY <2>1 DEF PublicInv
  <2>4. /\ FromStart(new) /\ Stream(toServer', u, new)
        /\ Sender(toServer, u, pubGot[u], agt[u], dials[u], back[u]) =>
              Sender(toServer', u, new, agt[u], dials[u], back[u])
        /\ HasClose(toServer', u) <=> HasClose(toServer, u)
      BY <1>1, <1>6, <2>1, <2>3, StreamTake
  <2> HIDE DEF new
  <2>5. up /\ ~HasClose(toServer', u) =>
           Sender(toServer', u, new, agt[u], dials[u], back[u])
      BY <2>1, <2>4 DEF PublicInv
  <2>6. \A t \in Tasks : FromStart(pubGot'[t])
      BY <2>2, <2>4 DEF PublicInv
  <2> QED BY <1>7, <2>1, <2>2, <2>4, <2>5, <2>6, PublicEach
<1>9. ASSUME NEW u \in Tasks, NEW op \in {"data", "close"}, ServerReads(op, u),
             ~Live(u)', pubGot' = pubGot, up' => up,
             agt' = agt, dials' = dials, back' = back,
             \A t \in Tasks : Live(t)' => Live(t)
      PROVE  PublicInv'
  <2>1. \A t \in Tasks : Live(t)' => t # u
      BY <1>9
  <2>2. \A t \in Tasks : FromStart(pubGot'[t])
      BY <1>9 DEF PublicInv
  <2> QED BY <1>7, <1>9, <2>1, <2>2, PublicEach
<1>10. ASSUME NEW u \in Tasks, \/ ServerDataLost(u) \/ ServerDataWriteFails(u)
                               \/ ServerDataEndsTunnel(u) \/ ServerOrphanData(u)
       PROVE  PublicInv'
  <2>1. /\ ServerReads("data", u) /\ pubGot' = pubGot /\ (up' => up)
        /\ agt' = agt /\ dials' = dials /\ back' = back
      BY <1>10 DEF ServerDataLost, ServerDataWriteFails, ServerDataEndsTunnel,
                   ServerOrphanData
  <2>2. ~Live(u)' /\ \A t \in Tasks : Live(t)' => Live(t)
      BY <1>0, <1>10 DEF ServerDataLost, ServerDataWriteFails,
             ServerDataEndsTunnel, ServerOrphanData, Live, TypeOK
  <2> QED BY <1>9, <2>1, <2>2
<1>11. ASSUME NEW u \in Tasks, ServerClose(u) PROVE PublicInv'
  <2>1. /\ ServerReads("close", u) /\ pubGot' = pubGot /\ up' = up
        /\ agt' = agt /\ dials' = dials /\ back' = back
      BY <1>11 DEF ServerClose
  <2>2. srv[u] # "new"
      BY <1>0, <1>6, <2>1 DEF ServerKnows
  <2>3. ~Live(u)'
      BY <1>0, <1>11, <2>2 DEF ServerClose, InServerMap, Live, TypeOK, ServerKnows
  <2>4. \A t \in Tasks : Live(t)' => Live(t)
      BY <1>0, <1>11 DEF ServerClose, Live, TypeOK
  <2> QED BY <1>9, <2>1, <2>3, <2>4
<1>12. ASSUME NEW u \in Tasks, \/ ServerStart(u) \/ ServerSend(u)
                               \/ ServerTaskEnds(u) \/ ServerRemoveTask(u)
                               \/ PublicLeaves(u)
       PROVE  PublicInv'
  <2>1. \A t \in Tasks : Live(t)' => Live(t)
      BY <1>0, <1>12 DEF ServerStart, ServerSend, ServerTaskEnds,
             ServerRemoveTask, PublicLeaves, Live, TypeOK
  <2> QED BY <1>12, <2>1, PublicKept DEF ServerStart, ServerSend, ServerTaskEnds,
             ServerRemoveTask, PublicLeaves
<1>13. ASSUME NEW u \in Tasks, \/ AgentData(u) \/ AgentDialFails(u)
                               \/ AgentClose(u) \/ LocalLeaves(u)
       PROVE  PublicInv'
    BY <1>13, PublicKept DEF AgentData, AgentDialFails, AgentClose, LocalLeaves,
           Live
<1>14. ASSUME NEW u \in Tasks, AgentRemoveFailed(u) PROVE PublicInv'
    BY <1>14, PublicKept DEF AgentRemoveFailed, Live
<1>15. ASSUME ServerReadsGarbage PROVE PublicInv'
  <2>1. pubGot' = pubGot /\ \A t \in Tasks : ~Live(t)'
      BY <1>15 DEF ServerReadsGarbage, Live
  <2> QED BY <2>1, PublicEach DEF PublicInv
<1>16. ASSUME ServerLoopEnds \/ AgentLoopEnds \/ TunnelBreaks PROVE PublicInv'
    BY <1>16, PublicKept DEF ServerLoopEnds, AgentLoopEnds, AgentConnClose,
           TunnelBreaks, Live
<1> QED BY <1>2, <1>3, <1>4, <1>5, <1>8, <1>10, <1>11, <1>12, <1>13, <1>14,
           <1>15, <1>16 DEF Next, ServerRead, AgentRead

\* What the public side is given is the stream of one local connection from
\* its beginning: a local connection that the agent opened for late frames
\* never answers into the same public connection (server/conn.go:331-412,
\* client/task.go:215-240).
THEOREM PublicStreamsWhole == Spec => []PublicStreamWhole
<1>1. TunnelInv /\ PublicInv /\ [Next]_vars => PublicInv'
  <2> SUFFICES ASSUME TunnelInv, PublicInv, [Next]_vars PROVE PublicInv'
      OBVIOUS
  <2>1. CASE UNCHANGED vars
      BY <2>1, PublicKept DEF vars, tunnel, serverSide, agentSide, Live
  <2> QED BY <2>1, PublicStep
<1>2. PublicInv => PublicStreamWhole
    BY DEF PublicInv, FromStart, PublicStreamWhole
<1> QED BY <1>1, <1>2, TunnelInit, TunnelStep, PublicInit, PTL DEF Spec
=============================================================================
