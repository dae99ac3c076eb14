------------------------------ MODULE PeerTask ------------------------------
(***************************************************************************)
(* A peer-to-peer exchange at the agent (client/peer.go).  A public        *)
(* connection sends a request with the method X1 whose chunked body is a   *)
(* series of messages, an offer first and candidates behind it, each with  *)
(* its length in front.  readLoop reads them from the frames of the        *)
(* connection's id and sets up a WebRTC connection; processSDP, a          *)
(* goroutine of its own, answers with the agent's offer and candidates     *)
(* until WebRTC has no more of them or sixty seconds are over.             *)
(*                                                                         *)
(* The stream is a sequence of units <<m, u>>: the u-th piece of message m, *)
(* the first two being its length; message 0 is the HTTP header in two     *)
(* pieces.  Frames cut it between any two units.  The framing of the       *)
(* chunks is not kept; that a frame's end tears it is.  WebRTC is external. *)
(***************************************************************************)
EXTENDS Naturals, Sequences

CONSTANTS
    Exchanges,      \* the bodies public connections send: sequences of kinds
    MaxCandidates   \* bound: candidates WebRTC finds

VARIABLES
    stuns,     \* the agent is configured with STUN servers
    messages,  \* the body of this connection
    sent,      \* units of its stream that came in frames so far
    frame,     \* what is left of the frame readLoop is in
    torn,      \* the frame ends inside the framing of a chunk
    garbled,   \* the framing is lost
    loop,      \* where readLoop is
    inMap,     \* conn.peerTasks has the id
    state,     \* peerTask.state
    n,         \* peerTask.n
    dataLen,   \* peerTask.dataLen: the units read of it
    data,      \* peerTask.data[:n]
    initDone,  \* peerTask.initDone
    readErr,   \* the error the last read of a whole message came with
    acted,     \* history: the messages WebRTC took
    sdp,       \* where processSDP is
    gather,    \* WebRTC's gathering: is it in the candidate callback?
    found,     \* candidates it found
    timer,     \* peerTask.ctx
    up,        \* the tunnel still takes writes
    replies,   \* what was sent back for the id so far
    local      \* a frame of the id went to the local service

reader    == <<frame, torn, garbled, readErr>>
task      == <<state, n, dataLen, data, initDone, acted>>
answering == <<sdp, gather, found, timer>>
peerVars  == <<stuns, messages, sent, reader, loop, inMap, task, answering,
               up, replies, local>>

Kinds == {"offer", "candidate", "bad", "empty", "long"}

\* Units of the text of a message; "long" exceeds MaxBufferSize.
Size(kind) == CASE kind = "offer" -> 2 [] kind = "empty" -> 0 [] OTHER -> 1

ASSUME ExchangesAssumption ==
    Exchanges \subseteq Seq(Kinds) /\ MaxCandidates \in Nat

Text(m)  == [u \in 1 .. Size(messages[m]) |-> <<m, u + 2>>]
Units(m) == <<<<m, 1>>, <<m, 2>>>> \o Text(m)

StreamUpTo[m \in 0 .. Len(messages)] ==
    IF m = 0 THEN <<<<0, 1>>, <<0, 2>>>> ELSE StreamUpTo[m - 1] \o Units(m)
Stream == StreamUpTo[Len(messages)]

Unit == (0 .. Len(messages)) \X (1 .. 4)

PeerTypeOK ==
    /\ {stuns, torn, garbled, inMap, initDone, up, local} \subseteq BOOLEAN
    /\ messages \in Exchanges \cup {<<>>}
    /\ sent \in 0 .. Len(Stream)
    /\ frame \in Seq(Unit)
    /\ loop \in {"idle", "route", "process", "400", "403", "close", "forget"}
    /\ state \in {"skipHTTPHeader", "dataLength", "dataBody", "processData"}
    /\ n \in 0 .. 2
    /\ dataLen \in Seq(Unit) /\ Len(dataLen) <= 2
    /\ data \in Seq(Unit)
    /\ state # "dataLength" => n <= Len(data)
    /\ readErr \in {"nil", "EOF", "malformed"}
    /\ acted \in Seq(Seq(Unit))
    /\ sdp \in {"none", "answer", "loop", "400", "end", "close", "forget",
                "done"}
    /\ gather \in {"off", "on", "callback", "closed"}
    /\ found \in 0 .. MaxCandidates
    /\ timer \in {"off", "on", "canceled", "expired"}
    /\ replies \subseteq {"200", "candidate", "end", "400", "403", "close"}

PeerFresh ==
    /\ stuns \in BOOLEAN
    /\ sent = 0 /\ frame = <<>> /\ torn = FALSE /\ garbled = FALSE
    /\ loop = "idle" /\ inMap = FALSE
    /\ state = "skipHTTPHeader" /\ n = 0 /\ dataLen = <<>> /\ data = <<>>
    /\ initDone = FALSE /\ readErr = "nil" /\ acted = <<>>
    /\ sdp = "none" /\ gather = "off" /\ found = 0 /\ timer = "off"
    /\ up = TRUE /\ replies = {} /\ local = FALSE

PeerInit == PeerFresh /\ messages \in Exchanges

\* c.Write: lost when the tunnel is gone.
Reply(r) == replies' = IF up THEN replies \cup {r} ELSE replies

-----------------------------------------------------------------------------
(* readLoop *)

\* A frame may end inside a size line, which ReadSlice then drops, or in the
\* end of a chunk.  Tearing the framing again tells nothing new.
Tears(k) ==
    IF sent + k >= 2 /\ ~(garbled \/ torn) THEN BOOLEAN ELSE {FALSE}

\* The next k units arrive as a frame.
FrameArrives(k) ==
    /\ loop = "idle" /\ loop' = "route"
    /\ frame' = SubSeq(Stream, sent + 1, sent + k)
    /\ sent' = sent + k
    /\ garbled' = (garbled \/ torn)
    /\ torn' \in Tears(k)
    /\ readErr' = "nil"
    /\ UNCHANGED <<stuns, messages, inMap, task, answering, up, replies, local>>

IsP2P == frame[1] = <<0, 1>>

\* Without STUN servers the request is refused, whatever is known of the id.
RouteRefused ==
    /\ loop = "route" /\ (IsP2P \/ inMap)
    /\ ~stuns
    /\ loop' = "403"
    /\ UNCHANGED <<stuns, messages, sent, reader, inMap, task, answering, up,
                   replies, local>>

RoutePeer ==
    /\ loop = "route" /\ (IsP2P \/ inMap)
    /\ stuns
    /\ inMap' = TRUE
    /\ timer' = IF inMap THEN timer ELSE "on"
    /\ loop' = "process"
    /\ UNCHANGED <<stuns, messages, sent, reader, task, sdp, gather, found, up,
                   replies, local>>

\* A frame of an id without a peer task goes to the local service.
RouteLocal ==
    /\ loop = "route" /\ ~IsP2P /\ ~inMap
    /\ local' = TRUE
    /\ frame' = <<>> /\ loop' = "idle"
    /\ UNCHANGED <<stuns, messages, sent, torn, garbled, readErr, inMap, task,
                   answering, up, replies>>

Processing(s) == loop = "process" /\ state = s

\* ReadSlice finds every line of the header before the frame's end.
HeaderInFrame == Len(frame) >= 2

\* The header must be whole in its frame.
SkipHeader ==
    /\ Processing("skipHTTPHeader")
    /\ IF HeaderInFrame
       THEN /\ frame' = SubSeq(frame, 3, Len(frame))
            /\ state' = "dataLength" /\ UNCHANGED loop
       ELSE frame' = <<>> /\ loop' = "400" /\ UNCHANGED state
    /\ UNCHANGED <<stuns, messages, sent, torn, garbled, readErr, inMap,
                   n, dataLen, data, initDone, acted, answering, up, replies,
                   local>>

\* chunkedReader.Read for w units brings k of them.  It ends early at the
\* frame's end, and when the framing is lost; with the last unit of a frame
\* it may have met the end already.
Reads(w, k, err) ==
    /\ k <= w /\ k <= Len(frame)
    /\ \/ err = "nil" /\ k = w /\ readErr = "nil"
       \/ err = "EOF" /\ (k = Len(frame) \/ garbled)
       \/ err = "malformed" /\ garbled
    /\ readErr # "nil" => k = 0 /\ err = readErr
    /\ frame' = SubSeq(frame, k + 1, Len(frame))

Got(k) == SubSeq(frame, 1, k)

\* An early end is no error of the request: the next frame goes on.
ReturnsOn(err) == loop' = IF err = "EOF" THEN "idle" ELSE "400"

Kind(length) == messages[length[1][1]]

\* Mutation: a length that comes in two frames is begun again.
ReadLengthAnew ==
    /\ Processing("dataLength")
    /\ \E k \in 0 .. 2, err \in {"nil", "EOF", "malformed"} :
          /\ Reads(2, k, err)
          /\ dataLen' = Got(k)
          /\ IF k < 2
             THEN ReturnsOn(err) /\ n' = 0 /\ UNCHANGED <<state, readErr>>
             ELSE IF Kind(dataLen') = "long"
             THEN loop' = "400" /\ n' = 2 /\ UNCHANGED <<state, readErr>>
             ELSE /\ n' = 0 /\ state' = "dataBody"
                  /\ readErr' = err /\ UNCHANGED loop
    /\ UNCHANGED <<stuns, messages, sent, torn, garbled, inMap, data, initDone,
                   acted, answering, up, replies, local>>

ReadLength ==
    /\ Processing("dataLength")
    /\ \E k \in 0 .. 2, err \in {"nil", "EOF", "malformed"} :
          /\ Reads(2 - n, k, err)
          /\ dataLen' = SubSeq(dataLen, 1, n) \o Got(k)
          /\ IF n + k < 2
             THEN ReturnsOn(err) /\ n' = n + k /\ UNCHANGED <<state, readErr>>
             ELSE IF Kind(dataLen') = "long"
             THEN loop' = "400" /\ n' = 2 /\ UNCHANGED <<state, readErr>>
             ELSE /\ n' = 0 /\ state' = "dataBody"
                  /\ readErr' = err /\ UNCHANGED loop
    /\ UNCHANGED <<stuns, messages, sent, torn, garbled, inMap, data, initDone,
                   acted, answering, up, replies, local>>

ReadBody ==
    /\ Processing("dataBody")
    /\ LET size == Size(Kind(dataLen)) IN
       \E k \in 0 .. size, err \in {"nil", "EOF", "malformed"} :
          /\ Reads(size - n, k, err)
          /\ data' = SubSeq(data, 1, n) \o Got(k)
          /\ n' = n + k
          /\ IF n + k < size
             THEN ReturnsOn(err) /\ UNCHANGED <<state, readErr>>
             ELSE state' = "processData" /\ readErr' = err /\ UNCHANGED loop
    /\ UNCHANGED <<stuns, messages, sent, torn, garbled, inMap, dataLen,
                   initDone, acted, answering, up, replies, local>>

\* What WebRTC can use: an offer first, a candidate behind it.
Usable ==
    IF initDone THEN acted # <<>> /\ Kind(dataLen) = "candidate"
                ELSE Kind(dataLen) = "offer"

\* initSDP starts the answer, AddICECandidate takes one more address; then the
\* next length is read, unless the reader is at its end.
ProcessData ==
    /\ Processing("processData") /\ Usable
    /\ acted' = Append(acted, data)
    /\ initDone' = TRUE
    /\ IF initDone THEN UNCHANGED <<sdp, gather>>
                   ELSE sdp' = "answer" /\ gather' = "on"
    /\ n' = 0 /\ state' = "dataLength"
    /\ IF readErr = "nil" THEN UNCHANGED loop ELSE ReturnsOn(readErr)
    /\ UNCHANGED <<stuns, messages, sent, reader, inMap, dataLen, data,
                   found, timer, up, replies, local>>

\* The error of initSDP and of the candidates is a variable of its own: what
\* the deferred answer sees is the error of the read.  The state stays.
ProcessDataFails ==
    /\ Processing("processData") /\ ~Usable
    /\ initDone' = TRUE
    /\ loop' = IF readErr = "nil" THEN "idle" ELSE "400"
    /\ UNCHANGED <<stuns, messages, sent, reader, inMap, state, n, dataLen,
                   data, acted, answering, up, replies, local>>

\* Mutation: resp instead of respAndClose.
LoopReplyOnly ==
    /\ loop \in {"400", "403"} /\ Reply(loop) /\ loop' = "forget"
    /\ UNCHANGED <<stuns, messages, sent, reader, inMap, task, answering, up,
                   local>>

\* respAndClose of readLoop: the answer, a close frame, and the task is taken
\* out of the map.  readLoop drops what is left of the frame.
LoopReply ==
    /\ \/ loop \in {"400", "403"} /\ Reply(loop) /\ loop' = "close"
       \/ loop = "close" /\ Reply("close") /\ loop' = "forget"
    /\ UNCHANGED <<stuns, messages, sent, reader, inMap, task, answering, up,
                   local>>

LoopForget ==
    /\ loop = "forget" /\ loop' = "idle"
    /\ inMap' = FALSE /\ frame' = <<>>
    /\ UNCHANGED <<stuns, messages, sent, torn, garbled, readErr, task,
                   answering, up, replies, local>>

-----------------------------------------------------------------------------
(* processSDP, the timer and WebRTC *)

elsewhere == <<stuns, messages, sent, reader, loop, task, up, local>>

SDPAnswer ==
    /\ sdp = "answer" /\ sdp' = "loop"
    /\ Reply("200")
    /\ UNCHANGED <<elsewhere, inMap, gather, found, timer>>

\* The candidate callback is blocked until processSDP takes the candidate.
SDPCandidate ==
    /\ sdp = "loop" /\ gather = "callback" /\ gather' = "on"
    /\ Reply("candidate")
    /\ UNCHANGED <<elsewhere, inMap, sdp, found, timer>>

SDPGathered ==
    /\ sdp = "loop" /\ gather = "closed" /\ sdp' = "end"
    /\ UNCHANGED <<elsewhere, inMap, gather, found, timer, replies>>

\* Mutation: the deadline is taken for the cancellation.
SDPExpiresNever ==
    /\ sdp = "loop" /\ timer = "expired"
    /\ UNCHANGED <<elsewhere, inMap, answering, replies>>

\* A cancelled context only makes the loop go round.
SDPExpires ==
    /\ sdp = "loop" /\ timer = "expired" /\ sdp' = "400"
    /\ UNCHANGED <<elsewhere, inMap, gather, found, timer, replies>>

SDPReply ==
    /\ \/ sdp \in {"400", "end"} /\ Reply(sdp) /\ sdp' = "close"
       \/ sdp = "close" /\ Reply("close") /\ sdp' = "forget"
    /\ UNCHANGED <<elsewhere, inMap, gather, found, timer>>

\* Mutation: the task stays in the map.
SDPForgetNothing ==
    /\ sdp = "forget" /\ sdp' = "done"
    /\ UNCHANGED <<elsewhere, inMap, gather, found, timer, replies>>

SDPForget ==
    /\ sdp = "forget" /\ sdp' = "done"
    /\ inMap' = FALSE
    /\ UNCHANGED <<elsewhere, gather, found, timer, replies>>

GatherFinds ==
    /\ gather = "on" /\ gather' = "callback"
    /\ found < MaxCandidates /\ found' = found + 1
    /\ UNCHANGED <<elsewhere, inMap, sdp, timer, replies>>

\* The callback without a candidate cancels the context and closes the channel.
GatherEnds ==
    /\ gather = "on" /\ gather' = "closed"
    /\ timer' = IF timer = "on" THEN "canceled" ELSE timer
    /\ UNCHANGED <<elsewhere, inMap, sdp, found, replies>>

TimerFires ==
    /\ timer = "on" /\ timer' = "expired"
    /\ UNCHANGED <<elsewhere, inMap, sdp, gather, found, replies>>

PeerTunnelBreaks ==
    /\ up /\ up' = FALSE
    /\ UNCHANGED <<stuns, messages, sent, reader, loop, inMap, task, answering,
                   replies, local>>

-----------------------------------------------------------------------------
LoopStep ==
    \/ RouteRefused \/ RoutePeer \/ RouteLocal
    \/ SkipHeader \/ ReadLength \/ ReadBody \/ ProcessData \/ ProcessDataFails
    \/ LoopReply \/ LoopForget

SDPStep ==
    \/ SDPAnswer \/ SDPCandidate \/ SDPGathered \/ SDPExpires \/ SDPReply
    \/ SDPForget

PeerNext ==
    \/ \E k \in 1 .. Len(Stream) - sent : FrameArrives(k)
    \/ LoopStep \/ SDPStep
    \/ GatherFinds \/ GatherEnds \/ TimerFires
    \/ PeerTunnelBreaks

PeerSpec == PeerInit /\ [][PeerNext]_peerVars

-----------------------------------------------------------------------------
(* Properties *)

\* WebRTC is given the messages as they were sent, whole, in order and once
\* each, however frames cut lengths and texts, as long as no frame ended inside
\* the framing of a chunk: then chunkedReader loses a line, and what the next
\* frames give may begin anywhere (client/peer.go:253-355,
\* client/internal/chunked.go:107-127).
MessagesInOrder == ~garbled => \A i \in DOMAIN acted : acted[i] = Text(i)

\* Nothing of an exchange reaches the local service before the close frame of
\* the exchange was sent (client/conn.go:251-269, client/peer.go:190-211).
LocalOnlyAfterClose ==
    local => ~up \/ "close" \in replies

\* The answer comes to an end, even if WebRTC never does, with the last of its
\* candidates or on the timer (client/peer.go:357-413).
AnswerEnds == sdp = "answer" ~> sdp = "done"

\* An exchange that was told to close is forgotten, whichever goroutine told
\* so and if both did (client/peer.go:190-211).
ClosedIsForgotten ==
    "close" \in replies ~> ~inMap
=============================================================================
