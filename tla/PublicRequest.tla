---------------------------- MODULE PublicRequest ----------------------------
(***************************************************************************)
(* A public connection from its first byte at the server to the local      *)
(* service: conn.handle and handleHTTP or handleSNI of server/conn.go look *)
(* at what has arrived until they know whose it is (server/http.go,        *)
(* server/tls.go), without taking any of it; then the same bytes go to the *)
(* agent, whose task may replace their Host line (HTTPTask).               *)
(*                                                                         *)
(* The bytes arrive in segments of any sizes. A request that begins like a *)
(* tunnel (0xF0 0x01) is one of AgentRegistry's.                           *)
(***************************************************************************)
EXTENDS HTTPTask

CONSTANTS
    Hellos,             \* the requests that are a TLS handshake
    HelloSize,          \* how much of one there is up to its server name
    MuxHeader,          \* config.HTTPMUXHeader and ":", where it is not Host
    BufferSize,         \* pool.MaxBufferSize
    MaxHTTPHeaderSize,  \* predef.MaxHTTPHeaderSize
    MaxValueSize        \* 512 in peekHeader

ASSUME SizesAssumption ==
    /\ {HelloSize, MaxHTTPHeaderSize, MaxValueSize} \subseteq Nat
    /\ BufferSize \in Nat /\ MaxHTTPHeaderSize < BufferSize
    /\ Hellos \subseteq Requests
    /\ MuxHeader \in Seq(STRING)

VARIABLES
    mux,      \* how this connection is assigned: "sni", "Host" or "header"
    arrived,  \* the bytes in the server's buffer, while it looks at them
    routing,  \* where the handler is
    id,       \* the id it found
    line      \* where the line it found it in begins

pubVars == <<mux, arrived, routing, id, line>>

SP == " "
CR == "r"
headerHostPrefix == host \o <<SP>>
target == IF mux = "Host" THEN headerHostPrefix ELSE MuxHeader

Refusals == {"ended", "noHeader", "badLength", "badHost", "badID", "tooLong",
             "badHello"}

PublicInit ==
    /\ mux \in {"sni", "Host", "header"} /\ (mux = "sni" <=> request \in Hellos)
    /\ arrived = 0 /\ routing = "peeking" /\ id = <<>> /\ line = 0

-----------------------------------------------------------------------------
(* What the server reads out of the bytes p.                               *)

LineEnds(p) == {i \in DOMAIN p : p[i] = NL}
LineStart(p, i) == Max({s \in LineStarts(p) : s <= i})

\* Mutation: the header is looked for anywhere in the line.
HasTargetAnywhere(p, i) ==
    \E j \in LineStart(p, i) .. i : HasPrefix(SubSeq(p, j, i - 1), target)

HasTarget(p, i) == HasPrefix(SubSeq(p, LineStart(p, i), i - 1), target)
endOfHeaders(p, i) == i >= 4 /\ SubSeq(p, i - 3, i) = <<CR, NL, CR, NL>>

\* Mutation: what has arrived of the last line is taken for a line.
StopsCut(p) ==
    {i \in LineEnds(p) \union {Len(p)} : HasTarget(p, i) \/ endOfHeaders(p, i)}

\* Where peekHeader stops: at a line with the header, or behind the head.
Stops(p) == {i \in LineEnds(p) : HasTarget(p, i) \/ endOfHeaders(p, i)}

TrimSpace(v) ==
    LET kept == {i \in DOMAIN v : v[i] \notin {SP, CR}}
    IN  IF kept = {} THEN <<>> ELSE SubSeq(v, Min(kept), Max(kept))

Value(p, i) == TrimSpace(SubSeq(p, LineStart(p, i) + Len(target), i - 1))

Dots(v) == {i \in DOMAIN v : v[i] = "."}

\* The id is what stands before the first of two dots with a name between.
ValidHost(v) ==
    \E i, j \in Dots(v) :
        /\ i = Min(Dots(v)) /\ j = Min(Dots(v) \ {i})
        /\ j > i + 1

parseIDFromHost(v) == SubSeq(v, 1, Min(Dots(v)) - 1)

\* handleHTTP for the value of the header.
Judge(v) ==
    IF v = <<>> \/ Len(v) > MaxValueSize THEN "badLength"
    ELSE IF mux = "header" THEN "routed"
    ELSE IF ~ValidHost(v) THEN "badHost"
    ELSE IF parseIDFromHost(v) = <<>> THEN "badID"
    ELSE "routed"

ID(v) == IF mux = "header" THEN v ELSE parseIDFromHost(v)

\* One round of peekHeader and, when it has found the line, of handleHTTP.
\* The line is looked at before the end of the head.
PeekHeader(p) ==
    LET i == Min(Stops(p)) IN
    IF Stops(p) = {}
    THEN [to |-> IF Len(p) > MaxHTTPHeaderSize THEN "tooLong" ELSE "peeking",
          id |-> <<>>, line |-> 0]
    ELSE IF ~HasTarget(p, i)
    THEN [to |-> "noHeader", id |-> <<>>, line |-> 0]
    ELSE LET v == Value(p, i) IN
         [to |-> Judge(v), id |-> IF Judge(v) = "routed" THEN ID(v) ELSE <<>>,
          line |-> LineStart(p, i)]

\* peekTLSHost looks at what is there when the handler gets to it.
PeekHello(p) ==
    [to |-> IF Len(p) < HelloSize THEN "badHello" ELSE "routed",
     id |-> <<>>, line |-> 0]

-----------------------------------------------------------------------------
\* A read brings k bytes. Peek(2) of conn.handle wants two; then each round of
\* peekHeader wants one more than there are.
Arrive(k) ==
    LET p == SubSeq(request, 1, arrived + k)
        r == IF mux = "sni" THEN PeekHello(p) ELSE PeekHeader(p)
    IN
    /\ routing = "peeking"
    /\ arrived + k <= BufferSize
    /\ IF Len(p) < 2 THEN UNCHANGED <<routing, id, line>>
       ELSE routing' = r.to /\ id' = r.id /\ line' = r.line
    /\ arrived' = IF routing' = "peeking" THEN Len(p) ELSE 0
    /\ UNCHANGED <<vars, mux>>

\* The public side ends the connection or the read deadline passes.
Ends ==
    /\ routing = "peeking" /\ routing' = "ended"
    /\ UNCHANGED <<vars, mux, arrived, id, line>>

\* client.process hands the connection over, with all that was only peeked at.
Forwarded == routing = "routed" /\ Next /\ UNCHANGED pubVars

PublicNext ==
    \/ \E k \in 1 .. Len(request) - arrived : Arrive(k)
    \/ Ends
    \/ Forwarded

-----------------------------------------------------------------------------
PublicTypeOK ==
    /\ TypeOK
    /\ mux \in {"sni", "Host", "header"}
    /\ arrived \in 0 .. BufferSize /\ arrived <= Len(request)
    /\ routing \in {"peeking", "routed"} \union Refusals
    /\ id \in Seq(STRING) /\ line \in 0 .. Len(request)
    /\ taken > 0 => routing = "routed"

\* The whole request, as if it had come at once, and the size it is limited to.
First == Min(Stops(request))
Answer == PeekHeader(request)

\* However the request is cut, the server (peekHeader, server/http.go 34-70)
\* comes to the id and to the refusal that the whole request calls for. Only
\* the size limit, which it looks at between two reads, may refuse a request
\* whose line ends behind it.
RoutedAsSent ==
    mux # "sni" /\ routing \notin {"peeking", "ended"} =>
        \/ Answer = [to |-> routing, id |-> id, line |-> line]
        \/ /\ routing = "tooLong"
           /\ Stops(request) # {} => First > MaxHTTPHeaderSize

\* The agent (httpTask.Write) replaces the very line by which the server chose
\* it, before any of it reaches the local service, except for a line before it
\* that has no space behind "Host:", which the server does not see as one.
RoutedLineReplaced ==
    mux = "Host" /\ routing = "routed" /\ useLocalAsHTTPHost =>
        IF \E i \in DOMAIN out : out[i] = HostLine
        THEN LET i == Min({j \in DOMAIN out : out[j] = HostLine}) IN
             \/ i = line
             \/ i < line /\ ~HasPrefix(From(request, i), headerHostPrefix)
        ELSE Len(out) < line
=============================================================================
