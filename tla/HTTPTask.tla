------------------------------ MODULE HTTPTask ------------------------------
(***************************************************************************)
(* What an agent's task writes to the local service: httpTask.Write of     *)
(* client/task.go.  With UseLocalAsHTTPHost the task replaces the first    *)
(* line that begins with "Host:" by one of its own, in a stream it gets in *)
(* pieces: the server cuts the public connection into frames wherever its  *)
(* reads end, and LimitedReader.WriteTo hands a frame over in as many      *)
(* pieces as its buffer needs.                                             *)
(*                                                                         *)
(* Bytes are letters; the replacement line is one letter of its own.       *)
(***************************************************************************)
EXTENDS Naturals, Sequences, SequencesExt, FiniteSetsExt

CONSTANTS Requests,   \* what a public connection may send
          NL,         \* the byte \n
          HostLine    \* the task's line: "Host: <local>\r\n"

ASSUME RequestsAssumption ==
    /\ Requests \subseteq Seq(STRING)
    /\ \A r \in Requests : \A i \in DOMAIN r : r[i] # HostLine

ASSUME BytesAssumption ==
    /\ {NL, HostLine} \subseteq STRING
    /\ NL \notin {"H", "o", "s", "t", ":", " "}

VARIABLES
    request,  \* the bytes of the public connection
    useLocalAsHTTPHost,  \* the agent's configuration
    taken,    \* how many of them the reader knows to be written
    t,        \* the task's fields
    out,      \* the bytes written to the local connection
    broken    \* a write to the local connection failed

vars == <<request, useLocalAsHTTPHost, taken, t, out, broken>>

host == <<"H", "o", "s", "t", ":">>

\* rewriting: tempBuf is not nil; held: what is in it.
Tasks == [rewriting : BOOLEAN, held : Seq(STRING),
          skipping : BOOLEAN, passing : BOOLEAN]

TypeOK ==
    /\ request \in Requests
    /\ useLocalAsHTTPHost \in BOOLEAN
    /\ taken \in 0 .. Len(request)
    /\ t \in Tasks
    /\ out \in Seq(STRING)
    /\ broken \in BOOLEAN
    /\ ~(t.skipping /\ t.passing)
    /\ (t.skipping \/ t.passing) => t.rewriting /\ t.held = <<>>

\* dial with and without UseLocalAsHTTPHost.
Init ==
    /\ request \in Requests
    /\ useLocalAsHTTPHost \in BOOLEAN
    /\ t = [rewriting |-> useLocalAsHTTPHost, held |-> <<>>,
            skipping |-> FALSE, passing |-> FALSE]
    /\ taken = 0 /\ out = <<>> /\ broken = FALSE

From(s, i) == SubSeq(s, i, Len(s))
HasPrefix(s, p) == Len(s) >= Len(p) /\ SubSeq(s, 1, Len(p)) = p

\* Everything up to and with the first \n; all of it without one.
FirstLine(s) ==
    LET ends == {i \in DOMAIN s : s[i] = NL}
    IN  IF ends = {} THEN s ELSE SubSeq(s, 1, Min(ends))
Ended(line) == line # <<>> /\ line[Len(line)] = NL
AfterFirstLine(s) == From(s, Len(FirstLine(s)) + 1)

LineStarts(s) == {i \in DOMAIN s : i = 1 \/ s[i - 1] = NL}

isGoodToWrite(p) ==
    IF HasPrefix(p, host) THEN "replace"
    ELSE IF HasPrefix(host, p) THEN "unsure" ELSE "good"

Result(task, emit, n) == [task |-> task, emit |-> emit, n |-> n]

\* The loop over the lines of p, which begins at a line: the good lines before
\* the first other one are written, and that one decides what happens next.
\* n is what the loop adds to Write's result when p is the caller's slice.
WriteLines(task, p) ==
    LET stops == {i \in LineStarts(p) : isGoodToWrite(From(p, i)) # "good"}
        s     == Min(stops)
        lines == SubSeq(p, 1, s - 1)
        rest  == AfterFirstLine(From(p, s))
        empty == [task EXCEPT !.held = <<>>]
    IN  IF stops = {}
        THEN Result([empty EXCEPT !.passing = ~Ended(p)], p, Len(p))
        ELSE IF isGoodToWrite(From(p, s)) = "unsure"
        THEN Result([empty EXCEPT !.held = From(p, s)], lines,
                    Len(lines) + Len(From(p, s)))
        ELSE IF ~Ended(FirstLine(From(p, s)))
        THEN Result([empty EXCEPT !.skipping = TRUE], Append(lines, HostLine),
                    Len(lines) + Len(From(p, s)))
        ELSE Result([empty EXCEPT !.rewriting = FALSE],
                    Append(lines, HostLine) \o rest,
                    Len(lines) + Len(FirstLine(From(p, s))) + Len(rest))

\* Mutation: what tempBuf holds is looked at for the length only.
WriteAtLineForget(task, p) ==
    IF p = <<>> THEN Result(task, <<>>, 0)
    ELSE IF Len(p) + Len(task.held) < Len(host)
    THEN Result([task EXCEPT !.held = task.held \o p], <<>>, Len(p))
    ELSE WriteLines(task, p)

\* Write where a line begins, behind what tempBuf holds of it: less than five
\* bytes wait for more.
WriteAtLine(task, p) ==
    IF p = <<>> THEN Result(task, <<>>, 0)
    ELSE IF Len(p) + Len(task.held) < Len(host)
    THEN Result([task EXCEPT !.held = task.held \o p], <<>>, Len(p))
    ELSE IF task.held = <<>> THEN WriteLines(task, p)
    ELSE LET r == WriteLines(task, task.held \o p) IN [r EXCEPT !.n = Len(p)]

\* Write while the rest of the replaced line is dropped.
WriteSkipping(task, p) ==
    IF ~Ended(FirstLine(p)) THEN Result(task, <<>>, Len(p))
    ELSE Result([task EXCEPT !.skipping = FALSE, !.rewriting = FALSE],
                AfterFirstLine(p), Len(p))

\* Mutation: a short beginning of the next line is held while passing stays set.
WritePassingKeep(task, p) ==
    IF ~Ended(FirstLine(p)) THEN Result(task, p, Len(p))
    ELSE LET r == WriteAtLine(task, AfterFirstLine(p))
         IN  Result(r.task, FirstLine(p) \o r.emit, Len(FirstLine(p)) + r.n)

\* Write in the middle of a line that is passed through.
WritePassing(task, p) ==
    IF ~Ended(FirstLine(p)) THEN Result(task, p, Len(p))
    ELSE LET r == WriteAtLine([task EXCEPT !.passing = FALSE], AfterFirstLine(p))
         IN  Result(r.task, FirstLine(p) \o r.emit, Len(FirstLine(p)) + r.n)

WriteTask(task, p) ==
    IF ~task.rewriting THEN Result(task, p, Len(p))
    ELSE IF task.skipping THEN WriteSkipping(task, p)
    ELSE IF task.passing THEN WritePassing(task, p)
    ELSE WriteAtLine(task, p)

Piece(k) == SubSeq(request, taken + 1, taken + k)

\* Write(p) for the next k bytes.  The reader goes on behind the n bytes that
\* Write says it took.
Write(k) ==
    LET r == WriteTask(t, Piece(k)) IN
    /\ ~broken
    /\ taken' = taken + r.n
    /\ t' = r.task
    /\ out' = out \o r.emit
    /\ UNCHANGED <<request, useLocalAsHTTPHost, broken>>

\* A write to the local connection fails after j bytes of what Write had for
\* it: all later writes to that connection fail, and the rest of the frame is
\* dropped by readLoop.
WriteFails(k, j) ==
    LET r == WriteTask(t, Piece(k)) IN
    /\ ~broken /\ broken' = TRUE
    /\ j < Len(r.emit)
    /\ out' = out \o SubSeq(r.emit, 1, j)
    /\ UNCHANGED <<request, useLocalAsHTTPHost, taken, t>>

Next == \E k \in 1 .. Len(request) - taken :
            \/ Write(k)
            \/ \E j \in 0 .. k : WriteFails(k, j)

Spec == Init /\ [][Next]_vars

-----------------------------------------------------------------------------

\* What the local service should read for the bytes s of a public connection:
\* the first line that begins with "Host:" is the task's own, whatever comes
\* before and behind it is untouched.
Rewrite(s) ==
    LET hosts == {i \in LineStarts(s) : HasPrefix(From(s, i), host)}
        i     == Min(hosts)
    IN  IF hosts = {} THEN s
        ELSE Append(SubSeq(s, 1, i - 1), HostLine) \o AfterFirstLine(From(s, i))

Intended(s) == IF useLocalAsHTTPHost THEN Rewrite(s) ELSE s

\* Wherever the stream is cut, what was written and what Write (client/task.go)
\* still holds back is the rewriting of exactly the bytes it took: no byte of
\* the request is lost, written twice or moved.
CutsDoNotMatter ==
    ~broken => out \o t.held = Intended(SubSeq(request, 1, taken))

\* The local service never reads anything that the whole request will not
\* confirm, even when the connection to it breaks in the middle of one of
\* Write's several writes: no line is passed on that later turns out to be the
\* Host line.
NeverRevised == IsPrefix(out, Intended(request))

\* What the local service gets is the request with its Host line replaced, at
\* every moment and wherever the stream or the connection breaks.
RewrittenWhole == CutsDoNotMatter /\ NeverRevised
=============================================================================
