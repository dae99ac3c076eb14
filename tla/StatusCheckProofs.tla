-------------------------- MODULE StatusCheckProofs --------------------------
(* That the agent stays well typed, has only tunnels that the server accepted *)
(* and that are still served, and counts its pings right, in the hands of any *)
(* caller and in those of status checks; and that a status check asks only    *)
(* over a tunnel. For any numbers of connections, callers and checks.         *)
EXTENDS StatusCheck, FunctionTheorems, FiniteSetTheorems, TLAPS

Signals == {"ready", "error", "close", "ping"}

Pings(queue) == {i \in DOMAIN queue : queue[i] = "ping"}

\* A connection that readLoop does not serve has left nothing behind.
Clean ==
    \A l \in Loops : loop[l] # "read" =>
        /\ l \notin tunnels /\ server[l] = "new"
        /\ inbox[l] = <<>> /\ pinged[l] = 0 /\ pings[l] = 0

\* A server that has not accepted the connection did not say so.
Unaccepted ==
    \A l \in Loops : server[l] \in {"new", "refused"} =>
        /\ l \notin tunnels
        /\ \A i \in DOMAIN inbox[l] : inbox[l][i] # "ready"

AgentInv == TypeOK /\ Clean /\ Unaccepted /\ PingsCounted

\* One check at a time has the lock; without checks there is none.
OneCheck ==
    /\ \A h \in Handlers :
          check[h] \notin {"none", "lock", "done"} => checkMtx = h
    /\ ~checks => \A h \in Handlers : check[h] = "none"

\* The agent of a check has one caller, who is woken by a tunnel or by its
\* own timer.
WokenConnected ==
    checks =>
        /\ \A w \in Waiters \ {CheckWaiter} : wait[w] = "idle"
        /\ tunnels # {} => connected
        /\ wait[CheckWaiter] = "ready" => connected
        /\ wait[CheckWaiter] = "woken" /\ ~fired[CheckWaiter] => connected

\* The types of the variables of the checks.
CheckTypes ==
    /\ checks \in BOOLEAN /\ cached \in BOOLEAN
    /\ check \in [Handlers -> CheckSteps]
    /\ outcome \in [Handlers -> {"none", "ok", "failed"}]
    /\ {checkMtx, idOf, agentOf} \subseteq Handlers \cup {NoHandler}

CheckInv == CheckTypes /\ OneCheck /\ WokenConnected /\ ReadyMeansConnected

-----------------------------------------------------------------------------
(* The pings of a queue.                                                    *)

LEMMA PingsFinite ==
    ASSUME NEW queue \in Seq(Signals)
    PROVE  IsFiniteSet(Pings(queue)) /\ Cardinality(Pings(queue)) \in Nat
<1>1. Pings(queue) \in SUBSET (1 .. Len(queue))
    BY DEF Pings
<1>2. IsFiniteSet(1 .. Len(queue))
    BY FS_Interval
<1>3. IsFiniteSet(Pings(queue))
    BY <1>1, <1>2, FS_Subset
<1> QED BY <1>3, FS_CardinalityType

\* A signal sent counts if it is a ping.
LEMMA PingsAppend ==
    ASSUME NEW queue \in Seq(Signals), NEW signal \in Signals
    PROVE  Cardinality(Pings(Append(queue, signal))) =
               Cardinality(Pings(queue)) + (IF signal = "ping" THEN 1 ELSE 0)
<1>1. Len(queue) + 1 \notin Pings(queue)
    BY DEF Pings
<1>2. CASE signal = "ping"
  <2>1. Pings(Append(queue, signal)) = Pings(queue) \cup {Len(queue) + 1}
      BY <1>2 DEF Pings
  <2>2. Cardinality(Pings(queue) \cup {Len(queue) + 1})
          = Cardinality(Pings(queue)) + 1
      BY <1>1, PingsFinite, FS_AddElement
  <2> QED BY <1>2, <2>1, <2>2
<1>3. CASE signal # "ping"
  <2>1. Pings(Append(queue, signal)) = Pings(queue)
      BY <1>3 DEF Pings
  <2> QED BY <1>3, <2>1, PingsFinite
<1> QED BY <1>2, <1>3

\* A signal read counted if it was a ping.
LEMMA PingsTail ==
    ASSUME NEW queue \in Seq(Signals), queue # <<>>
    PROVE  Cardinality(Pings(queue)) =
               Cardinality(Pings(Tail(queue)))
               + (IF Head(queue) = "ping" THEN 1 ELSE 0)
<1> DEFINE rest == Pings(queue) \ {1}
           f    == [i \in Pings(Tail(queue)) |-> i + 1]
<1>1. Tail(queue) \in Seq(Signals) /\ Len(queue) \in Nat \ {0}
      /\ Len(Tail(queue)) = Len(queue) - 1
      /\ \A i \in 1 .. Len(queue) - 1 : Tail(queue)[i] = queue[i + 1]
      /\ Head(queue) = queue[1]
    OBVIOUS
<1>2. f \in Bijection(Pings(Tail(queue)), rest)
  <2>1. \A i \in Pings(Tail(queue)) : i \in 1 .. Len(queue) - 1 /\ i + 1 \in rest
      BY <1>1 DEF Pings
  <2>2. \A j \in rest : j - 1 \in Pings(Tail(queue)) /\ j = f[j - 1]
    <3> TAKE j \in rest
    <3>1. j \in 2 .. Len(queue) /\ queue[j] = "ping"
        BY <1>1 DEF Pings
    <3>2. j - 1 \in 1 .. Len(queue) - 1 /\ Tail(queue)[j - 1] = "ping"
        BY <1>1, <3>1
    <3>3. j - 1 \in Pings(Tail(queue))
        BY <1>1, <3>2 DEF Pings
    <3> QED BY <3>1, <3>3
  <2>3. f \in [Pings(Tail(queue)) -> rest]
      BY <2>1
  <2>4. \A i, j \in Pings(Tail(queue)) : f[i] = f[j] => i = j
      BY <2>1
  <2> QED BY <2>2, <2>3, <2>4, Fun_IsBij
<1>3. Cardinality(rest) = Cardinality(Pings(Tail(queue)))
  <2>1. IsFiniteSet(Pings(Tail(queue)))
      BY <1>1, PingsFinite
  <2> QED BY <1>2, <2>1, FS_Bijection DEF ExistsBijection
<1>4. Cardinality(rest) = IF 1 \in Pings(queue)
                          THEN Cardinality(Pings(queue)) - 1
                          ELSE Cardinality(Pings(queue))
    BY PingsFinite, FS_RemoveElement
<1>5. 1 \in Pings(queue) <=> Head(queue) = "ping"
    BY <1>1 DEF Pings
<1> QED BY <1>3, <1>4, <1>5, PingsFinite

-----------------------------------------------------------------------------
(* The agent in the hands of any caller.                                    *)

LEMMA AgentInit == Init => AgentInv
<1> SUFFICES ASSUME Init PROVE AgentInv
    OBVIOUS
<1>1. \A l \in Loops : inbox[l] = <<>> /\ Pings(inbox[l]) = {}
    BY DEF Init, Pings
<1>2. TypeOK
  <2>1. <<>> \in Seq(Signals) /\ Len(<<>>) <= MaxInbox
      BY MaxInboxAssumption
  <2>2. inbox \in [Loops -> Seq(Signals)]
        /\ \A l \in Loops : Len(inbox[l]) <= MaxInbox
      BY <2>1 DEF Init
  <2>3. /\ pinged \in [Loops -> 0 .. 1] /\ pings \in [Loops -> 0 .. 1]
        /\ open \in [Loops -> BOOLEAN] /\ closed \in [Loops -> BOOLEAN]
        /\ loop \in [Loops -> {"top", "lock", "init", "read", "leave",
                               "slow", "exit"}]
        /\ server \in [Loops -> {"new", "ready", "refused", "left"}]
      BY DEF Init
  <2>4. /\ wait \in [Waiters -> {"idle", "armed", "waiting", "woken", "ready",
                                 "timeout"}]
        /\ fired \in [Waiters -> BOOLEAN]
        /\ closing = FALSE /\ connected = FALSE
        /\ tunnels = {} /\ missed = {} /\ initMtx = NoLoop
      BY DEF Init
  <2> QED BY <2>2, <2>3, <2>4 DEF TypeOK, Signals
<1>3. PingsCounted
    BY <1>1, FS_EmptySet DEF Init, PingsCounted, Pings
<1> QED BY <1>1, <1>2, <1>3 DEF AgentInv, Init, Clean, Unaccepted

\* readLoop's end cleans up.
LEMMA EndKeeps ==
    ASSUME AgentInv, NEW l \in Loops, NEW next \in {"leave", "top"},
           EndReadLoop(l, next)
    PROVE  AgentInv'
<1> USE DEF AgentInv, EndReadLoop, Set
<1>1. TypeOK'
  <2>1. Len(<<>>) <= MaxInbox /\ <<>> \in Seq(Signals)
      BY MaxInboxAssumption
  <2> QED BY <2>1 DEF TypeOK, waiting, Signals
<1>2. Clean'
    BY DEF TypeOK, Clean
<1>3. Unaccepted'
    BY DEF TypeOK, Unaccepted
<1>4. PingsCounted'
    BY DEF TypeOK, PingsCounted
<1> QED BY <1>1, <1>2, <1>3, <1>4

\* A signal of the server joins the queue.
LEMMA SendKeeps ==
    ASSUME AgentInv, NEW l \in Loops, NEW signal \in Signals,
           ServerSends(l, signal)
    PROVE  /\ inbox' \in [Loops -> Seq(Signals)]
           /\ \A m \in Loops : Len(inbox'[m]) <= MaxInbox
           /\ \A m \in Loops \ {l} : inbox'[m] = inbox[m]
           /\ loop[l] = "read" /\ loop' = loop
           /\ \A i \in DOMAIN inbox'[l] :
                 \/ i \in DOMAIN inbox[l] /\ inbox'[l][i] = inbox[l][i]
                 \/ inbox'[l][i] = signal
           /\ Cardinality(Pings(inbox'[l])) = Cardinality(Pings(inbox[l]))
                 + (IF signal = "ping" THEN 1 ELSE 0)
<1>1. inbox \in [Loops -> Seq(Signals)]
    BY DEF AgentInv, TypeOK, Signals
<1>2. inbox' = [inbox EXCEPT ![l] = Append(inbox[l], signal)]
      /\ Len(inbox[l]) < MaxInbox
    BY DEF ServerSends, Set
<1>3. inbox'[l] = Append(inbox[l], signal)
    BY <1>1, <1>2
<1>4. /\ inbox' \in [Loops -> Seq(Signals)]
      /\ \A m \in Loops \ {l} : inbox'[m] = inbox[m]
    BY <1>1, <1>2
<1>5. \A m \in Loops : Len(inbox'[m]) <= MaxInbox
    BY <1>1, <1>2, <1>3, MaxInboxAssumption DEF AgentInv, TypeOK
<1>6. Cardinality(Pings(inbox'[l])) = Cardinality(Pings(inbox[l]))
          + (IF signal = "ping" THEN 1 ELSE 0)
    BY <1>1, <1>3, PingsAppend
<1>7. \A i \in DOMAIN inbox'[l] :
          \/ i \in DOMAIN inbox[l] /\ inbox'[l][i] = inbox[l][i]
          \/ inbox'[l][i] = signal
    BY <1>1, <1>3
<1>8. loop[l] = "read" /\ loop' = loop
    BY DEF ServerSends, Connected
<1> QED BY <1>4, <1>5, <1>6, <1>7, <1>8

\* A signal read leaves it.
LEMMA TakeKeeps ==
    ASSUME AgentInv, NEW l \in Loops, NEW signal, Reads(l, signal), Take(l)
    PROVE  /\ inbox' \in [Loops -> Seq(Signals)]
           /\ \A m \in Loops : Len(inbox'[m]) <= MaxInbox
           /\ \A m \in Loops \ {l} : inbox'[m] = inbox[m]
           /\ loop[l] = "read" /\ 1 \in DOMAIN inbox[l] /\ inbox[l][1] = signal
           /\ \A i \in DOMAIN inbox'[l] :
                 i + 1 \in DOMAIN inbox[l] /\ inbox'[l][i] = inbox[l][i + 1]
           /\ Cardinality(Pings(inbox[l])) = Cardinality(Pings(inbox'[l]))
                 + (IF signal = "ping" THEN 1 ELSE 0)
           /\ Cardinality(Pings(inbox'[l])) \in Nat
<1>1. inbox \in [Loops -> Seq(Signals)]
    BY DEF AgentInv, TypeOK, Signals
<1>2. /\ inbox[l] # <<>> /\ Head(inbox[l]) = signal /\ loop[l] = "read"
      /\ inbox' = [inbox EXCEPT ![l] = Tail(inbox[l])]
    BY DEF Reads, Take, Set
<1>3. inbox'[l] = Tail(inbox[l])
    BY <1>1, <1>2
<1>4. /\ inbox' \in [Loops -> Seq(Signals)]
      /\ \A m \in Loops \ {l} : inbox'[m] = inbox[m]
    BY <1>1, <1>2
<1>5. \A m \in Loops : Len(inbox'[m]) <= MaxInbox
    BY <1>1, <1>2, <1>3, MaxInboxAssumption DEF AgentInv, TypeOK
<1>6. Cardinality(Pings(inbox[l])) = Cardinality(Pings(inbox'[l]))
          + (IF signal = "ping" THEN 1 ELSE 0)
    BY <1>1, <1>2, <1>3, PingsTail
<1>7. \A i \in DOMAIN inbox'[l] :
          i + 1 \in DOMAIN inbox[l] /\ inbox'[l][i] = inbox[l][i + 1]
    BY <1>1, <1>2, <1>3
<1>8. 1 \in DOMAIN inbox[l] /\ inbox[l][1] = signal
    BY <1>1, <1>2
<1>9. Cardinality(Pings(inbox'[l])) \in Nat
    BY <1>4, PingsFinite
<1> QED BY <1>2, <1>4, <1>5, <1>6, <1>7, <1>8, <1>9

\* Every step of the agent keeps the invariant.
LEMMA AgentStep == AgentInv /\ [Next]_vars => AgentInv'
<1> SUFFICES ASSUME AgentInv, [Next]_vars PROVE AgentInv'
    OBVIOUS
<1> DEFINE Count(l) == Cardinality(Pings(inbox[l]))
<1>1. /\ inbox \in [Loops -> Seq(Signals)]
      /\ \A l \in Loops : Count(l) \in Nat
      /\ \A l \in Loops : pings[l] \in 0 .. 1 /\ pinged[l] \in 0 .. 1
    BY PingsFinite DEF AgentInv, TypeOK, Signals
<1>2. \A l \in Loops : loop[l] = "read" => pings[l] = pinged[l] + Count(l)
    BY DEF AgentInv, PingsCounted, Pings
<1>3. PingsCounted' <=>
         \A l \in Loops : loop'[l] = "read" => pings'[l] = pinged'[l] + Count(l)'
    BY DEF PingsCounted, Pings
<1>4. ASSUME UNCHANGED <<server, inbox, pinged, pings, tunnels>>,
             NEW l \in Loops, loop[l] # "read",
             NEW lp \in {"top", "lock", "init", "leave", "slow", "exit", "read"},
             loop' = [loop EXCEPT ![l] = lp]
      PROVE  Clean' /\ Unaccepted' /\ PingsCounted'
  <2>1. Clean' /\ Unaccepted'
      BY <1>4 DEF AgentInv, TypeOK, Clean, Unaccepted
  <2>2. ASSUME NEW m \in Loops, loop'[m] = "read"
        PROVE  pings'[m] = pinged'[m] + Count(m)'
    <3>1. CASE m = l
      <4>1. inbox[m] = <<>> /\ pinged[m] = 0 /\ pings[m] = 0
          BY <1>4, <3>1 DEF AgentInv, Clean
      <4>2. inbox' = inbox /\ pinged'[m] = 0 /\ pings'[m] = 0
          BY <1>4, <4>1
      <4>3. Pings(inbox[m]) = {}
          BY <4>1 DEF Pings
      <4>4. Count(m)' = 0
          BY <4>2, <4>3, FS_EmptySet
      <4> QED BY <4>2, <4>4
    <3>2. CASE m # l
        BY <1>2, <1>4, <2>2, <3>2 DEF AgentInv, TypeOK
    <3> QED BY <3>1, <3>2
  <2> QED BY <1>3, <2>1, <2>2
<1>5. ASSUME NEW l \in Loops,
             \/ LoopTop(l) \/ LockInit(l) \/ InitConn(l) \/ InitConnFails(l)
             \/ Leave(l) \/ Reconnect(l) \/ RemoteAPIFails(l)
      PROVE  AgentInv'
  <2>1. TypeOK'
      BY <1>5 DEF AgentInv, TypeOK, LoopTop, LockInit, InitConn, InitConnFails,
                  Leave, Reconnect, RemoteAPIFails, Set, conn, waiting
  <2>2. /\ UNCHANGED <<server, inbox, pinged, pings, tunnels>>
        /\ loop[l] # "read"
        /\ \E lp \in {"top", "lock", "init", "leave", "slow", "exit", "read"} :
              loop' = [loop EXCEPT ![l] = lp]
      BY <1>5 DEF LoopTop, LockInit, InitConn, InitConnFails,
                  Leave, Reconnect, RemoteAPIFails, Set, conn
  <2>3. Clean' /\ Unaccepted' /\ PingsCounted'
      BY <1>4, <2>2
  <2> QED BY <2>1, <2>3 DEF AgentInv
<1>6. ASSUME NEW l \in Loops,
             ReadEnds(l) \/ LastPing(l) \/ ReadFails(l) \/ ReadPanics(l)
      PROVE  AgentInv'
  <2>1. \E next \in {"leave", "top"} : EndReadLoop(l, next)
      BY <1>6 DEF ReadEnds, LastPing, ReadFails, ReadPanics
  <2> QED BY <2>1, EndKeeps
<1>7. ASSUME NEW l \in Loops, ReadReady(l) PROVE AgentInv'
  <2>1. Reads(l, "ready") /\ Take(l)
      BY <1>7 DEF ReadReady
  <2>2. server[l] \notin {"new", "refused"}
      BY <2>1, TakeKeeps DEF AgentInv, Unaccepted
  <2>3. TypeOK'
    <3>1. wait' \in [Waiters -> {"idle", "armed", "waiting", "woken", "ready",
                                 "timeout"}]
        BY <1>7 DEF ReadReady, Broadcast, AgentInv, TypeOK
    <3> QED BY <1>7, <2>1, <3>1, TakeKeeps DEF ReadReady, AgentInv, TypeOK, Signals
  <2>4. Clean'
      BY <1>7, <2>1, TakeKeeps DEF ReadReady, AgentInv, TypeOK, Clean
  <2>5. Unaccepted'
      BY <1>7, <2>1, <2>2, TakeKeeps DEF ReadReady, AgentInv, TypeOK, Unaccepted
  <2>6. PingsCounted'
    <3>1. UNCHANGED <<loop, pinged, pings>>
        BY <1>7 DEF ReadReady
    <3>2. /\ \A m \in Loops \ {l} : inbox'[m] = inbox[m]
          /\ Count(l) = Count(l)' + 0 /\ Count(l)' \in Nat
        BY <2>1, TakeKeeps
    <3> QED BY <1>2, <1>3, <3>1, <3>2
  <2> QED BY <2>3, <2>4, <2>5, <2>6 DEF AgentInv
<1>8. ASSUME NEW l \in Loops, ReadPing(l) PROVE AgentInv'
  <2>1. Reads(l, "ping") /\ Take(l)
      BY <1>8 DEF ReadPing
  <2>2. Count(l) = Count(l)' + 1 /\ Count(l)' \in Nat /\ loop[l] = "read"
      BY <2>1, TakeKeeps
  <2>3. pings[l] = 1 /\ pinged[l] = 0 /\ Count(l)' = 0
      BY <1>1, <1>2, <2>2
  <2>4. /\ pings' = [pings EXCEPT ![l] = 0]
        /\ UNCHANGED <<closing, missed, tunnels, initMtx, loop, open, closed,
                       server, pinged, waiting>>
      BY <1>8, <2>3 DEF ReadPing, Set
  <2>5. TypeOK'
      BY <2>1, <2>4, TakeKeeps DEF AgentInv, TypeOK, Signals, waiting
  <2>6. Clean' /\ Unaccepted'
    <3>1. /\ \A m \in Loops \ {l} : inbox'[m] = inbox[m]
          /\ \A i \in DOMAIN inbox'[l] :
                i + 1 \in DOMAIN inbox[l] /\ inbox'[l][i] = inbox[l][i + 1]
        BY <2>1, TakeKeeps
    <3>2. Clean'
        BY <2>2, <2>4, <3>1 DEF AgentInv, TypeOK, Clean
    <3>3. Unaccepted'
        BY <2>4, <3>1 DEF AgentInv, Unaccepted
    <3> QED BY <3>2, <3>3
  <2>7. PingsCounted'
    <3>1. \A m \in Loops \ {l} : inbox'[m] = inbox[m] /\ pings'[m] = pings[m]
        BY <2>1, <2>4, TakeKeeps DEF AgentInv, TypeOK
    <3>2. pings'[l] = 0
        BY <2>4 DEF AgentInv, TypeOK
    <3> QED BY <1>2, <1>3, <2>3, <2>4, <3>1, <3>2
  <2> QED BY <2>5, <2>6, <2>7 DEF AgentInv
<1>9. ASSUME NEW l \in Loops, ReadTimeout(l) PROVE AgentInv'
  <2>1. loop[l] = "read" /\ pings[l] = 0 /\ pinged[l] = 0
      BY <1>1, <1>2, <1>9 DEF ReadTimeout
  <2>2. /\ pings' = [pings EXCEPT ![l] = 1]
        /\ pinged' = [pinged EXCEPT ![l] = 1]
        /\ UNCHANGED <<closing, missed, initMtx, tunnels, loop, open, closed,
                       server, inbox, waiting>>
      BY <1>9, <2>1 DEF ReadTimeout, Set
  <2>3. TypeOK' /\ Clean' /\ Unaccepted'
      BY <2>1, <2>2 DEF AgentInv, TypeOK, Clean, Unaccepted, waiting
  <2>4. \A m \in Loops \ {l} : pings'[m] = pings[m] /\ pinged'[m] = pinged[m]
      BY <2>2 DEF AgentInv, TypeOK
  <2>5. pings'[l] = 1 /\ pinged'[l] = 1 /\ inbox' = inbox /\ loop' = loop
      BY <2>2 DEF AgentInv, TypeOK
  <2>6. PingsCounted'
      BY <1>1, <1>2, <1>3, <2>1, <2>4, <2>5
  <2> QED BY <2>3, <2>6 DEF AgentInv
<1>10. ASSUME NEW l \in Loops,
              ServerReady(l) \/ ServerRefuses(l) \/ ServerCloses(l)
       PROVE  AgentInv'
  <2>1. PICK signal \in {"ready", "error", "close"}, sv \in {"ready", "refused", "left"} :
            /\ ServerSends(l, signal) /\ server' = [server EXCEPT ![l] = sv]
            /\ sv = "refused" => signal = "error" /\ server[l] = "new"
            /\ UNCHANGED <<pinged, pings>>
            /\ open' \in [Loops -> BOOLEAN]
      BY <1>10 DEF ServerReady, ServerRefuses, ServerCloses, Set, AgentInv, TypeOK
  <2>2. /\ inbox' \in [Loops -> Seq(Signals)]
        /\ \A m \in Loops : Len(inbox'[m]) <= MaxInbox
        /\ \A m \in Loops \ {l} : inbox'[m] = inbox[m]
        /\ loop[l] = "read" /\ loop' = loop
        /\ \A i \in DOMAIN inbox'[l] :
              \/ i \in DOMAIN inbox[l] /\ inbox'[l][i] = inbox[l][i]
              \/ inbox'[l][i] = signal
        /\ Count(l)' = Count(l)
      BY <1>1, <2>1, SendKeeps DEF Signals
  <2>3. UNCHANGED <<closing, missed, tunnels, initMtx, loop, closed, waiting>>
      BY <2>1 DEF ServerSends
  <2>4. TypeOK'
      BY <2>1, <2>2, <2>3 DEF AgentInv, TypeOK, Signals, waiting
  <2>5. Clean'
      BY <2>1, <2>2, <2>3 DEF AgentInv, TypeOK, Clean
  <2>6. Unaccepted'
    <3>1. \A m \in Loops \ {l} : server'[m] = server[m]
        BY <2>1 DEF AgentInv, TypeOK
    <3>2. server'[l] = sv
        BY <2>1 DEF AgentInv, TypeOK
    <3>3. sv = "refused" =>
            l \notin tunnels /\ \A i \in DOMAIN inbox'[l] : inbox'[l][i] # "ready"
        BY <2>1, <2>2 DEF AgentInv, Unaccepted
    <3> QED BY <2>2, <2>3, <3>1, <3>2, <3>3 DEF AgentInv, Unaccepted
  <2>7. PingsCounted'
      BY <1>2, <1>3, <2>1, <2>2
  <2> QED BY <2>4, <2>5, <2>6, <2>7 DEF AgentInv
<1>11. ASSUME NEW l \in Loops, ServerAnswersPing(l) PROVE AgentInv'
  <2>1. ServerSends(l, "ping") /\ UNCHANGED <<server, open, pings>>
      BY <1>11 DEF ServerAnswersPing
  <2>2. /\ inbox' \in [Loops -> Seq(Signals)]
        /\ \A m \in Loops : Len(inbox'[m]) <= MaxInbox
        /\ \A m \in Loops \ {l} : inbox'[m] = inbox[m]
        /\ loop[l] = "read" /\ loop' = loop
        /\ \A i \in DOMAIN inbox'[l] :
              \/ i \in DOMAIN inbox[l] /\ inbox'[l][i] = inbox[l][i]
              \/ inbox'[l][i] = "ping"
        /\ Count(l)' = Count(l) + 1
      BY <2>1, SendKeeps DEF Signals
  <2>3. pinged[l] = 1 /\ pinged' = [pinged EXCEPT ![l] = 0]
    <3>1. pinged[l] = 1 /\ pinged' = [pinged EXCEPT ![l] = pinged[l] - 1]
        BY <1>1, <1>11 DEF ServerAnswersPing, Set
    <3> QED BY <3>1
  <2>4. UNCHANGED <<closing, missed, tunnels, initMtx, loop, closed, waiting>>
      BY <2>1 DEF ServerSends
  <2>5. TypeOK'
      BY <2>1, <2>2, <2>3, <2>4 DEF AgentInv, TypeOK, Signals, waiting
  <2>6. Clean' /\ Unaccepted'
    <3>1. Clean'
        BY <2>1, <2>2, <2>3, <2>4 DEF AgentInv, TypeOK, Clean
    <3>2. Unaccepted'
        BY <2>1, <2>2, <2>4 DEF AgentInv, Unaccepted
    <3> QED BY <3>1, <3>2
  <2>7. pinged'[l] = 0 /\ \A m \in Loops \ {l} : pinged'[m] = pinged[m]
      BY <2>3 DEF AgentInv, TypeOK
  <2>8. PingsCounted'
      BY <1>1, <1>2, <1>3, <2>1, <2>2, <2>3, <2>7
  <2> QED BY <2>5, <2>6, <2>8 DEF AgentInv
<1>12. ASSUME UNCHANGED <<tunnels, loop, server, inbox, pinged, pings>>
       PROVE  Clean' /\ Unaccepted' /\ PingsCounted'
    BY <1>12 DEF AgentInv, Clean, Unaccepted, PingsCounted
<1>13. ASSUME NEW l \in Loops, ConnectionBreaks(l) PROVE AgentInv'
  <2>1. TypeOK' /\ UNCHANGED <<tunnels, loop, server, inbox, pinged, pings>>
      BY <1>13 DEF ConnectionBreaks, Set, AgentInv, TypeOK, waiting
  <2> QED BY <1>12, <2>1 DEF AgentInv
<1>14. CASE Close
  <2>1. TypeOK' /\ UNCHANGED <<tunnels, loop, server, inbox, pinged, pings>>
      BY <1>14 DEF Close, Missed, AgentInv, TypeOK, waiting
  <2> QED BY <1>12, <2>1 DEF AgentInv
<1>15. ASSUME NEW w \in Waiters,
              WaitBegin(w) \/ WaitTimer(w) \/ WaitReturn(w) \/ WaitCheck(w)
       PROVE  AgentInv'
  <2>1. UNCHANGED <<tunnels, loop, server, inbox, pinged, pings>>
      BY <1>15 DEF WaitBegin, WaitTimer, WaitReturn, WaitCheck, conn
  <2>2. TypeOK'
      BY <1>15 DEF WaitBegin, WaitTimer, WaitReturn, WaitCheck, Broadcast, Set,
                   conn, AgentInv, TypeOK
  <2> QED BY <1>12, <2>1, <2>2 DEF AgentInv
<1>16. CASE UNCHANGED vars
  <2>1. TypeOK' /\ UNCHANGED <<tunnels, loop, server, inbox, pinged, pings>>
      BY <1>16 DEF vars, conn, waiting, AgentInv, TypeOK
  <2> QED BY <1>12, <2>1 DEF AgentInv
<1> QED
    BY <1>5, <1>6, <1>7, <1>8, <1>9, <1>10, <1>11, <1>13, <1>14, <1>15, <1>16
    DEF Next, Step, ReadSignal

LEMMA AgentInvTunnels == AgentInv => TunnelsServed
<1> SUFFICES ASSUME AgentInv, NEW l \in tunnels
             PROVE  loop[l] = "read" /\ server[l] \in {"ready", "left"}
    BY DEF TunnelsServed
<1>1. l \in Loops /\ server[l] \in {"new", "ready", "refused", "left"}
    BY DEF AgentInv, TypeOK
<1> QED BY <1>1 DEF AgentInv, Clean, Unaccepted

LEMMA AgentInductive == Spec => []AgentInv
    BY AgentInit, AgentStep, PTL DEF Spec

\* Every tunnel of Client.tunnels is one the server accepted and some readLoop
\* still serves, whoever calls Close and WaitUntilReady (client.go:318-329,
\* conn.go:105-117, 155-158).
THEOREM AgentTunnelsServed == Spec => []TunnelsServed
    BY AgentInductive, AgentInvTunnels, PTL

\* readLoop's count is the pings that are not answered yet (conn.go:120-150).
THEOREM AgentPingsCounted == Spec => []PingsCounted
<1>1. AgentInv => PingsCounted
    BY DEF AgentInv
<1> QED BY <1>1, AgentInductive, PTL

-----------------------------------------------------------------------------
(* The agents of the status checks.                                         *)

\* A new agent is in order, whatever its predecessor left.
LEMMA NewAgent ==
    ASSUME NEW h \in Handlers, StartAgent(h)
    PROVE  AgentInv' /\ tunnels' = {} /\ wait' = [w \in Waiters |-> "idle"]
<1> USE DEF StartAgent
<1>1. /\ inbox' = [l \in Loops |-> <<>>]
      /\ \A l \in Loops : inbox'[l] = <<>> /\ Pings(inbox'[l]) = {}
    BY DEF Pings
<1>2. TypeOK'
  <2>1. <<>> \in Seq(Signals) /\ Len(<<>>) <= MaxInbox
      BY MaxInboxAssumption
  <2>2. /\ inbox' \in [Loops -> Seq(Signals)]
        /\ \A l \in Loops : Len(inbox'[l]) <= MaxInbox
      BY <1>1, <2>1
  <2>3. /\ pinged' \in [Loops -> 0 .. 1] /\ pings' \in [Loops -> 0 .. 1]
        /\ open' \in [Loops -> BOOLEAN] /\ closed' \in [Loops -> BOOLEAN]
        /\ loop' \in [Loops -> {"top", "lock", "init", "read", "leave",
                               "slow", "exit"}]
        /\ server' \in [Loops -> {"new", "ready", "refused", "left"}]
      OBVIOUS
  <2>4. /\ wait' \in [Waiters -> {"idle", "armed", "waiting", "woken", "ready",
                                 "timeout"}]
        /\ fired' \in [Waiters -> BOOLEAN]
        /\ closing' = FALSE /\ connected' = FALSE
        /\ tunnels' = {} /\ missed' = {} /\ initMtx' = NoLoop
      OBVIOUS
  <2> QED BY <2>2, <2>3, <2>4 DEF TypeOK, Signals
<1>3. \A l \in Loops : loop'[l] # "read"
    OBVIOUS
<1>4. PingsCounted'
    BY <1>3 DEF PingsCounted
<1>5. Clean' /\ Unaccepted'
    BY <1>1 DEF Clean, Unaccepted
<1> QED BY <1>2, <1>4, <1>5 DEF AgentInv

\* A step with status checks is one of the agent, of none, or a new agent.
LEMMA CheckedAgent ==
    ASSUME [StatusNext]_allVars
    PROVE  [Next]_vars \/ \E h \in Handlers : StartAgent(h)
<1>1. CASE AgentSteps
    BY <1>1 DEF AgentSteps, Next
<1>2. CASE CacheExpires
    BY <1>2 DEF CacheExpires
<1>3. ASSUME NEW h \in Handlers, Ask(h) \/ HandlerSteps(h), ~StartAgent(h)
      PROVE  [Next]_vars
  <2>1. CASE CallWait(h)
      BY <2>1, CheckAssumption DEF CallWait, Next
  <2>2. CASE CloseAgent(h)
      BY <2>2 DEF CloseAgent, Next
  <2>3. CASE \/ Ask(h) \/ LockCheck(h) \/ RandomIDFails(h) \/ RandomID(h)
             \/ NewFails(h) \/ Waited(h) \/ GetAnswered(h) \/ GetFails(h)
             \/ ClearID(h) \/ UnlockCheck(h)
      BY <2>3 DEF Ask, LockCheck, RandomIDFails, RandomID, NewFails, Waited,
                  GetAnswered, GetFails, ClearID, UnlockCheck
  <2> QED BY <1>3, <2>1, <2>2, <2>3 DEF HandlerSteps
<1>4. CASE UNCHANGED allVars
    BY <1>4 DEF allVars
<1> QED BY <1>1, <1>2, <1>3, <1>4 DEF StatusNext

LEMMA StatusAgent ==
    StatusInit /\ [][StatusNext]_allVars => []AgentInv
<1>1. StatusInit => AgentInv
  <2>1. ASSUME StatusInit, checks PROVE AgentInv
    <3>1. \A l \in Loops : inbox[l] = <<>>
        BY <2>1 DEF StatusInit
    <3>2. TypeOK
      <4>1. <<>> \in Seq(Signals) /\ Len(<<>>) <= MaxInbox
          BY MaxInboxAssumption
      <4>2. /\ inbox \in [Loops -> Seq(Signals)]
            /\ \A l \in Loops : Len(inbox[l]) <= MaxInbox
          BY <2>1, <4>1 DEF StatusInit
      <4>3. /\ loop = [l \in Loops |-> "exit"]
            /\ server = [l \in Loops |-> "new"]
            /\ pinged = [l \in Loops |-> 0] /\ pings = pinged
            /\ open = [l \in Loops |-> FALSE] /\ closed = open
          BY <2>1 DEF StatusInit
      <4>4. /\ wait \in [Waiters -> {"idle", "armed", "waiting", "woken",
                                     "ready", "timeout"}]
            /\ fired \in [Waiters -> BOOLEAN]
            /\ closing = TRUE /\ connected = FALSE
            /\ tunnels = {} /\ missed = {} /\ initMtx = NoLoop
          BY <2>1 DEF StatusInit
      <4>5. /\ pinged \in [Loops -> 0 .. 1] /\ pings \in [Loops -> 0 .. 1]
            /\ open \in [Loops -> BOOLEAN] /\ closed \in [Loops -> BOOLEAN]
            /\ loop \in [Loops -> {"top", "lock", "init", "read", "leave",
                                   "slow", "exit"}]
            /\ server \in [Loops -> {"new", "ready", "refused", "left"}]
          BY <4>3
      <4> QED BY <4>2, <4>4, <4>5 DEF TypeOK, Signals
    <3>3. Clean /\ Unaccepted /\ PingsCounted
        BY <2>1, <3>1 DEF StatusInit, Clean, Unaccepted, PingsCounted
    <3> QED BY <3>2, <3>3 DEF AgentInv
  <2>2. ASSUME StatusInit, ~checks PROVE AgentInv
      BY <2>2, AgentInit DEF StatusInit
  <2> QED BY <2>1, <2>2
<1>2. AgentInv /\ [StatusNext]_allVars => AgentInv'
    BY CheckedAgent, AgentStep, NewAgent
<1> QED BY <1>1, <1>2, PTL

LEMMA CheckTypesStep ==
    CheckTypes /\ [StatusNext]_allVars => CheckTypes'
<1> SUFFICES ASSUME CheckTypes, [StatusNext]_allVars PROVE CheckTypes'
    OBVIOUS
<1> USE DEF CheckTypes, CheckSteps, To, Ends, Set
<1>1. CASE AgentSteps \/ CacheExpires
    BY <1>1 DEF AgentSteps, CacheExpires, apiVars
<1>2. ASSUME NEW h \in Handlers,
             \/ Ask(h) \/ LockCheck(h) \/ RandomIDFails(h) \/ RandomID(h)
             \/ NewFails(h) \/ Waited(h)
      PROVE  CheckTypes'
    BY <1>2 DEF Ask, LockCheck, RandomIDFails, RandomID, NewFails, Waited
<1>3. ASSUME NEW h \in Handlers,
             \/ StartAgent(h) \/ CallWait(h) \/ GetAnswered(h) \/ GetFails(h)
             \/ CloseAgent(h) \/ ClearID(h) \/ UnlockCheck(h)
      PROVE  CheckTypes'
  <2>1. CASE StartAgent(h) \/ CallWait(h)
      BY <2>1 DEF StartAgent, CallWait
  <2>2. CASE GetAnswered(h) \/ GetFails(h)
      BY <2>2 DEF GetAnswered, GetFails
  <2>3. CASE CloseAgent(h) \/ ClearID(h) \/ UnlockCheck(h)
      BY <2>3 DEF CloseAgent, ClearID, UnlockCheck
  <2> QED BY <1>3, <2>1, <2>2, <2>3
<1>4. CASE UNCHANGED allVars
    BY <1>4 DEF allVars, apiVars
<1> QED BY <1>1, <1>2, <1>3, <1>4 DEF StatusNext, HandlerSteps

\* checkTunnelMtx keeps the checks apart.
LEMMA OneCheckStep ==
    CheckTypes /\ OneCheck /\ [StatusNext]_allVars => OneCheck'
<1> SUFFICES ASSUME CheckTypes, OneCheck, [StatusNext]_allVars PROVE OneCheck'
    OBVIOUS
<1> USE CheckAssumption DEF CheckTypes, OneCheck, To, Ends, Set
<1>1. CASE AgentSteps \/ CacheExpires
    BY <1>1 DEF AgentSteps, CacheExpires, apiVars
<1>2. ASSUME NEW h \in Handlers,
             \/ Ask(h) \/ LockCheck(h) \/ RandomIDFails(h) \/ RandomID(h)
             \/ NewFails(h) \/ Waited(h)
      PROVE  OneCheck'
    BY <1>2 DEF Ask, LockCheck, RandomIDFails, RandomID, NewFails, Waited
<1>3. ASSUME NEW h \in Handlers,
             \/ StartAgent(h) \/ CallWait(h) \/ GetAnswered(h) \/ GetFails(h)
             \/ CloseAgent(h) \/ ClearID(h) \/ UnlockCheck(h)
      PROVE  OneCheck'
    BY <1>3 DEF StartAgent, CallWait, GetAnswered, GetFails, CloseAgent,
                ClearID, UnlockCheck
<1>4. CASE UNCHANGED allVars
    BY <1>4 DEF allVars, apiVars
<1> QED BY <1>1, <1>2, <1>3, <1>4 DEF StatusNext, HandlerSteps

\* A step of the agent that only its checks call wakes nobody without a tunnel.
LEMMA WokenStep ==
    ASSUME TypeOK, WokenConnected, checks,
           Step \/ Close \/ WaitCheck(CheckWaiter) \/ UNCHANGED vars
    PROVE  /\ \A w \in Waiters \ {CheckWaiter} : wait'[w] = "idle"
           /\ tunnels' # {} => connected'
           /\ wait'[CheckWaiter] = "ready" => connected'
           /\ wait'[CheckWaiter] = "woken" /\ ~fired'[CheckWaiter] => connected'
           /\ connected => connected'
<1> DEFINE Goal ==
           /\ \A w \in Waiters \ {CheckWaiter} : wait'[w] = "idle"
           /\ tunnels' # {} => connected'
           /\ wait'[CheckWaiter] = "ready" => connected'
           /\ wait'[CheckWaiter] = "woken" /\ ~fired'[CheckWaiter] => connected'
           /\ connected => connected'
<1> USE CheckAssumption DEF WokenConnected, Set, waiting
<1>1. ASSUME NEW l \in Loops,
             \/ LoopTop(l) \/ LockInit(l) \/ InitConn(l) \/ InitConnFails(l)
             \/ Leave(l) \/ Reconnect(l) \/ RemoteAPIFails(l)
      PROVE  Goal
    BY <1>1 DEF LoopTop, LockInit, InitConn, InitConnFails, Leave, Reconnect,
                RemoteAPIFails
<1>2. ASSUME NEW l \in Loops,
             \/ ReadPing(l) \/ ReadEnds(l) \/ ReadTimeout(l) \/ LastPing(l)
             \/ ReadFails(l) \/ ReadPanics(l)
      PROVE  Goal
    BY <1>2 DEF ReadPing, ReadEnds, ReadTimeout, LastPing, ReadFails,
                ReadPanics, EndReadLoop
<1>3. ASSUME NEW l \in Loops, ReadReady(l) PROVE Goal
    BY <1>3 DEF ReadReady, Broadcast
<1>4. ASSUME NEW l \in Loops,
             \/ ServerReady(l) \/ ServerRefuses(l) \/ ServerAnswersPing(l)
             \/ ServerCloses(l) \/ ConnectionBreaks(l)
      PROVE  Goal
    BY <1>4 DEF ServerReady, ServerRefuses, ServerAnswersPing, ServerCloses,
                ConnectionBreaks, ServerSends
<1>5. ASSUME NEW w \in Waiters, WaitBegin(w) \/ WaitTimer(w) \/ WaitReturn(w)
      PROVE  Goal
  <2>1. w = CheckWaiter
      BY <1>5 DEF WaitBegin, WaitTimer, WaitReturn
  <2> QED BY <1>5, <2>1
          DEF WaitBegin, WaitTimer, WaitReturn, Broadcast, TypeOK
<1>6. CASE Close
    BY <1>6 DEF Close
<1>7. CASE WaitCheck(CheckWaiter)
    BY <1>7 DEF WaitCheck, TypeOK
<1>8. CASE UNCHANGED vars
    BY <1>8 DEF vars
<1> QED BY <1>1, <1>2, <1>3, <1>4, <1>5, <1>6, <1>7, <1>8
        DEF Step, ReadSignal

LEMMA ConnectedStep ==
    ASSUME TypeOK, CheckInv, [StatusNext]_allVars
    PROVE  WokenConnected' /\ ReadyMeansConnected'
<1> USE DEF CheckInv
<1>1. ASSUME NEW h \in Handlers, StartAgent(h)
      PROVE  WokenConnected' /\ ReadyMeansConnected'
  <2>1. check[h] = "new" /\ check' = [check EXCEPT ![h] = "wait"]
      BY <1>1 DEF StartAgent, To, Set
  <2>2. \A g \in Handlers : check'[g] # "get"
      BY <2>1 DEF OneCheck, CheckTypes
  <2>3. tunnels' = {} /\ wait' = [w \in Waiters |-> "idle"]
      BY <1>1, NewAgent
  <2> QED BY <2>2, <2>3, CheckAssumption DEF WokenConnected, ReadyMeansConnected
<1>2. ASSUME ~\E h \in Handlers : StartAgent(h)
      PROVE  WokenConnected' /\ ReadyMeansConnected'
  <2>1. checks' = checks
      BY <1>2 DEF StatusNext, AgentSteps, CacheExpires, Ask, HandlerSteps,
         LockCheck, RandomIDFails, RandomID, NewFails, CallWait, Waited,
         GetAnswered, GetFails, CloseAgent, ClearID, UnlockCheck, allVars,
         apiVars
  <2>2. checks => Step \/ Close \/ WaitCheck(CheckWaiter) \/ UNCHANGED vars
      BY <1>2 DEF StatusNext, AgentSteps, CacheExpires, Ask, HandlerSteps,
         LockCheck, RandomIDFails, RandomID, NewFails, CallWait, Waited,
         GetAnswered, GetFails, CloseAgent, ClearID, UnlockCheck, allVars
  <2>3. WokenConnected'
      BY <2>1, <2>2, WokenStep DEF WokenConnected
  <2>4. checks => (connected => connected')
      BY <2>2, WokenStep
  <2>5. ASSUME NEW g \in Handlers, check'[g] = "get", checks
        PROVE  check[g] = "get" \/ wait[CheckWaiter] = "ready"
      BY <1>2, <2>5 DEF StatusNext, AgentSteps, CacheExpires, Ask, HandlerSteps,
         LockCheck, RandomIDFails, RandomID, NewFails, CallWait, Waited,
         GetAnswered, GetFails, CloseAgent, ClearID, UnlockCheck, allVars,
         apiVars, To, Ends, Set, CheckTypes
  <2>6. ~checks => \A g \in Handlers : check'[g] = "none"
      BY <2>1, OneCheckStep DEF OneCheck
  <2> QED BY <2>3, <2>4, <2>5, <2>6
          DEF WokenConnected, ReadyMeansConnected, CheckTypes
<1> QED BY <1>1, <1>2

LEMMA StatusInductive == StatusSpec => [](AgentInv /\ CheckInv)
<1>1. StatusInit => CheckInv
    BY CheckAssumption DEF StatusInit, CheckInv, CheckTypes, CheckSteps, OneCheck, WokenConnected,
           ReadyMeansConnected
<1>2. AgentInv /\ CheckInv /\ [StatusNext]_allVars => CheckInv'
    BY CheckTypesStep, OneCheckStep, ConnectedStep DEF CheckInv, AgentInv
<1> QED BY <1>1, <1>2, StatusAgent, PTL DEF StatusSpec

\* The state of the agent and of the checks stays well typed
\* (api/server.go:113-202).
THEOREM StatusTypeCorrect == StatusSpec => []StatusTypeOK
<1>1. AgentInv /\ CheckInv => StatusTypeOK
    BY DEF AgentInv, CheckInv, CheckTypes, StatusTypeOK
<1> QED BY <1>1, StatusInductive, PTL

\* The agents of the checks have only tunnels that are served, and count their
\* pings (client.go:318-329, conn.go:105-150).
THEOREM StatusAgentSafe == StatusSpec => [](TunnelsServed /\ PingsCounted)
<1>1. AgentInv => PingsCounted
    BY DEF AgentInv
<1> QED BY <1>1, AgentInvTunnels, StatusInductive, PTL

\* A check asks over a tunnel (api/server.go:150-190, client.go:333-357).
THEOREM ChecksAskConnected == StatusSpec => []ReadyMeansConnected
<1>1. CheckInv => ReadyMeansConnected
    BY DEF CheckInv
<1> QED BY <1>1, StatusInductive, PTL
=============================================================================
