-------------------------- MODULE RequestPathProofs --------------------------
(* What the data of public connections goes through on its way to an agent,  *)
(* for any number of connections, ids, messages and cuts: the ids that keep  *)
(* connections apart, the peer-to-peer exchange, how a request is rewritten  *)
(* and how it is routed.                                                     *)
EXTENDS RequestPath, FiniteSetTheorems, SequenceTheorems,
        NatInduction, TLAPS

\* The connections of an agent have steps of their own.
LEMMA PathIdSteps == [PathNext]_dataVars => [IdNext]_idVars
    BY DEF PathNext, HTTPData, PeerData, TaskData, dataVars, idVars

-----------------------------------------------------------------------------
(* The ids.                                                                *)

LEMMA IdTypesStep ==
    ASSUME IdTypeOK, [IdNext]_idVars
    PROVE  IdTypeOK'
<1> USE IdAssumption DEF IdTypeOK
<1>1. CASE UNCHANGED idVars
    BY <1>1 DEF idVars
<1>2. ASSUME NEW c \in PublicConns, AddSeed(c) PROVE IdTypeOK'
  <2>1. (seed + 1) % Word \in 0 .. Word - 1
      OBVIOUS
  <2>2. (seed + 1) % Word < PreservedSignal =>
           (seed + 1) % Word \in 0 .. PreservedSignal - 1
      BY <2>1
  <2> QED BY <1>2, <2>1, <2>2 DEF AddSeed
<1>3. ASSUME NEW c \in PublicConns, ResetSeed(c) PROVE IdTypeOK'
    BY <1>3 DEF ResetSeed
<1>4. ASSUME NEW c \in PublicConns, AddTask(c) PROVE IdTypeOK'
    BY <1>4 DEF AddTask
<1>5. ASSUME NEW c \in PublicConns, RemoveTask(c) PROVE IdTypeOK'
    BY <1>5 DEF RemoveTask
<1> QED BY <1>1, <1>2, <1>3, <1>4, <1>5 DEF IdNext

\* The handlers between their add and their store.
Resetting == {c \in PublicConns : step[c] = "reset"}

\* There are fewer of them than reserved ids, of which there are 3001, so that
\* the adds do not go through them all to the first ids again.
FewResetting == Cardinality(Resetting) < Word - PreservedSignal

\* The seed is beyond the ids by as many as have to set it back, and no id of
\* a task that saw no other set it back is above it.
IdsInv ==
    /\ IdTypeOK /\ IsFiniteSet(Resetting)
    /\ seed < PreservedSignal + Cardinality(Resetting)
    /\ \A c \in PublicConns : HasId(c) /\ c \notin crossed => taskId[c] <= seed
    /\ IdsApart

LEMMA IdsInvInit == IdsFresh => IdsInv
<1> SUFFICES ASSUME IdsFresh PROVE IdsInv
    OBVIOUS
<1> USE IdAssumption DEF IdsFresh
<1>1. IdTypeOK
    BY DEF IdTypeOK
<1>2. Resetting = {}
    BY DEF Resetting
<1>3. IsFiniteSet(Resetting) /\ Cardinality(Resetting) = 0
    BY <1>2, FS_EmptySet
<1>4. seed < PreservedSignal + 0
    OBVIOUS
<1>5. \A c \in PublicConns : ~HasId(c)
    BY DEF HasId
<1> QED BY <1>1, <1>3, <1>4, <1>5 DEF IdsInv, IdsApart

LEMMA AddSeedKeeps ==
    ASSUME IdsInv, FewResetting, NEW c \in PublicConns, AddSeed(c)
    PROVE  IdsInv'
<1> USE IdAssumption
<1>1. IdTypeOK'
    BY IdTypesStep DEF IdsInv, IdNext
<1>2. /\ seed \in 0 .. Word - 1 /\ Cardinality(Resetting) \in Nat
      /\ IsFiniteSet(Resetting) /\ step[c] = "new"
      /\ step \in [PublicConns -> {"new", "reset", "add", "live"}]
    BY FS_CardinalityType DEF IdsInv, IdTypeOK, AddSeed
<1>3. seed' = seed + 1
  <2>1. seed + 1 \in 0 .. Word - 1
      BY <1>2 DEF IdsInv, FewResetting
  <2>2. (seed + 1) % Word = seed + 1
      BY <2>1
  <2> QED BY <2>2 DEF AddSeed
<1>4. CASE seed' >= PreservedSignal
  <2>1. step' = [step EXCEPT ![c] = "reset"] /\ taskId' = taskId /\ crossed' = crossed
      BY <1>4 DEF AddSeed
  <2>2. Resetting' = Resetting \cup {c} /\ c \notin Resetting
      BY <1>2, <2>1 DEF Resetting
  <2>3. /\ IsFiniteSet(Resetting')
        /\ Cardinality(Resetting') = Cardinality(Resetting) + 1
      BY <1>2, <2>2, FS_AddElement
  <2>4. seed' < PreservedSignal + Cardinality(Resetting')
      BY <1>2, <1>3, <2>3 DEF IdsInv
  <2>5. \A u \in PublicConns : HasId(u)' => HasId(u) /\ taskId'[u] = taskId[u]
      BY <1>2, <2>1 DEF HasId
  <2>6. \A u \in PublicConns : HasId(u)' /\ u \notin crossed' => taskId'[u] <= seed'
    <3>1. SUFFICES ASSUME NEW u \in PublicConns, HasId(u)', u \notin crossed'
                   PROVE  taskId'[u] <= seed'
        OBVIOUS
    <3>2. taskId[u] <= seed /\ taskId[u] \in 0 .. PreservedSignal - 1
        BY <2>1, <2>5, <3>1 DEF IdsInv, IdTypeOK
    <3> QED BY <1>2, <1>3, <2>1, <3>2
  <2>7. IdsApart'
      BY <2>1, <2>5 DEF IdsInv, IdsApart
  <2> QED BY <1>1, <2>3, <2>4, <2>6, <2>7 DEF IdsInv
<1>5. CASE seed' < PreservedSignal
  <2>1. /\ step' = [step EXCEPT ![c] = "add"]
        /\ taskId' = [taskId EXCEPT ![c] = seed'] /\ crossed' = crossed
      BY <1>2, <1>3, <1>5 DEF AddSeed
  <2>2. Resetting' = Resetting
      BY <1>2, <2>1 DEF Resetting
  <2>3. /\ IsFiniteSet(Resetting')
        /\ seed' < PreservedSignal + Cardinality(Resetting')
      BY <1>2, <1>3, <1>5, <2>2
  <2>4. taskId'[c] = seed'
        /\ \A u \in PublicConns \ {c} : (HasId(u)' <=> HasId(u)) /\ taskId'[u] = taskId[u]
      BY <1>2, <2>1 DEF HasId, IdsInv, IdTypeOK
  <2>5. \A u \in PublicConns \ {c} :
           HasId(u)' /\ u \notin crossed' => taskId'[u] < seed'
    <3>1. SUFFICES ASSUME NEW u \in PublicConns \ {c}, HasId(u)', u \notin crossed'
                   PROVE  taskId'[u] < seed'
        OBVIOUS
    <3>2. taskId[u] <= seed /\ taskId[u] \in 0 .. PreservedSignal - 1
        BY <2>1, <2>4, <3>1 DEF IdsInv, IdTypeOK
    <3> QED BY <1>2, <1>3, <2>4, <3>2
  <2>6. seed' \in Nat /\ \A u \in PublicConns : taskId'[u] \in Nat
      BY <1>1 DEF IdTypeOK
  <2>7. \A u \in PublicConns : HasId(u)' /\ u \notin crossed' => taskId'[u] <= seed'
      BY <2>4, <2>5, <2>6
  <2>8. IdsApart'
    <3>1. SUFFICES ASSUME NEW u \in PublicConns, NEW v \in PublicConns, u # v,
                          HasId(u)', HasId(v)', taskId'[u] = taskId'[v],
                          u \notin crossed', v \notin crossed'
                   PROVE  FALSE
        BY DEF IdsApart
    <3>2. u # c /\ v # c
        BY <2>4, <2>5, <2>6, <3>1
    <3>3. HasId(u) /\ HasId(v) /\ taskId[u] = taskId[v]
        BY <2>4, <3>1, <3>2
    <3> QED BY <2>1, <3>1, <3>3 DEF IdsInv, IdsApart
  <2> QED BY <1>1, <2>3, <2>7, <2>8 DEF IdsInv
<1>6. seed' \in Int /\ PreservedSignal \in Int
    BY <1>2, <1>3
<1> QED BY <1>4, <1>5, <1>6

LEMMA ResetSeedKeeps ==
    ASSUME IdsInv, NEW c \in PublicConns, ResetSeed(c)
    PROVE  IdsInv'
<1> USE IdAssumption
<1>1. IdTypeOK'
    BY IdTypesStep DEF IdsInv, IdNext
<1>2. /\ step \in [PublicConns -> {"new", "reset", "add", "live"}]
      /\ taskId \in [PublicConns -> 0 .. PreservedSignal - 1]
      /\ step' = [step EXCEPT ![c] = "add"] /\ seed' = 1
      /\ taskId' = [taskId EXCEPT ![c] = 1]
      /\ crossed' = crossed \union {u \in PublicConns \ {c} : step[u] # "new"}
    BY DEF IdsInv, IdTypeOK, ResetSeed
<1>3. Resetting' \subseteq Resetting
    BY <1>2 DEF Resetting
<1>4. IsFiniteSet(Resetting') /\ Cardinality(Resetting') \in Nat
    BY <1>3, FS_Subset, FS_CardinalityType DEF IdsInv
<1>5. seed' < PreservedSignal + Cardinality(Resetting')
    BY <1>2, <1>4
<1>6. \A u \in PublicConns \ {c} : HasId(u)' => u \in crossed'
    BY <1>2 DEF HasId
<1>7. taskId'[c] <= seed'
    BY <1>2
<1>8. \A u \in PublicConns : HasId(u)' /\ u \notin crossed' => taskId'[u] <= seed'
    BY <1>6, <1>7
<1>9. IdsApart'
    BY <1>6 DEF IdsApart
<1> QED BY <1>1, <1>4, <1>5, <1>8, <1>9 DEF IdsInv

LEMMA TaskKeeps ==
    ASSUME IdsInv, NEW c \in PublicConns, AddTask(c) \/ RemoveTask(c)
    PROVE  IdsInv'
<1>1. IdTypeOK'
    BY IdTypesStep DEF IdsInv, IdNext
<1>2. step \in [PublicConns -> {"new", "reset", "add", "live"}]
    BY DEF IdsInv, IdTypeOK
<1>3. Resetting' = Resetting /\ seed' = seed
    BY <1>2 DEF Resetting, AddTask, RemoveTask
<1>4. ASSUME NEW u \in PublicConns, HasId(u)', u \notin crossed'
      PROVE  HasId(u) /\ u \notin crossed /\ taskId'[u] = taskId[u]
  <2>1. CASE AddTask(c)
      BY <1>2, <1>4, <2>1 DEF AddTask, HasId
  <2>2. CASE RemoveTask(c)
    <3>1. u # c
        BY <1>2, <1>4, <2>2 DEF RemoveTask, HasId
    <3> QED BY <1>2, <1>4, <2>2, <3>1 DEF RemoveTask, HasId, IdsInv, IdTypeOK
  <2> QED BY <2>1, <2>2
<1>5. IdsApart'
    BY <1>4 DEF IdsInv, IdsApart
<1>6. \A u \in PublicConns : HasId(u)' /\ u \notin crossed' => taskId'[u] <= seed'
    BY <1>3, <1>4 DEF IdsInv
<1> QED BY <1>1, <1>3, <1>5, <1>6 DEF IdsInv

LEMMA IdsInvStep ==
    ASSUME IdsInv, FewResetting, [IdNext]_idVars
    PROVE  IdsInv'
<1>1. CASE UNCHANGED idVars
  <2>1. Resetting' = Resetting /\ IdTypeOK'
      BY <1>1, IdTypesStep DEF idVars, Resetting, IdsInv
  <2> QED BY <1>1, <2>1 DEF idVars, IdsInv, IdsApart, HasId
<1>2. CASE IdNext
    BY <1>2, AddSeedKeeps, ResetSeedKeeps, TaskKeeps DEF IdNext
<1> QED BY <1>1, <1>2

\* The ids and the entries of tasks keep their types (server/client.go 33-44).
THEOREM IdTypesCorrect == PathSpec => []IdTypeOK
<1>1. PathInit => IdTypeOK
    BY IdAssumption DEF PathInit, IdsFresh, IdTypeOK
<1> QED BY <1>1, IdTypesStep, PathIdSteps, PTL DEF PathSpec

\* As long as fewer handlers than there are reserved ids are between their add
\* and their store, two tasks have the same id only if the seed was set back
\* by another while one of them was there (server/client.go 33-44).
THEOREM IdsStayApart == PathSpec /\ []FewResetting => []IdsApart
<1>1. PathInit => IdsInv
    BY IdsInvInit DEF PathInit
<1>2. IdsInv => IdsApart
    BY DEF IdsInv
<1> QED BY <1>1, <1>2, IdsInvStep, PathIdSteps, PTL DEF PathSpec

-----------------------------------------------------------------------------
(* The stream of an exchange: the header, then the units of each message.   *)

\* The stream up to message m, given it up to the one before.
StreamFrom(f, m) == IF m = 0 THEN <<<<0, 1>>, <<0, 2>>>> ELSE f[m - 1] \o Units(m)

\* What may be up to message k.
StreamsTo(k) ==
    {f \in [0 .. k -> Seq(Unit)] : \A m \in 0 .. k : f[m] = StreamFrom(f, m)}

Sendable == messages \in Seq(Kinds)

LEMMA SizeRange == \A kind : Size(kind) \in 0 .. 2
    BY DEF Size

LEMMA TextFacts ==
    ASSUME Sendable, NEW m \in 1 .. Len(messages)
    PROVE  /\ Text(m) \in Seq(Unit)
           /\ Len(Text(m)) = Size(messages[m])
           /\ \A u \in 1 .. Size(messages[m]) : Text(m)[u] = <<m, u + 2>>
<1>1. Len(messages) \in Nat
    BY LenProperties DEF Sendable
<1>2. PICK s \in 0 .. 2 : s = Size(messages[m])
    BY SizeRange
<1>3. Text(m) = [u \in 1 .. s |-> <<m, u + 2>>]
    BY <1>2 DEF Text
<1>4. \A u \in 1 .. s : <<m, u + 2>> \in Unit
    BY <1>1, <1>2 DEF Unit
<1>5. Text(m) \in [1 .. s -> Unit]
    BY <1>3, <1>4
<1>6. Text(m) \in Seq(Unit) /\ Len(Text(m)) = s
    BY <1>2, <1>5
<1>7. \A u \in 1 .. s : Text(m)[u] = <<m, u + 2>>
    BY <1>3
<1> QED BY <1>2, <1>6, <1>7

LEMMA HeaderUnits ==
    ASSUME Sendable, NEW m \in 0 .. Len(messages)
    PROVE  /\ <<<<m, 1>>, <<m, 2>>>> \in Seq(Unit)
           /\ Len(<<<<m, 1>>, <<m, 2>>>>) = 2
<1>1. Len(messages) \in Nat
    BY LenProperties DEF Sendable
<1>2. <<m, 1>> \in Unit /\ <<m, 2>> \in Unit
    BY <1>1 DEF Unit
<1> QED BY <1>2

LEMMA UnitsFacts ==
    ASSUME Sendable, NEW m \in 1 .. Len(messages)
    PROVE  /\ Units(m) \in Seq(Unit)
           /\ Len(Units(m)) = 2 + Size(messages[m])
           /\ \A u \in 1 .. 2 + Size(messages[m]) : Units(m)[u] = <<m, u>>
<1>1. Len(messages) \in Nat /\ m \in 0 .. Len(messages) /\ m \in Nat
    BY LenProperties DEF Sendable
<1>2. PICK h : h = <<<<m, 1>>, <<m, 2>>>>
    OBVIOUS
<1>3. /\ h \in Seq(Unit) /\ Len(h) = 2
      /\ h[1] = <<m, 1>> /\ h[2] = <<m, 2>>
    BY <1>1, <1>2, HeaderUnits
<1>4. PICK s \in 0 .. 2 : s = Size(messages[m])
    BY SizeRange
<1>5. Units(m) = h \o Text(m)
    BY <1>2 DEF Units
<1>6. /\ Units(m) \in Seq(Unit) /\ Len(Units(m)) = 2 + s
      /\ \A u \in 1 .. 2 + s :
            Units(m)[u] = IF u <= 2 THEN h[u] ELSE Text(m)[u - 2]
  <2>1. PICK x \in Seq(Unit) : x = Text(m) /\ Len(x) = s
      BY <1>4, TextFacts
  <2>2. /\ h \o x \in Seq(Unit) /\ Len(h \o x) = Len(h) + Len(x)
        /\ \A u \in 1 .. Len(h) + Len(x) :
              (h \o x)[u] = IF u <= Len(h) THEN h[u] ELSE x[u - Len(h)]
    <3>1. h \in Seq(Unit)
        BY <1>3
    <3> HIDE <1>2, <1>3, <2>1
    <3> QED BY <3>1, ConcatProperties
  <2> QED BY <1>3, <1>5, <2>1, <2>2
<1>7. ASSUME NEW u \in 1 .. 2 + s PROVE Units(m)[u] = <<m, u>>
  <2>1. CASE u = 1
      BY <1>3, <1>6, <2>1
  <2>2. CASE u = 2
      BY <1>3, <1>6, <2>2
  <2>3. CASE u > 2
    <3>1. u - 2 \in 1 .. s /\ (u - 2) + 2 = u /\ ~(u <= 2)
        BY <1>4, <2>3
    <3>2. Text(m)[u - 2] = <<m, (u - 2) + 2>>
        BY <1>4, <3>1, TextFacts
    <3> QED BY <1>6, <3>1, <3>2
  <2> QED BY <2>1, <2>2, <2>3
<1> QED BY <1>4, <1>6, <1>7

LEMMA StreamsExist ==
    ASSUME Sendable, NEW k \in 0 .. Len(messages)
    PROVE  StreamsTo(k) # {}
<1>1. Len(messages) \in Nat
    BY LenProperties DEF Sendable
<1> DEFINE S == {i \in Nat : i <= Len(messages) => StreamsTo(i) # {}}
<1>2. ASSUME NEW i \in Nat, \A j \in Nat : j < i => j \in S PROVE i \in S
  <2>1. SUFFICES ASSUME i <= Len(messages) PROVE StreamsTo(i) # {}
      OBVIOUS
  <2>2. CASE i = 0
    <3> DEFINE f == [m \in 0 .. 0 |-> <<<<0, 1>>, <<0, 2>>>>]
    <3>1. <<<<0, 1>>, <<0, 2>>>> \in Seq(Unit)
      <4>1. 0 \in 0 .. Len(messages)
          BY <1>1
      <4> QED BY <4>1, HeaderUnits
    <3>2. f \in [0 .. 0 -> Seq(Unit)]
        BY <3>1
    <3>3. \A m \in 0 .. 0 : f[m] = StreamFrom(f, m)
        BY DEF StreamFrom
    <3>4. f \in StreamsTo(0)
        BY <3>2, <3>3 DEF StreamsTo
    <3> QED BY <2>2, <3>4
  <2>3. CASE i # 0
    <3>1. i - 1 \in Nat /\ i - 1 \in S /\ i - 1 <= Len(messages)
        BY <1>1, <1>2, <2>1, <2>3
    <3>2. PICK h \in StreamsTo(i - 1) : TRUE
        BY <3>1
    <3>3. /\ h \in [0 .. i - 1 -> Seq(Unit)]
          /\ \A m \in 0 .. i - 1 : h[m] = StreamFrom(h, m)
        BY DEF StreamsTo
    <3>4. i \in 1 .. Len(messages) /\ i - 1 \in 0 .. i - 1
        BY <1>1, <2>1, <2>3
    <3>5. h[i - 1] \in Seq(Unit) /\ Units(i) \in Seq(Unit)
        BY <3>3, <3>4, UnitsFacts
    <3>6. PICK last : last = h[i - 1] \o Units(i)
        OBVIOUS
    <3>7. last \in Seq(Unit)
        BY <3>5, <3>6, ConcatProperties
    <3> DEFINE f == [m \in 0 .. i |-> IF m = i THEN last ELSE h[m]]
    <3>8. \A m \in 0 .. i : m = i \/ m \in 0 .. i - 1
        OBVIOUS
    <3>9. f \in [0 .. i -> Seq(Unit)]
        BY <3>3, <3>7, <3>8
    <3>10. ASSUME NEW m \in 0 .. i PROVE f[m] = StreamFrom(f, m)
      <4>1. CASE m = i
        <5>1. f[m] = last /\ f[m - 1] = h[i - 1]
            BY <2>3, <4>1
        <5> QED BY <2>3, <3>6, <4>1, <5>1 DEF StreamFrom
      <4>2. CASE m # i
        <5>1. m \in 0 .. i - 1 /\ f[m] = h[m] /\ h[m] = StreamFrom(h, m)
            BY <3>3, <3>8, <4>2
        <5>2. m # 0 => f[m - 1] = h[m - 1]
            BY <4>2
        <5> QED BY <5>1, <5>2 DEF StreamFrom
      <4> QED BY <4>1, <4>2
    <3>11. f \in StreamsTo(i)
        BY <3>9, <3>10 DEF StreamsTo
    <3> QED BY <3>11
  <2> QED BY <2>2, <2>3
<1> HIDE DEF S
<1>3. k \in Nat /\ k <= Len(messages)
    BY <1>1
<1>4. k \in S
    BY <1>2, <1>3, InductionOnNat
<1> QED BY <1>3, <1>4 DEF S

\* What StreamUpTo is: the recursion has a solution.
LEMMA StreamIs ==
    ASSUME Sendable
    PROVE  \A m \in 0 .. Len(messages) : StreamUpTo[m] = StreamFrom(StreamUpTo, m)
<1>1. Len(messages) \in 0 .. Len(messages)
    BY LenProperties DEF Sendable
<1>2. PICK f \in StreamsTo(Len(messages)) : TRUE
    BY <1>1, StreamsExist
<1>3. f = [m \in 0 .. Len(messages) |-> f[m]]
    BY DEF StreamsTo
<1>4. \A m \in 0 .. Len(messages) :
        f[m] = IF m = 0 THEN <<<<0, 1>>, <<0, 2>>>> ELSE f[m - 1] \o Units(m)
    BY DEF StreamsTo, StreamFrom
<1>5. f = [m \in 0 .. Len(messages) |->
             IF m = 0 THEN <<<<0, 1>>, <<0, 2>>>> ELSE f[m - 1] \o Units(m)]
    BY <1>3, <1>4
<1>6. \E g : g = [m \in 0 .. Len(messages) |->
             IF m = 0 THEN <<<<0, 1>>, <<0, 2>>>> ELSE g[m - 1] \o Units(m)]
    BY <1>5
<1>7. StreamUpTo = [m \in 0 .. Len(messages) |->
             IF m = 0 THEN <<<<0, 1>>, <<0, 2>>>> ELSE StreamUpTo[m - 1] \o Units(m)]
    BY <1>6 DEF StreamUpTo
<1> QED BY <1>7 DEF StreamFrom

\* How much of the stream comes before message m + 1.
EndOf(m) == Len(StreamUpTo[m])

\* The stream up to a message is the one up to the message before it and the
\* units of the message.
LEMMA StreamGrows ==
    ASSUME Sendable, NEW m \in 1 .. Len(messages), StreamUpTo[m - 1] \in Seq(Unit)
    PROVE  /\ StreamUpTo[m] \in Seq(Unit)
           /\ EndOf(m) = EndOf(m - 1) + 2 + Size(messages[m])
           /\ \A i \in 1 .. EndOf(m - 1) : StreamUpTo[m][i] = StreamUpTo[m - 1][i]
           /\ \A u \in 1 .. 2 + Size(messages[m]) :
                 StreamUpTo[m][EndOf(m - 1) + u] = <<m, u>>
<1>1. PICK s \in 0 .. 2 : s = Size(messages[m])
    BY SizeRange
<1>2. PICK x \in Seq(Unit) : x = StreamUpTo[m - 1]
    OBVIOUS
<1>3. PICK y \in Seq(Unit) :
        y = Units(m) /\ Len(y) = 2 + s /\ \A u \in 1 .. 2 + s : y[u] = <<m, u>>
    BY <1>1, UnitsFacts
<1>4. StreamUpTo[m] = x \o y
  <2>1. Len(messages) \in Nat
      BY LenProperties DEF Sendable
  <2>2. m \in 0 .. Len(messages) /\ m # 0
      BY <2>1
  <2> QED BY <1>2, <1>3, <2>2, StreamIs DEF StreamFrom
<1>5. /\ x \o y \in Seq(Unit) /\ Len(x \o y) = Len(x) + Len(y)
      /\ \A i \in 1 .. Len(x) + Len(y) :
            (x \o y)[i] = IF i <= Len(x) THEN x[i] ELSE y[i - Len(x)]
  <2> HIDE <1>1, <1>2, <1>3, <1>4
  <2> QED BY ConcatProperties
<1>6. Len(x) \in Nat
    BY LenProperties
<1>7. \A i \in 1 .. Len(x) : (x \o y)[i] = x[i]
    BY <1>3, <1>5, <1>6
<1>8. ASSUME NEW u \in 1 .. 2 + s PROVE (x \o y)[Len(x) + u] = <<m, u>>
  <2>1. Len(x) + u \in 1 .. Len(x) + Len(y) /\ ~(Len(x) + u <= Len(x))
      BY <1>3, <1>6
  <2>2. (Len(x) + u) - Len(x) = u
      BY <1>6
  <2> QED BY <1>3, <1>5, <2>1, <2>2
<1> QED BY <1>1, <1>2, <1>3, <1>4, <1>5, <1>6, <1>7, <1>8 DEF EndOf

LEMMA StreamStarts ==
    ASSUME Sendable
    PROVE  /\ StreamUpTo[0] \in Seq(Unit) /\ EndOf(0) = 2
           /\ StreamUpTo[0][1] = <<0, 1>> /\ StreamUpTo[0][2] = <<0, 2>>
<1>1. 0 \in 0 .. Len(messages)
    BY LenProperties DEF Sendable
<1>2. PICK h : h = <<<<0, 1>>, <<0, 2>>>>
    OBVIOUS
<1>3. h \in Seq(Unit) /\ Len(h) = 2 /\ h[1] = <<0, 1>> /\ h[2] = <<0, 2>>
    BY <1>1, <1>2, HeaderUnits
<1>4. StreamUpTo[0] = h
    BY <1>1, <1>2, StreamIs DEF StreamFrom
<1> QED BY <1>3, <1>4 DEF EndOf

\* What comes before a message begins with the header and is a beginning of
\* what comes before any later one; the first unit is there once.
StreamGood(k) ==
    /\ StreamUpTo[k] \in Seq(Unit) /\ EndOf(k) >= 2
    /\ StreamUpTo[k][1] = <<0, 1>> /\ StreamUpTo[k][2] = <<0, 2>>
    /\ \A i \in 2 .. EndOf(k) : StreamUpTo[k][i] # <<0, 1>>
    /\ \A m \in 0 .. k : EndOf(m) \in 0 .. EndOf(k)
    /\ \A m \in 0 .. k : \A i \in 1 .. EndOf(m) :
          StreamUpTo[m][i] = StreamUpTo[k][i]

LEMMA StreamGoodAll ==
    ASSUME Sendable, NEW k \in 0 .. Len(messages)
    PROVE  StreamGood(k)
<1>1. Len(messages) \in Nat
    BY LenProperties DEF Sendable
<1> DEFINE S == {i \in Nat : i <= Len(messages) => StreamGood(i)}
<1>2. ASSUME NEW i \in Nat, \A j \in Nat : j < i => j \in S PROVE i \in S
  <2>1. SUFFICES ASSUME i <= Len(messages) PROVE StreamGood(i)
      OBVIOUS
  <2>2. CASE i = 0
    <3>1. EndOf(0) = 2 /\ \A m \in 0 .. 0 : m = 0
        BY StreamStarts
    <3>2. <<0, 2>> # <<0, 1>>
        OBVIOUS
    <3>3. \A j \in 2 .. EndOf(0) : j = 2
        BY <3>1
    <3>4. EndOf(0) \in 0 .. EndOf(0) /\ EndOf(0) >= 2
        BY <3>1
    <3> QED BY <2>2, <3>1, <3>2, <3>3, <3>4, StreamStarts DEF StreamGood
  <2>3. CASE i # 0
    <3>1. i - 1 \in Nat /\ i - 1 \in S /\ i - 1 <= Len(messages)
        BY <1>1, <1>2, <2>1, <2>3
    <3>2. StreamGood(i - 1) /\ i \in 1 .. Len(messages)
        BY <1>1, <2>1, <2>3, <3>1
    <3>3. PICK s \in 0 .. 2 : s = Size(messages[i])
        BY SizeRange
    <3>4. PICK x \in Seq(Unit) : x = StreamUpTo[i - 1] /\ Len(x) = EndOf(i - 1)
        BY <3>2 DEF StreamGood, EndOf
    <3>5. PICK y \in Seq(Unit) : y = StreamUpTo[i] /\ Len(y) = EndOf(i)
        BY <3>2, <3>4, StreamGrows DEF EndOf
    <3>6. /\ Len(y) = Len(x) + 2 + s
          /\ \A j \in 1 .. Len(x) : y[j] = x[j]
          /\ \A u \in 1 .. 2 + s : y[Len(x) + u] = <<i, u>>
        BY <3>2, <3>3, <3>4, <3>5, StreamGrows
    <3>7. /\ Len(x) \in Nat /\ Len(x) >= 2 /\ Len(y) \in Nat
          /\ x[1] = <<0, 1>> /\ x[2] = <<0, 2>>
          /\ \A j \in 2 .. Len(x) : x[j] # <<0, 1>>
          /\ \A m \in 0 .. i - 1 : EndOf(m) \in 0 .. Len(x)
          /\ \A m \in 0 .. i - 1 : \A j \in 1 .. EndOf(m) : StreamUpTo[m][j] = x[j]
      <4>1. Len(x) \in Nat /\ Len(y) \in Nat
          BY LenProperties
      <4> QED BY <3>2, <3>4, <4>1 DEF StreamGood
    <3>8. Len(y) >= 2 /\ y[1] = <<0, 1>> /\ y[2] = <<0, 2>>
      <4>1. 1 \in 1 .. Len(x) /\ 2 \in 1 .. Len(x)
          BY <3>7
      <4>2. Len(y) >= 2
          BY <3>3, <3>6, <3>7
      <4> QED BY <3>6, <3>7, <4>1, <4>2
    <3>9. ASSUME NEW j \in 2 .. Len(y) PROVE y[j] # <<0, 1>>
      <4>1. CASE j <= Len(x)
          BY <3>6, <3>7, <4>1
      <4>2. CASE ~(j <= Len(x))
        <5>1. j - Len(x) \in 1 .. 2 + s /\ Len(x) + (j - Len(x)) = j
            BY <3>3, <3>6, <3>7, <4>2
        <5>2. y[j] = <<i, j - Len(x)>>
            BY <3>6, <5>1
        <5> QED BY <2>3, <5>2
      <4> QED BY <4>1, <4>2
    <3>10. ASSUME NEW m \in 0 .. i
           PROVE  EndOf(m) \in 0 .. Len(y) /\ \A j \in 1 .. EndOf(m) : StreamUpTo[m][j] = y[j]
      <4>1. CASE m = i
        <5>1. EndOf(m) = Len(y) /\ StreamUpTo[m] = y /\ Len(y) \in 0 .. Len(y)
            BY <3>5, <3>7, <4>1
        <5> QED BY <5>1
      <4>2. CASE m # i
        <5>1. m \in 0 .. i - 1
            BY <4>2
        <5>2. EndOf(m) \in 0 .. Len(x)
            BY <3>7, <5>1
        <5>3. EndOf(m) \in 0 .. Len(y)
            BY <3>3, <3>6, <3>7, <5>2
        <5>4. \A j \in 1 .. EndOf(m) : j \in 1 .. Len(x)
            BY <3>7, <5>2
        <5> QED BY <3>6, <3>7, <5>1, <5>3, <5>4
      <4> QED BY <4>1, <4>2
    <3> QED BY <3>5, <3>8, <3>9, <3>10 DEF StreamGood
  <2> QED BY <2>2, <2>3
<1> HIDE DEF S
<1>3. k \in Nat /\ k <= Len(messages)
    BY <1>1
<1>4. k \in S
    BY <1>2, <1>3, InductionOnNat
<1> QED BY <1>3, <1>4 DEF S

\* The stream of an exchange.
LEMMA StreamFacts ==
    ASSUME Sendable
    PROVE  /\ Stream \in Seq(Unit) /\ Len(Stream) \in Nat
           /\ EndOf(Len(messages)) = Len(Stream) /\ Len(Stream) >= 2
           /\ Stream[1] = <<0, 1>> /\ Stream[2] = <<0, 2>>
           /\ \A i \in 2 .. Len(Stream) : Stream[i] # <<0, 1>>
           /\ EndOf(0) = 2
           /\ \A m \in 0 .. Len(messages) : EndOf(m) \in Nat /\ EndOf(m) <= Len(Stream)
<1>1. Len(messages) \in 0 .. Len(messages)
    BY LenProperties DEF Sendable
<1>2. StreamGood(Len(messages))
    BY <1>1, StreamGoodAll
<1>3. Stream \in Seq(Unit) /\ Len(Stream) = EndOf(Len(messages))
    BY <1>2 DEF StreamGood, Stream, EndOf
<1>4. Len(Stream) \in Nat
    BY <1>3, LenProperties
<1> QED BY <1>2, <1>3, <1>4, StreamStarts DEF StreamGood, Stream

\* Where a message is in the stream.
LEMMA MessageFacts ==
    ASSUME Sendable, NEW m \in 1 .. Len(messages)
    PROVE  /\ EndOf(m) = EndOf(m - 1) + 2 + Size(messages[m])
           /\ EndOf(m - 1) \in Nat /\ EndOf(m) <= Len(Stream)
           /\ \A u \in 1 .. 2 + Size(messages[m]) :
                 Stream[EndOf(m - 1) + u] = <<m, u>>
<1>1. /\ Len(messages) \in Nat /\ m - 1 \in 0 .. Len(messages)
      /\ m \in 0 .. Len(messages) /\ Len(messages) \in 0 .. Len(messages)
    BY LenProperties DEF Sendable
<1>2. StreamGood(m - 1) /\ StreamGood(Len(messages))
    BY <1>1, StreamGoodAll
<1>3. StreamUpTo[m - 1] \in Seq(Unit)
    BY <1>2 DEF StreamGood
<1>4. EndOf(m - 1) \in Nat /\ EndOf(m) <= Len(Stream) /\ EndOf(m) \in Nat
    BY <1>1, StreamFacts
<1>5. PICK s \in 0 .. 2 : s = Size(messages[m])
    BY SizeRange
<1>6. /\ EndOf(m) = EndOf(m - 1) + 2 + s
      /\ \A u \in 1 .. 2 + s : StreamUpTo[m][EndOf(m - 1) + u] = <<m, u>>
    BY <1>3, <1>5, StreamGrows
<1>7. \A i \in 1 .. EndOf(m) : StreamUpTo[m][i] = Stream[i]
    BY <1>1, <1>2 DEF StreamGood, Stream
<1>8. \A u \in 1 .. 2 + s : EndOf(m - 1) + u \in 1 .. EndOf(m)
    BY <1>4, <1>6
<1> QED BY <1>4, <1>5, <1>6, <1>7, <1>8

-----------------------------------------------------------------------------
(* The types of an exchange.                                                *)

\* The exchange of a connection is sent once: its stream stays what it is.
LEMMA StreamStays ==
    ASSUME [PeerNext]_peerVars
    PROVE  /\ messages' = messages /\ stuns' = stuns
           /\ Stream' = Stream /\ Unit' = Unit /\ StreamUpTo' = StreamUpTo
<1>1. messages' = messages /\ stuns' = stuns
  <2>1. CASE UNCHANGED peerVars
      BY <2>1 DEF peerVars
  <2>2. CASE \E k \in 1 .. Len(Stream) - sent : FrameArrives(k)
      BY <2>2 DEF FrameArrives
  <2>3. CASE LoopStep
      BY <2>3 DEF LoopStep, RouteRefused, RoutePeer, RouteLocal, SkipHeader,
                  ReadLength, ReadBody, ProcessData, ProcessDataFails, LoopReply,
                  LoopForget
  <2>4. CASE SDPStep
      BY <2>4 DEF SDPStep, SDPAnswer, SDPCandidate, SDPGathered, SDPExpires,
                  SDPReply, SDPForget, elsewhere
  <2>5. CASE GatherFinds \/ GatherEnds \/ TimerFires \/ PeerTunnelBreaks
      BY <2>5 DEF GatherFinds, GatherEnds, TimerFires, PeerTunnelBreaks, elsewhere
  <2> QED BY <2>1, <2>2, <2>3, <2>4, <2>5 DEF PeerNext
<1>2. StreamUpTo' = StreamUpTo
    BY <1>1 DEF StreamUpTo, Units, Text, Size
<1> QED BY <1>1, <1>2 DEF Stream, Unit

\* A sequence cut in two.
LEMMA CutFacts ==
    ASSUME NEW S, NEW s \in Seq(S), NEW k \in 0 .. Len(s)
    PROVE  /\ SubSeq(s, 1, k) \in Seq(S) /\ Len(SubSeq(s, 1, k)) = k
           /\ \A i \in 1 .. k : SubSeq(s, 1, k)[i] = s[i]
           /\ SubSeq(s, k + 1, Len(s)) \in Seq(S)
           /\ Len(SubSeq(s, k + 1, Len(s))) = Len(s) - k
           /\ \A i \in 1 .. Len(s) - k : SubSeq(s, k + 1, Len(s))[i] = s[k + i]
<1>1. Len(s) \in Nat /\ \A i \in 1 .. Len(s) : s[i] \in S
    BY LenProperties
<1>2. /\ SubSeq(s, 1, k) \in Seq(S) /\ Len(SubSeq(s, 1, k)) = k
      /\ \A i \in 1 .. k : SubSeq(s, 1, k)[i] = s[i]
  <2>1. k \in Int /\ 1 \in Int /\ k - 1 + 1 = k /\ \A i \in 1 .. k : s[i] \in S
      BY <1>1
  <2>2. /\ SubSeq(s, 1, k) \in Seq(S)
        /\ Len(SubSeq(s, 1, k)) = IF 1 <= k THEN k - 1 + 1 ELSE 0
        /\ \A i \in 1 .. k - 1 + 1 : SubSeq(s, 1, k)[i] = s[1 + i - 1]
      BY <2>1, SubSeqProperties
  <2>3. \A i \in 1 .. k : 1 + i - 1 = i
      OBVIOUS
  <2> QED BY <1>1, <2>1, <2>2, <2>3
<1>3. /\ SubSeq(s, k + 1, Len(s)) \in Seq(S)
      /\ Len(SubSeq(s, k + 1, Len(s))) = Len(s) - k
      /\ \A i \in 1 .. Len(s) - k : SubSeq(s, k + 1, Len(s))[i] = s[k + i]
  <2>1. /\ k + 1 \in Int /\ Len(s) \in Int /\ Len(s) - (k + 1) + 1 = Len(s) - k
        /\ \A i \in k + 1 .. Len(s) : s[i] \in S
      BY <1>1
  <2>2. /\ SubSeq(s, k + 1, Len(s)) \in Seq(S)
        /\ Len(SubSeq(s, k + 1, Len(s)))
             = IF k + 1 <= Len(s) THEN Len(s) - (k + 1) + 1 ELSE 0
        /\ \A i \in 1 .. Len(s) - (k + 1) + 1 :
             SubSeq(s, k + 1, Len(s))[i] = s[k + 1 + i - 1]
      BY <2>1, SubSeqProperties
  <2>3. Len(SubSeq(s, k + 1, Len(s))) = Len(s) - k
      BY <1>1, <2>2
  <2>4. ASSUME NEW i \in 1 .. Len(s) - k
        PROVE  SubSeq(s, k + 1, Len(s))[i] = s[k + i]
    <3>1. k + 1 + i - 1 = k + i
        BY <1>1
    <3> QED BY <2>1, <2>2, <3>1
  <2> QED BY <2>2, <2>3, <2>4
<1> QED BY <1>2, <1>3

\* A part of a sequence.
LEMMA SpanFacts ==
    ASSUME NEW S, NEW s \in Seq(S), NEW j \in Nat, NEW k \in Nat,
           j + k <= Len(s)
    PROVE  /\ SubSeq(s, j + 1, j + k) \in Seq(S)
           /\ Len(SubSeq(s, j + 1, j + k)) = k
           /\ \A i \in 1 .. k : SubSeq(s, j + 1, j + k)[i] = s[j + i]
<1>1. Len(s) \in Nat /\ \A i \in 1 .. Len(s) : s[i] \in S
    BY LenProperties
<1>2. /\ j + 1 \in Int /\ j + k \in Int /\ j + k - (j + 1) + 1 = k
      /\ \A i \in j + 1 .. j + k : s[i] \in S
    BY <1>1
<1>3. /\ SubSeq(s, j + 1, j + k) \in Seq(S)
      /\ Len(SubSeq(s, j + 1, j + k))
           = IF j + 1 <= j + k THEN j + k - (j + 1) + 1 ELSE 0
      /\ \A i \in 1 .. j + k - (j + 1) + 1 :
           SubSeq(s, j + 1, j + k)[i] = s[j + 1 + i - 1]
    BY <1>2, SubSeqProperties
<1>4. Len(SubSeq(s, j + 1, j + k)) = k
    BY <1>2, <1>3
<1>5. ASSUME NEW i \in 1 .. k PROVE SubSeq(s, j + 1, j + k)[i] = s[j + i]
  <2>1. j + 1 + i - 1 = j + i
      OBVIOUS
  <2> QED BY <1>2, <1>3, <2>1
<1> QED BY <1>3, <1>4, <1>5

\* The beginning of one sequence and the beginning of another behind it.
LEMMA JoinFacts ==
    ASSUME NEW S, NEW d \in Seq(S), NEW j \in 0 .. Len(d),
           NEW s \in Seq(S), NEW k \in 0 .. Len(s)
    PROVE  /\ SubSeq(d, 1, j) \o SubSeq(s, 1, k) \in Seq(S)
           /\ Len(SubSeq(d, 1, j) \o SubSeq(s, 1, k)) = j + k
           /\ \A i \in 1 .. j + k : (SubSeq(d, 1, j) \o SubSeq(s, 1, k))[i]
                                       = IF i <= j THEN d[i] ELSE s[i - j]
<1>1. PICK x \in Seq(S) : x = SubSeq(d, 1, j) /\ Len(x) = j /\ \A i \in 1 .. j : x[i] = d[i]
  <2>1. /\ SubSeq(d, 1, j) \in Seq(S) /\ Len(SubSeq(d, 1, j)) = j
        /\ \A i \in 1 .. j : SubSeq(d, 1, j)[i] = d[i]
      BY CutFacts
  <2> QED BY <2>1
<1>2. PICK y \in Seq(S) : y = SubSeq(s, 1, k) /\ Len(y) = k /\ \A i \in 1 .. k : y[i] = s[i]
  <2>1. /\ SubSeq(s, 1, k) \in Seq(S) /\ Len(SubSeq(s, 1, k)) = k
        /\ \A i \in 1 .. k : SubSeq(s, 1, k)[i] = s[i]
      BY CutFacts
  <2> QED BY <2>1
<1>3. j \in Nat /\ k \in Nat
    BY LenProperties
<1>4. /\ x \o y \in Seq(S) /\ Len(x \o y) = Len(x) + Len(y)
      /\ \A i \in 1 .. Len(x) + Len(y) :
            (x \o y)[i] = IF i <= Len(x) THEN x[i] ELSE y[i - Len(x)]
  <2> HIDE <1>1, <1>2
  <2> QED BY ConcatProperties
<1>5. ASSUME NEW i \in 1 .. j + k PROVE (x \o y)[i] = IF i <= j THEN d[i] ELSE s[i - j]
  <2>1. CASE i <= j
      BY <1>1, <1>2, <1>3, <1>4, <2>1
  <2>2. CASE ~(i <= j)
    <3>1. i - j \in 1 .. k
        BY <1>3, <2>2
    <3> QED BY <1>1, <1>2, <1>3, <1>4, <2>2, <3>1
  <2> QED BY <2>1, <2>2
<1> QED BY <1>1, <1>2, <1>4, <1>5

LEMMA JoinUnit ==
    ASSUME NEW d \in Seq(Unit), NEW j \in 0 .. Len(d), NEW s \in Seq(Unit),
           NEW k \in 0 .. Len(s), NEW u \in 1 .. j + k
    PROVE  (SubSeq(d, 1, j) \o SubSeq(s, 1, k))[u] = IF u <= j THEN d[u] ELSE s[u - j]
<1>1. \A i \in 1 .. j + k : (SubSeq(d, 1, j) \o SubSeq(s, 1, k))[i]
                              = IF i <= j THEN d[i] ELSE s[i - j]
    BY JoinFacts
<1> QED BY <1>1

\* n is within what it counts.
PeerTypes ==
    /\ PeerTypeOK
    /\ state = "dataLength" => n <= Len(dataLen)
    /\ state = "skipHTTPHeader" => n = 0

LEMMA PeerTypesSendable == ASSUME PeerTypes PROVE Sendable
<1>1. <<>> \in Seq(Kinds)
    BY EmptySeq
<1> QED BY <1>1, ExchangesAssumption DEF PeerTypes, PeerTypeOK, Sendable

LEMMA PeerTypesInit == PeerFresh /\ messages \in Exchanges \cup {<<>>} => PeerTypes
<1> SUFFICES ASSUME PeerFresh, messages \in Exchanges \cup {<<>>} PROVE PeerTypes
    OBVIOUS
<1>1. Sendable
  <2>1. <<>> \in Seq(Kinds)
      BY EmptySeq
  <2> QED BY <2>1, ExchangesAssumption DEF Sendable
<1>2. 0 \in 0 .. Len(Stream)
    BY <1>1, StreamFacts
<1>3. 0 \in 0 .. MaxCandidates
    BY ExchangesAssumption
<1>4. <<>> \in Seq(Unit) /\ <<>> \in Seq(Seq(Unit)) /\ Len(<<>>) = 0
    BY EmptySeq
<1>5. {stuns, torn, garbled, inMap, initDone, up, local} \subseteq BOOLEAN
    BY DEF PeerFresh
<1> QED BY <1>2, <1>3, <1>4, <1>5 DEF PeerFresh, PeerTypes, PeerTypeOK

LEMMA FrameTypes ==
    ASSUME PeerTypes, NEW k \in 1 .. Len(Stream) - sent, FrameArrives(k)
    PROVE  PeerTypes'
<1>1. /\ messages' = messages /\ stuns' = stuns
      /\ Stream' = Stream /\ Unit' = Unit
    BY StreamStays DEF PeerNext
<1>2. Stream \in Seq(Unit) /\ Len(Stream) \in Nat
    BY PeerTypesSendable, StreamFacts
<1>3. sent + k \in 0 .. Len(Stream) /\ sent \in Nat
    BY <1>2 DEF PeerTypes, PeerTypeOK
<1>4. SubSeq(Stream, sent + 1, sent + k) \in Seq(Unit)
  <2>1. \A i \in sent + 1 .. sent + k : Stream[i] \in Unit
      BY <1>2, <1>3
  <2> QED BY <1>3, <2>1, SubSeqProperties
<1>5. torn' \in BOOLEAN
    BY DEF FrameArrives, Tears
<1>6. garbled' \in BOOLEAN
    BY DEF FrameArrives
<1>7. {stuns, torn, garbled, inMap, initDone, up, local}' \subseteq BOOLEAN
    BY <1>1, <1>5, <1>6 DEF FrameArrives, task, PeerTypes, PeerTypeOK
<1> QED BY <1>1, <1>3, <1>4, <1>7
        DEF FrameArrives, task, answering, PeerTypes, PeerTypeOK

\* A read takes no more than there is in the frame.
LEMMA ReadTypes ==
    ASSUME PeerTypes, NEW w \in Nat, NEW k \in Nat, NEW err, Reads(w, k, err)
    PROVE  /\ k <= w /\ k \in 0 .. Len(frame) /\ frame' \in Seq(Unit)
           /\ Len(frame') = Len(frame) - k
<1>1. frame \in Seq(Unit) /\ Len(frame) \in Nat
    BY LenProperties DEF PeerTypes, PeerTypeOK
<1>2. k <= w /\ k \in 0 .. Len(frame) /\ frame' = SubSeq(frame, k + 1, Len(frame))
    BY <1>1 DEF Reads
<1> QED BY <1>1, <1>2, CutFacts

LEMMA SkipHeaderTypes ==
    ASSUME PeerTypes, SkipHeader
    PROVE  PeerTypes'
<1>1. /\ messages' = messages /\ stuns' = stuns
      /\ Stream' = Stream /\ Unit' = Unit
    BY StreamStays DEF PeerNext, LoopStep
<1>2. frame' \in Seq(Unit)
  <2>1. frame \in Seq(Unit) /\ <<>> \in Seq(Unit) /\ Len(frame) \in Nat
      BY EmptySeq, LenProperties DEF PeerTypes, PeerTypeOK
  <2>2. CASE HeaderInFrame
    <3>1. 2 \in 0 .. Len(frame)
        BY <2>1, <2>2 DEF HeaderInFrame
    <3>2. SubSeq(frame, 2 + 1, Len(frame)) \in Seq(Unit) /\ 2 + 1 = 3
        BY <2>1, <3>1, CutFacts
    <3>3. frame' = SubSeq(frame, 3, Len(frame))
        BY <2>2 DEF SkipHeader
    <3> QED BY <3>2, <3>3
  <2> QED BY <2>1, <2>2 DEF SkipHeader
<1>3. {stuns, torn, garbled, inMap, initDone, up, local}' \subseteq BOOLEAN
    BY <1>1 DEF SkipHeader, PeerTypes, PeerTypeOK
<1>4. loop' \in {"process", "400"} /\ state' \in {"skipHTTPHeader", "dataLength"}
    BY DEF SkipHeader, Processing
<1>5. n' = n /\ n = 0
    BY DEF SkipHeader, Processing, PeerTypes, PeerTypeOK
<1> QED BY <1>1, <1>2, <1>3, <1>4, <1>5
        DEF SkipHeader, answering, PeerTypes, PeerTypeOK

LEMMA ReadLengthTypes ==
    ASSUME PeerTypes, ReadLength
    PROVE  PeerTypes'
<1>1. /\ messages' = messages /\ stuns' = stuns
      /\ Stream' = Stream /\ Unit' = Unit
    BY StreamStays DEF PeerNext, LoopStep
<1>2. /\ state = "dataLength" /\ n \in 0 .. 2 /\ n <= Len(dataLen)
      /\ dataLen \in Seq(Unit) /\ Len(dataLen) \in Nat /\ Len(dataLen) <= 2
      /\ frame \in Seq(Unit) /\ Len(frame) \in Nat
    BY LenProperties DEF ReadLength, Processing, PeerTypes, PeerTypeOK
<1>3. PICK k \in 0 .. 2, err \in {"nil", "EOF", "malformed"} :
          /\ Reads(2 - n, k, err)
          /\ dataLen' = SubSeq(dataLen, 1, n) \o Got(k)
          /\ IF n + k < 2
             THEN ReturnsOn(err) /\ n' = n + k /\ UNCHANGED <<state, readErr>>
             ELSE IF Kind(dataLen') = "long"
             THEN loop' = "400" /\ n' = 2 /\ UNCHANGED <<state, readErr>>
             ELSE /\ n' = 0 /\ state' = "dataBody"
                  /\ readErr' = err /\ UNCHANGED loop
    BY DEF ReadLength
<1>4. k <= 2 - n /\ k \in 0 .. Len(frame) /\ frame' \in Seq(Unit)
    BY <1>2, <1>3, ReadTypes
<1>5. dataLen' \in Seq(Unit) /\ Len(dataLen') = n + k
  <2>1. n \in 0 .. Len(dataLen)
      BY <1>2
  <2> QED BY <1>2, <1>3, <1>4, <2>1, JoinFacts DEF Got
<1>6. n + k <= 2 /\ n + k \in 0 .. 2
    BY <1>2, <1>4
<1>7. /\ n' \in 0 .. 2 /\ state' \in {"dataLength", "dataBody"}
      /\ state' = "dataLength" => n' <= n + k
      /\ state' = "dataBody" => n' = 0
      /\ readErr' \in {"nil", "EOF", "malformed"}
      /\ loop' \in {"process", "idle", "400"}
  <2>0. readErr \in {"nil", "EOF", "malformed"} /\ loop = "process"
      BY DEF PeerTypes, PeerTypeOK, ReadLength, Processing
  <2>1. CASE n + k < 2
    <3>1. ReturnsOn(err) /\ n' = n + k /\ state' = state /\ readErr' = readErr
        BY <1>3, <2>1
    <3> QED BY <1>2, <1>6, <2>0, <3>1 DEF ReturnsOn
  <2>2. CASE ~(n + k < 2)
    <3>1. n + k = 2
        BY <1>2, <1>6, <2>2
    <3>2. CASE Kind(dataLen') = "long"
      <4>1. loop' = "400" /\ n' = 2 /\ state' = state /\ readErr' = readErr
          BY <1>3, <2>2, <3>2
      <4> QED BY <1>2, <2>0, <3>1, <4>1
    <3>3. CASE Kind(dataLen') # "long"
      <4>1. n' = 0 /\ state' = "dataBody" /\ readErr' = err /\ loop' = loop
          BY <1>3, <2>2, <3>3
      <4> QED BY <2>0, <4>1
    <3> QED BY <3>2, <3>3
  <2> QED BY <2>1, <2>2
<1>8. data' = data /\ Len(data) \in Nat /\ data \in Seq(Unit)
    BY LenProperties DEF ReadLength, PeerTypes, PeerTypeOK
<1> USE DEF ReadLength, PeerTypes, PeerTypeOK, answering
<1>9. {stuns, torn, garbled, inMap, initDone, up, local}' \subseteq BOOLEAN
    BY <1>1
<1>10. state' # "dataLength" => n' <= Len(data')
    BY <1>7, <1>8
<1>11. Len(dataLen') <= 2 /\ (state' = "dataLength" => n' <= Len(dataLen'))
    BY <1>5, <1>6, <1>7
<1>12. /\ messages' \in Exchanges \cup {<<>>} /\ sent' \in 0 .. Len(Stream')
       /\ acted' \in Seq(Seq(Unit')) /\ data' \in Seq(Unit')
       /\ sdp' = sdp /\ gather' = gather /\ found' = found /\ timer' = timer
       /\ replies' = replies
    BY <1>1, <1>8
<1>13. loop' \in {"idle", "route", "process", "400", "403", "close", "forget"}
       /\ state' \in {"skipHTTPHeader", "dataLength", "dataBody", "processData"}
    BY <1>7
<1> QED BY <1>1, <1>4, <1>5, <1>7, <1>9, <1>10, <1>11, <1>12, <1>13

LEMMA ReadBodyTypes ==
    ASSUME PeerTypes, ReadBody
    PROVE  PeerTypes'
<1>1. /\ messages' = messages /\ stuns' = stuns
      /\ Stream' = Stream /\ Unit' = Unit
    BY StreamStays DEF PeerNext, LoopStep
<1>2. /\ state = "dataBody" /\ n \in 0 .. 2 /\ n <= Len(data)
      /\ data \in Seq(Unit) /\ Len(data) \in Nat
      /\ frame \in Seq(Unit) /\ Len(frame) \in Nat
    BY LenProperties DEF ReadBody, Processing, PeerTypes, PeerTypeOK
<1>3. PICK size \in 0 .. 2 : size = Size(Kind(dataLen))
    BY SizeRange
<1>4. PICK k \in 0 .. size, err \in {"nil", "EOF", "malformed"} :
          /\ Reads(size - n, k, err)
          /\ data' = SubSeq(data, 1, n) \o Got(k)
          /\ n' = n + k
          /\ IF n + k < size
             THEN ReturnsOn(err) /\ UNCHANGED <<state, readErr>>
             ELSE state' = "processData" /\ readErr' = err /\ UNCHANGED loop
    BY <1>3 DEF ReadBody
<1>5. k <= size - n /\ k \in 0 .. Len(frame) /\ frame' \in Seq(Unit)
  <2>1. k \in Nat /\ k <= size - n
      BY <1>2, <1>3, <1>4 DEF Reads
  <2>2. size - n \in Nat
      BY <1>2, <1>3, <2>1
  <2> QED BY <1>4, <2>1, <2>2, ReadTypes
<1>6. data' \in Seq(Unit) /\ Len(data') = n + k
  <2>1. n \in 0 .. Len(data)
      BY <1>2
  <2> QED BY <1>2, <1>4, <1>5, <2>1, JoinFacts DEF Got
<1>7. /\ n' \in 0 .. 2 /\ n' <= Len(data')
      /\ state' \in {"dataBody", "processData"}
      /\ readErr' \in {"nil", "EOF", "malformed"}
      /\ loop' \in {"process", "idle", "400"}
  <2>0. readErr \in {"nil", "EOF", "malformed"} /\ loop = "process"
      BY DEF PeerTypes, PeerTypeOK, ReadBody, Processing
  <2>1. n' \in 0 .. 2 /\ n' <= Len(data')
      BY <1>2, <1>3, <1>4, <1>5, <1>6
  <2>2. CASE n + k < size
    <3>1. ReturnsOn(err) /\ state' = state /\ readErr' = readErr
        BY <1>4, <2>2
    <3> QED BY <1>2, <2>0, <2>1, <3>1 DEF ReturnsOn
  <2>3. CASE ~(n + k < size)
    <3>1. state' = "processData" /\ readErr' = err /\ loop' = loop
        BY <1>4, <2>3
    <3> QED BY <2>0, <2>1, <3>1
  <2> QED BY <2>2, <2>3
<1> USE DEF ReadBody, PeerTypes, PeerTypeOK, answering
<1>8. {stuns, torn, garbled, inMap, initDone, up, local}' \subseteq BOOLEAN
    BY <1>1
<1>9. /\ messages' \in Exchanges \cup {<<>>} /\ sent' \in 0 .. Len(Stream')
      /\ acted' \in Seq(Seq(Unit')) /\ dataLen' = dataLen /\ dataLen \in Seq(Unit')
      /\ sdp' = sdp /\ gather' = gather /\ found' = found /\ timer' = timer
      /\ replies' = replies
    BY <1>1
<1>10. loop' \in {"idle", "route", "process", "400", "403", "close", "forget"}
       /\ state' \in {"skipHTTPHeader", "dataLength", "dataBody", "processData"}
       /\ state' # "dataLength"
    BY <1>7
<1> QED BY <1>1, <1>5, <1>6, <1>7, <1>8, <1>9, <1>10

LEMMA ProcessDataTypes ==
    ASSUME PeerTypes, ProcessData
    PROVE  PeerTypes'
<1>1. /\ messages' = messages /\ stuns' = stuns
      /\ Stream' = Stream /\ Unit' = Unit
    BY StreamStays DEF PeerNext, LoopStep
<1> USE DEF ProcessData, Processing, PeerTypes, PeerTypeOK, reader
<1>2. acted' \in Seq(Seq(Unit))
    BY AppendProperties
<1>3. {stuns, torn, garbled, inMap, initDone, up, local}' \subseteq BOOLEAN
    BY <1>1
<1>4. loop' \in {"process", "idle", "400"}
    BY DEF ReturnsOn
<1>5. n' <= Len(dataLen')
    BY LenProperties
<1> QED BY <1>1, <1>2, <1>3, <1>4, <1>5

LEMMA OtherTypes ==
    ASSUME PeerTypes, [PeerNext]_peerVars,
           \/ UNCHANGED peerVars
           \/ RouteRefused \/ RoutePeer \/ RouteLocal \/ ProcessDataFails
           \/ LoopReply \/ LoopForget \/ SDPStep \/ GatherFinds \/ GatherEnds
           \/ TimerFires \/ PeerTunnelBreaks
    PROVE  PeerTypes'
<1>1. /\ messages' = messages /\ stuns' = stuns
      /\ Stream' = Stream /\ Unit' = Unit
    BY StreamStays
<1> USE DEF PeerTypes, PeerTypeOK, reader, task, answering, elsewhere
<1>2. <<>> \in Seq(Unit)
    BY EmptySeq
<1>3. CASE UNCHANGED peerVars
    BY <1>1, <1>3 DEF peerVars
<1>4. CASE RouteRefused
    BY <1>1, <1>4 DEF RouteRefused
<1>5. CASE RoutePeer
    BY <1>1, <1>5 DEF RoutePeer
<1>6. CASE RouteLocal
    BY <1>1, <1>2, <1>6 DEF RouteLocal
<1>7. CASE ProcessDataFails
    BY <1>1, <1>7 DEF ProcessDataFails
<1>8. CASE LoopReply
  <2>1. /\ loop' \in {"close", "forget"} /\ replies' \subseteq replies \cup {"400", "403", "close"}
        /\ UNCHANGED <<stuns, messages, sent, reader, inMap, task, answering, up,
                       local>>
      BY <1>8 DEF LoopReply, Reply
  <2> QED BY <1>1, <2>1
<1>9. CASE LoopForget
    BY <1>1, <1>2, <1>9 DEF LoopForget
<1>10. CASE SDPAnswer \/ SDPCandidate \/ SDPReply
  <2>1. /\ sdp' \in {"loop", "close", "forget"} /\ gather' \in {gather, "on"}
        /\ replies' \subseteq replies \cup {"200", "candidate", "end", "400", "close"}
        /\ UNCHANGED <<elsewhere, inMap, found, timer>>
    <3>1. CASE SDPAnswer
        BY <3>1 DEF SDPAnswer, Reply
    <3>2. CASE SDPCandidate
        BY <3>2 DEF SDPCandidate, Reply
    <3>3. CASE SDPReply
        BY <3>3 DEF SDPReply, Reply
    <3> QED BY <1>10, <3>1, <3>2, <3>3
  <2> QED BY <1>1, <2>1
<1>11. CASE SDPGathered \/ SDPExpires \/ SDPForget
  <2>1. /\ sdp' \in {"end", "400", "done"} /\ (inMap' = inMap \/ inMap' = FALSE)
        /\ UNCHANGED <<elsewhere, gather, found, timer, replies>>
      BY <1>11 DEF SDPGathered, SDPExpires, SDPForget
  <2>2. {stuns, torn, garbled, inMap, initDone, up, local}' \subseteq BOOLEAN
      BY <1>1, <2>1
  <2> QED BY <1>1, <2>1, <2>2
<1>12. CASE GatherFinds
    BY <1>1, <1>12, ExchangesAssumption DEF GatherFinds
<1>13. CASE GatherEnds \/ TimerFires \/ PeerTunnelBreaks
  <2>1. /\ gather' \in {gather, "closed"} /\ timer' \in {timer, "canceled", "expired"}
        /\ (up' = up \/ up' = FALSE)
        /\ UNCHANGED <<stuns, messages, sent, reader, loop, inMap, task, sdp,
                       found, replies, local>>
      BY <1>13 DEF GatherEnds, TimerFires, PeerTunnelBreaks
  <2>2. {stuns, torn, garbled, inMap, initDone, up, local}' \subseteq BOOLEAN
      BY <1>1, <2>1
  <2> QED BY <1>1, <2>1, <2>2
<1> QED BY <1>3, <1>4, <1>5, <1>6, <1>7, <1>8, <1>9, <1>10, <1>11, <1>12, <1>13
        DEF SDPStep

LEMMA PeerTypesStep ==
    ASSUME PeerTypes, [PeerNext]_peerVars
    PROVE  PeerTypes'
    BY FrameTypes, SkipHeaderTypes, ReadLengthTypes, ReadBodyTypes,
       ProcessDataTypes, OtherTypes DEF PeerNext, LoopStep

\* An exchange has steps of its own.
LEMMA PathPeerSteps == [PathNext]_dataVars => [PeerNext]_peerVars
    BY DEF PathNext, HTTPData, PeerData, TaskData, dataVars, peerVars

LEMMA PathPeerInit == PathInit => PeerFresh /\ messages \in Exchanges \cup {<<>>}
    BY DEF PathInit, NoExchange

LEMMA PeerTypesHold == PathSpec => []PeerTypes
    BY PathPeerInit, PeerTypesInit, PeerTypesStep, PathPeerSteps, PTL DEF PathSpec

\* The variables of an exchange keep their types (client/peer.go 150-413).
THEOREM PeerTypesCorrect == PathSpec => []PeerTypeOK
    BY PeerTypesHold, PTL DEF PeerTypes

-----------------------------------------------------------------------------
(* What goes to the local service.                                          *)

\* The public side was told that the exchange is over, or cannot be told.
Told == ~up \/ "close" \in replies

\* Until then the frames of the connection have gone to the task: the first
\* begins with the method, and the others find the task in the map.
LocalWaits ==
    Told \/ (/\ ~local /\ loop # "forget" /\ sdp \notin {"forget", "done"}
             /\ loop = "idle" => sent = 0 \/ inMap
             /\ loop = "route" => IsP2P \/ inMap
             /\ loop \in {"process", "400"} => inMap)

LEMMA LocalWaitsStep ==
    ASSUME PeerTypes, LocalWaits, [PeerNext]_peerVars
    PROVE  LocalWaits'
<1>1. up' \in {up, FALSE} /\ replies \subseteq replies'
  <2> USE DEF reader, task, answering, elsewhere, peerVars, Reply
  <2>1. CASE UNCHANGED peerVars
      BY <2>1
  <2>2. CASE \E k \in 1 .. Len(Stream) - sent : FrameArrives(k)
      BY <2>2 DEF FrameArrives
  <2>3. CASE LoopStep
      BY <2>3 DEF LoopStep, RouteRefused, RoutePeer, RouteLocal, SkipHeader,
                  ReadLength, ReadBody, ProcessData, ProcessDataFails, LoopReply,
                  LoopForget
  <2>4. CASE SDPStep
      BY <2>4 DEF SDPStep, SDPAnswer, SDPCandidate, SDPGathered, SDPExpires,
                  SDPReply, SDPForget
  <2>5. CASE GatherFinds \/ GatherEnds \/ TimerFires \/ PeerTunnelBreaks
      BY <2>5 DEF GatherFinds, GatherEnds, TimerFires, PeerTunnelBreaks
  <2> QED BY <2>1, <2>2, <2>3, <2>4, <2>5 DEF PeerNext
<1>2. CASE Told
  <2>1. up \in BOOLEAN
      BY DEF PeerTypes, PeerTypeOK
  <2> QED BY <1>1, <1>2, <2>1 DEF LocalWaits, Told
<1>3. CASE ~Told
  <2> USE <1>3 DEF LocalWaits, IsP2P, reader, task, answering, elsewhere
  <2>1. CASE UNCHANGED peerVars
      BY <2>1 DEF peerVars, Told
  <2>2. ASSUME NEW k \in 1 .. Len(Stream) - sent, FrameArrives(k)
        PROVE  LocalWaits'
    <3>1. CASE inMap
        BY <2>2, <3>1 DEF FrameArrives, Told
    <3>2. CASE ~inMap
      <4>1. sent = 0
          BY <2>2, <3>2 DEF FrameArrives
      <4>2. /\ Stream \in Seq(Unit) /\ Len(Stream) \in Nat
            /\ Stream[1] = <<0, 1>>
          BY PeerTypesSendable, StreamFacts
      <4>3. k \in 0 .. Len(Stream) /\ 1 \in 1 .. k
          BY <4>1, <4>2
      <4>4. SubSeq(Stream, 1, k)[1] = <<0, 1>>
          BY <4>2, <4>3, CutFacts
      <4>5. frame' = SubSeq(Stream, 1, k)
          BY <2>2, <4>1, <4>3 DEF FrameArrives
      <4>6. IsP2P'
          BY <4>4, <4>5
      <4> QED BY <2>2, <4>6 DEF FrameArrives, Told
    <3> QED BY <3>1, <3>2
  <2>3. CASE RouteRefused \/ RoutePeer \/ RouteLocal
      BY <2>3 DEF RouteRefused, RoutePeer, RouteLocal, Told
  <2>4. CASE SkipHeader \/ ProcessData \/ ProcessDataFails
      BY <2>4 DEF SkipHeader, ProcessData, ProcessDataFails, Processing, ReturnsOn,
                  Told
  <2>5. CASE ReadLength \/ ReadBody
    <3>1. /\ loop = "process" /\ loop' \in {"process", "idle", "400"}
          /\ UNCHANGED <<inMap, sdp, up, replies, local>>
        BY <2>5 DEF ReadLength, ReadBody, Processing, ReturnsOn
    <3> QED BY <3>1 DEF Told
  <2>6. CASE LoopReply \/ LoopForget
      BY <2>6 DEF LoopReply, LoopForget, Reply, Told
  <2>7. CASE SDPStep
      BY <2>7 DEF SDPStep, SDPAnswer, SDPCandidate, SDPGathered, SDPExpires,
                  SDPReply, SDPForget, Reply, Told
  <2>8. CASE GatherFinds \/ GatherEnds \/ TimerFires \/ PeerTunnelBreaks
      BY <2>8 DEF GatherFinds, GatherEnds, TimerFires, PeerTunnelBreaks, Told
  <2> QED BY <2>1, <2>2, <2>3, <2>4, <2>5, <2>6, <2>7, <2>8 DEF PeerNext, LoopStep
<1> QED BY <1>2, <1>3

\* Nothing of an exchange reaches the local service before the close frame of
\* the exchange was sent (client/conn.go 251-269, client/peer.go 190-211).
THEOREM LocalWaitsForClose == PathSpec => []LocalOnlyAfterClose
<1>1. PathInit => LocalWaits
    BY PathPeerInit DEF PeerFresh, LocalWaits
<1>2. LocalWaits => LocalOnlyAfterClose
    BY DEF LocalWaits, LocalOnlyAfterClose, Told
<1> QED BY <1>1, <1>2, PeerTypesHold, LocalWaitsStep, PathPeerSteps, PTL
        DEF PathSpec

-----------------------------------------------------------------------------
(* The order of the messages.                                               *)

\* The units of the stream that were taken out of frames.
Behind == sent - Len(frame)

\* The message that is read.
Reading == Len(acted) + 1

\* WebRTC took the first messages, as they were sent.
Whole ==
    /\ Len(acted) <= Len(messages)
    /\ \A i \in DOMAIN acted : acted[i] = Text(i)
    /\ ~initDone => acted = <<>>
    /\ loop # "idle" => sent > 0

\* The exchange was refused or forgotten: no frame gets to the task again.
Over ==
    \/ loop \in {"400", "403", "close", "forget"}
    \/ loop = "idle" /\ ~inMap /\ sent > 0
    \/ loop = "route" /\ ~inMap /\ ~IsP2P

\* A message WebRTC could not use is never left behind.
Stuck ==
    /\ state = "processData" /\ initDone
    /\ ~(acted # <<>> /\ Kind(dataLen) = "candidate")

\* The reader is where the task believes it to be.
Aligned ==
    /\ Len(frame) <= sent
    /\ \A i \in 1 .. Len(frame) : frame[i] = Stream[Behind + i]
    /\ loop = "idle" => frame = <<>>
    /\ readErr # "malformed" /\ (readErr = "EOF" => frame = <<>>)
    /\ state = "skipHTTPHeader" => Behind = 0 /\ acted = <<>>
    /\ state = "dataLength" =>
          /\ n < 2 /\ Behind = EndOf(Len(acted)) + n
          /\ \A u \in 1 .. n : dataLen[u] = <<Reading, u>>
    /\ state \in {"dataBody", "processData"} =>
          /\ Reading <= Len(messages) /\ dataLen[1] = <<Reading, 1>>
          /\ \A u \in 1 .. n : data[u] = <<Reading, u + 2>>
    /\ state = "dataBody" =>
          n <= Size(messages[Reading]) /\ Behind = EndOf(Len(acted)) + 2 + n
    /\ state = "processData" =>
          /\ n = Size(messages[Reading]) /\ Len(data) = n
          /\ Behind = EndOf(Reading)

OrderInv == garbled \/ (Whole /\ (Over \/ Stuck \/ Aligned))

\* What the other goroutine, WebRTC and the tunnel do not touch.
readLoopVars == <<messages, sent, reader, loop, task>>

LEMMA OthersTouchNothing ==
    ASSUME \/ UNCHANGED peerVars
           \/ SDPStep \/ GatherFinds \/ GatherEnds \/ TimerFires
           \/ PeerTunnelBreaks
    PROVE  UNCHANGED readLoopVars /\ (inMap' = inMap \/ inMap' = FALSE)
<1> USE DEF readLoopVars, elsewhere, answering, peerVars
<1>1. CASE UNCHANGED peerVars
    BY <1>1
<1>2. CASE SDPStep
    BY <1>2 DEF SDPStep, SDPAnswer, SDPCandidate, SDPGathered, SDPExpires,
                SDPReply, SDPForget
<1>3. CASE GatherFinds \/ GatherEnds \/ TimerFires \/ PeerTunnelBreaks
    BY <1>3 DEF GatherFinds, GatherEnds, TimerFires, PeerTunnelBreaks
<1> QED BY <1>1, <1>2, <1>3

LEMMA OthersKeepOrder ==
    ASSUME PeerTypes, OrderInv, [PeerNext]_peerVars,
           UNCHANGED readLoopVars, inMap' = inMap \/ inMap' = FALSE
    PROVE  OrderInv'
<1>1. /\ messages' = messages /\ Stream' = Stream /\ StreamUpTo' = StreamUpTo
    BY StreamStays
<1>2. /\ sent' = sent /\ frame' = frame /\ garbled' = garbled /\ readErr' = readErr
      /\ loop' = loop /\ state' = state /\ n' = n /\ dataLen' = dataLen
      /\ data' = data /\ initDone' = initDone /\ acted' = acted
    BY DEF readLoopVars, reader, task
<1>3. CASE garbled
    BY <1>2, <1>3 DEF OrderInv
<1>4. CASE Whole /\ (Over \/ Stuck \/ Aligned)
  <2>1. Whole'
      BY <1>1, <1>2, <1>4 DEF Whole, Text
  <2>2. Over => Over'
      BY <1>2 DEF Over, IsP2P
  <2>3. Stuck => Stuck'
      BY <1>1, <1>2 DEF Stuck, Kind
  <2>4. Aligned => Aligned'
      BY <1>1, <1>2 DEF Aligned, Behind, Reading, EndOf
  <2> QED BY <1>4, <2>1, <2>2, <2>3, <2>4 DEF OrderInv
<1> QED BY <1>3, <1>4 DEF OrderInv

\* A frame that arrives goes on where the last one ended.
LEMMA FrameKeepsOrder ==
    ASSUME PeerTypes, OrderInv, NEW k \in 1 .. Len(Stream) - sent, FrameArrives(k)
    PROVE  OrderInv'
<1>1. /\ messages' = messages /\ Stream' = Stream /\ StreamUpTo' = StreamUpTo
    BY StreamStays DEF PeerNext
<1>2. /\ loop = "idle" /\ loop' = "route" /\ sent' = sent + k
      /\ frame' = SubSeq(Stream, sent + 1, sent + k) /\ readErr' = "nil"
      /\ state' = state /\ n' = n /\ dataLen' = dataLen /\ inMap' = inMap
      /\ data' = data /\ initDone' = initDone /\ acted' = acted
      /\ garbled => garbled'
    BY DEF FrameArrives, task
<1>3. CASE garbled
    BY <1>2, <1>3 DEF OrderInv
<1>4. CASE Whole /\ (Over \/ Stuck \/ Aligned)
  <2>1. /\ Stream \in Seq(Unit) /\ Len(Stream) \in Nat /\ sent \in Nat
        /\ \A i \in 2 .. Len(Stream) : Stream[i] # <<0, 1>>
      BY PeerTypesSendable, StreamFacts DEF PeerTypes, PeerTypeOK
  <2>2. Whole'
      BY <1>1, <1>2, <1>4, <2>1 DEF Whole, Text
  <2>3. /\ Len(frame') = k
        /\ \A i \in 1 .. k : frame'[i] = Stream[sent + i]
    <3>1. sent + k <= Len(Stream) /\ k \in Nat
        BY <2>1
    <3> QED BY <1>2, <2>1, <3>1, SpanFacts
  <2>4. CASE Over
    <3>1. ~inMap /\ sent > 0
        BY <1>2, <2>4 DEF Over
    <3>2. frame'[1] = Stream[sent + 1] /\ sent + 1 \in 2 .. Len(Stream)
        BY <2>1, <2>3, <3>1
    <3>3. Over'
        BY <1>2, <2>1, <3>1, <3>2 DEF Over, IsP2P
    <3> QED BY <2>2, <3>3 DEF OrderInv
  <2>5. CASE Stuck
    <3>1. Stuck'
        BY <1>1, <1>2, <2>5 DEF Stuck, Kind
    <3> QED BY <2>2, <3>1 DEF OrderInv
  <2>6. CASE Aligned
    <3>1. frame = <<>> /\ Len(frame) = 0 /\ Behind = sent
      <4>1. frame = <<>> /\ Len(<<>>) = 0
          BY <1>2, <2>6, EmptySeq DEF Aligned
      <4> QED BY <2>1, <4>1 DEF Behind
    <3>2. Behind' = sent /\ Len(frame') <= sent'
      <4>1. sent' = sent + k /\ Len(frame') = k /\ k \in Nat
          BY <1>2, <2>1, <2>3
      <4>2. (sent + k) - k = sent /\ k <= sent + k
          BY <2>1, <4>1
      <4> QED BY <4>1, <4>2 DEF Behind
    <3>3. \A i \in 1 .. Len(frame') : frame'[i] = Stream'[Behind' + i]
        BY <1>1, <2>3, <3>2
    <3>4. Aligned'
        BY <1>1, <1>2, <2>6, <3>1, <3>2, <3>3 DEF Aligned, Reading, EndOf
    <3> QED BY <2>2, <3>4 DEF OrderInv
  <2> QED BY <1>4, <2>4, <2>5, <2>6
<1> QED BY <1>3, <1>4 DEF OrderInv

\* Where a frame goes, and what is answered and forgotten.
LEMMA RoutesKeepOrder ==
    ASSUME PeerTypes, OrderInv,
           RouteRefused \/ RoutePeer \/ RouteLocal \/ LoopReply \/ LoopForget
    PROVE  OrderInv'
<1>1. /\ messages' = messages /\ Stream' = Stream /\ StreamUpTo' = StreamUpTo
    BY StreamStays DEF PeerNext, LoopStep
<1>2. /\ sent' = sent /\ garbled' = garbled /\ readErr' = readErr
      /\ state' = state /\ n' = n /\ dataLen' = dataLen
      /\ data' = data /\ initDone' = initDone /\ acted' = acted
      /\ loop # "idle" /\ loop' # "route"
    BY DEF RouteRefused, RoutePeer, RouteLocal, LoopReply, LoopForget, reader, task
<1>3. CASE garbled
    BY <1>2, <1>3 DEF OrderInv
<1>4. CASE Whole /\ (Over \/ Stuck \/ Aligned)
  <2>1. Whole' /\ sent' > 0
      BY <1>1, <1>2, <1>4 DEF Whole, Text
  <2>2. CASE RouteRefused \/ LoopReply
    <3>1. Over'
        BY <2>2 DEF RouteRefused, LoopReply, Over
    <3> QED BY <2>1, <3>1 DEF OrderInv
  <2>3. CASE RouteLocal \/ LoopForget
    <3>1. loop' = "idle" /\ ~inMap'
        BY <2>3 DEF RouteLocal, LoopForget
    <3> QED BY <2>1, <3>1 DEF OrderInv, Over
  <2>4. CASE RoutePeer
    <3>1. /\ loop = "route" /\ loop' = "process" /\ (IsP2P \/ inMap)
          /\ frame' = frame
        BY <2>4 DEF RoutePeer, reader
    <3>2. ~Over
        BY <3>1 DEF Over
    <3>3. Stuck => Stuck'
        BY <1>1, <1>2 DEF Stuck, Kind
    <3>4. Aligned => Aligned'
        BY <1>1, <1>2, <3>1 DEF Aligned, Behind, Reading, EndOf
    <3> QED BY <1>4, <2>1, <3>2, <3>3, <3>4 DEF OrderInv
  <2> QED BY <2>2, <2>3, <2>4
<1> QED BY <1>3, <1>4 DEF OrderInv

\* Where there is a unit to come, a message is.
LEMMA ReadingThere ==
    ASSUME PeerTypes, Whole, Aligned, EndOf(Len(acted)) < sent
    PROVE  Reading \in 1 .. Len(messages) /\ Reading - 1 = Len(acted)
<1>1. Sendable
    BY PeerTypesSendable
<1>2. Len(acted) \in Nat /\ Len(messages) \in Nat
    BY <1>1, LenProperties DEF PeerTypes, PeerTypeOK, Sendable
<1>3. /\ EndOf(Len(messages)) = Len(Stream) /\ Len(Stream) \in Nat
      /\ sent \in Nat /\ sent <= Len(Stream)
    BY <1>1, StreamFacts DEF PeerTypes, PeerTypeOK
<1>4. Len(acted) # Len(messages)
    BY <1>3
<1> QED BY <1>2, <1>4 DEF Reading, Whole

\* What a read brings, and what it leaves, while nothing was lost.
LEMMA AlignedRead ==
    ASSUME PeerTypes, Aligned, ~garbled, NEW w \in Nat, NEW k \in Nat,
           NEW err \in {"nil", "EOF", "malformed"}, Reads(w, k, err), sent' = sent
    PROVE  /\ k <= w /\ k \in 0 .. Len(frame) /\ frame' \in Seq(Unit)
           /\ Len(frame') = Len(frame) - k /\ Len(frame') <= sent
           /\ Behind' = Behind + k /\ Behind \in Nat /\ Behind + k <= sent
           /\ \A i \in 1 .. Len(frame') : frame'[i] = Stream[Behind + k + i]
           /\ \A i \in 1 .. k : Got(k)[i] = Stream[Behind + i]
           /\ err # "malformed"
           /\ err = "nil" => k = w
           /\ err = "EOF" => frame' = <<>>
<1>1. frame \in Seq(Unit) /\ Len(frame) \in Nat /\ sent \in Nat
    BY PeerTypesSendable, StreamFacts, LenProperties DEF PeerTypes, PeerTypeOK
<1>2. k <= w /\ k \in 0 .. Len(frame) /\ frame' = SubSeq(frame, k + 1, Len(frame))
    BY <1>1 DEF Reads
<1>3. /\ frame' \in Seq(Unit) /\ Len(frame') = Len(frame) - k
      /\ \A i \in 1 .. Len(frame) - k : frame'[i] = frame[k + i]
      /\ \A i \in 1 .. k : Got(k)[i] = frame[i]
    BY <1>1, <1>2, CutFacts DEF Got
<1>4. /\ Len(frame) <= sent /\ \A i \in 1 .. Len(frame) : frame[i] = Stream[Behind + i]
      /\ readErr # "malformed" /\ (readErr = "EOF" => frame = <<>>)
    BY DEF Aligned
<1>5. /\ Behind \in Nat /\ Behind' = Behind + k /\ Behind + k <= sent
      /\ Len(frame') <= sent
  <2>1. /\ sent - Len(frame) \in Nat /\ k \in Nat /\ k <= Len(frame)
        /\ sent - (Len(frame) - k) = sent - Len(frame) + k
        /\ sent - Len(frame) + k <= sent /\ Len(frame) - k <= sent
      BY <1>1, <1>2, <1>4
  <2>2. sent' - Len(frame') = sent - (Len(frame) - k)
      BY <1>3
  <2> QED BY <1>3, <2>1, <2>2 DEF Behind
<1>6. ASSUME NEW i \in 1 .. Len(frame') PROVE frame'[i] = Stream[Behind + k + i]
  <2>1. k + i \in 1 .. Len(frame) /\ i \in 1 .. Len(frame) - k
      BY <1>1, <1>2, <1>3
  <2>2. Behind + (k + i) = Behind + k + i
      BY <1>5, <2>1
  <2> QED BY <1>3, <1>4, <2>1, <2>2
<1>7. ASSUME NEW i \in 1 .. k PROVE Got(k)[i] = Stream[Behind + i]
  <2>1. i \in 1 .. Len(frame)
      BY <1>1, <1>2
  <2> QED BY <1>3, <1>4, <2>1
<1>8. err # "malformed" /\ (err = "nil" => k = w)
    BY <1>4 DEF Reads
<1>9. err = "EOF" => frame' = <<>>
  <2>1. SUFFICES ASSUME err = "EOF" PROVE Len(frame') = 0
      BY <1>3, EmptySeq
  <2>2. k = Len(frame)
      BY <2>1 DEF Reads
  <2> QED BY <1>1, <1>3, <2>2
<1> QED BY <1>2, <1>3, <1>5, <1>6, <1>7, <1>8, <1>9

LEMMA SkipHeaderKeepsOrder ==
    ASSUME PeerTypes, OrderInv, SkipHeader
    PROVE  OrderInv'
<1>1. /\ messages' = messages /\ Stream' = Stream /\ StreamUpTo' = StreamUpTo
    BY StreamStays DEF PeerNext, LoopStep
<1>2. /\ sent' = sent /\ garbled' = garbled /\ readErr' = readErr /\ n' = n
      /\ dataLen' = dataLen /\ data' = data /\ initDone' = initDone
      /\ acted' = acted /\ loop = "process" /\ state = "skipHTTPHeader"
    BY DEF SkipHeader, Processing
<1>3. CASE garbled
    BY <1>2, <1>3 DEF OrderInv
<1>4. CASE Whole /\ (Over \/ Stuck \/ Aligned)
  <2>1. Whole'
      BY <1>1, <1>2, <1>4 DEF Whole, Text
  <2>2. Aligned
      BY <1>2, <1>4 DEF Over, Stuck
  <2>3. CASE ~HeaderInFrame
    <3>1. Over'
        BY <2>3 DEF SkipHeader, Over
    <3> QED BY <2>1, <3>1 DEF OrderInv
  <2>4. CASE HeaderInFrame
    <3>1. /\ frame' = SubSeq(frame, 3, Len(frame)) /\ state' = "dataLength"
          /\ loop' = "process"
        BY <1>2, <2>4 DEF SkipHeader
    <3>2. /\ frame \in Seq(Unit) /\ Len(frame) \in Nat /\ sent \in Nat
          /\ 2 \in 0 .. Len(frame)
        BY <2>4, PeerTypesSendable, StreamFacts, LenProperties
        DEF PeerTypes, PeerTypeOK, HeaderInFrame
    <3>3. /\ Len(frame') = Len(frame) - 2
          /\ \A i \in 1 .. Len(frame) - 2 : frame'[i] = frame[2 + i]
      <4>1. frame' = SubSeq(frame, 2 + 1, Len(frame))
          BY <3>1
      <4> QED BY <3>2, <4>1, CutFacts
    <3>4. sent - Len(frame) = 0 /\ acted = <<>> /\ n = 0
        BY <1>2, <2>2 DEF Aligned, Behind, PeerTypes
    <3>5. Behind' = 2 /\ Len(frame') <= sent'
        BY <1>2, <3>2, <3>3, <3>4 DEF Behind
    <3>6. ASSUME NEW i \in 1 .. Len(frame') PROVE frame'[i] = Stream'[Behind' + i]
      <4>1. 2 + i \in 1 .. Len(frame) /\ i \in 1 .. Len(frame) - 2
          BY <3>2, <3>3
      <4>2. \A j \in 1 .. Len(frame) : frame[j] = Stream[(sent - Len(frame)) + j]
          BY <2>2 DEF Aligned, Behind
      <4>3. frame[2 + i] = Stream[2 + i]
          BY <3>4, <4>1, <4>2
      <4> QED BY <1>1, <3>3, <3>5, <4>1, <4>3
    <3>7. readErr' = "EOF" => frame' = <<>>
      <4>1. readErr = "EOF" => Len(frame) = 0
          BY <2>2, EmptySeq DEF Aligned
      <4> QED BY <1>2, <3>2, <4>1
    <3>8. Behind' = EndOf(Len(acted))' + n'
      <4>1. EndOf(0) = 2 /\ Len(<<>>) = 0
          BY PeerTypesSendable, StreamStarts, EmptySeq
      <4> QED BY <1>1, <1>2, <3>4, <3>5, <4>1 DEF EndOf
    <3>9. Aligned'
        BY <1>2, <2>2, <3>1, <3>4, <3>5, <3>6, <3>7, <3>8 DEF Aligned
    <3> QED BY <2>1, <3>9 DEF OrderInv
  <2> QED BY <2>3, <2>4
<1> QED BY <1>3, <1>4 DEF OrderInv

LEMMA ReadLengthKeepsOrder ==
    ASSUME PeerTypes, OrderInv, ReadLength
    PROVE  OrderInv'
<1>1. /\ messages' = messages /\ Stream' = Stream /\ StreamUpTo' = StreamUpTo
    BY StreamStays DEF PeerNext, LoopStep
<1>2. /\ sent' = sent /\ garbled' = garbled /\ data' = data
      /\ initDone' = initDone /\ acted' = acted
      /\ loop = "process" /\ state = "dataLength"
    BY DEF ReadLength, Processing
<1>3. CASE garbled
    BY <1>2, <1>3 DEF OrderInv
<1>4. CASE ~garbled /\ Whole /\ (Over \/ Stuck \/ Aligned)
  <2>1. Whole'
      BY <1>1, <1>2, <1>4 DEF Whole, Text
  <2>2. Aligned
      BY <1>2, <1>4 DEF Over, Stuck
  <2>3. /\ n \in 0 .. 1 /\ n <= Len(dataLen) /\ dataLen \in Seq(Unit)
        /\ Len(dataLen) \in Nat /\ frame \in Seq(Unit) /\ sent \in Nat
        /\ Behind = EndOf(Len(acted)) + n /\ EndOf(Len(acted)) \in Nat
        /\ Len(acted) \in Nat
        /\ \A u \in 1 .. n : dataLen[u] = <<Reading, u>>
    <3>1. n \in 0 .. 2 /\ n < 2 /\ n <= Len(dataLen) /\ dataLen \in Seq(Unit)
          /\ frame \in Seq(Unit) /\ acted \in Seq(Seq(Unit))
          /\ Behind = EndOf(Len(acted)) + n
          /\ \A u \in 1 .. n : dataLen[u] = <<Reading, u>>
        BY <1>2, <2>2 DEF PeerTypes, PeerTypeOK, Aligned
    <3>2. Len(acted) \in Nat /\ Len(dataLen) \in Nat
        BY <3>1, LenProperties
    <3>3. Sendable /\ Len(acted) \in 0 .. Len(messages)
        BY <1>4, <3>2, PeerTypesSendable, LenProperties DEF Whole, Sendable
    <3> QED BY <3>1, <3>2, <3>3, StreamFacts DEF PeerTypes, PeerTypeOK
  <2>4. PICK k \in 0 .. 2, err \in {"nil", "EOF", "malformed"} :
          /\ Reads(2 - n, k, err)
          /\ dataLen' = SubSeq(dataLen, 1, n) \o Got(k)
          /\ IF n + k < 2
             THEN ReturnsOn(err) /\ n' = n + k /\ UNCHANGED <<state, readErr>>
             ELSE IF Kind(dataLen') = "long"
             THEN loop' = "400" /\ n' = 2 /\ UNCHANGED <<state, readErr>>
             ELSE /\ n' = 0 /\ state' = "dataBody"
                  /\ readErr' = err /\ UNCHANGED loop
      BY DEF ReadLength
  <2>5. /\ k <= 2 - n /\ k \in 0 .. Len(frame) /\ Len(frame') <= sent
        /\ Behind' = Behind + k /\ Behind + k <= sent
        /\ \A i \in 1 .. Len(frame') : frame'[i] = Stream[Behind + k + i]
        /\ \A i \in 1 .. k : Got(k)[i] = Stream[Behind + i]
        /\ err # "malformed" /\ (err = "nil" => k = 2 - n)
        /\ err = "EOF" => frame' = <<>>
    <3>1. PICK w \in Nat : w = 2 - n /\ Reads(w, k, err) /\ k \in Nat
        BY <2>3, <2>4
    <3>2. /\ k <= w /\ k \in 0 .. Len(frame) /\ Len(frame') <= sent
          /\ Behind' = Behind + k /\ Behind + k <= sent
          /\ \A i \in 1 .. Len(frame') : frame'[i] = Stream[Behind + k + i]
          /\ \A i \in 1 .. k : Got(k)[i] = Stream[Behind + i]
          /\ err # "malformed" /\ (err = "nil" => k = w)
          /\ err = "EOF" => frame' = <<>>
        BY <1>2, <1>4, <2>2, <3>1, AlignedRead
    <3> QED BY <3>1, <3>2
  <2>6. /\ \A i \in 1 .. Len(frame') : frame'[i] = Stream'[Behind' + i]
        /\ Len(frame') <= sent'
      BY <1>1, <1>2, <2>5
  <2>7. k > 0 => Reading \in 1 .. Len(messages) /\ Reading - 1 = Len(acted)
    <3>1. k > 0 => EndOf(Len(acted)) < sent
        BY <2>3, <2>5
    <3> QED BY <1>4, <2>2, <3>1, ReadingThere
  <2>8. ASSUME NEW u \in 1 .. n + k PROVE dataLen'[u] = <<Reading, u>>
    <3>1. dataLen'[u] = IF u <= n THEN dataLen[u] ELSE frame[u - n]
      <4>1. n \in 0 .. Len(dataLen)
          BY <2>3
      <4>2. dataLen \in Seq(Unit) /\ frame \in Seq(Unit) /\ k \in 0 .. Len(frame)
          BY <2>3, <2>5
      <4>3. (SubSeq(dataLen, 1, n) \o SubSeq(frame, 1, k))[u]
                = IF u <= n THEN dataLen[u] ELSE frame[u - n]
          BY <4>1, <4>2, JoinUnit
      <4> QED BY <2>4, <4>3 DEF Got
    <3>2. CASE u <= n
        BY <2>3, <3>1, <3>2
    <3>3. CASE ~(u <= n)
      <4>1. u - n \in 1 .. k /\ k > 0 /\ u \in 1 .. 2
          BY <2>3, <2>5, <3>3
      <4>2. frame[u - n] = Stream[Behind + (u - n)]
        <5>1. u - n \in 1 .. Len(frame)
            BY <2>5, <4>1
        <5> QED BY <2>2, <5>1 DEF Aligned
      <4>3. Behind + (u - n) = EndOf(Len(acted)) + u
          BY <2>3, <4>1
      <4>4. Stream[EndOf(Len(acted)) + u] = <<Reading, u>>
        <5>1. u \in 1 .. 2 + Size(messages[Reading])
            BY <4>1, SizeRange
        <5>2. Stream[EndOf(Reading - 1) + u] = <<Reading, u>>
            BY <2>7, <4>1, <5>1, PeerTypesSendable, MessageFacts
        <5> QED BY <2>7, <4>1, <5>2
      <4> QED BY <3>1, <3>3, <4>2, <4>3, <4>4
    <3> QED BY <3>2, <3>3
  <2>9. Reading' = Reading /\ EndOf(Len(acted))' = EndOf(Len(acted))
      BY <1>1, <1>2 DEF Reading, EndOf
  <2>10. CASE n + k < 2
    <3>1. ReturnsOn(err) /\ n' = n + k /\ state' = state /\ readErr' = readErr
        BY <2>4, <2>10
    <3>2. err = "EOF"
        BY <2>3, <2>4, <2>5, <2>10
    <3>3. loop' = "idle" /\ frame' = <<>>
        BY <2>5, <3>1, <3>2 DEF ReturnsOn
    <3>4. n' < 2 /\ Behind' = EndOf(Len(acted))' + n'
        BY <2>3, <2>5, <2>9, <2>10, <3>1
    <3>5. readErr' # "malformed" /\ state' = "dataLength"
        BY <1>2, <2>2, <3>1 DEF Aligned
    <3>6. \A u \in 1 .. n' : dataLen'[u] = <<Reading', u>>
        BY <2>8, <2>9, <3>1
    <3>7. Aligned'
        BY <2>6, <3>3, <3>4, <3>5, <3>6 DEF Aligned
    <3> QED BY <2>1, <3>7 DEF OrderInv
  <2>11. CASE ~(n + k < 2) /\ Kind(dataLen') = "long"
    <3>1. loop' = "400"
        BY <2>4, <2>11
    <3> QED BY <2>1, <3>1 DEF OrderInv, Over
  <2>12. CASE ~(n + k < 2) /\ Kind(dataLen') # "long"
    <3>1. n' = 0 /\ state' = "dataBody" /\ readErr' = err /\ loop' = "process"
        BY <1>2, <2>4, <2>12
    <3>2. n + k = 2 /\ k > 0
        BY <2>3, <2>5, <2>12
    <3>3. Behind' = EndOf(Len(acted))' + 2 + n'
        BY <2>3, <2>5, <2>9, <3>1, <3>2
    <3>4. Reading' <= Len(messages') /\ dataLen'[1] = <<Reading', 1>>
        BY <1>1, <2>7, <2>8, <2>9, <3>2
    <3>5. n' <= Size(messages[Reading])'
      <4>1. \A s \in 0 .. 2 : 0 <= s
          OBVIOUS
      <4> QED BY <1>1, <2>9, <3>1, <4>1, SizeRange
    <3>6. Aligned'
        BY <2>5, <2>6, <3>1, <3>3, <3>4, <3>5 DEF Aligned
    <3> QED BY <2>1, <3>6 DEF OrderInv
  <2> QED BY <2>10, <2>11, <2>12
<1> QED BY <1>3, <1>4 DEF OrderInv

LEMMA ReadBodyKeepsOrder ==
    ASSUME PeerTypes, OrderInv, ReadBody
    PROVE  OrderInv'
<1>1. /\ messages' = messages /\ Stream' = Stream /\ StreamUpTo' = StreamUpTo
    BY StreamStays DEF PeerNext, LoopStep
<1>2. /\ sent' = sent /\ garbled' = garbled /\ dataLen' = dataLen
      /\ initDone' = initDone /\ acted' = acted
      /\ loop = "process" /\ state = "dataBody"
    BY DEF ReadBody, Processing
<1>3. CASE garbled
    BY <1>2, <1>3 DEF OrderInv
<1>4. CASE ~garbled /\ Whole /\ (Over \/ Stuck \/ Aligned)
  <2>1. Whole'
      BY <1>1, <1>2, <1>4 DEF Whole, Text
  <2>2. Aligned
      BY <1>2, <1>4 DEF Over, Stuck
  <2>3. /\ Len(acted) \in Nat /\ Len(messages) \in Nat
        /\ Reading \in 1 .. Len(messages) /\ Reading - 1 = Len(acted)
    <3>1. Len(acted) \in Nat /\ Len(messages) \in Nat
        BY PeerTypesSendable, LenProperties DEF PeerTypes, PeerTypeOK, Sendable
    <3>2. Len(acted) + 1 <= Len(messages)
        BY <1>2, <2>2 DEF Aligned, Reading
    <3> QED BY <3>1, <3>2 DEF Reading
  <2>4. PICK size \in 0 .. 2 : size = Size(messages[Reading])
      BY SizeRange
  <2>5. Size(Kind(dataLen)) = size
    <3>1. dataLen[1] = <<Reading, 1>>
        BY <1>2, <2>2 DEF Aligned
    <3>2. dataLen[1][1] = Reading
        BY <3>1
    <3> QED BY <2>4, <3>2 DEF Kind
  <2>6. /\ n \in 0 .. size /\ n <= Len(data) /\ data \in Seq(Unit)
        /\ Len(data) \in Nat /\ frame \in Seq(Unit) /\ sent \in Nat
        /\ Behind = EndOf(Len(acted)) + 2 + n /\ EndOf(Len(acted)) \in Nat
        /\ \A u \in 1 .. n : data[u] = <<Reading, u + 2>>
    <3>1. n \in 0 .. 2 /\ n <= size /\ n <= Len(data) /\ data \in Seq(Unit)
          /\ frame \in Seq(Unit) /\ Behind = EndOf(Len(acted)) + 2 + n
          /\ \A u \in 1 .. n : data[u] = <<Reading, u + 2>>
        BY <1>2, <2>2, <2>4 DEF PeerTypes, PeerTypeOK, Aligned
    <3>2. Sendable /\ Len(acted) \in 0 .. Len(messages)
        BY <2>3, PeerTypesSendable
    <3>3. Len(data) \in Nat /\ EndOf(Len(acted)) \in Nat /\ sent \in Nat
        BY <3>1, <3>2, LenProperties, StreamFacts DEF PeerTypes, PeerTypeOK
    <3>4. n \in 0 .. size
        BY <3>1
    <3> QED BY <3>1, <3>3, <3>4
  <2>7. PICK k \in 0 .. size, err \in {"nil", "EOF", "malformed"} :
          /\ Reads(size - n, k, err)
          /\ data' = SubSeq(data, 1, n) \o Got(k)
          /\ n' = n + k
          /\ IF n + k < size
             THEN ReturnsOn(err) /\ UNCHANGED <<state, readErr>>
             ELSE state' = "processData" /\ readErr' = err /\ UNCHANGED loop
      BY <2>5 DEF ReadBody
  <2>8. /\ k <= size - n /\ k \in 0 .. Len(frame) /\ Len(frame') <= sent
        /\ Behind' = Behind + k /\ Behind + k <= sent
        /\ \A i \in 1 .. Len(frame') : frame'[i] = Stream[Behind + k + i]
        /\ err # "malformed" /\ (err = "nil" => k = size - n)
        /\ err = "EOF" => frame' = <<>>
    <3>1. PICK w \in Nat : w = size - n /\ Reads(w, k, err) /\ k \in Nat
        BY <2>6, <2>7
    <3>2. /\ k <= w /\ k \in 0 .. Len(frame) /\ Len(frame') <= sent
          /\ Behind' = Behind + k /\ Behind + k <= sent
          /\ \A i \in 1 .. Len(frame') : frame'[i] = Stream[Behind + k + i]
          /\ err # "malformed" /\ (err = "nil" => k = w)
          /\ err = "EOF" => frame' = <<>>
        BY <1>2, <1>4, <2>2, <3>1, AlignedRead
    <3> QED BY <3>1, <3>2
  <2>9. /\ \A i \in 1 .. Len(frame') : frame'[i] = Stream'[Behind' + i]
        /\ Len(frame') <= sent'
      BY <1>1, <1>2, <2>8
  <2>10. n \in 0 .. Len(data)
      BY <2>6
  <2>11. ASSUME NEW u \in 1 .. n + k PROVE data'[u] = <<Reading, u + 2>>
    <3>1. data'[u] = IF u <= n THEN data[u] ELSE frame[u - n]
      <4>1. data \in Seq(Unit) /\ frame \in Seq(Unit) /\ k \in 0 .. Len(frame)
          BY <2>6, <2>8
      <4>2. (SubSeq(data, 1, n) \o SubSeq(frame, 1, k))[u]
                = IF u <= n THEN data[u] ELSE frame[u - n]
          BY <2>10, <4>1, JoinUnit
      <4> QED BY <2>7, <4>2 DEF Got
    <3>2. CASE u <= n
        BY <2>6, <3>1, <3>2
    <3>3. CASE ~(u <= n)
      <4>1. u - n \in 1 .. k /\ u + 2 \in 1 .. 2 + size
          BY <2>6, <2>8, <3>3
      <4>2. frame[u - n] = Stream[Behind + (u - n)]
        <5>1. u - n \in 1 .. Len(frame)
            BY <2>8, <4>1
        <5> QED BY <2>2, <5>1 DEF Aligned
      <4>3. Behind + (u - n) = EndOf(Len(acted)) + (u + 2)
          BY <2>6, <4>1
      <4>4. Stream[EndOf(Reading - 1) + (u + 2)] = <<Reading, u + 2>>
          BY <2>3, <2>4, <4>1, PeerTypesSendable, MessageFacts
      <4> QED BY <2>3, <3>1, <3>3, <4>2, <4>3, <4>4
    <3> QED BY <3>2, <3>3
  <2>12. Len(data') = n + k
    <3>1. data \in Seq(Unit) /\ frame \in Seq(Unit) /\ k \in 0 .. Len(frame)
        BY <2>6, <2>8
    <3> QED BY <2>7, <2>10, <3>1, JoinFacts DEF Got
  <2>13. Reading' = Reading /\ EndOf(Len(acted))' = EndOf(Len(acted))
      BY <1>1, <1>2 DEF Reading, EndOf
  <2>14. /\ Reading' <= Len(messages') /\ dataLen'[1] = <<Reading', 1>>
         /\ \A u \in 1 .. n' : data'[u] = <<Reading', u + 2>>
         /\ Size(messages[Reading])' = size
    <3>1. dataLen'[1] = <<Reading', 1>>
        BY <1>2, <2>2, <2>13 DEF Aligned
    <3>2. \A u \in 1 .. n' : data'[u] = <<Reading', u + 2>>
        BY <2>7, <2>11, <2>13
    <3>3. Size(messages[Reading])' = Size(messages[Reading])
        BY <1>1, <2>13 DEF Size
    <3>4. Reading' <= Len(messages')
        BY <1>1, <2>3, <2>13
    <3> QED BY <2>4, <3>1, <3>2, <3>3, <3>4
  <2>15. CASE n + k < size
    <3>1. ReturnsOn(err) /\ n' = n + k /\ state' = "dataBody" /\ readErr' = readErr
        BY <1>2, <2>7, <2>15
    <3>2. err = "EOF"
      <4>1. k # size - n
          BY <2>6, <2>15
      <4> QED BY <2>8, <4>1
    <3>3. loop' = "idle" /\ frame' = <<>>
        BY <2>8, <3>1, <3>2 DEF ReturnsOn
    <3>4. n' <= size /\ Behind' = EndOf(Len(acted))' + 2 + n'
      <4>1. n + k <= size /\ k \in Nat /\ n \in Nat
          BY <2>6, <2>15
      <4>2. Behind' = EndOf(Len(acted)) + 2 + n + k
          BY <2>6, <2>8
      <4> QED BY <2>6, <2>13, <3>1, <4>1, <4>2
    <3>5. readErr' # "malformed"
        BY <2>2, <3>1 DEF Aligned
    <3>6. Aligned'
        BY <2>9, <2>14, <3>1, <3>3, <3>4, <3>5 DEF Aligned
    <3> QED BY <2>1, <3>6 DEF OrderInv
  <2>16. CASE ~(n + k < size)
    <3>1. n' = size /\ state' = "processData" /\ readErr' = err /\ loop' = "process"
        BY <1>2, <2>6, <2>7, <2>8, <2>16
    <3>2. Len(data') = n'
        BY <2>7, <2>12
    <3>3. Behind' = EndOf(Reading)'
      <4>1. EndOf(Reading) = EndOf(Len(acted)) + 2 + size
          BY <2>3, <2>4, PeerTypesSendable, MessageFacts
      <4>2. Behind' = EndOf(Len(acted)) + 2 + size
          BY <2>6, <2>7, <2>8, <3>1
      <4>3. EndOf(Reading)' = EndOf(Reading)
          BY <1>1, <2>13 DEF EndOf
      <4> QED BY <4>1, <4>2, <4>3
    <3>4. Aligned'
        BY <2>8, <2>9, <2>14, <3>1, <3>2, <3>3 DEF Aligned
    <3> QED BY <2>1, <3>4 DEF OrderInv
  <2> QED BY <2>15, <2>16
<1> QED BY <1>3, <1>4 DEF OrderInv

LEMMA ProcessDataKeepsOrder ==
    ASSUME PeerTypes, OrderInv, ProcessData
    PROVE  OrderInv'
<1>1. /\ messages' = messages /\ Stream' = Stream /\ StreamUpTo' = StreamUpTo
    BY StreamStays DEF PeerNext, LoopStep
<1>2. /\ sent' = sent /\ garbled' = garbled /\ frame' = frame
      /\ readErr' = readErr /\ data' = data /\ dataLen' = dataLen
      /\ initDone' = TRUE /\ acted' = Append(acted, data)
      /\ n' = 0 /\ state' = "dataLength"
      /\ loop = "process" /\ state = "processData" /\ Usable
    BY DEF ProcessData, Processing, reader
<1>3. CASE garbled
    BY <1>2, <1>3 DEF OrderInv
<1>4. CASE ~garbled /\ Whole /\ (Over \/ Stuck \/ Aligned)
  <2>1. Aligned
      BY <1>2, <1>4 DEF Over, Stuck, Usable
  <2>2. /\ Len(acted) \in Nat /\ Len(messages) \in Nat
        /\ acted \in Seq(Seq(Unit)) /\ data \in Seq(Unit) /\ Sendable
      BY PeerTypesSendable, LenProperties DEF PeerTypes, PeerTypeOK, Sendable
  <2>3. /\ Reading \in 1 .. Len(messages) /\ Reading = Len(acted) + 1
        /\ n = Size(messages[Reading]) /\ Len(data) = n
        /\ Behind = EndOf(Reading)
        /\ \A u \in 1 .. n : data[u] = <<Reading, u + 2>>
    <3>1. Reading <= Len(messages)
        BY <1>2, <2>1 DEF Aligned
    <3>2. Reading \in 1 .. Len(messages)
        BY <2>2, <3>1 DEF Reading
    <3> QED BY <1>2, <2>1, <3>2 DEF Aligned, Reading
  <2>4. data = Text(Reading)
    <3>1. PICK x \in Seq(Unit) : x = Text(Reading) /\ Len(x) = n
                                 /\ \A u \in 1 .. n : x[u] = <<Reading, u + 2>>
        BY <2>2, <2>3, TextFacts
    <3>2. Len(data) = Len(x) /\ \A u \in 1 .. Len(data) : data[u] = x[u]
        BY <2>3, <3>1
    <3>3. data = x
        BY <2>2, <3>2, SeqEqual
    <3> QED BY <3>1, <3>3
  <2>5. /\ Len(acted') = Reading /\ acted'[Reading] = data
        /\ DOMAIN acted' = 1 .. Reading
        /\ \A i \in 1 .. Len(acted) : acted'[i] = acted[i]
    <3>1. /\ acted' \in Seq(Seq(Unit)) /\ Len(acted') = Len(acted) + 1
          /\ acted'[Len(acted) + 1] = data
          /\ \A i \in 1 .. Len(acted) : acted'[i] = acted[i]
        BY <1>2, <2>2, AppendProperties
    <3> QED BY <2>3, <3>1, LenProperties
  <2>6. \A i \in DOMAIN acted' : acted'[i] = Text(i)
    <3>1. DOMAIN acted = 1 .. Len(acted)
        BY <2>2, LenProperties
    <3>2. \A i \in 1 .. Reading : i = Reading \/ i \in 1 .. Len(acted)
        BY <2>2, <2>3
    <3> QED BY <1>4, <2>4, <2>5, <3>1, <3>2 DEF Whole
  <2>7. Whole'
    <3>1. \A i \in DOMAIN acted' : acted'[i] = Text(i)'
        BY <1>1, <2>6 DEF Text
    <3>2. sent' > 0 /\ Len(acted') <= Len(messages')
        BY <1>1, <1>2, <1>4, <2>3, <2>5 DEF Whole
    <3> QED BY <1>2, <3>1, <3>2 DEF Whole
  <2>8. loop' = "idle" => frame' = <<>>
      BY <1>2, <2>1 DEF ProcessData, ReturnsOn, Aligned
  <2>9. Behind' = Behind
      BY <1>2 DEF Behind
  <2>10. EndOf(Len(acted))' = EndOf(Reading)
      BY <1>1, <2>5 DEF EndOf
  <2>11. Behind' = EndOf(Len(acted))' + n' /\ n' < 2
    <3>1. EndOf(Reading) \in Nat
      <4>1. Reading \in 0 .. Len(messages)
          BY <2>2, <2>3
      <4> QED BY <2>2, <4>1, StreamFacts
    <3> QED BY <1>2, <2>3, <2>9, <2>10, <3>1
  <2>12. Aligned'
    <3>1. \A u \in 1 .. n' : dataLen'[u] = <<Reading', u>>
        BY <1>2
    <3>2. \A i \in 1 .. Len(frame') : frame'[i] = Stream'[Behind' + i]
        BY <1>1, <1>2, <2>1, <2>9 DEF Aligned
    <3> QED BY <1>2, <2>1, <2>8, <2>11, <3>1, <3>2 DEF Aligned
  <2> QED BY <2>7, <2>12 DEF OrderInv
<1> QED BY <1>3, <1>4 DEF OrderInv

LEMMA FailsKeepOrder ==
    ASSUME PeerTypes, OrderInv, ProcessDataFails
    PROVE  OrderInv'
<1>1. messages' = messages
    BY StreamStays DEF PeerNext, LoopStep
<1>2. /\ sent' = sent /\ garbled' = garbled /\ acted' = acted
      /\ dataLen' = dataLen /\ initDone' = TRUE /\ state' = "processData"
      /\ loop = "process" /\ ~Usable
    BY DEF ProcessDataFails, Processing, reader
<1>3. CASE garbled
    BY <1>2, <1>3 DEF OrderInv
<1>4. CASE Whole /\ (Over \/ Stuck \/ Aligned)
  <2>1. Whole'
      BY <1>1, <1>2, <1>4 DEF Whole, Text
  <2>2. ~(acted # <<>> /\ Kind(dataLen) = "candidate")
      BY <1>2, <1>4 DEF Usable, Whole
  <2>3. Stuck'
      BY <1>1, <1>2, <2>2 DEF Stuck, Kind
  <2> QED BY <2>1, <2>3 DEF OrderInv
<1> QED BY <1>3, <1>4 DEF OrderInv

LEMMA OrderInvStep ==
    ASSUME PeerTypes, OrderInv, [PeerNext]_peerVars
    PROVE  OrderInv'
<1>1. CASE \/ UNCHANGED peerVars
           \/ SDPStep \/ GatherFinds \/ GatherEnds \/ TimerFires
           \/ PeerTunnelBreaks
    BY <1>1, OthersTouchNothing, OthersKeepOrder
<1>2. CASE \E k \in 1 .. Len(Stream) - sent : FrameArrives(k)
    BY <1>2, FrameKeepsOrder
<1>3. CASE LoopStep
    BY <1>3, RoutesKeepOrder, SkipHeaderKeepsOrder, ReadLengthKeepsOrder,
       ReadBodyKeepsOrder, ProcessDataKeepsOrder, FailsKeepOrder DEF LoopStep
<1> QED BY <1>1, <1>2, <1>3 DEF PeerNext

LEMMA OrderInvInit == PeerFresh /\ messages \in Exchanges \cup {<<>>} => OrderInv
<1> SUFFICES ASSUME PeerFresh, messages \in Exchanges \cup {<<>>} PROVE OrderInv
    OBVIOUS
<1>1. Sendable
    BY PeerTypesInit, PeerTypesSendable
<1>2. Len(<<>>) = 0 /\ Len(messages) \in Nat /\ \A i \in DOMAIN <<>> : FALSE
    BY <1>1, EmptySeq, LenProperties DEF Sendable
<1>3. Whole
    BY <1>2 DEF PeerFresh, Whole
<1>4. Aligned
  <2>1. /\ sent = 0 /\ frame = <<>> /\ loop = "idle" /\ readErr = "nil"
        /\ state = "skipHTTPHeader" /\ acted = <<>>
      BY DEF PeerFresh
  <2>2. Len(frame) = 0 /\ Behind = 0
    <3>1. Len(frame) = 0
        BY <2>1, EmptySeq
    <3>2. sent - Len(frame) = 0 - 0
        BY <2>1, <3>1
    <3> QED BY <3>1, <3>2 DEF Behind
  <2>3. \A i \in 1 .. Len(frame) : frame[i] = Stream[Behind + i]
      BY <2>2
  <2> QED BY <2>1, <2>2, <2>3 DEF Aligned
<1> QED BY <1>3, <1>4 DEF OrderInv

\* WebRTC is given the messages as they were sent, whole, in order and once
\* each, wherever frames end, as long as none ended inside the framing of a
\* chunk (client/peer.go 253-355).
THEOREM MessagesComeInOrder == PathSpec => []MessagesInOrder
<1>1. PathInit => OrderInv
    BY PathPeerInit, OrderInvInit
<1>2. OrderInv => MessagesInOrder
    BY DEF OrderInv, Whole, MessagesInOrder
<1> QED BY <1>1, <1>2, PeerTypesHold, OrderInvStep, PathPeerSteps, PTL
        DEF PathSpec

-----------------------------------------------------------------------------
(* Pieces of sequences, by their members.                                  *)

LEMMA PieceFacts ==
    ASSUME NEW S, NEW s \in Seq(S), NEW a \in Nat \ {0}, NEW b \in Nat,
           a <= b + 1, b <= Len(s)
    PROVE  /\ SubSeq(s, a, b) \in Seq(S)
           /\ Len(SubSeq(s, a, b)) = b - a + 1
           /\ \A i \in 1 .. b - a + 1 : SubSeq(s, a, b)[i] = s[a + i - 1]
<1>1. Len(s) \in Nat /\ \A i \in 1 .. Len(s) : s[i] \in S
    BY LenProperties, ElementOfSeq
<1>2. \A i \in a .. b : s[i] \in S
    BY <1>1
<1>3. Len(SubSeq(s, a, b)) = IF a <= b THEN b - a + 1 ELSE 0
    BY <1>2, SubSeqProperties
<1>4. \A i \in 1 .. b - a + 1 : SubSeq(s, a, b)[i] = s[a + i - 1]
    BY <1>2, SubSeqProperties
<1>5. SubSeq(s, a, b) \in Seq(S)
    BY <1>2, SubSeqProperties
<1> QED BY <1>3, <1>4, <1>5

LEMMA PieceOfPiece ==
    ASSUME NEW S, NEW s \in Seq(S), NEW a \in Nat \ {0}, NEW b \in Nat,
           a <= b + 1, b <= Len(s),
           NEW c \in Nat \ {0}, NEW d \in Nat, c <= d + 1, d <= b - a + 1
    PROVE  SubSeq(SubSeq(s, a, b), c, d) = SubSeq(s, a + c - 1, a + d - 1)
<1> DEFINE p == SubSeq(s, a, b)
<1>0. Len(s) \in Nat
    BY LenProperties
<1>1. /\ p \in Seq(S) /\ Len(p) = b - a + 1
      /\ \A i \in 1 .. b - a + 1 : p[i] = s[a + i - 1]
    BY PieceFacts
<1> HIDE DEF p
<1>2. /\ SubSeq(p, c, d) \in Seq(S) /\ Len(SubSeq(p, c, d)) = d - c + 1
      /\ \A i \in 1 .. d - c + 1 : SubSeq(p, c, d)[i] = p[c + i - 1]
    BY <1>1, PieceFacts
<1> DEFINE a1 == a + c - 1
           b1 == a + d - 1
<1>3. a1 \in Nat \ {0} /\ b1 \in Nat /\ a1 <= b1 + 1 /\ b1 <= Len(s)
    BY <1>0
<1>3a. b1 - a1 + 1 = d - c + 1
    OBVIOUS
<1>4. /\ SubSeq(s, a1, b1) \in Seq(S) /\ Len(SubSeq(s, a1, b1)) = d - c + 1
      /\ \A i \in 1 .. d - c + 1 : SubSeq(s, a1, b1)[i] = s[a1 + i - 1]
  <2> HIDE DEF a1, b1
  <2> QED BY <1>3, <1>3a, PieceFacts
<1>5. \A i \in 1 .. d - c + 1 : SubSeq(p, c, d)[i] = SubSeq(s, a1, b1)[i]
  <2> TAKE i \in 1 .. d - c + 1
  <2>1. c + i - 1 \in 1 .. b - a + 1
      OBVIOUS
  <2>2. p[c + i - 1] = s[a + (c + i - 1) - 1]
      BY <2>1, <1>1
  <2>3. a + (c + i - 1) - 1 = a1 + i - 1
      OBVIOUS
  <2> QED BY <2>2, <2>3, <1>2, <1>4
<1>6. Len(SubSeq(p, c, d)) = Len(SubSeq(s, a1, b1))
    BY <1>2, <1>4
<1>7. \A i \in 1 .. Len(SubSeq(p, c, d)) : SubSeq(p, c, d)[i] = SubSeq(s, a1, b1)[i]
    BY <1>2, <1>5
<1> HIDE DEF a1, b1
<1>8. SubSeq(p, c, d) = SubSeq(s, a1, b1)
    BY <1>2, <1>4, <1>6, <1>7, SeqEqual
<1> QED BY <1>8 DEF a1, b1, p

LEMMA Regroup ==
    ASSUME NEW s \in Seq(STRING), NEW w \in Seq(STRING), NEW u \in Seq(STRING)
    PROVE  (s \o w) \o u = s \o (w \o u)
    BY ConcatAssociative

LEMMA PiecesJoin ==
    ASSUME NEW S, NEW s \in Seq(S), NEW a \in Nat \ {0}, NEW b \in Nat, NEW c \in Nat,
           a <= b + 1, b <= c, c <= Len(s)
    PROVE  SubSeq(s, a, b) \o SubSeq(s, b + 1, c) = SubSeq(s, a, c)
<1>1. Len(s) \in Nat
    BY LenProperties
<1>2. a \in 1 .. Len(s) + 1 /\ b \in a - 1 .. Len(s) /\ c \in b .. Len(s)
    BY <1>1
<1> QED BY <1>2, ConcatAdjacentSubSeq

-----------------------------------------------------------------------------
(* Lines and the first ones of them.                                       *)

\* The Host line begins at i, as far as its first five bytes.
HostAt(s, i) ==
    /\ i + 4 <= Len(s)
    /\ s[i] = "H" /\ s[i + 1] = "o" /\ s[i + 2] = "s" /\ s[i + 3] = "t" /\ s[i + 4] = ":"

HostLines(s) == {i \in LineStarts(s) : HostAt(s, i)}

LEMMA HostBytes ==
    /\ host \in Seq({"H", "o", "s", "t", ":"}) /\ Len(host) = 5
    /\ host[1] = "H" /\ host[2] = "o" /\ host[3] = "s" /\ host[4] = "t" /\ host[5] = ":"
    /\ \A j \in 1 .. 5 : host[j] # NL
<1>1. /\ host \in Seq({"H", "o", "s", "t", ":"}) /\ Len(host) = 5
      /\ host[1] = "H" /\ host[2] = "o" /\ host[3] = "s" /\ host[4] = "t" /\ host[5] = ":"
  <2>1. Len(host) = 5
      BY DEF host
  <2>2. host[1] = "H" /\ host[2] = "o" /\ host[3] = "s" /\ host[4] = "t" /\ host[5] = ":"
      BY DEF host
  <2>3. host \in Seq({"H", "o", "s", "t", ":"})
      BY DEF host
  <2> QED BY <2>1, <2>2, <2>3
<1>2. \A j \in 1 .. 5 : j = 1 \/ j = 2 \/ j = 3 \/ j = 4 \/ j = 5
    OBVIOUS
<1>3. /\ NL # "H" /\ NL # "o" /\ NL # "s" /\ NL # "t" /\ NL # ":"
    BY BytesAssumption
<1>4. ASSUME NEW j \in 1 .. 5 PROVE host[j] # NL
    BY <1>1, <1>2, <1>3
<1> QED BY <1>1, <1>4

LEMMA PrefixIs ==
    ASSUME NEW S, NEW s \in Seq(S), NEW T, NEW p \in Seq(T), Len(p) <= Len(s)
    PROVE  HasPrefix(s, p) <=> \A j \in 1 .. Len(p) : s[j] = p[j]
<1>1. Len(s) \in Nat /\ Len(p) \in Nat
    BY LenProperties
<1>2. /\ SubSeq(s, 1, Len(p)) \in Seq(S) /\ Len(SubSeq(s, 1, Len(p))) = Len(p)
      /\ \A i \in 1 .. Len(p) : SubSeq(s, 1, Len(p))[i] = s[i]
  <2>1. /\ SubSeq(s, 1, Len(p)) \in Seq(S) /\ Len(SubSeq(s, 1, Len(p))) = Len(p) - 1 + 1
        /\ \A i \in 1 .. Len(p) - 1 + 1 : SubSeq(s, 1, Len(p))[i] = s[1 + i - 1]
      BY <1>1, PieceFacts
  <2>2. Len(p) - 1 + 1 = Len(p) /\ \A i \in 1 .. Len(p) : 1 + i - 1 = i
      BY <1>1
  <2> QED BY <2>1, <2>2
<1>3. SubSeq(s, 1, Len(p)) = p <=> \A j \in 1 .. Len(p) : s[j] = p[j]
  <2>1. SubSeq(s, 1, Len(p)) \in Seq(S \cup T) /\ p \in Seq(S \cup T)
      BY <1>2, SeqMonotonic
  <2> QED BY <1>2, <2>1, SeqEqual
<1> QED BY <1>3 DEF HasPrefix

LEMMA HostAtIs ==
    ASSUME NEW s \in Seq(STRING), NEW a \in Nat \ {0}, NEW b \in Nat, a <= b, b <= Len(s)
    PROVE  HasPrefix(SubSeq(s, a, b), host) <=> a + 4 <= b /\ HostAt(s, a)
<1> DEFINE p == SubSeq(s, a, b)
<1>0. Len(s) \in Nat
    BY LenProperties
<1>1. /\ p \in Seq(STRING) /\ Len(p) = b - a + 1
      /\ \A i \in 1 .. b - a + 1 : p[i] = s[a + i - 1]
    BY PieceFacts
<1> HIDE DEF p
<1>2. CASE a + 4 > b
    BY <1>1, <1>2, HostBytes DEF HasPrefix, p
<1>3. CASE a + 4 <= b
  <2>0. Len(host) <= Len(p) /\ host \in Seq({"H", "o", "s", "t", ":"})
      BY <1>1, <1>3, HostBytes
  <2>1. HasPrefix(p, host) <=> \A j \in 1 .. Len(host) : p[j] = host[j]
      BY <1>1, <2>0, PrefixIs
  <2>2. p[1] = s[a] /\ p[2] = s[a + 1] /\ p[3] = s[a + 2] /\ p[4] = s[a + 3] /\ p[5] = s[a + 4]
      BY <1>1, <1>3
  <2>3. HasPrefix(p, host) <=> HostAt(s, a)
      BY <2>1, <2>2, <1>0, <1>3, HostBytes DEF HostAt
  <2> QED BY <2>3, <1>3 DEF p
<1> QED BY <1>2, <1>3

\* A line that Write cannot tell yet.
LEMMA UnsureIs ==
    ASSUME NEW s \in Seq(STRING), NEW a \in Nat \ {0}, NEW b \in Nat, a <= b, b <= Len(s)
    PROVE  HasPrefix(host, SubSeq(s, a, b))
              <=> b <= a + 4 /\ \A j \in 1 .. b - a + 1 : s[a + j - 1] = host[j]
<1> DEFINE p == SubSeq(s, a, b)
<1>1. /\ p \in Seq(STRING) /\ Len(p) = b - a + 1
      /\ \A i \in 1 .. b - a + 1 : p[i] = s[a + i - 1]
    BY PieceFacts
<1> HIDE DEF p
<1>2. CASE a + 4 < b
    BY <1>1, <1>2, HostBytes DEF HasPrefix, p
<1>3. CASE b <= a + 4
  <2>0. Len(p) <= Len(host) /\ host \in Seq({"H", "o", "s", "t", ":"})
      BY <1>1, <1>3, HostBytes
  <2>1. HasPrefix(host, p) <=> \A j \in 1 .. Len(p) : host[j] = p[j]
      BY <1>1, <2>0, PrefixIs
  <2> QED BY <2>1, <1>1, <1>3 DEF p
<1> QED BY <1>2, <1>3

LEMMA HostLinesAre ==
    ASSUME NEW s \in Seq(STRING)
    PROVE  {i \in LineStarts(s) : HasPrefix(From(s, i), host)} = HostLines(s)
<1>1. Len(s) \in Nat /\ DOMAIN s = 1 .. Len(s)
    BY LenProperties
<1>2. \A i \in LineStarts(s) : HasPrefix(From(s, i), host) <=> HostAt(s, i)
  <2> TAKE i \in LineStarts(s)
  <2>1. i \in Nat \ {0} /\ i <= Len(s)
      BY <1>1 DEF LineStarts
  <2>2. HasPrefix(SubSeq(s, i, Len(s)), host) <=> i + 4 <= Len(s) /\ HostAt(s, i)
      BY <2>1, <1>1, HostAtIs
  <2> QED BY <2>2 DEF From, HostAt
<1> QED BY <1>2 DEF HostLines

LEMMA MinIs ==
    ASSUME NEW T \in SUBSET Nat, NEW m \in T, \A k \in T : m <= k
    PROVE  Min(T) = m
<1>1. \A x \in T : (\A y \in T : x <= y) => x = m
    OBVIOUS
<1> QED BY <1>1 DEF Min

\* A piece of s has an end of a line and then a first one, or none.
LEMMA FirstEnd ==
    ASSUME NEW s, NEW a \in Nat, NEW b \in Nat
    PROVE  \/ \A i \in a .. b : s[i] # NL
           \/ \E e \in a .. b : s[e] = NL /\ \A i \in a .. e - 1 : s[i] # NL
<1> DEFINE T == {i \in a .. b : s[i] = NL}
<1> SUFFICES ASSUME T # {}
             PROVE  \E e \in a .. b : s[e] = NL /\ \A i \in a .. e - 1 : s[i] # NL
    OBVIOUS
<1>1. T \in SUBSET Nat
    OBVIOUS
<1>2. PICK e \in T : \A i \in T : e <= i
  <2> HIDE DEF T
  <2> QED BY <1>1, LeastNumber
<1>3. \A i \in a .. e - 1 : i \in a .. b /\ ~(e <= i)
    OBVIOUS
<1> QED BY <1>2, <1>3

LEMMA UnendedLine ==
    ASSUME NEW s \in Seq(STRING), \A i \in 1 .. Len(s) : s[i] # NL
    PROVE  FirstLine(s) = s /\ ~Ended(FirstLine(s)) /\ AfterFirstLine(s) = <<>>
<1>1. Len(s) \in Nat /\ DOMAIN s = 1 .. Len(s)
    BY LenProperties
<1>2. {i \in DOMAIN s : s[i] = NL} = {}
    BY <1>1
<1>3. FirstLine(s) = s
    BY <1>2 DEF FirstLine
<1>4. s # <<>> => Len(s) # 0
    BY EmptySeq
<1>5. ~Ended(s)
    BY <1>1, <1>4 DEF Ended
<1>6. AfterFirstLine(s) = <<>>
    BY <1>1, <1>3, SubSeqEmpty DEF AfterFirstLine, From
<1> QED BY <1>3, <1>5, <1>6

LEMMA EndedLine ==
    ASSUME NEW s \in Seq(STRING), NEW e \in 1 .. Len(s),
           s[e] = NL, \A i \in 1 .. e - 1 : s[i] # NL
    PROVE  /\ FirstLine(s) = SubSeq(s, 1, e) /\ Len(FirstLine(s)) = e
           /\ Ended(FirstLine(s))
           /\ AfterFirstLine(s) = SubSeq(s, e + 1, Len(s))
<1>1. Len(s) \in Nat /\ DOMAIN s = 1 .. Len(s)
    BY LenProperties
<1> DEFINE T == {i \in DOMAIN s : s[i] = NL}
<1>2. e \in T /\ T \in SUBSET Nat /\ \A k \in T : e <= k
    BY <1>1
<1>3. Min(T) = e
  <2> HIDE DEF T
  <2> QED BY <1>2, MinIs
<1>4. FirstLine(s) = SubSeq(s, 1, e)
    BY <1>2, <1>3 DEF FirstLine
<1>5. /\ Len(SubSeq(s, 1, e)) = e
      /\ SubSeq(s, 1, e)[e] = s[e]
      /\ SubSeq(s, 1, e) \in Seq(STRING)
  <2>1. /\ SubSeq(s, 1, e) \in Seq(STRING)
        /\ Len(SubSeq(s, 1, e)) = e - 1 + 1
        /\ \A i \in 1 .. e - 1 + 1 : SubSeq(s, 1, e)[i] = s[1 + i - 1]
      BY <1>1, PieceFacts
  <2>2. e - 1 + 1 = e /\ 1 + e - 1 = e /\ e \in 1 .. e
      BY <1>1
  <2> QED BY <2>1, <2>2
<1>6. SubSeq(s, 1, e) # <<>>
    BY <1>5, EmptySeq
<1> QED BY <1>4, <1>5, <1>6 DEF Ended, AfterFirstLine, From

-----------------------------------------------------------------------------
(* What the local service should read.                                     *)

\* h is the Host line of s.
FirstHost(s, h) == h \in HostLines(s) /\ \A k \in HostLines(s) : h <= k

LEMMA HostLineRange ==
    ASSUME NEW s \in Seq(STRING)
    PROVE  /\ Len(s) \in Nat
           /\ HostLines(s) \in SUBSET Nat
           /\ \A h \in HostLines(s) : h \in 1 .. Len(s) /\ h + 4 <= Len(s)
<1>1. Len(s) \in Nat /\ DOMAIN s = 1 .. Len(s)
    BY LenProperties
<1> QED BY <1>1 DEF HostLines, LineStarts, HostAt

LEMMA HostExists ==
    ASSUME NEW s \in Seq(STRING), HostLines(s) # {}
    PROVE  \E h : FirstHost(s, h)
<1>1. PICK h \in HostLines(s) : \A k \in HostLines(s) : h <= k
    BY HostLineRange, LeastNumber
<1> QED BY <1>1 DEF FirstHost

LEMMA RewriteNone ==
    ASSUME NEW s \in Seq(STRING), HostLines(s) = {}
    PROVE  Rewrite(s) = s
    BY HostLinesAre DEF Rewrite

LEMMA RewriteHost ==
    ASSUME NEW s \in Seq(STRING), NEW h, FirstHost(s, h)
    PROVE  Rewrite(s) = Append(SubSeq(s, 1, h - 1), HostLine)
                           \o AfterFirstLine(SubSeq(s, h, Len(s)))
<1>1. h \in HostLines(s) /\ \A k \in HostLines(s) : h <= k
    BY DEF FirstHost
<1>2. Min(HostLines(s)) = h
    BY <1>1, HostLineRange, MinIs
<1> QED BY <1>1, <1>2, HostLinesAre DEF Rewrite, From

LEMMA HostPrefixType ==
    ASSUME NEW s \in Seq(STRING), NEW h \in 1 .. Len(s)
    PROVE  /\ Append(SubSeq(s, 1, h - 1), HostLine) \in Seq(STRING)
           /\ Len(Append(SubSeq(s, 1, h - 1), HostLine)) = h
           /\ Append(SubSeq(s, 1, h - 1), HostLine)[h] = HostLine
           /\ \A i \in 1 .. h - 1 :
                 Append(SubSeq(s, 1, h - 1), HostLine)[i] = s[i]
<1>1. Len(s) \in Nat
    BY LenProperties
<1> DEFINE p == SubSeq(s, 1, h - 1)
<1>2. /\ p \in Seq(STRING) /\ Len(p) = h - 1
      /\ \A i \in 1 .. h - 1 : p[i] = s[i]
  <2>1. /\ p \in Seq(STRING) /\ Len(p) = (h - 1) - 1 + 1
        /\ \A i \in 1 .. (h - 1) - 1 + 1 : p[i] = s[1 + i - 1]
      BY <1>1, PieceFacts
  <2> HIDE DEF p
  <2> QED BY <2>1, <1>1
<1>3. HostLine \in STRING
    BY BytesAssumption
<1> HIDE DEF p
<1>4. /\ Append(p, HostLine) \in Seq(STRING)
      /\ Len(Append(p, HostLine)) = Len(p) + 1
      /\ \A i \in 1 .. Len(p) : Append(p, HostLine)[i] = p[i]
      /\ Append(p, HostLine)[Len(p) + 1] = HostLine
    BY <1>2, <1>3, AppendProperties
<1>5. Len(p) + 1 = h
    BY <1>1, <1>2
<1>6. \A i \in 1 .. h - 1 : Append(p, HostLine)[i] = s[i]
    BY <1>2, <1>4
<1> QED BY <1>4, <1>5, <1>6 DEF p

LEMMA RewriteUnended ==
    ASSUME NEW s \in Seq(STRING), NEW h, FirstHost(s, h),
           \A i \in h .. Len(s) : s[i] # NL
    PROVE  Rewrite(s) = Append(SubSeq(s, 1, h - 1), HostLine)
<1>1. h \in 1 .. Len(s) /\ Len(s) \in Nat
    BY HostLineRange DEF FirstHost
<1> DEFINE p == SubSeq(s, h, Len(s))
           pre == Append(SubSeq(s, 1, h - 1), HostLine)
<1>2. /\ p \in Seq(STRING) /\ Len(p) = Len(s) - h + 1
      /\ \A i \in 1 .. Len(s) - h + 1 : p[i] = s[h + i - 1]
    BY <1>1, PieceFacts
<1>3. AfterFirstLine(p) = <<>>
  <2> HIDE DEF p
  <2>1. \A i \in 1 .. Len(p) : p[i] # NL
    <3> TAKE i \in 1 .. Len(p)
    <3>1. p[i] = s[h + i - 1] /\ h + i - 1 \in h .. Len(s)
        BY <1>1, <1>2
    <3> QED BY <3>1
  <2> QED BY <1>2, <2>1, UnendedLine
<1>4. pre \in Seq(STRING)
    BY <1>1, HostPrefixType
<1>5. pre \o <<>> = pre
  <2> HIDE DEF pre
  <2> QED BY <1>4, ConcatEmptySeq
<1> QED BY <1>3, <1>5, RewriteHost

LEMMA RewriteEnded ==
    ASSUME NEW s \in Seq(STRING), NEW h, FirstHost(s, h),
           NEW e \in h .. Len(s), s[e] = NL, \A i \in h .. e - 1 : s[i] # NL
    PROVE  Rewrite(s) = Append(SubSeq(s, 1, h - 1), HostLine) \o SubSeq(s, e + 1, Len(s))
<1>1. h \in 1 .. Len(s) /\ Len(s) \in Nat
    BY HostLineRange DEF FirstHost
<1> DEFINE p == SubSeq(s, h, Len(s))
           f == e - h + 1
<1>2. /\ p \in Seq(STRING) /\ Len(p) = Len(s) - h + 1
      /\ \A i \in 1 .. Len(s) - h + 1 : p[i] = s[h + i - 1]
    BY <1>1, PieceFacts
<1>3. AfterFirstLine(p) = SubSeq(p, f + 1, Len(p))
  <2>1. f \in 1 .. Len(s) - h + 1 /\ h + f - 1 = e
      BY <1>1
  <2>2. \A i \in 1 .. f - 1 : i \in 1 .. Len(s) - h + 1 /\ h + i - 1 \in h .. e - 1
      BY <1>1
  <2> HIDE DEF p, f
  <2>3. f \in 1 .. Len(p) /\ p[f] = NL /\ \A i \in 1 .. f - 1 : p[i] # NL
      BY <2>1, <2>2, <1>2
  <2> QED BY <1>2, <2>3, EndedLine
<1>4. SubSeq(p, f + 1, Len(p)) = SubSeq(s, e + 1, Len(s))
  <2>1. SubSeq(p, f + 1, Len(s) - h + 1)
           = SubSeq(s, h + (f + 1) - 1, h + (Len(s) - h + 1) - 1)
    <3> DEFINE c == f + 1
               d == Len(s) - h + 1
               b == Len(s)
    <3>1. /\ h \in Nat \ {0} /\ b \in Nat /\ h <= b + 1 /\ b <= Len(s)
          /\ c \in Nat \ {0} /\ d \in Nat /\ c <= d + 1 /\ d <= b - h + 1
        BY <1>1
    <3>2. SubSeq(SubSeq(s, h, b), c, d) = SubSeq(s, h + c - 1, h + d - 1)
      <4> HIDE DEF b, c, d
      <4> QED BY <3>1, PieceOfPiece
    <3> QED BY <3>2
  <2>2. h + (f + 1) - 1 = e + 1 /\ h + (Len(s) - h + 1) - 1 = Len(s)
      BY <1>1
  <2> HIDE DEF p, f
  <2> QED BY <2>1, <2>2, <1>2
<1> QED BY <1>3, <1>4, RewriteHost

LEMMA HostLinesOfPrefix ==
    ASSUME NEW r \in Seq(STRING), NEW m \in 0 .. Len(r)
    PROVE  HostLines(SubSeq(r, 1, m)) = {h \in HostLines(r) : h + 4 <= m}
<1>1. Len(r) \in Nat /\ DOMAIN r = 1 .. Len(r)
    BY LenProperties
<1> DEFINE s == SubSeq(r, 1, m)
<1>2. /\ s \in Seq(STRING) /\ Len(s) = m
      /\ \A i \in 1 .. m : s[i] = r[i]
  <2>1. /\ s \in Seq(STRING) /\ Len(s) = m - 1 + 1
        /\ \A i \in 1 .. m - 1 + 1 : s[i] = r[1 + i - 1]
      BY <1>1, PieceFacts
  <2> HIDE DEF s
  <2> QED BY <2>1, <1>1
<1> HIDE DEF s
<1>3. DOMAIN s = 1 .. m
    BY <1>2, LenProperties
<1>4. LineStarts(s) = {i \in LineStarts(r) : i <= m}
  <2>1. \A i \in 1 .. m : i = 1 \/ s[i - 1] = r[i - 1]
      BY <1>1, <1>2
  <2> QED BY <2>1, <1>1, <1>3 DEF LineStarts
<1>5. \A i \in 1 .. m : i + 4 <= m => (HostAt(s, i) <=> HostAt(r, i))
  <2> SUFFICES ASSUME NEW i \in 1 .. m, i + 4 <= m
               PROVE  HostAt(s, i) <=> HostAt(r, i)
      OBVIOUS
  <2>1. /\ s[i] = r[i] /\ s[i + 1] = r[i + 1] /\ s[i + 2] = r[i + 2]
        /\ s[i + 3] = r[i + 3] /\ s[i + 4] = r[i + 4]
      BY <1>1, <1>2
  <2> QED BY <2>1, <1>1, <1>2 DEF HostAt
<1>6. \A i \in HostLines(s) : i + 4 <= m
    BY <1>2 DEF HostLines, HostAt
<1>7. \A i \in LineStarts(s) : i \in 1 .. m
    BY <1>3 DEF LineStarts
<1>8. \A i \in HostLines(r) : i + 4 <= m => i \in 1 .. m
    BY <1>1, HostLineRange
<1> QED BY <1>4, <1>5, <1>6, <1>7, <1>8 DEF HostLines, s

LEMMA HostUnended ==
    ASSUME NEW s \in Seq(STRING), NEW h \in HostLines(s)
    PROVE  \A i \in h .. h + 4 : s[i] # NL
<1>1. h \in Nat
    BY HostLineRange
<1>2. HostAt(s, h)
    BY DEF HostLines
<1>3. /\ NL # "H" /\ NL # "o" /\ NL # "s" /\ NL # "t" /\ NL # ":"
    BY BytesAssumption
<1>4. \A i \in h .. h + 4 : i = h \/ i = h + 1 \/ i = h + 2 \/ i = h + 3 \/ i = h + 4
    BY <1>1
<1> QED BY <1>2, <1>3, <1>4 DEF HostAt

LEMMA PrefixFacts ==
    ASSUME NEW S, NEW s \in Seq(S), NEW w \in Seq(S)
    PROVE  IsPrefix(s, w)
              <=> Len(s) <= Len(w) /\ \A i \in 1 .. Len(s) : s[i] = w[i]
<1>1. Len(s) \in Nat /\ Len(w) \in Nat /\ SubSeq(s, 1, Len(s)) = s
    BY LenProperties, SubSeqFull
<1>2. Len(s) <= Len(w) => (HasPrefix(w, s) <=> \A i \in 1 .. Len(s) : w[i] = s[i])
    BY PrefixIs
<1> QED BY <1>1, <1>2 DEF IsPrefix, HasPrefix

LEMMA ConcatPrefix ==
    ASSUME NEW S, NEW s \in Seq(S), NEW u \in Seq(S)
    PROVE  IsPrefix(s, s \o u)
<1>1. /\ s \o u \in Seq(S) /\ Len(s \o u) = Len(s) + Len(u)
      /\ \A i \in 1 .. Len(s) + Len(u) :
            (s \o u)[i] = IF i <= Len(s) THEN s[i] ELSE u[i - Len(s)]
    BY ConcatProperties
<1>2. Len(s) \in Nat /\ Len(u) \in Nat
    BY LenProperties
<1>3. \A i \in 1 .. Len(s) : s[i] = (s \o u)[i]
    BY <1>1, <1>2
<1>4. Len(s) <= Len(s \o u)
    BY <1>1, <1>2
<1> HIDE DEF IsPrefix
<1> QED BY <1>1, <1>3, <1>4, PrefixFacts

LEMMA AfterType ==
    ASSUME NEW s \in Seq(STRING)
    PROVE  AfterFirstLine(s) \in Seq(STRING)
<1>1. Len(s) \in Nat
    BY LenProperties
<1>2. CASE \A i \in 1 .. Len(s) : s[i] # NL
  <2>1. AfterFirstLine(s) = <<>>
      BY <1>2, UnendedLine
  <2> QED BY <2>1, EmptySeq
<1>3. ASSUME NEW e \in 1 .. Len(s), s[e] = NL, \A i \in 1 .. e - 1 : s[i] # NL
      PROVE  AfterFirstLine(s) \in Seq(STRING)
  <2>1. AfterFirstLine(s) = SubSeq(s, e + 1, Len(s))
      BY <1>3, EndedLine
  <2>2. e + 1 \in Nat \ {0} /\ e + 1 <= Len(s) + 1
      BY <1>1
  <2> QED BY <2>1, <2>2, <1>1, PieceFacts
<1> QED BY <1>1, <1>2, <1>3, FirstEnd

\* Up to its Host line the request is what it was.
LEMMA RewriteMembers ==
    ASSUME NEW s \in Seq(STRING), NEW h, FirstHost(s, h)
    PROVE  /\ Rewrite(s) \in Seq(STRING)
           /\ h \in 1 .. Len(Rewrite(s)) /\ Len(Rewrite(s)) \in Nat
           /\ Rewrite(s)[h] = HostLine
           /\ \A i \in 1 .. h - 1 : Rewrite(s)[i] = s[i]
<1>1. h \in 1 .. Len(s) /\ Len(s) \in Nat
    BY HostLineRange DEF FirstHost
<1> DEFINE pre == Append(SubSeq(s, 1, h - 1), HostLine)
           u == AfterFirstLine(SubSeq(s, h, Len(s)))
<1>2. /\ pre \in Seq(STRING) /\ Len(pre) = h /\ pre[h] = HostLine
      /\ \A i \in 1 .. h - 1 : pre[i] = s[i]
    BY <1>1, HostPrefixType
<1>3. u \in Seq(STRING)
  <2>1. SubSeq(s, h, Len(s)) \in Seq(STRING)
      BY <1>1, PieceFacts
  <2> QED BY <2>1, AfterType
<1>4. Rewrite(s) = pre \o u
    BY RewriteHost
<1> HIDE DEF pre, u
<1>5. /\ pre \o u \in Seq(STRING) /\ IsPrefix(pre, pre \o u)
    BY <1>2, <1>3, ConcatProperties, ConcatPrefix
<1>6. Len(pre \o u) \in Nat /\ Len(pre) <= Len(pre \o u)
      /\ \A i \in 1 .. Len(pre) : pre[i] = (pre \o u)[i]
    BY <1>2, <1>5, PrefixFacts, LenProperties
<1>7. \A i \in 1 .. h - 1 : i \in 1 .. Len(pre) /\ pre[i] = s[i]
    BY <1>1, <1>2
<1> QED BY <1>1, <1>2, <1>4, <1>5, <1>6, <1>7

-----------------------------------------------------------------------------
(* What Write's state means: of the request r it has taken m bytes, with    *)
(* what it has written, o, and what it holds.                              *)

LineAt(r, q) == q = 1 \/ r[q - 1] = NL
NoHostTo(r, m) == \A h \in HostLines(r) : h > m
HostReplaced(r, h) == Append(SubSeq(r, 1, h - 1), HostLine)

AtLine(tk) == tk.rewriting /\ ~tk.skipping /\ ~tk.passing
Idle(tk) == ~tk.rewriting /\ ~tk.skipping /\ ~tk.passing /\ tk.held = <<>>

\* It holds back the beginning of a line, from q on.
WaitsFrom(r, o, tk, m, q) ==
    /\ AtLine(tk)
    /\ LineAt(r, q) /\ m < q + 4 /\ NoHostTo(r, q - 1)
    /\ tk.held = SubSeq(r, q, m) /\ o = SubSeq(r, 1, q - 1)

Waits(r, o, tk, m) == \E q \in 1 .. m + 1 : WaitsFrom(r, o, tk, m, q)

\* It is inside a line that is not the Host line.
Passes(r, o, tk, m) ==
    /\ tk.rewriting /\ ~tk.skipping /\ tk.passing /\ tk.held = <<>>
    /\ m >= 1 /\ r[m] # NL /\ NoHostTo(r, m)
    /\ o = SubSeq(r, 1, m)

\* It is inside the Host line.
SkipsFrom(r, o, tk, m, h) ==
    /\ tk.rewriting /\ tk.skipping /\ ~tk.passing /\ tk.held = <<>>
    /\ FirstHost(r, h) /\ h + 4 <= m /\ \A i \in h .. m : r[i] # NL
    /\ o = HostReplaced(r, h)

Skips(r, o, tk, m) == \E h \in 1 .. m : SkipsFrom(r, o, tk, m, h)

\* It is behind the Host line, which ends at e.
ReplacedAt(r, o, tk, m, h, e) ==
    /\ Idle(tk)
    /\ FirstHost(r, h) /\ r[e] = NL /\ \A i \in h .. e - 1 : r[i] # NL
    /\ o = HostReplaced(r, h) \o SubSeq(r, e + 1, m)

Replaced(r, o, tk, m) ==
    \E h \in 1 .. m : \E e \in h .. m : ReplacedAt(r, o, tk, m, h, e)

Copies(r, o, tk, m) == Idle(tk) /\ o = SubSeq(r, 1, m)

Took(use, r, o, tk, m) ==
    IF use THEN \/ Waits(r, o, tk, m) \/ Passes(r, o, tk, m)
                \/ Skips(r, o, tk, m) \/ Replaced(r, o, tk, m)
    ELSE Copies(r, o, tk, m)

LEMMA PrefixPieces ==
    ASSUME NEW r \in Seq(STRING), NEW m \in 0 .. Len(r)
    PROVE  /\ SubSeq(r, 1, m) \in Seq(STRING) /\ Len(SubSeq(r, 1, m)) = m
           /\ \A i \in 1 .. m : SubSeq(r, 1, m)[i] = r[i]
           /\ \A a \in 1 .. m + 1, b \in 0 .. m :
                 a <= b + 1 => SubSeq(SubSeq(r, 1, m), a, b) = SubSeq(r, a, b)
<1>1. Len(r) \in Nat
    BY LenProperties
<1> DEFINE s == SubSeq(r, 1, m)
<1>2. /\ s \in Seq(STRING) /\ Len(s) = m - 1 + 1
      /\ \A i \in 1 .. m - 1 + 1 : s[i] = r[1 + i - 1]
    BY <1>1, PieceFacts
<1>3. ASSUME NEW a \in 1 .. m + 1, NEW b \in 0 .. m, a <= b + 1
      PROVE  SubSeq(s, a, b) = SubSeq(r, a, b)
  <2>1. SubSeq(s, a, b) = SubSeq(r, 1 + a - 1, 1 + b - 1)
      BY <1>1, <1>3, PieceOfPiece
  <2> QED BY <2>1, <1>1
<1> HIDE DEF s
<1>4. Len(s) = m /\ \A i \in 1 .. m : s[i] = r[i]
    BY <1>1, <1>2
<1> QED BY <1>2, <1>3, <1>4 DEF s

LEMMA WholeIsPrefix ==
    ASSUME NEW r \in Seq(STRING), NEW k \in 0 .. Len(r)
    PROVE  IsPrefix(SubSeq(r, 1, k), r)
<1>1. Len(r) \in Nat
    BY LenProperties
<1>2. /\ SubSeq(r, 1, k) \in Seq(STRING) /\ Len(SubSeq(r, 1, k)) = k
      /\ \A i \in 1 .. k : SubSeq(r, 1, k)[i] = r[i]
    BY PrefixPieces
<1> DEFINE o == SubSeq(r, 1, k)
<1>3. Len(o) <= Len(r) /\ \A i \in 1 .. Len(o) : o[i] = r[i]
    BY <1>1, <1>2
<1> HIDE DEF o
<1>4. IsPrefix(o, r)
    BY <1>2, <1>3, PrefixFacts DEF o
<1> QED BY <1>4 DEF o

LEMMA UntouchedIsPrefix ==
    ASSUME NEW r \in Seq(STRING), NEW k \in 0 .. Len(r), NoHostTo(r, k)
    PROVE  IsPrefix(SubSeq(r, 1, k), Rewrite(r))
<1>1. Len(r) \in Nat
    BY LenProperties
<1> DEFINE o == SubSeq(r, 1, k)
<1>2. /\ o \in Seq(STRING) /\ Len(o) = k
      /\ \A i \in 1 .. k : o[i] = r[i]
  <2>1. /\ o \in Seq(STRING) /\ Len(o) = k - 1 + 1
        /\ \A i \in 1 .. k - 1 + 1 : o[i] = r[1 + i - 1]
      BY <1>1, PieceFacts
  <2> HIDE DEF o
  <2> QED BY <2>1, <1>1
<1> HIDE DEF o
<1>3. CASE HostLines(r) = {}
  <2>1. Rewrite(r) = r
      BY <1>3, RewriteNone
  <2> QED BY <2>1, WholeIsPrefix DEF o
<1>4. CASE HostLines(r) # {}
  <2>1. PICK h : FirstHost(r, h)
      BY <1>4, HostExists
  <2>2. /\ Rewrite(r) \in Seq(STRING)
        /\ h \in 1 .. Len(Rewrite(r)) /\ Len(Rewrite(r)) \in Nat
        /\ \A i \in 1 .. h - 1 : Rewrite(r)[i] = r[i]
      BY <2>1, RewriteMembers
  <2>3. h \in HostLines(r) /\ h > k
      BY <2>1 DEF FirstHost, NoHostTo
  <2>4. \A i \in 1 .. k : i \in 1 .. h - 1
      BY <1>1, <2>2, <2>3
  <2>5. Len(o) <= Len(Rewrite(r)) /\ \A i \in 1 .. Len(o) : o[i] = Rewrite(r)[i]
      BY <1>2, <2>2, <2>3, <2>4
  <2> QED BY <1>2, <2>2, <2>5, PrefixFacts DEF o
<1> QED BY <1>3, <1>4

LEMMA UntouchedRewrite ==
    ASSUME NEW r \in Seq(STRING), NEW m \in 0 .. Len(r), NEW k \in 0 .. m,
           NoHostTo(r, k), m < k + 5
    PROVE  Rewrite(SubSeq(r, 1, m)) = SubSeq(r, 1, m)
<1>1. Len(r) \in Nat
    BY LenProperties
<1>2. SubSeq(r, 1, m) \in Seq(STRING)
    BY <1>1, PieceFacts
<1>3. HostLines(SubSeq(r, 1, m)) = {h \in HostLines(r) : h + 4 <= m}
    BY HostLinesOfPrefix
<1>4. \A h \in HostLines(r) : ~(h + 4 <= m)
    BY <1>1, HostLineRange DEF NoHostTo
<1> QED BY <1>2, <1>3, <1>4, RewriteNone

\* The Host line of what was taken is that of the request.
LEMMA FirstHostOfPrefix ==
    ASSUME NEW r \in Seq(STRING), NEW m \in 0 .. Len(r), NEW h,
           FirstHost(r, h), h + 4 <= m
    PROVE  FirstHost(SubSeq(r, 1, m), h)
    BY HostLinesOfPrefix DEF FirstHost

LEMMA ReplacedType ==
    ASSUME NEW r \in Seq(STRING), NEW h, FirstHost(r, h)
    PROVE  /\ h \in 1 .. Len(r) /\ Len(r) \in Nat
           /\ HostReplaced(r, h) \in Seq(STRING)
           /\ Rewrite(r) = HostReplaced(r, h) \o AfterFirstLine(SubSeq(r, h, Len(r)))
           /\ AfterFirstLine(SubSeq(r, h, Len(r))) \in Seq(STRING)
<1>1. h \in 1 .. Len(r) /\ Len(r) \in Nat
    BY HostLineRange DEF FirstHost
<1>2. SubSeq(r, h, Len(r)) \in Seq(STRING)
    BY <1>1, PieceFacts
<1> QED BY <1>1, <1>2, AfterType, HostPrefixType, RewriteHost DEF HostReplaced

LEMMA TookPrefix ==
    ASSUME NEW r \in Seq(STRING), NEW use \in BOOLEAN, NEW m \in 0 .. Len(r),
           NEW o, NEW tk, Took(use, r, o, tk, m)
    PROVE  IsPrefix(o, IF use THEN Rewrite(r) ELSE r) /\ o \in Seq(STRING)
<1>1. Len(r) \in Nat
    BY LenProperties
<1>2. CASE ~use
    BY <1>2, PrefixPieces, WholeIsPrefix DEF Took, Copies
<1>3. ASSUME use, Waits(r, o, tk, m)
      PROVE  IsPrefix(o, Rewrite(r)) /\ o \in Seq(STRING)
  <2>1. PICK q \in 1 .. m + 1 : NoHostTo(r, q - 1) /\ o = SubSeq(r, 1, q - 1)
      BY <1>3 DEF Waits, WaitsFrom
  <2>2. q - 1 \in 0 .. Len(r)
      BY <1>1
  <2> QED BY <2>1, <2>2, UntouchedIsPrefix, PrefixPieces
<1>4. ASSUME use, Passes(r, o, tk, m)
      PROVE  IsPrefix(o, Rewrite(r)) /\ o \in Seq(STRING)
    BY <1>4, UntouchedIsPrefix, PrefixPieces DEF Passes
<1>5. ASSUME use, Skips(r, o, tk, m)
      PROVE  IsPrefix(o, Rewrite(r)) /\ o \in Seq(STRING)
  <2>1. PICK h : FirstHost(r, h) /\ o = HostReplaced(r, h)
      BY <1>5 DEF Skips, SkipsFrom
  <2> QED BY <2>1, ReplacedType, ConcatPrefix
<1>6. ASSUME use, Replaced(r, o, tk, m)
      PROVE  IsPrefix(o, Rewrite(r)) /\ o \in Seq(STRING)
  <2>0. PICK h \in 1 .. m : \E e \in h .. m : ReplacedAt(r, o, tk, m, h, e)
      BY <1>6 DEF Replaced
  <2>1. PICK e \in h .. m : ReplacedAt(r, o, tk, m, h, e)
      BY <2>0
  <2> DEFINE pre == HostReplaced(r, h)
             u == SubSeq(r, e + 1, m)
             v == SubSeq(r, m + 1, Len(r))
  <2>2. pre \in Seq(STRING)
      BY <2>1, ReplacedType DEF ReplacedAt
  <2>3. u \in Seq(STRING) /\ v \in Seq(STRING)
    <3>1. /\ e + 1 \in Nat \ {0} /\ e + 1 <= m + 1 /\ m \in Nat /\ m <= Len(r)
          /\ m + 1 \in Nat \ {0} /\ m + 1 <= Len(r) + 1
        BY <1>1
    <3> QED BY <3>1, <1>1, PieceFacts
  <2>4. u \o v = SubSeq(r, e + 1, Len(r))
    <3> DEFINE a == e + 1
               b == m
               c == Len(r)
    <3>1. /\ a \in Nat \ {0} /\ b \in Nat /\ c \in Nat
          /\ a <= b + 1 /\ b <= c /\ c <= Len(r)
        BY <1>1
    <3>2. SubSeq(r, a, b) \o SubSeq(r, b + 1, c) = SubSeq(r, a, c)
      <4> HIDE DEF a, b, c
      <4> QED BY <3>1, PiecesJoin
    <3> QED BY <3>2
  <2>5. Rewrite(r) = pre \o SubSeq(r, e + 1, Len(r))
    <3>1. e \in h .. Len(r)
        BY <1>1
    <3> QED BY <2>1, <3>1, RewriteEnded DEF ReplacedAt, HostReplaced
  <2>6. o = pre \o u
      BY <2>1 DEF ReplacedAt
  <2> HIDE DEF pre, u, v
  <2>7. (pre \o u) \o v = pre \o (u \o v)
      BY <2>2, <2>3, Regroup
  <2>8. Rewrite(r) = o \o v
      BY <2>4, <2>5, <2>6, <2>7
  <2>9. o \in Seq(STRING)
      BY <2>2, <2>3, <2>6, ConcatProperties
  <2> HIDE DEF IsPrefix
  <2>10. IsPrefix(o, o \o v)
      BY <2>3, <2>9, ConcatPrefix
  <2> QED BY <2>8, <2>9, <2>10
<1> QED BY <1>2, <1>3, <1>4, <1>5, <1>6 DEF Took

LEMMA TookCuts ==
    ASSUME NEW r \in Seq(STRING), NEW use \in BOOLEAN, NEW m \in 0 .. Len(r),
           NEW o, NEW tk, Took(use, r, o, tk, m)
    PROVE  o \o tk.held = IF use THEN Rewrite(SubSeq(r, 1, m)) ELSE SubSeq(r, 1, m)
<1>1. Len(r) \in Nat
    BY LenProperties
<1> DEFINE s == SubSeq(r, 1, m)
<1>0. s \in Seq(STRING) /\ Len(s) = m /\ \A i \in 1 .. m : s[i] = r[i]
    BY PrefixPieces
<1>0a. o \in Seq(STRING)
    BY TookPrefix
<1>2. CASE ~use
    BY <1>2, <1>0, ConcatEmptySeq DEF Took, Copies, Idle
<1>3. ASSUME use, Waits(r, o, tk, m)
      PROVE  o \o tk.held = Rewrite(s)
  <2>1. PICK q \in 1 .. m + 1 : WaitsFrom(r, o, tk, m, q)
      BY <1>3 DEF Waits
  <2>2. o \o tk.held = s
    <3> DEFINE k == q - 1
    <3>1. k \in Nat /\ 1 <= k + 1 /\ k <= m /\ m <= Len(r) /\ k + 1 = q /\ m \in Nat
        BY <1>1
    <3>2. SubSeq(r, 1, k) \o SubSeq(r, k + 1, m) = SubSeq(r, 1, m)
      <4> HIDE DEF k, s
      <4>1. 1 \in Nat \ {0}
          OBVIOUS
      <4> QED BY <3>1, <4>1, PiecesJoin
    <3>3. o = SubSeq(r, 1, k) /\ tk.held = SubSeq(r, q, m)
        BY <2>1 DEF WaitsFrom
    <3> QED BY <3>1, <3>2, <3>3
  <2>3. Rewrite(s) = s
    <3>1. q - 1 \in 0 .. m /\ m < (q - 1) + 5
        BY <2>1 DEF WaitsFrom
    <3> QED BY <2>1, <3>1, UntouchedRewrite DEF WaitsFrom
  <2> QED BY <2>2, <2>3
<1>4. ASSUME use, Passes(r, o, tk, m)
      PROVE  o \o tk.held = Rewrite(s)
  <2>1. Rewrite(s) = s
    <3>1. m \in 0 .. m /\ m < m + 5
        BY <1>1
    <3> QED BY <1>4, <3>1, UntouchedRewrite DEF Passes
  <2> QED BY <1>4, <2>1, <1>0, ConcatEmptySeq DEF Passes
<1>5. ASSUME use, Skips(r, o, tk, m)
      PROVE  o \o tk.held = Rewrite(s)
  <2>1. PICK h \in 1 .. m : SkipsFrom(r, o, tk, m, h)
      BY <1>5 DEF Skips
  <2>2. FirstHost(s, h)
      BY <2>1, FirstHostOfPrefix DEF SkipsFrom
  <2>3. \A i \in h .. m : i \in 1 .. m
      OBVIOUS
  <2>4. \A i \in h .. Len(s) : s[i] # NL
      BY <1>0, <2>1, <2>3 DEF SkipsFrom
  <2>5. Rewrite(s) = Append(SubSeq(s, 1, h - 1), HostLine)
    <3> HIDE DEF s
    <3> QED BY <1>0, <2>2, <2>4, RewriteUnended
  <2>6. SubSeq(s, 1, h - 1) = SubSeq(r, 1, h - 1)
      BY PrefixPieces
  <2> QED BY <2>1, <2>5, <2>6, <1>0a, ConcatEmptySeq DEF SkipsFrom, HostReplaced
<1>6. ASSUME use, Replaced(r, o, tk, m)
      PROVE  o \o tk.held = Rewrite(s)
  <2>0. PICK h \in 1 .. m : \E e \in h .. m : ReplacedAt(r, o, tk, m, h, e)
      BY <1>6 DEF Replaced
  <2>1. PICK e \in h .. m : ReplacedAt(r, o, tk, m, h, e)
      BY <2>0
  <2>2. h + 4 <= m
    <3>1. \A i \in h .. h + 4 : r[i] # NL
        BY <2>1, HostUnended DEF ReplacedAt, FirstHost
    <3>2. ~(e \in h .. h + 4)
        BY <2>1, <3>1 DEF ReplacedAt
    <3> QED BY <3>2
  <2>3. FirstHost(s, h)
      BY <2>1, <2>2, FirstHostOfPrefix DEF ReplacedAt
  <2>4. \A i \in h .. e : i \in 1 .. m
      OBVIOUS
  <2>5. s[e] = NL /\ \A i \in h .. e - 1 : s[i] # NL
    <3>1. r[e] = NL /\ \A i \in h .. e - 1 : r[i] # NL
        BY <2>1 DEF ReplacedAt
    <3>2. \A i \in h .. e : s[i] = r[i]
        BY <1>0, <2>4
    <3> HIDE DEF s
    <3> QED BY <3>1, <3>2
  <2>6. Rewrite(s) = Append(SubSeq(s, 1, h - 1), HostLine) \o SubSeq(s, e + 1, m)
    <3>1. e \in h .. Len(s)
        BY <1>0
    <3> HIDE DEF s
    <3>2. Rewrite(s) = Append(SubSeq(s, 1, h - 1), HostLine) \o SubSeq(s, e + 1, Len(s))
        BY <1>0, <2>3, <2>5, <3>1, RewriteEnded
    <3> QED BY <3>2, <1>0
  <2>7. SubSeq(s, 1, h - 1) = SubSeq(r, 1, h - 1)
      BY PrefixPieces
  <2>8. SubSeq(s, e + 1, m) = SubSeq(r, e + 1, m)
      BY PrefixPieces
  <2> QED BY <2>1, <2>6, <2>7, <2>8, <1>0a, ConcatEmptySeq DEF ReplacedAt, Idle, HostReplaced
<1> QED BY <1>2, <1>3, <1>4, <1>5, <1>6 DEF Took

-----------------------------------------------------------------------------
(* Write of the next bytes.                                                *)

\* p is what r has from q to m.
PieceFrom(r, q, m, p) ==
    /\ p \in Seq(STRING) /\ Len(p) = m - q + 1 /\ DOMAIN p = 1 .. m - q + 1
    /\ \A i \in 1 .. m - q + 1 :
          /\ p[i] = r[q + i - 1]
          /\ From(p, i) = SubSeq(r, q + i - 1, m)
          /\ SubSeq(p, 1, i - 1) = SubSeq(r, q, q + i - 2)

LEMMA LinePiece ==
    ASSUME NEW r \in Seq(STRING), NEW q \in Nat \ {0}, NEW m \in Nat,
           q <= m + 1, m <= Len(r)
    PROVE  PieceFrom(r, q, m, SubSeq(r, q, m))
<1> DEFINE p == SubSeq(r, q, m)
<1>1. /\ p \in Seq(STRING) /\ Len(p) = m - q + 1
      /\ \A i \in 1 .. m - q + 1 : p[i] = r[q + i - 1]
    BY PieceFacts
<1>2. DOMAIN p = 1 .. m - q + 1
    BY <1>1, LenProperties
<1>3. ASSUME NEW i \in 1 .. m - q + 1
      PROVE  /\ From(p, i) = SubSeq(r, q + i - 1, m)
             /\ SubSeq(p, 1, i - 1) = SubSeq(r, q, q + i - 2)
  <2> DEFINE d == m - q + 1
             j == i - 1
  <2>1. /\ d \in Nat /\ i \in Nat \ {0} /\ i <= d + 1 /\ d <= m - q + 1
        /\ j \in Nat /\ 1 <= j + 1 /\ j <= m - q + 1 /\ 1 \in Nat \ {0}
      OBVIOUS
  <2>2. /\ SubSeq(SubSeq(r, q, m), i, d) = SubSeq(r, q + i - 1, q + d - 1)
        /\ SubSeq(SubSeq(r, q, m), 1, j) = SubSeq(r, q + 1 - 1, q + j - 1)
    <3> HIDE DEF d, j
    <3> QED BY <2>1, PieceOfPiece
  <2>3. q + d - 1 = m /\ q + 1 - 1 = q /\ q + j - 1 = q + i - 2
      OBVIOUS
  <2> QED BY <1>1, <2>2, <2>3 DEF From
<1> HIDE DEF p
<1> QED BY <1>1, <1>2, <1>3 DEF PieceFrom, p

StopsOf(p) == {i \in LineStarts(p) : isGoodToWrite(From(p, i)) # "good"}

\* Write stops at the Host line, also where it has only its beginning.
LEMMA HostStops ==
    ASSUME NEW r \in Seq(STRING), NEW q \in Nat \ {0}, NEW m \in Nat,
           q <= m, m <= Len(r), NEW p, p = SubSeq(r, q, m),
           NEW h \in HostLines(r), q <= h, h <= m
    PROVE  h - q + 1 \in StopsOf(p)
<1>0. \A j \in 1 .. m - q + 1 : From(p, j) = SubSeq(r, q + j - 1, m)
    BY LinePiece DEF PieceFrom
<1> DEFINE i == h - q + 1
<1>1. h \in 1 .. Len(r) /\ Len(r) \in Nat /\ DOMAIN r = 1 .. Len(r)
    BY HostLineRange, LenProperties
<1>2. i \in 1 .. m - q + 1 /\ q + i - 1 = h
    BY <1>1
<1>3. From(p, i) = SubSeq(r, h, m)
  <2> HIDE DEF i
  <2> QED BY <1>0, <1>2
<1>4. i \in LineStarts(p)
  <2>1. DOMAIN p = 1 .. m - q + 1
      BY LinePiece DEF PieceFrom
  <2>2. CASE h = q
      BY <1>2, <2>1, <2>2 DEF LineStarts
  <2>3. CASE h > q
    <3>1. r[h - 1] = NL
        BY <1>1, <2>3 DEF HostLines, LineStarts
    <3>2. i - 1 \in 1 .. m - q + 1 /\ q + (i - 1) - 1 = h - 1
        BY <1>1, <2>3
    <3>3. p[i - 1] = r[q + (i - 1) - 1]
        BY <3>2, LinePiece DEF PieceFrom
    <3> HIDE DEF i
    <3>4. p[i - 1] = NL
        BY <3>1, <3>2, <3>3
    <3> QED BY <1>2, <2>1, <3>4 DEF LineStarts
  <2> QED BY <1>1, <2>2, <2>3
<1>5. HostAt(r, h)
    BY DEF HostLines
<1>6. CASE h + 4 <= m
  <2>1. HasPrefix(SubSeq(r, h, m), host)
      BY <1>1, <1>5, <1>6, HostAtIs
  <2> QED BY <1>3, <1>4, <2>1 DEF StopsOf, isGoodToWrite
<1>7. CASE m < h + 4
  <2>1. \A j \in 1 .. m - h + 1 : r[h + j - 1] = host[j]
    <3>1. \A j \in 1 .. m - h + 1 : j = 1 \/ j = 2 \/ j = 3 \/ j = 4
        BY <1>1, <1>7
    <3>2. /\ r[h] = host[1] /\ r[h + 1] = host[2] /\ r[h + 2] = host[3] /\ r[h + 3] = host[4]
        BY <1>5, HostBytes DEF HostAt
    <3>3. h + 1 - 1 = h /\ h + 2 - 1 = h + 1 /\ h + 3 - 1 = h + 2 /\ h + 4 - 1 = h + 3
        BY <1>1
    <3> QED BY <3>1, <3>2, <3>3
  <2>2. HasPrefix(host, SubSeq(r, h, m))
    <3>1. h \in Nat \ {0} /\ h <= m /\ m <= Len(r) /\ m <= h + 4
        BY <1>1, <1>7
    <3> QED BY <3>1, <2>1, UnsureIs
  <2> QED BY <1>3, <1>4, <2>2 DEF StopsOf, isGoodToWrite
<1> QED BY <1>1, <1>6, <1>7

\* Where Write stops first.
LEMMA FirstStop ==
    ASSUME NEW r \in Seq(STRING), NEW q \in Nat \ {0}, NEW m \in Nat,
           q <= m, m <= Len(r), NEW p, p = SubSeq(r, q, m),
           LineAt(r, q), NoHostTo(r, q - 1), StopsOf(p) # {}
    PROVE  \E s \in 1 .. m - q + 1 :
              /\ s = Min(StopsOf(p)) /\ s \in StopsOf(p)
              /\ LineAt(r, q + s - 1)
              /\ NoHostTo(r, q + s - 2)
<1>1. DOMAIN p = 1 .. m - q + 1 /\ \A i \in 1 .. m - q + 1 : p[i] = r[q + i - 1]
    BY LinePiece DEF PieceFrom
<1>2. StopsOf(p) \subseteq 1 .. m - q + 1
    BY <1>1 DEF StopsOf, LineStarts
<1>3. PICK s \in StopsOf(p) : \A k \in StopsOf(p) : s <= k
  <2>1. StopsOf(p) \in SUBSET Nat
      BY <1>2
  <2> QED BY <2>1, LeastNumber
<1>4. s \in 1 .. m - q + 1
    BY <1>2
<1>5. s = Min(StopsOf(p))
  <2>1. StopsOf(p) \in SUBSET Nat
      BY <1>2
  <2> QED BY <1>3, <2>1, MinIs
<1>6. LineAt(r, q + s - 1)
  <2>1. CASE s = 1
      BY <2>1 DEF LineAt
  <2>2. CASE s # 1
    <3>1. p[s - 1] = NL
        BY <2>2, <1>3 DEF StopsOf, LineStarts
    <3>2. s - 1 \in 1 .. m - q + 1 /\ q + (s - 1) - 1 = (q + s - 1) - 1
        BY <1>4, <2>2
    <3> QED BY <1>1, <3>1, <3>2 DEF LineAt
  <2> QED BY <2>1, <2>2
<1>7. ASSUME NEW h \in HostLines(r), h <= q + s - 2 PROVE FALSE
  <2>1. h \in Nat /\ q <= h /\ h <= m
      BY <1>4, <1>7, HostLineRange DEF NoHostTo
  <2>2. h - q + 1 \in StopsOf(p)
      BY <2>1, HostStops
  <2> QED BY <1>3, <1>4, <1>7, <2>1, <2>2
<1>8. NoHostTo(r, q + s - 2)
    BY <1>4, <1>7, HostLineRange DEF NoHostTo
<1> QED BY <1>3, <1>4, <1>5, <1>6, <1>8

Results == [task : Tasks, emit : Seq(STRING), n : Nat]

\* The lines r[q .. m] are written as they should be, behind those before.
Rewritten(r, q, m, w) ==
    /\ Took(TRUE, r, SubSeq(r, 1, q - 1) \o w.emit, w.task, m)
    /\ w.n = m - q + 1
    /\ w \in Results

LEMMA ResultIs ==
    ASSUME NEW a \in Tasks, NEW b \in Seq(STRING), NEW c \in Nat
    PROVE  /\ Result(a, b, c) \in Results
           /\ Result(a, b, c).task = a /\ Result(a, b, c).emit = b /\ Result(a, b, c).n = c
    BY DEF Result, Results

LEMMA RewrittenResult ==
    ASSUME NEW r, NEW q \in Nat \ {0}, NEW m \in Nat, q <= m,
           NEW a \in Tasks, NEW b \in Seq(STRING),
           Took(TRUE, r, SubSeq(r, 1, q - 1) \o b, a, m)
    PROVE  Rewritten(r, q, m, Result(a, b, m - q + 1))
<1> DEFINE c == m - q + 1
           w == Result(a, b, c)
<1>1. c \in Nat
    OBVIOUS
<1>2. w \in Results /\ w.task = a /\ w.emit = b /\ w.n = c
  <2> HIDE DEF c
  <2> QED BY <1>1, ResultIs
<1> HIDE DEF w
<1>3. Rewritten(r, q, m, w)
    BY <1>2 DEF Rewritten
<1> QED BY <1>3 DEF w

LEMMA TookPieces ==
    ASSUME NEW r \in Seq(STRING), NEW a \in Nat, NEW b \in Nat,
           a <= b, b <= Len(r)
    PROVE  SubSeq(r, 1, a) \o SubSeq(r, a + 1, b) = SubSeq(r, 1, b)
<1>1. 1 \in Nat \ {0} /\ 1 <= a + 1
    OBVIOUS
<1> QED BY <1>1, PiecesJoin

LEMMA LinesGood ==
    ASSUME NEW r \in Seq(STRING), NEW q \in Nat \ {0}, NEW m \in Nat,
           q <= m, m <= Len(r), LineAt(r, q), NoHostTo(r, q - 1),
           NEW tk \in Tasks, AtLine(tk), StopsOf(SubSeq(r, q, m)) = {}
    PROVE  Rewritten(r, q, m, WriteLines(tk, SubSeq(r, q, m)))
<1> DEFINE p == SubSeq(r, q, m)
           new == [tk EXCEPT !.held = <<>>, !.passing = ~Ended(p)]
<1>0. Len(r) \in Nat
    BY LenProperties
<1>1. PieceFrom(r, q, m, p)
    BY LinePiece
<1>2. WriteLines(tk, p) = Result(new, p, Len(p))
    BY DEF WriteLines, StopsOf
<1>3. /\ new \in Tasks /\ new.held = <<>> /\ new.passing = ~Ended(p)
      /\ new.rewriting /\ ~new.skipping
    BY EmptySeq DEF Tasks, AtLine
<1>4. NoHostTo(r, m)
  <2> SUFFICES ASSUME NEW h \in HostLines(r), h <= m PROVE FALSE
      BY HostLineRange DEF NoHostTo
  <2>1. q <= h
      BY HostLineRange DEF NoHostTo
  <2> QED BY <2>1, HostStops
<1>5. SubSeq(r, 1, q - 1) \o p = SubSeq(r, 1, m)
  <2> DEFINE a == q - 1
  <2>1. a \in Nat /\ a <= m /\ a + 1 = q
      OBVIOUS
  <2>2. SubSeq(r, 1, a) \o SubSeq(r, a + 1, m) = SubSeq(r, 1, m)
    <3> HIDE DEF a
    <3> QED BY <2>1, TookPieces
  <2> QED BY <2>1, <2>2
<1> DEFINE o == SubSeq(r, 1, m)
<1>6. Ended(p) <=> r[m] = NL
  <2>1. Len(p) = m - q + 1 /\ p[m - q + 1] = r[q + (m - q + 1) - 1]
      BY <1>1 DEF PieceFrom
  <2>2. p # <<>>
      BY <2>1, EmptySeq
  <2>3. q + (m - q + 1) - 1 = m
      OBVIOUS
  <2> HIDE DEF p
  <2> QED BY <2>1, <2>2, <2>3 DEF Ended
<1>7. ASSUME Ended(p) PROVE Took(TRUE, r, o, new, m)
  <2>1. LineAt(r, m + 1)
      BY <1>6, <1>7 DEF LineAt
  <2>2. SubSeq(r, m + 1, m) = <<>>
      BY SubSeqEmpty
  <2>3. m + 1 \in 1 .. m + 1 /\ m < m + 1 + 4 /\ m + 1 - 1 = m
      OBVIOUS
  <2> HIDE DEF p, new
  <2>4. AtLine(new)
      BY <1>3, <1>7 DEF AtLine
  <2>5. NoHostTo(r, m + 1 - 1) /\ o = SubSeq(r, 1, m + 1 - 1)
      BY <1>4, <2>3
  <2> HIDE DEF o
  <2>6. WaitsFrom(r, o, new, m, m + 1)
      BY <1>3, <2>1, <2>2, <2>3, <2>4, <2>5 DEF WaitsFrom
  <2>7. Waits(r, o, new, m)
      BY <2>3, <2>6 DEF Waits
  <2> QED BY <2>7 DEF Took
<1>8. ASSUME ~Ended(p) PROVE Took(TRUE, r, o, new, m)
  <2> HIDE DEF p, new
  <2>1. new.passing
      BY <1>3, <1>8
  <2>2. m >= 1 /\ r[m] # NL
      BY <1>6, <1>8
  <2> HIDE DEF o
  <2>3. Passes(r, o, new, m)
      BY <1>3, <1>4, <2>1, <2>2 DEF Passes, o
  <2> QED BY <2>3 DEF Took
<1>9. Took(TRUE, r, o, new, m)
  <2> HIDE DEF p, new, o
  <2> QED BY <1>7, <1>8
<1> HIDE DEF p, new, o
<1>10. Rewritten(r, q, m, Result(new, p, Len(p)))
  <2>1. p \in Seq(STRING) /\ Len(p) = m - q + 1 /\ Len(p) \in Nat
      BY <1>1 DEF PieceFrom
  <2>2. Took(TRUE, r, SubSeq(r, 1, q - 1) \o p, new, m)
      BY <1>5, <1>9 DEF o
  <2> QED BY <1>3, <2>1, <2>2, RewrittenResult
<1> QED BY <1>2, <1>10 DEF p

LEMMA LinesUnsure ==
    ASSUME NEW r \in Seq(STRING), NEW q \in Nat \ {0}, NEW m \in Nat,
           q <= m, m <= Len(r), LineAt(r, q), NoHostTo(r, q - 1),
           NEW tk \in Tasks, AtLine(tk), StopsOf(SubSeq(r, q, m)) # {},
           isGoodToWrite(From(SubSeq(r, q, m), Min(StopsOf(SubSeq(r, q, m))))) = "unsure"
    PROVE  Rewritten(r, q, m, WriteLines(tk, SubSeq(r, q, m)))
<1> DEFINE p == SubSeq(r, q, m)
<1>0. Len(r) \in Nat
    BY LenProperties
<1>1. PieceFrom(r, q, m, p)
    BY LinePiece
<1>2. PICK s \in 1 .. m - q + 1 : /\ s = Min(StopsOf(p))
                                  /\ LineAt(r, q + s - 1)
                                  /\ NoHostTo(r, q + s - 2)
    BY FirstStop
<1> DEFINE g == q + s - 1
           new == [tk EXCEPT !.held = SubSeq(r, g, m)]
           lines == SubSeq(r, q, g - 1)
<1>3. g \in 1 .. m + 1 /\ g \in Nat \ {0} /\ g <= m /\ g - 1 \in Nat /\ g - 1 = q + s - 2 /\ q <= g
    OBVIOUS
<1>4. From(p, s) = SubSeq(r, g, m) /\ SubSeq(p, 1, s - 1) = lines
    BY <1>1, <1>3 DEF PieceFrom
<1>5. Len(lines) + Len(SubSeq(r, g, m)) = m - q + 1 /\ lines \in Seq(STRING)
      /\ SubSeq(r, g, m) \in Seq(STRING)
  <2> HIDE DEF g
  <2>1. Len(lines) = (g - 1) - q + 1 /\ lines \in Seq(STRING)
    <3>1. g - 1 \in Nat /\ q <= (g - 1) + 1 /\ g - 1 <= Len(r)
        BY <1>0, <1>3
    <3> QED BY <3>1, PieceFacts
  <2>2. Len(SubSeq(r, g, m)) = m - g + 1 /\ SubSeq(r, g, m) \in Seq(STRING)
      BY <1>0, <1>3, PieceFacts
  <2> HIDE DEF lines
  <2> QED BY <1>3, <2>1, <2>2
<1>6. WriteLines(tk, p) = Result(new, lines, m - q + 1)
  <2> HIDE DEF p, lines, g
  <2>1. WriteLines(tk, p) = Result([[tk EXCEPT !.held = <<>>] EXCEPT !.held = From(p, s)],
            SubSeq(p, 1, s - 1), Len(SubSeq(p, 1, s - 1)) + Len(From(p, s)))
      BY <1>2 DEF WriteLines, StopsOf, p
  <2>2. [[tk EXCEPT !.held = <<>>] EXCEPT !.held = From(p, s)] = new
      BY <1>4 DEF Tasks
  <2> QED BY <1>4, <1>5, <2>1, <2>2
<1>7. new \in Tasks /\ AtLine(new) /\ new.held = SubSeq(r, g, m)
    BY <1>5 DEF Tasks, AtLine
<1>8. m < g + 4
  <2> HIDE DEF g
  <2>1. ~HasPrefix(SubSeq(r, g, m), host) /\ HasPrefix(host, SubSeq(r, g, m))
    <3>1. isGoodToWrite(SubSeq(r, g, m)) = "unsure"
        BY <1>2, <1>4
    <3> QED BY <3>1 DEF isGoodToWrite
  <2>2. m <= g + 4 /\ \A j \in 1 .. m - g + 1 : r[g + j - 1] = host[j]
      BY <1>3, <2>1, UnsureIs
  <2>3. ASSUME m = g + 4 PROVE FALSE
    <3>1. \A j \in 1 .. 5 : r[g + j - 1] = host[j]
        BY <1>3, <2>2, <2>3
    <3>2. /\ r[g] = host[1] /\ r[g + 1] = host[2] /\ r[g + 2] = host[3]
          /\ r[g + 3] = host[4] /\ r[g + 4] = host[5]
      <4>1. /\ g + 1 - 1 = g /\ g + 2 - 1 = g + 1 /\ g + 3 - 1 = g + 2
            /\ g + 4 - 1 = g + 3 /\ g + 5 - 1 = g + 4
          BY <1>3
      <4> QED BY <3>1, <4>1
    <3>3. HostAt(r, g)
        BY <1>0, <1>3, <2>3, <3>2, HostBytes DEF HostAt
    <3> QED BY <1>3, <2>1, <2>3, <3>3, HostAtIs
  <2> QED BY <1>3, <2>2, <2>3
<1>9. SubSeq(r, 1, q - 1) \o lines = SubSeq(r, 1, g - 1)
  <2> DEFINE a == q - 1
             b == g - 1
  <2>1. a \in Nat /\ b \in Nat /\ a <= b /\ b <= Len(r) /\ a + 1 = q
      BY <1>0, <1>3
  <2>2. SubSeq(r, 1, a) \o SubSeq(r, a + 1, b) = SubSeq(r, 1, b)
    <3> HIDE DEF a, b
    <3> QED BY <2>1, TookPieces
  <2> QED BY <2>1, <2>2
<1>10. WaitsFrom(r, SubSeq(r, 1, g - 1), new, m, g)
  <2> HIDE DEF g, new
  <2> QED BY <1>2, <1>3, <1>7, <1>8 DEF WaitsFrom, g
<1> HIDE DEF new, lines, g
<1>11. Rewritten(r, q, m, Result(new, lines, m - q + 1))
  <2>1. Took(TRUE, r, SubSeq(r, 1, g - 1), new, m)
      BY <1>3, <1>10 DEF Took, Waits
  <2>2. Took(TRUE, r, SubSeq(r, 1, q - 1) \o lines, new, m)
      BY <1>9, <2>1
  <2> QED BY <1>5, <1>7, <2>2, RewrittenResult
<1> QED BY <1>6, <1>11

\* The first line of a piece.
LEMMA UnendedPiece ==
    ASSUME NEW r \in Seq(STRING), NEW g \in Nat \ {0}, NEW m \in Nat,
           g <= m, m <= Len(r), \A i \in g .. m : r[i] # NL
    PROVE  /\ FirstLine(SubSeq(r, g, m)) = SubSeq(r, g, m)
           /\ ~Ended(FirstLine(SubSeq(r, g, m)))
<1> DEFINE p == SubSeq(r, g, m)
<1>1. /\ p \in Seq(STRING) /\ Len(p) = m - g + 1
      /\ \A i \in 1 .. m - g + 1 : p[i] = r[g + i - 1]
    BY PieceFacts
<1>2. \A i \in 1 .. m - g + 1 : g + i - 1 \in g .. m
    OBVIOUS
<1> HIDE DEF p
<1>3. \A i \in 1 .. Len(p) : p[i] # NL
    BY <1>1, <1>2
<1>4. FirstLine(p) = p /\ ~Ended(FirstLine(p))
    BY <1>1, <1>3, UnendedLine
<1> QED BY <1>4 DEF p

LEMMA EndedPiece ==
    ASSUME NEW r \in Seq(STRING), NEW g \in Nat \ {0}, NEW m \in Nat,
           g <= m, m <= Len(r),
           NEW e \in g .. m, r[e] = NL, \A i \in g .. e - 1 : r[i] # NL
    PROVE  /\ FirstLine(SubSeq(r, g, m)) = SubSeq(r, g, e)
           /\ Len(FirstLine(SubSeq(r, g, m))) = e - g + 1
           /\ Ended(FirstLine(SubSeq(r, g, m)))
           /\ AfterFirstLine(SubSeq(r, g, m)) = SubSeq(r, e + 1, m)
           /\ SubSeq(r, e + 1, m) \in Seq(STRING) /\ Len(SubSeq(r, e + 1, m)) = m - e
<1> DEFINE p == SubSeq(r, g, m)
           f == e - g + 1
           l == m - g + 1
<1>0. Len(r) \in Nat
    BY LenProperties
<1>1. /\ p \in Seq(STRING) /\ Len(p) = l
      /\ \A i \in 1 .. l : p[i] = r[g + i - 1]
    BY PieceFacts
<1>2. f \in 1 .. l /\ g + f - 1 = e /\ f \in Nat \ {0} /\ l \in Nat
    OBVIOUS
<1>3. \A i \in 1 .. f - 1 : i \in 1 .. l /\ g + i - 1 \in g .. e - 1
    OBVIOUS
<1>4. SubSeq(p, 1, f) = SubSeq(r, g, e)
  <2>1. 1 \in Nat \ {0} /\ f \in Nat /\ 1 <= f + 1 /\ f <= m - g + 1 /\ g <= m + 1
      OBVIOUS
  <2>2. SubSeq(SubSeq(r, g, m), 1, f) = SubSeq(r, g + 1 - 1, g + f - 1)
    <3> HIDE DEF f
    <3> QED BY <2>1, PieceOfPiece
  <2>3. g + 1 - 1 = g
      OBVIOUS
  <2> QED BY <1>2, <2>2, <2>3
<1>5. SubSeq(p, f + 1, l) = SubSeq(r, e + 1, m)
  <2> DEFINE c == f + 1
  <2>1. c \in Nat \ {0} /\ l \in Nat /\ c <= l + 1 /\ l <= m - g + 1 /\ g <= m + 1
      OBVIOUS
  <2>2. SubSeq(SubSeq(r, g, m), c, l) = SubSeq(r, g + c - 1, g + l - 1)
    <3> HIDE DEF c, l
    <3> QED BY <2>1, PieceOfPiece
  <2>3. g + c - 1 = e + 1 /\ g + l - 1 = m
      OBVIOUS
  <2> QED BY <2>2, <2>3
<1>6. SubSeq(r, e + 1, m) \in Seq(STRING) /\ Len(SubSeq(r, e + 1, m)) = m - e
  <2> DEFINE a == e + 1
  <2>1. a \in Nat \ {0} /\ a <= m + 1 /\ m - a + 1 = m - e
      OBVIOUS
  <2>2. SubSeq(r, a, m) \in Seq(STRING) /\ Len(SubSeq(r, a, m)) = m - a + 1
    <3> HIDE DEF a
    <3> QED BY <2>1, PieceFacts
  <2> QED BY <2>1, <2>2
<1> HIDE DEF p, f, l
<1>7. f \in 1 .. Len(p) /\ p[f] = NL /\ \A i \in 1 .. f - 1 : p[i] # NL
    BY <1>1, <1>2, <1>3
<1>8. /\ FirstLine(p) = SubSeq(p, 1, f) /\ Len(FirstLine(p)) = f
      /\ Ended(FirstLine(p))
      /\ AfterFirstLine(p) = SubSeq(p, f + 1, Len(p))
    BY <1>1, <1>7, EndedLine
<1>9. f = e - g + 1
    BY DEF f
<1> QED BY <1>1, <1>4, <1>5, <1>6, <1>8, <1>9 DEF p

LEMMA LinesReplace ==
    ASSUME NEW r \in Seq(STRING), NEW q \in Nat \ {0}, NEW m \in Nat,
           q <= m, m <= Len(r), LineAt(r, q), NoHostTo(r, q - 1),
           NEW tk \in Tasks, AtLine(tk), StopsOf(SubSeq(r, q, m)) # {},
           isGoodToWrite(From(SubSeq(r, q, m), Min(StopsOf(SubSeq(r, q, m))))) = "replace"
    PROVE  Rewritten(r, q, m, WriteLines(tk, SubSeq(r, q, m)))
<1> DEFINE p == SubSeq(r, q, m)
<1>0. Len(r) \in Nat /\ DOMAIN r = 1 .. Len(r)
    BY LenProperties
<1>1. PieceFrom(r, q, m, p)
    BY LinePiece
<1>2. PICK s \in 1 .. m - q + 1 : /\ s = Min(StopsOf(p))
                                  /\ LineAt(r, q + s - 1)
                                  /\ NoHostTo(r, q + s - 2)
    BY FirstStop
<1> DEFINE g == q + s - 1
           lines == SubSeq(r, q, g - 1)
           line1 == SubSeq(r, g, m)
           empty == [tk EXCEPT !.held = <<>>]
           pre == Append(lines, HostLine)
<1>3. g \in 1 .. m /\ g \in Nat \ {0} /\ g <= m /\ g - 1 \in Nat /\ g - 1 = q + s - 2 /\ q <= g
    OBVIOUS
<1>4. From(p, s) = line1 /\ SubSeq(p, 1, s - 1) = lines
    BY <1>1, <1>3 DEF PieceFrom
<1>5. Len(lines) = g - q /\ lines \in Seq(STRING) /\ Len(line1) = m - g + 1
  <2> HIDE DEF g
  <2>1. Len(lines) = (g - 1) - q + 1 /\ lines \in Seq(STRING)
    <3>1. g - 1 \in Nat /\ q <= (g - 1) + 1 /\ g - 1 <= Len(r)
        BY <1>0, <1>3
    <3> QED BY <3>1, PieceFacts
  <2>2. Len(line1) = m - g + 1
      BY <1>0, <1>3, PieceFacts
  <2> HIDE DEF lines, line1
  <2> QED BY <1>3, <2>1, <2>2
<1>6. FirstHost(r, g) /\ g + 4 <= m
  <2> HIDE DEF g
  <2>1. HasPrefix(line1, host)
    <3>1. isGoodToWrite(line1) = "replace"
        BY <1>2, <1>4
    <3> QED BY <3>1 DEF isGoodToWrite
  <2>2. g + 4 <= m /\ HostAt(r, g)
      BY <1>3, <2>1, HostAtIs
  <2>3. g \in HostLines(r)
      BY <1>0, <1>2, <1>3, <2>2 DEF HostLines, LineStarts, LineAt, g
  <2>4. \A k \in HostLines(r) : g <= k
      BY <1>2, <1>3, HostLineRange DEF NoHostTo
  <2> QED BY <2>2, <2>3, <2>4 DEF FirstHost
<1>7. /\ SubSeq(r, 1, q - 1) \o pre = HostReplaced(r, g)
      /\ pre \in Seq(STRING) /\ SubSeq(r, 1, q - 1) \in Seq(STRING)
  <2> DEFINE a == q - 1
             b == g - 1
             x == SubSeq(r, 1, a)
             y == SubSeq(r, a + 1, b)
             z == SubSeq(r, 1, b)
  <2>1. a \in Nat /\ b \in Nat /\ a <= b /\ b <= Len(r) /\ a <= Len(r) /\ a + 1 = q
      BY <1>0, <1>3
  <2>2. x \o y = z
    <3> HIDE DEF a, b
    <3> QED BY <2>1, TookPieces
  <2>3. x \in Seq(STRING) /\ z \in Seq(STRING) /\ y = lines
    <3>1. a \in 0 .. Len(r) /\ b \in 0 .. Len(r)
        BY <2>1
    <3> HIDE DEF a, b
    <3>2. x \in Seq(STRING) /\ z \in Seq(STRING)
        BY <3>1, PrefixPieces
    <3> QED BY <2>1, <3>2 DEF b
  <2>4. HostLine \in STRING /\ <<HostLine>> \in Seq(STRING)
    <3>1. HostLine \in STRING
        BY BytesAssumption
    <3> QED BY <3>1
  <2> HIDE DEF x, y, z, lines
  <2>5. Append(lines, HostLine) = lines \o <<HostLine>>
      BY <1>5, <2>4, AppendIsConcat
  <2>6. Append(z, HostLine) = z \o <<HostLine>>
      BY <2>3, <2>4, AppendIsConcat
  <2>7. (x \o y) \o <<HostLine>> = x \o (y \o <<HostLine>>)
      BY <1>5, <2>3, <2>4, Regroup
  <2>8. x \o pre = Append(z, HostLine)
      BY <2>2, <2>3, <2>5, <2>6, <2>7
  <2>9. pre \in Seq(STRING)
      BY <1>5, <2>4, AppendProperties
  <2> QED BY <2>3, <2>8, <2>9 DEF x, z, HostReplaced
<1>8. /\ empty \in Tasks /\ empty.held = <<>>
      /\ empty.rewriting /\ ~empty.skipping /\ ~empty.passing
    BY EmptySeq DEF Tasks, AtLine
<1>9. CASE \A i \in g .. m : r[i] # NL
  <2> DEFINE new == [empty EXCEPT !.skipping = TRUE]
  <2>1. FirstLine(line1) = line1 /\ ~Ended(FirstLine(line1))
    <3> HIDE DEF g
    <3> QED BY <1>3, <1>9, UnendedPiece
  <2>2. WriteLines(tk, p) = Result(new, pre, Len(lines) + Len(line1))
    <3> HIDE DEF p, lines, line1, g
    <3> QED BY <1>2, <1>4, <2>1 DEF WriteLines, StopsOf, p
  <2>3. /\ new \in Tasks /\ new.held = <<>>
        /\ new.rewriting /\ new.skipping /\ ~new.passing
    <3> HIDE DEF empty
    <3> QED BY <1>8 DEF Tasks
  <2> HIDE DEF new, g, pre, p, lines, line1, empty
  <2>4. SkipsFrom(r, HostReplaced(r, g), new, m, g)
      BY <1>6, <1>9, <2>3 DEF SkipsFrom
  <2>5. Took(TRUE, r, HostReplaced(r, g), new, m)
      BY <1>3, <2>4 DEF Took, Skips
  <2>6. Len(lines) + Len(line1) = m - q + 1
      BY <1>3, <1>5
  <2>7. Rewritten(r, q, m, Result(new, pre, Len(lines) + Len(line1)))
    <3>1. Took(TRUE, r, SubSeq(r, 1, q - 1) \o pre, new, m)
        BY <1>7, <2>5
    <3> QED BY <1>7, <2>3, <2>6, <3>1, RewrittenResult
  <2> QED BY <2>2, <2>7 DEF p
<1>10. ASSUME NEW e \in g .. m, r[e] = NL, \A i \in g .. e - 1 : r[i] # NL
       PROVE  Rewritten(r, q, m, WriteLines(tk, p))
  <2> DEFINE new == [empty EXCEPT !.rewriting = FALSE]
             rest == SubSeq(r, e + 1, m)
             len == Len(lines) + Len(FirstLine(line1)) + Len(rest)
  <2>1. /\ Len(FirstLine(line1)) = e - g + 1
        /\ Ended(FirstLine(line1)) /\ AfterFirstLine(line1) = rest
        /\ rest \in Seq(STRING) /\ Len(rest) = m - e
    <3> HIDE DEF g
    <3>1. /\ Len(FirstLine(SubSeq(r, g, m))) = e - g + 1
          /\ Ended(FirstLine(SubSeq(r, g, m)))
          /\ AfterFirstLine(SubSeq(r, g, m)) = SubSeq(r, e + 1, m)
          /\ SubSeq(r, e + 1, m) \in Seq(STRING) /\ Len(SubSeq(r, e + 1, m)) = m - e
        BY <1>3, <1>10, EndedPiece
    <3> QED BY <3>1
  <2>2. WriteLines(tk, p) = Result(new, pre \o rest, len)
    <3> HIDE DEF p, lines, line1, g, rest
    <3> QED BY <1>2, <1>4, <2>1 DEF WriteLines, StopsOf, p
  <2>3. new \in Tasks /\ Idle(new)
    <3> HIDE DEF empty
    <3> QED BY <1>8 DEF Tasks, Idle
  <2> DEFINE x == SubSeq(r, 1, q - 1)
  <2> HIDE DEF new, g, pre, p, lines, line1, empty, rest, x
  <2>4. x \o (pre \o rest) = HostReplaced(r, g) \o rest /\ pre \o rest \in Seq(STRING)
    <3>1. (x \o pre) \o rest = x \o (pre \o rest)
        BY <1>7, <2>1, Regroup DEF x
    <3> QED BY <1>7, <2>1, <3>1, ConcatProperties DEF x
  <2>5. ReplacedAt(r, HostReplaced(r, g) \o rest, new, m, g, e)
      BY <1>6, <1>10, <2>3 DEF ReplacedAt, rest
  <2>6. Took(TRUE, r, HostReplaced(r, g) \o rest, new, m)
      BY <1>3, <2>5 DEF Took, Replaced
  <2>7. len = m - q + 1
      BY <1>3, <1>5, <2>1
  <2>8. Rewritten(r, q, m, Result(new, pre \o rest, len))
    <3> HIDE DEF len
    <3>1. Took(TRUE, r, SubSeq(r, 1, q - 1) \o (pre \o rest), new, m)
        BY <2>4, <2>6 DEF x
    <3> QED BY <2>3, <2>4, <2>7, <3>1, RewrittenResult
  <2> QED BY <2>2, <2>8
<1> QED BY <1>3, <1>9, <1>10, FirstEnd

LEMMA LinesStep ==
    ASSUME NEW r \in Seq(STRING), NEW q \in Nat \ {0}, NEW m \in Nat,
           q <= m, m <= Len(r), LineAt(r, q), NoHostTo(r, q - 1),
           NEW tk \in Tasks, AtLine(tk)
    PROVE  Rewritten(r, q, m, WriteLines(tk, SubSeq(r, q, m)))
<1> DEFINE p == SubSeq(r, q, m)
<1>1. CASE StopsOf(p) = {}
    BY <1>1, LinesGood
<1>2. CASE StopsOf(p) # {}
  <2>0. PICK s \in 1 .. m - q + 1 : s = Min(StopsOf(p)) /\ s \in StopsOf(p)
    <3> HIDE DEF p
    <3> QED BY <1>2, FirstStop DEF p
  <2>1. Min(StopsOf(p)) \in StopsOf(p)
    <3> HIDE DEF p
    <3> QED BY <2>0
  <2>2. \/ isGoodToWrite(From(p, Min(StopsOf(p)))) = "unsure"
        \/ isGoodToWrite(From(p, Min(StopsOf(p)))) = "replace"
      BY <2>1 DEF StopsOf, isGoodToWrite
  <2> QED BY <1>2, <2>2, LinesUnsure, LinesReplace
<1> QED BY <1>1, <1>2

\* k bytes were taken and what they are was understood.
Goes(use, r, o, w, m, k) ==
    /\ Took(use, r, o \o w.emit, w.task, m + k)
    /\ w.n = k
    /\ w \in Results

LEMMA GoesResult ==
    ASSUME NEW use, NEW r, NEW o, NEW m \in Nat, NEW k \in Nat,
           NEW a \in Tasks, NEW b \in Seq(STRING),
           Took(use, r, o \o b, a, m + k)
    PROVE  Goes(use, r, o, Result(a, b, k), m, k)
<1> DEFINE w == Result(a, b, k)
<1>1. w \in Results /\ w.task = a /\ w.emit = b /\ w.n = k
    BY ResultIs
<1> HIDE DEF w
<1>2. Goes(use, r, o, w, m, k)
    BY <1>1 DEF Goes
<1> QED BY <1>2 DEF w

LEMMA GoesSilent ==
    ASSUME NEW use, NEW r, NEW o \in Seq(STRING), NEW m \in Nat, NEW k \in Nat,
           NEW a \in Tasks, Took(use, r, o, a, m + k)
    PROVE  Goes(use, r, o, Result(a, <<>>, k), m, k)
<1> DEFINE b == <<>>
<1>1. b \in Seq(STRING) /\ o \o b = o
    BY EmptySeq, ConcatEmptySeq
<1>2. Goes(use, r, o, Result(a, b, k), m, k)
  <2> HIDE DEF b
  <2>1. Took(use, r, o \o b, a, m + k)
      BY <1>1
  <2> QED BY <1>1, <2>1, GoesResult
<1> QED BY <1>2

LEMMA NextPiece ==
    ASSUME NEW r \in Seq(STRING), NEW m \in 0 .. Len(r), NEW k \in 0 .. Len(r) - m
    PROVE  /\ SubSeq(r, m + 1, m + k) \in Seq(STRING)
           /\ Len(SubSeq(r, m + 1, m + k)) = k
           /\ SubSeq(r, m + 1, m + k) = <<>> <=> k = 0
           /\ \A q \in 1 .. m + 1 :
                 SubSeq(r, q, m) \o SubSeq(r, m + 1, m + k) = SubSeq(r, q, m + k)
<1>0. Len(r) \in Nat
    BY LenProperties
<1> DEFINE a == m + 1
           b == m + k
           p == SubSeq(r, a, b)
<1>1. a \in Nat \ {0} /\ b \in Nat /\ a <= b + 1 /\ b <= Len(r) /\ b - a + 1 = k
    BY <1>0
<1>2. p \in Seq(STRING) /\ Len(p) = b - a + 1
  <2> HIDE DEF a, b
  <2> QED BY <1>1, PieceFacts
<1>3. ASSUME NEW q \in 1 .. m + 1
      PROVE  SubSeq(r, q, m) \o p = SubSeq(r, q, b)
  <2>1. q \in Nat \ {0} /\ q <= m + 1 /\ m <= b
      OBVIOUS
  <2>2. SubSeq(r, q, m) \o SubSeq(r, m + 1, b) = SubSeq(r, q, b)
    <3> HIDE DEF a, b
    <3> QED BY <1>0, <1>1, <2>1, PiecesJoin
  <2> QED BY <2>2
<1>4. p = <<>> <=> k = 0
  <2> HIDE DEF p, a, b
  <2> QED BY <1>1, <1>2, EmptySeq
<1> QED BY <1>1, <1>2, <1>3, <1>4

LEMMA AtLineStep ==
    ASSUME NEW r \in Seq(STRING), NEW m \in 0 .. Len(r), NEW k \in 0 .. Len(r) - m,
           NEW o, NEW tk \in Tasks, Waits(r, o, tk, m)
    PROVE  Goes(TRUE, r, o, WriteAtLine(tk, SubSeq(r, m + 1, m + k)), m, k)
<1>0. Len(r) \in Nat
    BY LenProperties
<1>1. PICK q \in 1 .. m + 1 : WaitsFrom(r, o, tk, m, q)
    BY DEF Waits
<1> DEFINE p == SubSeq(r, m + 1, m + k)
           hp == SubSeq(r, q, m + k)
<1>2. p \in Seq(STRING) /\ Len(p) = k /\ (p = <<>> <=> k = 0) /\ tk.held \o p = hp
    BY <1>1, NextPiece DEF WaitsFrom
<1>3. /\ tk.held \in Seq(STRING) /\ Len(tk.held) = m - q + 1
      /\ o \in Seq(STRING) /\ o \o <<>> = o
  <2>1. tk.held = SubSeq(r, q, m) /\ o = SubSeq(r, 1, q - 1)
      BY <1>1 DEF WaitsFrom
  <2>2. q \in Nat \ {0} /\ m \in Nat /\ q <= m + 1 /\ m <= Len(r) /\ q - 1 \in 0 .. Len(r)
      BY <1>0
  <2>3. SubSeq(r, q, m) \in Seq(STRING) /\ Len(SubSeq(r, q, m)) = m - q + 1
      BY <2>2, PieceFacts
  <2>4. SubSeq(r, 1, q - 1) \in Seq(STRING)
      BY <2>2, PrefixPieces
  <2> QED BY <2>1, <2>3, <2>4, ConcatEmptySeq
<1>4. CASE k = 0
  <2>1. WriteAtLine(tk, p) = Result(tk, <<>>, 0)
      BY <1>2, <1>4 DEF WriteAtLine
  <2>2. Took(TRUE, r, o, tk, m + k)
    <3>1. Took(TRUE, r, o, tk, m)
        BY DEF Took
    <3>2. m + k = m
        BY <1>4
    <3> QED BY <1>3, <3>1, <3>2
  <2> HIDE DEF p
  <2>3. Goes(TRUE, r, o, Result(tk, <<>>, 0), m, k)
    <3>1. m \in Nat /\ k \in Nat
        BY <1>0
    <3>2. Goes(TRUE, r, o, Result(tk, <<>>, k), m, k)
        BY <1>3, <2>2, <3>1, GoesSilent
    <3> QED BY <1>4, <3>2
  <2> QED BY <2>1, <2>3 DEF p
<1>5. CASE k # 0 /\ k + Len(tk.held) < 5
  <2> DEFINE new == [tk EXCEPT !.held = tk.held \o p]
  <2>1. WriteAtLine(tk, p) = Result(new, <<>>, k)
    <3> HIDE DEF p
    <3> QED BY <1>2, <1>5, HostBytes DEF WriteAtLine
  <2>2. new \in Tasks /\ AtLine(new) /\ new.held = hp
    <3>1. tk.held \o p \in Seq(STRING)
        BY <1>2, <1>3, ConcatProperties
    <3> HIDE DEF p, hp
    <3> QED BY <1>1, <1>2, <3>1 DEF Tasks, AtLine, WaitsFrom
  <2> HIDE DEF new, p
  <2>3. q \in 1 .. m + k + 1 /\ m + k < q + 4
      BY <1>3, <1>5
  <2>4. WaitsFrom(r, o, new, m + k, q)
      BY <1>1, <2>2, <2>3 DEF WaitsFrom
  <2>5. Took(TRUE, r, o, new, m + k)
      BY <2>3, <2>4 DEF Took, Waits
  <2>6. Goes(TRUE, r, o, Result(new, <<>>, k), m, k)
    <3>1. k \in Nat /\ m \in Nat
        BY <1>0
    <3> QED BY <1>3, <2>2, <2>5, <3>1, GoesSilent
  <2> QED BY <2>1, <2>6 DEF p
<1>6. CASE k # 0 /\ ~(k + Len(tk.held) < 5)
  <2> DEFINE w == WriteLines(tk, hp)
             mk == m + k
  <2>1. Rewritten(r, q, mk, w)
    <3>1. /\ q \in Nat \ {0} /\ mk \in Nat /\ q <= mk /\ mk <= Len(r)
          /\ LineAt(r, q) /\ NoHostTo(r, q - 1) /\ AtLine(tk)
        BY <1>0, <1>1, <1>6 DEF WaitsFrom
    <3> HIDE DEF mk
    <3>2. Rewritten(r, q, mk, WriteLines(tk, SubSeq(r, q, mk)))
        BY <3>1, LinesStep
    <3> QED BY <3>2 DEF mk
  <2>2. w \in Results
      BY <2>1 DEF Rewritten
  <2>3. Took(TRUE, r, o \o w.emit, w.task, mk) /\ w.n = mk - q + 1
      BY <1>1, <2>1 DEF Rewritten, WaitsFrom
  <2>4. CASE tk.held = <<>>
    <3>1. hp = p /\ mk - q + 1 = k
      <4>1. hp = p
          BY <1>2, <2>4, ConcatEmptySeq
      <4>2. m - q + 1 = 0
          BY <1>3, <2>4
      <4> QED BY <4>1, <4>2
    <3>2. WriteAtLine(tk, p) = w
      <4> HIDE DEF p, hp
      <4> QED BY <1>2, <1>6, <2>4, <3>1, HostBytes DEF WriteAtLine
    <3> HIDE DEF w
    <3> QED BY <2>2, <2>3, <3>1, <3>2 DEF Goes
  <2>5. CASE tk.held # <<>>
    <3> DEFINE v == [w EXCEPT !.n = k]
    <3>1. WriteAtLine(tk, p) = v
      <4> HIDE DEF p, hp
      <4> QED BY <1>2, <1>6, <2>5, HostBytes DEF WriteAtLine
    <3> HIDE DEF w
    <3>2. /\ v \in Results
          /\ v.n = k /\ v.emit = w.emit /\ v.task = w.task
        BY <2>2 DEF Results
    <3> HIDE DEF v
    <3> QED BY <2>3, <3>1, <3>2 DEF Goes
  <2> QED BY <2>4, <2>5
<1> QED BY <1>4, <1>5, <1>6

LEMMA SkipStep ==
    ASSUME NEW r \in Seq(STRING), NEW m \in 0 .. Len(r), NEW k \in 1 .. Len(r) - m,
           NEW o \in Seq(STRING), NEW tk \in Tasks, Skips(r, o, tk, m)
    PROVE  Goes(TRUE, r, o, WriteSkipping(tk, SubSeq(r, m + 1, m + k)), m, k)
<1> DEFINE p == SubSeq(r, m + 1, m + k)
<1>0. Len(r) \in Nat /\ m \in Nat /\ k \in Nat
    BY LenProperties
<1>1. PICK h \in 1 .. m : SkipsFrom(r, o, tk, m, h)
    BY DEF Skips
<1>2. Len(p) = k
    BY <1>0, NextPiece
<1>3. m + 1 \in Nat \ {0} /\ m + k \in Nat /\ m + 1 <= m + k /\ m + k <= Len(r) /\ h \in 1 .. m + k
    BY <1>0
<1>4. CASE \A i \in m + 1 .. m + k : r[i] # NL
  <2>1. WriteSkipping(tk, p) = Result(tk, <<>>, k)
      BY <1>2, <1>3, <1>4, UnendedPiece DEF WriteSkipping
  <2>2. \A i \in h .. m + k : r[i] # NL
      BY <1>0, <1>1, <1>4 DEF SkipsFrom
  <2>3. SkipsFrom(r, o, tk, m + k, h)
      BY <1>0, <1>1, <2>2, HostLineRange DEF SkipsFrom, FirstHost
  <2>4. Took(TRUE, r, o, tk, m + k)
      BY <1>3, <2>3 DEF Took, Skips
  <2> QED BY <1>0, <2>1, <2>4, GoesSilent
<1>5. ASSUME NEW e \in m + 1 .. m + k, r[e] = NL, \A i \in m + 1 .. e - 1 : r[i] # NL
      PROVE  Goes(TRUE, r, o, WriteSkipping(tk, p), m, k)
  <2> DEFINE rest == SubSeq(r, e + 1, m + k)
             new == [tk EXCEPT !.skipping = FALSE, !.rewriting = FALSE]
  <2>1. Ended(FirstLine(p)) /\ AfterFirstLine(p) = rest /\ rest \in Seq(STRING)
      BY <1>3, <1>5, EndedPiece
  <2>2. WriteSkipping(tk, p) = Result(new, rest, k)
    <3> HIDE DEF p, rest
    <3> QED BY <1>2, <2>1 DEF WriteSkipping
  <2>3. new \in Tasks /\ Idle(new)
      BY <1>1 DEF Tasks, Idle, SkipsFrom
  <2> HIDE DEF new, rest
  <2>4. \A i \in h .. e - 1 : r[i] # NL
      BY <1>0, <1>1, <1>5 DEF SkipsFrom
  <2>5. e \in h .. m + k
      BY <1>0
  <2>6. ReplacedAt(r, o \o rest, new, m + k, h, e)
      BY <1>1, <1>5, <2>3, <2>4 DEF ReplacedAt, SkipsFrom, rest
  <2>7. Took(TRUE, r, o \o rest, new, m + k)
      BY <1>3, <2>5, <2>6 DEF Took, Replaced
  <2> QED BY <1>0, <2>1, <2>2, <2>3, <2>7, GoesResult
<1> QED BY <1>3, <1>4, <1>5, FirstEnd

\* No line begins inside another.
LEMMA NoHostInside ==
    ASSUME NEW r \in Seq(STRING), NEW m \in Nat \ {0}, NEW e \in Nat, m <= e,
           NoHostTo(r, m), \A i \in m .. e - 1 : r[i] # NL
    PROVE  NoHostTo(r, e)
<1> SUFFICES ASSUME NEW h \in HostLines(r), h <= e PROVE FALSE
    BY HostLineRange DEF NoHostTo
<1>1. h \in Nat /\ h > m
    BY HostLineRange DEF NoHostTo
<1>2. h - 1 \in m .. e - 1
    BY <1>1
<1>3. r[h - 1] = NL
    BY <1>1 DEF HostLines, LineStarts
<1> QED BY <1>2, <1>3

LEMMA PassStep ==
    ASSUME NEW r \in Seq(STRING), NEW m \in 0 .. Len(r), NEW k \in 1 .. Len(r) - m,
           NEW o \in Seq(STRING), NEW tk \in Tasks, Passes(r, o, tk, m)
    PROVE  Goes(TRUE, r, o, WritePassing(tk, SubSeq(r, m + 1, m + k)), m, k)
<1> DEFINE p == SubSeq(r, m + 1, m + k)
<1>0. Len(r) \in Nat /\ m \in Nat /\ k \in Nat /\ m \in Nat \ {0}
    BY LenProperties DEF Passes
<1>1. /\ tk.rewriting /\ ~tk.skipping /\ tk.passing /\ tk.held = <<>>
      /\ r[m] # NL /\ NoHostTo(r, m) /\ o = SubSeq(r, 1, m)
    BY DEF Passes
<1>2. Len(p) = k /\ p \in Seq(STRING)
    BY <1>0, NextPiece
<1>3. m + 1 \in Nat \ {0} /\ m + k \in Nat /\ m + 1 <= m + k /\ m + k <= Len(r)
    BY <1>0
<1>4. CASE \A i \in m + 1 .. m + k : r[i] # NL
  <2>1. WritePassing(tk, p) = Result(tk, p, k)
      BY <1>2, <1>3, <1>4, UnendedPiece DEF WritePassing
  <2>2. NoHostTo(r, m + k)
    <3> DEFINE e == m + k
    <3>1. \A i \in m .. e - 1 : r[i] # NL
        BY <1>0, <1>1, <1>4
    <3>2. m <= e /\ e \in Nat
        BY <1>0
    <3>3. NoHostTo(r, e)
      <4> HIDE DEF e
      <4> QED BY <1>0, <1>1, <3>1, <3>2, NoHostInside
    <3> QED BY <3>3
  <2>3. o \o p = SubSeq(r, 1, m + k)
    <3>1. 1 \in 1 .. m + 1 /\ k \in 0 .. Len(r) - m
        BY <1>0
    <3> QED BY <1>1, <3>1, NextPiece
  <2>4. m + k >= 1 /\ r[m + k] # NL
      BY <1>0, <1>4
  <2>5. Passes(r, o \o p, tk, m + k)
      BY <1>1, <2>2, <2>3, <2>4 DEF Passes
  <2>6. Took(TRUE, r, o \o p, tk, m + k)
      BY <2>5 DEF Took
  <2> HIDE DEF p
  <2>7. Goes(TRUE, r, o, Result(tk, p, k), m, k)
      BY <1>0, <1>2, <2>6, GoesResult
  <2> QED BY <2>1, <2>7 DEF p
<1>5. ASSUME NEW e \in m + 1 .. m + k, r[e] = NL, \A i \in m + 1 .. e - 1 : r[i] # NL
      PROVE  Goes(TRUE, r, o, WritePassing(tk, p), m, k)
  <2> DEFINE rest == SubSeq(r, e + 1, m + k)
             new == [tk EXCEPT !.passing = FALSE]
             fl == SubSeq(r, m + 1, e)
             j == m + k - e
             w == WriteAtLine(new, rest)
             oe == SubSeq(r, 1, e)
  <2>0. e \in 0 .. Len(r) /\ j \in 0 .. Len(r) - e /\ e + j = m + k /\ (e - (m + 1) + 1) + j = k
      BY <1>0
  <2>1. /\ FirstLine(p) = fl /\ Len(FirstLine(p)) = e - (m + 1) + 1
        /\ Ended(FirstLine(p)) /\ AfterFirstLine(p) = rest
    <3> DEFINE g == m + 1
               mk == m + k
    <3>1. g \in Nat \ {0} /\ mk \in Nat /\ g <= mk /\ mk <= Len(r) /\ e \in g .. mk
          /\ \A i \in g .. e - 1 : r[i] # NL
        BY <1>3, <1>5
    <3>2. /\ FirstLine(SubSeq(r, g, mk)) = SubSeq(r, g, e)
          /\ Len(FirstLine(SubSeq(r, g, mk))) = e - g + 1
          /\ Ended(FirstLine(SubSeq(r, g, mk)))
          /\ AfterFirstLine(SubSeq(r, g, mk)) = SubSeq(r, e + 1, mk)
      <4> HIDE DEF g, mk
      <4> QED BY <1>5, <3>1, EndedPiece
    <3> QED BY <3>2
  <2>2. WritePassing(tk, p) = Result(w.task, fl \o w.emit, (e - (m + 1) + 1) + w.n)
    <3> HIDE DEF p, rest, fl
    <3> QED BY <2>1 DEF WritePassing
  <2>3. new \in Tasks /\ AtLine(new) /\ new.held = <<>>
      BY <1>1 DEF Tasks, AtLine
  <2>4. o \o fl = oe /\ fl \in Seq(STRING)
    <3>1. fl \in Seq(STRING)
        BY <1>0, PieceFacts
    <3>2. m <= e /\ e <= Len(r) /\ e \in Nat
        BY <1>0
    <3> QED BY <1>0, <1>1, <3>1, <3>2, TookPieces
  <2>5. Waits(r, oe, new, e)
    <3>1. NoHostTo(r, e)
      <4>1. \A i \in m .. e - 1 : r[i] # NL
          BY <1>0, <1>1, <1>5
      <4>2. m <= e /\ e \in Nat
          BY <1>0
      <4> QED BY <1>0, <1>1, <4>1, <4>2, NoHostInside
    <3>2. e \in Nat /\ e + 1 - 1 = e /\ e + 1 \in 1 .. e + 1 /\ e < e + 1 + 4
        BY <1>0
    <3>3. SubSeq(r, e + 1, e) = <<>>
        BY <3>2, SubSeqEmpty
    <3>4. LineAt(r, e + 1)
        BY <1>5, <3>2 DEF LineAt
    <3>5. NoHostTo(r, e + 1 - 1) /\ oe = SubSeq(r, 1, e + 1 - 1)
        BY <3>1, <3>2
    <3> HIDE DEF new, oe
    <3>6. WaitsFrom(r, oe, new, e, e + 1)
        BY <2>3, <3>2, <3>3, <3>4, <3>5 DEF WaitsFrom
    <3> QED BY <3>2, <3>6 DEF Waits
  <2>6. Goes(TRUE, r, oe, w, e, j)
    <3> HIDE DEF new, oe, j
    <3>1. Goes(TRUE, r, oe, WriteAtLine(new, SubSeq(r, e + 1, e + j)), e, j)
        BY <2>0, <2>3, <2>5, AtLineStep
    <3> QED BY <2>0, <3>1
  <2> HIDE DEF w, oe, fl, j
  <2>7. /\ w.task \in Tasks /\ w.emit \in Seq(STRING) /\ w.n = j
        /\ Took(TRUE, r, oe \o w.emit, w.task, m + k)
      BY <2>0, <2>6 DEF Goes, Results
  <2>8. o \o (fl \o w.emit) = oe \o w.emit /\ fl \o w.emit \in Seq(STRING)
    <3>1. (o \o fl) \o w.emit = o \o (fl \o w.emit)
        BY <2>4, <2>7, Regroup
    <3> QED BY <2>4, <2>7, <3>1, ConcatProperties
  <2>9. Goes(TRUE, r, o, Result(w.task, fl \o w.emit, k), m, k)
    <3>1. Took(TRUE, r, o \o (fl \o w.emit), w.task, m + k)
        BY <2>7, <2>8
    <3> QED BY <1>0, <2>7, <2>8, <3>1, GoesResult
  <2> QED BY <2>0, <2>2, <2>7, <2>9
<1> QED BY <1>3, <1>4, <1>5, FirstEnd

LEMMA BehindStep ==
    ASSUME NEW r \in Seq(STRING), NEW m \in 0 .. Len(r), NEW k \in 1 .. Len(r) - m,
           NEW o \in Seq(STRING), NEW tk \in Tasks, Replaced(r, o, tk, m)
    PROVE  Goes(TRUE, r, o, Result(tk, SubSeq(r, m + 1, m + k), k), m, k)
<1> DEFINE p == SubSeq(r, m + 1, m + k)
<1>0. Len(r) \in Nat /\ m \in Nat /\ k \in Nat /\ k \in 0 .. Len(r) - m
    BY LenProperties
<1>1. PICK h \in 1 .. m : \E e \in h .. m : ReplacedAt(r, o, tk, m, h, e)
    BY DEF Replaced
<1>2. PICK e \in h .. m : ReplacedAt(r, o, tk, m, h, e)
    BY <1>1
<1> DEFINE pre == HostReplaced(r, h)
           u == SubSeq(r, e + 1, m)
           v == SubSeq(r, e + 1, m + k)
<1>3. o = pre \o u /\ Idle(tk) /\ FirstHost(r, h)
    BY <1>2 DEF ReplacedAt
<1>4. pre \in Seq(STRING)
    BY <1>3, ReplacedType
<1>5. p \in Seq(STRING) /\ u \o p = v
  <2> DEFINE q == e + 1
  <2>1. q \in 1 .. m + 1
      OBVIOUS
  <2>2. SubSeq(r, q, m) \o p = SubSeq(r, q, m + k) /\ p \in Seq(STRING)
    <3> HIDE DEF q
    <3> QED BY <1>0, <2>1, NextPiece
  <2> QED BY <2>2
<1>6. u \in Seq(STRING)
  <2>1. e + 1 \in Nat \ {0} /\ e + 1 <= m + 1
      BY <1>0
  <2> QED BY <1>0, <2>1, PieceFacts
<1> HIDE DEF p, u, v, pre
<1>7. o \o p = pre \o v
  <2>1. (pre \o u) \o p = pre \o (u \o p)
      BY <1>4, <1>5, <1>6, Regroup
  <2> QED BY <1>3, <1>5, <2>1
<1>8. h \in 1 .. m + k /\ e \in h .. m + k
    BY <1>0
<1>9. ReplacedAt(r, o \o p, tk, m + k, h, e)
    BY <1>2, <1>7 DEF ReplacedAt, pre, v
<1>10. Took(TRUE, r, o \o p, tk, m + k)
    BY <1>8, <1>9 DEF Took, Replaced
<1>11. Goes(TRUE, r, o, Result(tk, p, k), m, k)
    BY <1>0, <1>5, <1>10, GoesResult
<1> QED BY <1>11 DEF p

LEMMA CopyStep ==
    ASSUME NEW r \in Seq(STRING), NEW m \in 0 .. Len(r), NEW k \in 1 .. Len(r) - m,
           NEW o \in Seq(STRING), NEW tk \in Tasks, Copies(r, o, tk, m)
    PROVE  Goes(FALSE, r, o, Result(tk, SubSeq(r, m + 1, m + k), k), m, k)
<1> DEFINE p == SubSeq(r, m + 1, m + k)
<1>0. Len(r) \in Nat /\ m \in Nat /\ k \in Nat /\ k \in 0 .. Len(r) - m /\ 1 \in 1 .. m + 1
    BY LenProperties
<1>1. p \in Seq(STRING) /\ o \o p = SubSeq(r, 1, m + k)
    BY <1>0, NextPiece DEF Copies
<1> HIDE DEF p
<1>2. Took(FALSE, r, o \o p, tk, m + k)
    BY <1>1 DEF Took, Copies
<1>3. Goes(FALSE, r, o, Result(tk, p, k), m, k)
    BY <1>0, <1>1, <1>2, GoesResult
<1> QED BY <1>3 DEF p

\* Whatever it holds, Write understands the next bytes.
LEMMA WriteGoes ==
    ASSUME NEW r \in Seq(STRING), NEW m \in 0 .. Len(r), NEW k \in 1 .. Len(r) - m,
           NEW use \in BOOLEAN, NEW o \in Seq(STRING), NEW tk \in Tasks,
           Took(use, r, o, tk, m)
    PROVE  Goes(use, r, o, WriteTask(tk, SubSeq(r, m + 1, m + k)), m, k)
<1> DEFINE p == SubSeq(r, m + 1, m + k)
<1>0. Len(r) \in Nat /\ k \in 0 .. Len(r) - m
    BY LenProperties
<1>1. Len(p) = k
    BY <1>0, NextPiece
<1> HIDE DEF p
<1>2. CASE ~use
  <2>1. Copies(r, o, tk, m) /\ ~tk.rewriting
      BY <1>2 DEF Took, Copies, Idle
  <2>2. WriteTask(tk, p) = Result(tk, p, k)
      BY <1>1, <2>1 DEF WriteTask
  <2>3. Goes(FALSE, r, o, Result(tk, p, k), m, k)
      BY <2>1, CopyStep DEF p
  <2> QED BY <1>2, <2>2, <2>3 DEF p
<1>3. ASSUME use, Waits(r, o, tk, m)
      PROVE  Goes(TRUE, r, o, WriteTask(tk, p), m, k)
  <2>1. WriteTask(tk, p) = WriteAtLine(tk, p)
      BY <1>3 DEF WriteTask, Waits, WaitsFrom, AtLine
  <2> QED BY <1>0, <1>3, <2>1, AtLineStep DEF p
<1>4. ASSUME use, Passes(r, o, tk, m)
      PROVE  Goes(TRUE, r, o, WriteTask(tk, p), m, k)
  <2>1. WriteTask(tk, p) = WritePassing(tk, p)
      BY <1>4 DEF WriteTask, Passes
  <2> QED BY <1>4, <2>1, PassStep DEF p
<1>5. ASSUME use, Skips(r, o, tk, m)
      PROVE  Goes(TRUE, r, o, WriteTask(tk, p), m, k)
  <2>1. WriteTask(tk, p) = WriteSkipping(tk, p)
      BY <1>5 DEF WriteTask, Skips, SkipsFrom
  <2> QED BY <1>5, <2>1, SkipStep DEF p
<1>6. ASSUME use, Replaced(r, o, tk, m)
      PROVE  Goes(TRUE, r, o, WriteTask(tk, p), m, k)
  <2>1. WriteTask(tk, p) = Result(tk, p, k)
      BY <1>1, <1>6 DEF WriteTask, Replaced, ReplacedAt, Idle
  <2> QED BY <1>6, <2>1, BehindStep DEF p
<1>7. use => Goes(TRUE, r, o, WriteTask(tk, p), m, k)
    BY <1>3, <1>4, <1>5, <1>6 DEF Took
<1> QED BY <1>2, <1>7 DEF p

LEMMA TookTypes ==
    ASSUME NEW r \in Seq(STRING), NEW m \in 0 .. Len(r),
           NEW use \in BOOLEAN, NEW o, NEW tk \in Tasks, Took(use, r, o, tk, m)
    PROVE  /\ ~(tk.skipping /\ tk.passing)
           /\ tk.skipping \/ tk.passing => tk.rewriting /\ tk.held = <<>>
    BY DEF Took, Waits, WaitsFrom, AtLine, Passes, Skips, SkipsFrom,
           Replaced, ReplacedAt, Copies, Idle

-----------------------------------------------------------------------------
(* Every step of the task.                                                 *)

\* What is written is never revised, and as long as the connection holds it is
\* known what it and the held bytes are of the request.
WriteKnown ==
    /\ TypeOK
    /\ NeverRevised
    /\ ~broken => Took(useLocalAsHTTPHost, request, out, t, taken)

LEMMA RequestType ==
    ASSUME request \in Requests
    PROVE  /\ request \in Seq(STRING) /\ Len(request) \in Nat
           /\ DOMAIN request = 1 .. Len(request)
    BY RequestsAssumption, LenProperties

LEMMA IntendedType ==
    ASSUME NEW r \in Seq(STRING)
    PROVE  Rewrite(r) \in Seq(STRING)
<1>1. CASE HostLines(r) = {}
    BY <1>1, RewriteNone
<1>2. CASE HostLines(r) # {}
    BY <1>2, HostExists, RewriteMembers
<1> QED BY <1>1, <1>2

LEMMA WriteKnownInit == Init => WriteKnown
<1> SUFFICES ASSUME Init PROVE WriteKnown
    OBVIOUS
<1>1. request \in Seq(STRING) /\ Len(request) \in Nat
    BY RequestType DEF Init
<1>2. TypeOK
  <2>1. <<>> \in Seq(STRING)
      BY EmptySeq
  <2>2. t \in Tasks /\ ~t.skipping /\ ~t.passing
      BY <2>1 DEF Init, Tasks
  <2>3. out \in Seq(STRING) /\ taken \in 0 .. Len(request) /\ broken \in BOOLEAN
    <3>1. out = <<>> /\ taken = 0 /\ broken = FALSE
        BY DEF Init
    <3>2. 0 \in 0 .. Len(request)
        BY <1>1
    <3> QED BY <2>1, <3>1, <3>2
  <2> QED BY <2>2, <2>3 DEF Init, TypeOK
<1>3. SubSeq(request, 1, 0) = <<>>
    BY SubSeqEmpty
<1>4. Took(useLocalAsHTTPHost, request, <<>>, t, 0)
  <2>1. CASE useLocalAsHTTPHost
    <3>1. NoHostTo(request, 1 - 1)
        BY <1>1, HostLineRange DEF NoHostTo
    <3>2. WaitsFrom(request, <<>>, t, 0, 1)
        BY <1>3, <2>1, <3>1 DEF WaitsFrom, AtLine, LineAt, Init
    <3>3. Waits(request, <<>>, t, 0)
        BY <3>2 DEF Waits
    <3> QED BY <2>1, <3>3 DEF Took
  <2>2. CASE ~useLocalAsHTTPHost
      BY <1>3, <2>2 DEF Took, Copies, Idle, Init
  <2> QED BY <2>1, <2>2
<1>5. out = <<>> /\ taken = 0 /\ ~broken /\ useLocalAsHTTPHost \in BOOLEAN
    BY DEF Init
<1>6. Took(useLocalAsHTTPHost, request, out, t, taken)
    BY <1>4, <1>5
<1>7. NeverRevised
    BY <1>1, <1>5, <1>6, TookPrefix DEF NeverRevised, Intended
<1> QED BY <1>2, <1>6, <1>7 DEF WriteKnown

\* Write of the next k bytes, and what it comes to if it succeeds.
LEMMA NextWrite ==
    ASSUME WriteKnown, ~broken, NEW k \in 1 .. Len(request) - taken
    PROVE  LET w == WriteTask(t, Piece(k)) IN
           /\ Goes(useLocalAsHTTPHost, request, out, w, taken, k)
           /\ IsPrefix(out \o w.emit, Intended(request))
           /\ taken + k \in 0 .. Len(request)
<1> DEFINE w == WriteTask(t, Piece(k))
           o == out \o w.emit
<1>1. /\ request \in Seq(STRING) /\ Len(request) \in Nat
      /\ taken \in 0 .. Len(request) /\ taken + k \in 0 .. Len(request)
      /\ useLocalAsHTTPHost \in BOOLEAN /\ out \in Seq(STRING) /\ t \in Tasks
    BY RequestType DEF WriteKnown, TypeOK
<1>2. Took(useLocalAsHTTPHost, request, out, t, taken)
    BY DEF WriteKnown
<1>3. Goes(useLocalAsHTTPHost, request, out, w, taken, k)
    BY <1>1, <1>2, WriteGoes DEF Piece
<1>4. Took(useLocalAsHTTPHost, request, o, w.task, taken + k)
    BY <1>3 DEF Goes
<1> HIDE DEF o
<1>5. IsPrefix(o, Intended(request))
    BY <1>1, <1>4, TookPrefix DEF Intended
<1> QED BY <1>1, <1>3, <1>5 DEF o

LEMMA WriteKeeps ==
    ASSUME WriteKnown, NEW k \in 1 .. Len(request) - taken, Write(k)
    PROVE  WriteKnown'
<1> DEFINE w == WriteTask(t, Piece(k))
<1>1. /\ ~broken /\ taken' = taken + w.n /\ t' = w.task /\ out' = out \o w.emit
      /\ request' = request /\ useLocalAsHTTPHost' = useLocalAsHTTPHost
      /\ broken' = broken
    BY DEF Write
<1>2. /\ Goes(useLocalAsHTTPHost, request, out, w, taken, k)
      /\ IsPrefix(out \o w.emit, Intended(request))
      /\ taken + k \in 0 .. Len(request)
    BY <1>1, NextWrite
<1> HIDE DEF w
<1>3. /\ w.n = k /\ w.task \in Tasks /\ w.emit \in Seq(STRING)
      /\ Took(useLocalAsHTTPHost, request, out \o w.emit, w.task, taken + k)
    BY <1>2 DEF Goes, Results
<1>4. /\ request \in Seq(STRING) /\ request \in Requests
      /\ useLocalAsHTTPHost \in BOOLEAN /\ out \in Seq(STRING) /\ broken \in BOOLEAN
    BY RequestType DEF WriteKnown, TypeOK
<1>5. out \o w.emit \in Seq(STRING)
    BY <1>3, <1>4, ConcatProperties
<1>6. /\ ~(w.task.skipping /\ w.task.passing)
      /\ w.task.skipping \/ w.task.passing => w.task.rewriting /\ w.task.held = <<>>
    BY <1>2, <1>3, <1>4, TookTypes
<1>7. TypeOK'
    BY <1>1, <1>2, <1>3, <1>4, <1>5, <1>6 DEF TypeOK
<1>8. NeverRevised'
    BY <1>1, <1>2 DEF NeverRevised, Intended
<1>9. Took(useLocalAsHTTPHost, request, out, t, taken)'
    BY <1>1, <1>3
<1> QED BY <1>7, <1>8, <1>9 DEF WriteKnown

\* What was written of a write is a beginning of it.
LEMMA PrefixShort ==
    ASSUME NEW s \in Seq(STRING), NEW u \in Seq(STRING), NEW w \in Seq(STRING),
           NEW j \in 0 .. Len(u), IsPrefix(s \o u, w)
    PROVE  s \o SubSeq(u, 1, j) \in Seq(STRING) /\ IsPrefix(s \o SubSeq(u, 1, j), w)
<1> DEFINE v == SubSeq(u, 1, j)
           su == s \o u
           sv == s \o v
<1>0. Len(s) \in Nat /\ Len(u) \in Nat /\ Len(w) \in Nat
    BY LenProperties
<1>1. v \in Seq(STRING) /\ Len(v) = j /\ \A i \in 1 .. j : v[i] = u[i]
    BY PrefixPieces
<1> HIDE DEF v
<1>2. /\ su \in Seq(STRING) /\ Len(su) = Len(s) + Len(u)
      /\ \A i \in 1 .. Len(s) + Len(u) :
            su[i] = IF i <= Len(s) THEN s[i] ELSE u[i - Len(s)]
    BY ConcatProperties
<1>3. /\ sv \in Seq(STRING) /\ Len(sv) = Len(s) + Len(v)
      /\ \A i \in 1 .. Len(s) + Len(v) :
            sv[i] = IF i <= Len(s) THEN s[i] ELSE v[i - Len(s)]
    BY <1>1, ConcatProperties
<1> HIDE DEF su, sv
<1>4. Len(su) <= Len(w) /\ \A i \in 1 .. Len(su) : su[i] = w[i]
    BY <1>2, PrefixFacts DEF su
<1>5. ASSUME NEW i \in 1 .. Len(sv) PROVE sv[i] = w[i]
  <2>1. i \in 1 .. Len(su) /\ i \in 1 .. Len(s) + Len(u) /\ i \in 1 .. Len(s) + Len(v)
      BY <1>0, <1>1, <1>2, <1>3
  <2>2. sv[i] = su[i]
    <3>1. CASE i <= Len(s)
        BY <1>2, <1>3, <2>1, <3>1
    <3>2. CASE ~(i <= Len(s))
      <4>1. i - Len(s) \in 1 .. j
          BY <1>0, <1>1, <2>1, <3>2
      <4> QED BY <1>1, <1>2, <1>3, <2>1, <3>2, <4>1
    <3> QED BY <3>1, <3>2
  <2> QED BY <1>4, <2>1, <2>2
<1>6. Len(sv) <= Len(w)
    BY <1>0, <1>1, <1>2, <1>3, <1>4
<1>7. IsPrefix(sv, w)
    BY <1>3, <1>5, <1>6, PrefixFacts
<1> QED BY <1>3, <1>7 DEF sv, v

LEMMA FailKeeps ==
    ASSUME WriteKnown, NEW k \in 1 .. Len(request) - taken,
           NEW j \in 0 .. k, WriteFails(k, j)
    PROVE  WriteKnown'
<1> DEFINE w == WriteTask(t, Piece(k))
<1>1. /\ ~broken /\ broken' = TRUE /\ j < Len(w.emit)
      /\ out' = out \o SubSeq(w.emit, 1, j)
      /\ request' = request /\ useLocalAsHTTPHost' = useLocalAsHTTPHost
      /\ taken' = taken /\ t' = t
    BY DEF WriteFails
<1>2. /\ Goes(useLocalAsHTTPHost, request, out, w, taken, k)
      /\ IsPrefix(out \o w.emit, Intended(request))
    BY <1>1, NextWrite
<1> HIDE DEF w
<1>3. w.emit \in Seq(STRING) /\ Len(w.emit) \in Nat
    BY <1>2, LenProperties DEF Goes, Results
<1>4. request \in Seq(STRING) /\ out \in Seq(STRING)
    BY RequestType DEF WriteKnown, TypeOK
<1>5. Intended(request) \in Seq(STRING)
    BY <1>4, IntendedType DEF Intended
<1>6. out' \in Seq(STRING) /\ IsPrefix(out', Intended(request))
  <2>1. j \in 0 .. Len(w.emit)
      BY <1>1, <1>3
  <2> QED BY <1>1, <1>2, <1>3, <1>4, <1>5, <2>1, PrefixShort
<1>7. TypeOK'
    BY <1>1, <1>6 DEF WriteKnown, TypeOK
<1>8. NeverRevised'
    BY <1>1, <1>6 DEF NeverRevised, Intended
<1> QED BY <1>1, <1>7, <1>8 DEF WriteKnown

LEMMA WriteKnownStep == WriteKnown /\ [Next]_vars => WriteKnown'
<1> SUFFICES ASSUME WriteKnown, [Next]_vars PROVE WriteKnown'
    OBVIOUS
<1>1. CASE UNCHANGED vars
    BY <1>1 DEF vars, WriteKnown, TypeOK, NeverRevised, Intended
<1>2. CASE Next
    BY <1>2, WriteKeeps, FailKeeps DEF Next
<1> QED BY <1>1, <1>2

LEMMA PathWriteSteps == [PathNext]_dataVars => [Next]_vars
    BY DEF PathNext, HTTPData, PeerData, TaskData, PublicNext, Arrive, Ends,
           Forwarded, dataVars

LEMMA WriteKnownHolds == PathSpec => []WriteKnown
<1>1. PathInit => WriteKnown
    BY WriteKnownInit DEF PathInit
<1> QED BY <1>1, WriteKnownStep, PathWriteSteps, PTL DEF PathSpec

\* Wherever the stream of a public connection is cut, and wherever the
\* connection to the local service breaks, what httpTask.Write
\* (client/task.go) has written is the request with its Host line replaced, as
\* far as it goes, and no byte of it is lost, written twice or moved.
THEOREM RequestRewritten == PathSpec => []RewrittenWhole
<1>1. WriteKnown => RewrittenWhole
  <2> SUFFICES ASSUME WriteKnown PROVE RewrittenWhole
      OBVIOUS
  <2>1. /\ request \in Seq(STRING) /\ taken \in 0 .. Len(request)
        /\ useLocalAsHTTPHost \in BOOLEAN
      BY RequestType DEF WriteKnown, TypeOK
  <2>2. ~broken => Took(useLocalAsHTTPHost, request, out, t, taken)
      BY DEF WriteKnown
  <2>3. CutsDoNotMatter
      BY <2>1, <2>2, TookCuts DEF CutsDoNotMatter, Intended
  <2> QED BY <2>3 DEF RewrittenWhole, WriteKnown
<1> QED BY <1>1, WriteKnownHolds, PTL

-----------------------------------------------------------------------------
(* What the server reads out of the beginning of a request.                *)

LEMMA MaxIs ==
    ASSUME NEW T \in SUBSET Nat, NEW m \in T, \A k \in T : k <= m
    PROVE  Max(T) = m
<1>1. \A x \in T : (\A y \in T : x >= y) => x = m
    OBVIOUS
<1> QED BY <1>1 DEF Max

LEMMA GreatestNumber ==
    ASSUME NEW T \in SUBSET Nat, T # {}, NEW b \in Nat, \A k \in T : k <= b
    PROVE  \E m \in T : \A k \in T : k <= m
<1> DEFINE D == {b - k : k \in T}
<1>1. D \in SUBSET Nat /\ D # {}
  <2>1. \A k \in T : b - k \in Nat
      OBVIOUS
  <2> QED BY <2>1
<1>2. PICK d \in D : \A k \in D : d <= k
  <2> HIDE DEF D
  <2> QED BY <1>1, LeastNumber
<1>3. PICK m \in T : d = b - m
    OBVIOUS
<1>4. \A k \in T : b - m <= b - k
    BY <1>2, <1>3
<1>5. \A k \in T : k <= m
    BY <1>4
<1> QED BY <1>5

LEMMA PrefixBytes ==
    /\ headerHostPrefix \in Seq({"H", "o", "s", "t", ":", " "})
    /\ Len(headerHostPrefix) = 6
    /\ headerHostPrefix[1] = "H" /\ headerHostPrefix[2] = "o" /\ headerHostPrefix[3] = "s"
    /\ headerHostPrefix[4] = "t" /\ headerHostPrefix[5] = ":"
    /\ \A j \in 1 .. 6 : headerHostPrefix[j] # NL
<1> DEFINE S == {"H", "o", "s", "t", ":", " "}
           sp == <<SP>>
<1>1. sp \in Seq(S) /\ Len(sp) = 1 /\ sp[1] = " "
    BY DEF SP
<1>2. host \in Seq(S) /\ Len(host) = 5
  <2>1. {"H", "o", "s", "t", ":"} \subseteq S
      OBVIOUS
  <2> QED BY <2>1, HostBytes, SeqMonotonic
<1>3. headerHostPrefix = host \o sp
    BY DEF headerHostPrefix
<1> HIDE DEF sp, S
<1>4. /\ headerHostPrefix \in Seq(S) /\ Len(headerHostPrefix) = Len(host) + Len(sp)
      /\ \A i \in 1 .. Len(host) + Len(sp) :
            headerHostPrefix[i] = IF i <= Len(host) THEN host[i] ELSE sp[i - Len(host)]
    BY <1>1, <1>2, <1>3, ConcatProperties
<1>4a. Len(host) = 5 /\ Len(sp) = 1
    BY <1>1, <1>2
<1>4b. 1 .. Len(host) + Len(sp) = 1 .. 6 /\ Len(host) + Len(sp) = 6
    BY <1>4a
<1>5. headerHostPrefix[6] = " " /\ \A i \in 1 .. 5 : headerHostPrefix[i] = host[i]
  <2>1. 6 \in 1 .. Len(host) + Len(sp) /\ ~(6 <= Len(host)) /\ 6 - Len(host) = 1
      BY <1>4a
  <2>2. headerHostPrefix[6] = sp[6 - Len(host)]
      BY <1>4, <2>1
  <2>3. headerHostPrefix[6] = " "
      BY <1>1, <2>1, <2>2
  <2>4. \A i \in 1 .. 5 : i \in 1 .. Len(host) + Len(sp) /\ i <= Len(host)
      BY <1>4a
  <2> QED BY <1>4, <2>3, <2>4
<1>6. NL # " "
    BY BytesAssumption
<1>7. \A j \in 1 .. 6 : j \in 1 .. 5 \/ j = 6
    OBVIOUS
<1>8. \A j \in 1 .. 6 : headerHostPrefix[j] # NL
    BY <1>5, <1>6, <1>7, HostBytes
<1>9. /\ headerHostPrefix[1] = "H" /\ headerHostPrefix[2] = "o" /\ headerHostPrefix[3] = "s"
      /\ headerHostPrefix[4] = "t" /\ headerHostPrefix[5] = ":"
  <2>1. 1 \in 1 .. 5 /\ 2 \in 1 .. 5 /\ 3 \in 1 .. 5 /\ 4 \in 1 .. 5 /\ 5 \in 1 .. 5
      OBVIOUS
  <2> QED BY <1>5, <2>1, HostBytes
<1>10. Len(headerHostPrefix) = 6
  <2>1. Len(headerHostPrefix) = Len(host) + Len(sp)
      BY <1>4
  <2> QED BY <1>4b, <2>1
<1> QED BY <1>4, <1>8, <1>9, <1>10 DEF S

LEMMA TargetType ==
    ASSUME mux \in {"sni", "Host", "header"}
    PROVE  \E S : target \in Seq(S) /\ Len(target) \in Nat
<1>1. CASE mux = "Host"
    BY <1>1, PrefixBytes, LenProperties DEF target
<1>2. CASE mux # "Host"
    BY <1>2, SizesAssumption, LenProperties DEF target
<1> QED BY <1>1, <1>2

\* The line that a byte is in.
LEMMA LineStartIs ==
    ASSUME NEW s \in Seq(STRING), NEW i \in 1 .. Len(s)
    PROVE  /\ LineStart(s, i) \in LineStarts(s)
           /\ LineStart(s, i) \in 1 .. i
           /\ \A k \in LineStarts(s) : k <= i => k <= LineStart(s, i)
<1>1. Len(s) \in Nat /\ DOMAIN s = 1 .. Len(s)
    BY LenProperties
<1> DEFINE T == {k \in LineStarts(s) : k <= i}
<1>2. T \in SUBSET Nat /\ 1 \in T /\ \A k \in T : k <= i
    BY <1>1 DEF LineStarts
<1>3. PICK g \in T : \A k \in T : k <= g
  <2> HIDE DEF T
  <2>1. i \in Nat /\ T # {}
      BY <1>1, <1>2
  <2> QED BY <1>2, <2>1, GreatestNumber
<1>4. Max(T) = g
  <2> HIDE DEF T
  <2> QED BY <1>2, <1>3, MaxIs
<1>5. LineStart(s, i) = g
    BY <1>4 DEF LineStart
<1>6. g \in 1 .. i
    BY <1>1, <1>2 DEF LineStarts
<1> QED BY <1>3, <1>5, <1>6

LEMMA LineStartUnique ==
    ASSUME NEW s \in Seq(STRING), NEW i \in 1 .. Len(s),
           NEW g \in LineStarts(s), g <= i,
           \A k \in LineStarts(s) : k <= i => k <= g
    PROVE  LineStart(s, i) = g
<1>1. LineStart(s, i) \in LineStarts(s) /\ LineStart(s, i) \in 1 .. i
      /\ g <= LineStart(s, i)
    BY LineStartIs
<1>2. LineStart(s, i) <= g /\ g \in Nat
    BY <1>1, LenProperties DEF LineStarts
<1> QED BY <1>1, <1>2

\* What has arrived looks the same as in the whole request.
LEMMA SameLines ==
    ASSUME NEW r \in Seq(STRING), NEW m \in 0 .. Len(r), NEW p, p = SubSeq(r, 1, m),
           NEW i \in 1 .. m, mux \in {"sni", "Host", "header"}
    PROVE  /\ LineStart(p, i) = LineStart(r, i)
           /\ p[i] = r[i]
           /\ HasTarget(p, i) = HasTarget(r, i)
           /\ endOfHeaders(p, i) = endOfHeaders(r, i)
           /\ HasTarget(r, i) => Value(p, i) = Value(r, i)
<1>0. Len(r) \in Nat /\ DOMAIN r = 1 .. Len(r) /\ i \in 1 .. Len(r) /\ m \in Nat
    BY LenProperties
<1>1. /\ p \in Seq(STRING) /\ Len(p) = m
      /\ \A k \in 1 .. m : p[k] = r[k]
      /\ \A a \in 1 .. m + 1, b \in 0 .. m :
            a <= b + 1 => SubSeq(p, a, b) = SubSeq(r, a, b)
    BY PrefixPieces
<1>2. DOMAIN p = 1 .. m
    BY <1>1, LenProperties
<1>3. {k \in LineStarts(p) : k <= i} = {k \in LineStarts(r) : k <= i}
  <2>1. \A k \in 1 .. m : k = 1 \/ p[k - 1] = r[k - 1]
      BY <1>0, <1>1
  <2> QED BY <2>1, <1>0, <1>2 DEF LineStarts
<1>4. LineStart(p, i) = LineStart(r, i)
    BY <1>3 DEF LineStart
<1> DEFINE g == LineStart(r, i)
<1>5. g \in 1 .. i
    BY <1>0, LineStartIs
<1> HIDE DEF g
<1>6. SubSeq(p, g, i - 1) = SubSeq(r, g, i - 1)
  <2>1. g \in 1 .. m + 1 /\ i - 1 \in 0 .. m /\ g <= (i - 1) + 1
      BY <1>0, <1>5
  <2> QED BY <1>1, <2>1
<1>7. HasTarget(p, i) = HasTarget(r, i)
    BY <1>4, <1>6 DEF HasTarget, g
<1>8. endOfHeaders(p, i) = endOfHeaders(r, i)
  <2>1. CASE i >= 4
    <3>1. i - 3 \in 1 .. m + 1 /\ i \in 0 .. m /\ i - 3 <= i + 1
        BY <1>0, <2>1
    <3>2. SubSeq(p, i - 3, i) = SubSeq(r, i - 3, i)
        BY <1>1, <3>1
    <3> QED BY <3>2 DEF endOfHeaders
  <2>2. CASE ~(i >= 4)
      BY <2>2 DEF endOfHeaders
  <2> QED BY <2>1, <2>2
<1>9. ASSUME HasTarget(r, i) PROVE Value(p, i) = Value(r, i)
  <2>1. Len(target) \in Nat
      BY TargetType
  <2>2. Len(SubSeq(r, g, i - 1)) >= Len(target)
      BY <1>9 DEF HasTarget, HasPrefix, g
  <2>3. Len(SubSeq(r, g, i - 1)) = i - g
    <3> DEFINE b == i - 1
    <3>1. g \in Nat \ {0} /\ b \in Nat /\ g <= b + 1 /\ b <= Len(r) /\ b - g + 1 = i - g
        BY <1>0, <1>5
    <3>2. Len(SubSeq(r, g, b)) = b - g + 1
      <4> HIDE DEF b
      <4> QED BY <3>1, PieceFacts
    <3> QED BY <3>1, <3>2
  <2>4. g + Len(target) \in 1 .. m + 1 /\ i - 1 \in 0 .. m /\ g + Len(target) <= (i - 1) + 1
      BY <1>0, <1>5, <2>1, <2>2, <2>3
  <2>5. SubSeq(p, g + Len(target), i - 1) = SubSeq(r, g + Len(target), i - 1)
      BY <1>1, <2>4
  <2> QED BY <1>4, <2>5 DEF Value, g
<1> QED BY <1>1, <1>4, <1>7, <1>8, <1>9

LEMMA SameStops ==
    ASSUME NEW r \in Seq(STRING), NEW m \in 0 .. Len(r), NEW p, p = SubSeq(r, 1, m),
           mux \in {"sni", "Host", "header"}
    PROVE  Stops(p) = {i \in Stops(r) : i <= m} /\ Stops(r) \in SUBSET (1 .. Len(r))
<1>0. Len(r) \in Nat /\ DOMAIN r = 1 .. Len(r)
    BY LenProperties
<1>1. DOMAIN p = 1 .. m
  <2>1. p \in Seq(STRING) /\ Len(p) = m
      BY PrefixPieces
  <2> QED BY <2>1, LenProperties
<1>2. \A i \in 1 .. m : /\ p[i] = r[i]
                        /\ HasTarget(p, i) = HasTarget(r, i)
                        /\ endOfHeaders(p, i) = endOfHeaders(r, i)
    BY SameLines
<1>3. \A i : i \in Stops(p) <=> i \in Stops(r) /\ i <= m
    BY <1>0, <1>1, <1>2 DEF Stops, LineEnds
<1>4. Stops(r) \in SUBSET (1 .. Len(r))
    BY <1>0 DEF Stops, LineEnds
<1> QED BY <1>3, <1>4

LEMMA SamePeek ==
    ASSUME NEW r \in Seq(STRING), NEW m \in 0 .. Len(r), NEW p, p = SubSeq(r, 1, m),
           mux \in {"sni", "Host", "header"}, Stops(p) # {}
    PROVE  PeekHeader(p) = PeekHeader(r)
<1>0. Len(r) \in Nat
    BY LenProperties
<1>1. Stops(p) = {i \in Stops(r) : i <= m} /\ Stops(r) \in SUBSET (1 .. Len(r))
    BY SameStops
<1>2. Stops(p) \in SUBSET Nat /\ Stops(r) \in SUBSET Nat
    BY <1>1
<1>3. PICK j \in Stops(p) : \A k \in Stops(p) : j <= k
    BY <1>2, LeastNumber
<1>4. j \in Stops(r) /\ \A k \in Stops(r) : j <= k
    BY <1>0, <1>1, <1>3
<1>5. Min(Stops(p)) = j /\ Min(Stops(r)) = j
    BY <1>2, <1>3, <1>4, MinIs
<1>6. j \in 1 .. m
    BY <1>1
<1>7. /\ LineStart(p, j) = LineStart(r, j)
      /\ HasTarget(p, j) = HasTarget(r, j)
      /\ HasTarget(r, j) => Value(p, j) = Value(r, j)
    BY <1>6, SameLines
<1>8. Stops(r) # {}
    BY <1>4
<1> QED BY <1>5, <1>7, <1>8 DEF PeekHeader

LEMMA TrimType ==
    ASSUME NEW v \in Seq(STRING)
    PROVE  TrimSpace(v) \in Seq(STRING)
<1>0. Len(v) \in Nat /\ DOMAIN v = 1 .. Len(v)
    BY LenProperties
<1> DEFINE T == {i \in DOMAIN v : v[i] \notin {SP, CR}}
<1>1. CASE T = {}
    BY <1>1, EmptySeq DEF TrimSpace
<1>2. CASE T # {}
  <2>1. T \in SUBSET Nat /\ \A k \in T : k \in 1 .. Len(v)
      BY <1>0
  <2> HIDE DEF T
  <2>2. PICK a \in T : \A k \in T : a <= k
      BY <1>2, <2>1, LeastNumber
  <2>3. PICK b \in T : \A k \in T : k <= b
    <3>1. \A k \in T : k <= Len(v)
        BY <1>0, <2>1
    <3> QED BY <1>0, <1>2, <2>1, <3>1, GreatestNumber
  <2>4. Min(T) = a /\ Max(T) = b
      BY <2>1, <2>2, <2>3, MinIs, MaxIs
  <2>5. a \in Nat \ {0} /\ b \in Nat /\ a <= b + 1 /\ b <= Len(v)
    <3>1. a \in 1 .. Len(v) /\ b \in 1 .. Len(v) /\ a <= b
        BY <2>1, <2>2
    <3> QED BY <1>0, <3>1
  <2>6. SubSeq(v, a, b) \in Seq(STRING)
      BY <2>5, PieceFacts
  <2> QED BY <1>2, <2>4, <2>6 DEF TrimSpace, T
<1> QED BY <1>1, <1>2

LEMMA ValueType ==
    ASSUME NEW p \in Seq(STRING), NEW i \in 1 .. Len(p), mux \in {"sni", "Host", "header"}
    PROVE  Value(p, i) \in Seq(STRING)
<1>0. Len(p) \in Nat
    BY LenProperties
<1>1. LineStart(p, i) \in 1 .. i /\ Len(target) \in Nat
    BY LineStartIs, TargetType
<1> DEFINE a == LineStart(p, i) + Len(target)
           b == i - 1
<1>2. a \in Int /\ b \in Int /\ \A k \in a .. b : k \in 1 .. Len(p)
    BY <1>0, <1>1
<1>3. \A k \in a .. b : p[k] \in STRING
  <2> HIDE DEF a, b
  <2> QED BY <1>2, ElementOfSeq
<1>4. SubSeq(p, a, b) \in Seq(STRING)
  <2> HIDE DEF a, b
  <2> QED BY <1>2, <1>3, SubSeqProperties
<1> QED BY <1>4, TrimType DEF Value

LEMMA IDType ==
    ASSUME NEW v \in Seq(STRING), Judge(v) = "routed"
    PROVE  ID(v) \in Seq(STRING)
<1>1. CASE mux = "header"
    BY <1>1 DEF ID
<1>2. CASE mux # "header"
  <2>0. Len(v) \in Nat /\ DOMAIN v = 1 .. Len(v)
      BY LenProperties
  <2>1. ValidHost(v)
      BY <1>2 DEF Judge
  <2>2. Dots(v) \in SUBSET Nat /\ Dots(v) # {} /\ Dots(v) \subseteq 1 .. Len(v)
      BY <2>0, <2>1 DEF ValidHost, Dots
  <2>3. PICK a \in Dots(v) : \A k \in Dots(v) : a <= k
      BY <2>2, LeastNumber
  <2>4. Min(Dots(v)) = a
      BY <2>2, <2>3, MinIs
  <2>5. a - 1 \in 0 .. Len(v)
    <3>1. a \in 1 .. Len(v)
        BY <2>2
    <3> QED BY <2>0, <3>1
  <2>6. SubSeq(v, 1, a - 1) \in Seq(STRING)
      BY <2>5, PrefixPieces
  <2> QED BY <1>2, <2>4, <2>6 DEF ID, parseIDFromHost
<1> QED BY <1>1, <1>2

LEMMA JudgeRange ==
    \A v : Judge(v) \in {"routed", "badLength", "badHost", "badID"}
    BY DEF Judge

LEMMA PeekTypes ==
    ASSUME NEW p \in Seq(STRING), mux \in {"sni", "Host", "header"}
    PROVE  /\ PeekHeader(p).to \in {"peeking", "routed"} \cup Refusals
           /\ PeekHeader(p).id \in Seq(STRING)
           /\ PeekHeader(p).line \in 0 .. Len(p)
           /\ PeekHeader(p) = [to |-> PeekHeader(p).to, id |-> PeekHeader(p).id,
                               line |-> PeekHeader(p).line]
<1>0. Len(p) \in Nat /\ DOMAIN p = 1 .. Len(p) /\ 0 \in 0 .. Len(p)
    BY LenProperties
<1>1. <<>> \in Seq(STRING)
    BY EmptySeq
<1>2. CASE Stops(p) = {}
    BY <1>0, <1>1, <1>2 DEF PeekHeader, Refusals
<1>3. CASE Stops(p) # {}
  <2> DEFINE i == Min(Stops(p))
             v == Value(p, i)
  <2>1. Stops(p) \in SUBSET Nat /\ Stops(p) \subseteq 1 .. Len(p)
      BY <1>0 DEF Stops, LineEnds
  <2>2. i \in 1 .. Len(p)
    <3>1. PICK a \in Stops(p) : \A k \in Stops(p) : a <= k
        BY <1>3, <2>1, LeastNumber
    <3>2. Min(Stops(p)) = a
        BY <2>1, <3>1, MinIs
    <3> QED BY <2>1, <3>2
  <2>3. CASE ~HasTarget(p, i)
      BY <1>0, <1>1, <1>3, <2>3 DEF PeekHeader, Refusals
  <2>4. CASE HasTarget(p, i)
    <3>1. PeekHeader(p) =
             [to |-> Judge(v), id |-> IF Judge(v) = "routed" THEN ID(v) ELSE <<>>,
              line |-> LineStart(p, i)]
        BY <1>3, <2>4 DEF PeekHeader
    <3> HIDE DEF i
    <3>2. v \in Seq(STRING)
        BY <2>2, ValueType
    <3>3. LineStart(p, i) \in 0 .. Len(p)
      <4>1. LineStart(p, i) \in 1 .. i
          BY <2>2, LineStartIs
      <4> QED BY <1>0, <2>2, <4>1
    <3> HIDE DEF v
    <3>4. (IF Judge(v) = "routed" THEN ID(v) ELSE <<>>) \in Seq(STRING)
        BY <1>1, <3>2, IDType
    <3>5. Judge(v) \in {"routed"} \cup Refusals
        BY JudgeRange DEF Refusals
    <3> QED BY <3>1, <3>3, <3>4, <3>5
  <2> QED BY <2>3, <2>4
<1> QED BY <1>2, <1>3

-----------------------------------------------------------------------------
(* The server's answer, and that it does not depend on the cuts.            *)

RouteTypes ==
    /\ mux \in {"sni", "Host", "header"}
    /\ arrived \in 0 .. BufferSize /\ arrived <= Len(request)
    /\ routing \in {"peeking", "routed"} \cup Refusals
    /\ id \in Seq(STRING) /\ line \in 0 .. Len(request)
    /\ taken > 0 => routing = "routed"

RouteKnown == RouteTypes /\ RoutedAsSent

LEMMA RouteKnownInit == Init /\ PublicInit => RouteKnown
<1> SUFFICES ASSUME Init, PublicInit PROVE RouteKnown
    OBVIOUS
<1>1. request \in Seq(STRING) /\ Len(request) \in Nat
    BY RequestsAssumption, LenProperties DEF Init
<1>2. RouteTypes
  <2>1. BufferSize \in Nat
      BY SizesAssumption
  <2>2. id \in Seq(STRING)
      BY EmptySeq DEF PublicInit
  <2> QED BY <1>1, <2>1, <2>2 DEF Init, PublicInit, RouteTypes
<1>3. RoutedAsSent
    BY DEF PublicInit, RoutedAsSent
<1> QED BY <1>2, <1>3 DEF RouteKnown

\* The answer depends on the request and on how the connection is assigned.
LEMMA AnswerKept ==
    ASSUME UNCHANGED <<request, mux>>
    PROVE  /\ Answer' = Answer /\ First' = First
           /\ Stops(request)' = Stops(request)
<1>1. target' = target
    BY DEF target, headerHostPrefix
<1>2. \A p, i : HasTarget(p, i)' = HasTarget(p, i)
    BY <1>1 DEF HasTarget
<1>3. \A p : Stops(p)' = Stops(p)
    BY <1>2 DEF Stops
<1>4. \A p, i : Value(p, i)' = Value(p, i)
    BY <1>1 DEF Value
<1>5. \A v : Judge(v)' = Judge(v) /\ ID(v)' = ID(v)
    BY DEF Judge, ID
<1>6. \A p : PeekHeader(p)' = PeekHeader(p)
    BY <1>2, <1>3, <1>4, <1>5 DEF PeekHeader
<1>7. Stops(request)' = Stops(request)
    BY <1>3
<1>8. Answer' = Answer
    BY <1>6 DEF Answer
<1>9. First' = First
    BY <1>7 DEF First
<1> QED BY <1>7, <1>8, <1>9

\* A round of peekHeader over the first m bytes.
LEMMA PeekIsAnswer ==
    ASSUME request \in Seq(STRING), mux \in {"sni", "Host", "header"},
           NEW m \in 0 .. Len(request), NEW p, p = SubSeq(request, 1, m),
           PeekHeader(p).to # "peeking"
    PROVE  \/ Answer = PeekHeader(p)
           \/ /\ PeekHeader(p).to = "tooLong"
              /\ Stops(request) # {} => First > MaxHTTPHeaderSize
<1>1. CASE Stops(p) # {}
  <2>1. PeekHeader(p) = PeekHeader(request)
      BY <1>1, SamePeek
  <2> QED BY <2>1 DEF Answer
<1>2. CASE Stops(p) = {}
  <2>0. Len(p) = m /\ m \in Nat
    <3>1. Len(p) = m
        BY PrefixPieces
    <3>2. Len(request) \in Nat
        BY LenProperties
    <3> QED BY <3>1, <3>2
  <2>1. PeekHeader(p).to = "tooLong" /\ m > MaxHTTPHeaderSize
      BY <1>2, <2>0 DEF PeekHeader
  <2>2. ASSUME Stops(request) # {} PROVE First > MaxHTTPHeaderSize
    <3>1. Stops(p) = {i \in Stops(request) : i <= m}
          /\ Stops(request) \in SUBSET (1 .. Len(request))
        BY SameStops
    <3>2. Stops(request) \in SUBSET Nat
        BY <3>1
    <3>3. PICK j \in Stops(request) : \A k \in Stops(request) : j <= k
        BY <2>2, <3>2, LeastNumber
    <3>4. First = j
        BY <3>2, <3>3, MinIs DEF First
    <3>5. j \in Nat /\ ~(j <= m)
        BY <1>2, <3>1, <3>2
    <3>6. MaxHTTPHeaderSize \in Nat
        BY SizesAssumption
    <3> QED BY <2>0, <2>1, <3>4, <3>5, <3>6
  <2> QED BY <2>1, <2>2
<1> QED BY <1>1, <1>2

LEMMA ArriveKeepsRoute ==
    ASSUME request \in Seq(STRING), RouteKnown,
           NEW k \in 1 .. Len(request) - arrived, Arrive(k)
    PROVE  RouteKnown'
<1> DEFINE m == arrived + k
           p == SubSeq(request, 1, m)
<1>0. Len(request) \in Nat /\ BufferSize \in Nat
    BY SizesAssumption, LenProperties
<1>1. m \in 0 .. Len(request) /\ m \in 0 .. BufferSize
    BY <1>0 DEF RouteKnown, RouteTypes, Arrive
<1>2. p \in Seq(STRING) /\ Len(p) = m
    BY <1>1, PrefixPieces
<1>3. mux \in {"sni", "Host", "header"} /\ mux' = mux /\ request' = request /\ taken' = taken
    BY DEF RouteKnown, RouteTypes, Arrive, vars
<1>4. routing = "peeking" /\ taken' > 0 => FALSE
    BY <1>3 DEF RouteKnown, RouteTypes, Arrive
<1>4a. routing = "peeking"
    BY DEF Arrive
<1>5. arrived' = (IF routing' = "peeking" THEN Len(p) ELSE 0)
    BY DEF Arrive
<1> DEFINE Types == /\ routing' \in {"peeking", "routed"} \cup Refusals
                    /\ id' \in Seq(STRING) /\ line' \in 0 .. Len(request)
<1>6. ASSUME Types PROVE RouteTypes'
  <2> HIDE DEF p
  <2>1. arrived' \in 0 .. BufferSize /\ arrived' <= Len(request)
      BY <1>0, <1>1, <1>2, <1>5
  <2> QED BY <1>3, <1>4, <1>4a, <1>6, <2>1 DEF RouteTypes
<1>7. CASE Len(p) < 2
  <2>1. UNCHANGED <<routing, id, line>>
      BY <1>7 DEF Arrive
  <2>2. RouteTypes'
      BY <1>6, <2>1 DEF RouteKnown, RouteTypes
  <2>3. RoutedAsSent'
      BY <1>4a, <2>1 DEF RoutedAsSent
  <2> QED BY <2>2, <2>3 DEF RouteKnown
<1>8. CASE ~(Len(p) < 2) /\ mux = "sni"
  <2>1. routing' = PeekHello(p).to /\ id' = <<>> /\ line' = 0
      BY <1>8 DEF Arrive, PeekHello
  <2>2. routing' \in {"badHello", "routed"}
      BY <2>1 DEF PeekHello
  <2>3. id' \in Seq(STRING) /\ line' \in 0 .. Len(request)
      BY <1>0, <2>1, EmptySeq
  <2>4. RouteTypes'
      BY <1>6, <2>2, <2>3 DEF Refusals
  <2>5. RoutedAsSent'
      BY <1>3, <1>8 DEF RoutedAsSent
  <2> QED BY <2>4, <2>5 DEF RouteKnown
<1>9. CASE ~(Len(p) < 2) /\ mux # "sni"
  <2>1. routing' = PeekHeader(p).to /\ id' = PeekHeader(p).id /\ line' = PeekHeader(p).line
      BY <1>9 DEF Arrive
  <2> HIDE DEF p
  <2>2. /\ PeekHeader(p).to \in {"peeking", "routed"} \cup Refusals
        /\ PeekHeader(p).id \in Seq(STRING)
        /\ PeekHeader(p).line \in 0 .. Len(p)
        /\ PeekHeader(p) = [to |-> PeekHeader(p).to, id |-> PeekHeader(p).id,
                            line |-> PeekHeader(p).line]
      BY <1>2, <1>3, PeekTypes
  <2>3. PeekHeader(p).line \in 0 .. Len(request)
      BY <1>0, <1>1, <1>2, <2>2
  <2>4. RouteTypes'
      BY <1>6, <2>1, <2>2, <2>3
  <2>5. ASSUME routing' # "peeking"
        PROVE  \/ Answer = PeekHeader(p)
               \/ /\ PeekHeader(p).to = "tooLong"
                  /\ Stops(request) # {} => First > MaxHTTPHeaderSize
    <3>1. p = SubSeq(request, 1, m)
        BY DEF p
    <3>2. PeekHeader(p).to # "peeking"
        BY <2>1, <2>5
    <3> HIDE DEF m
    <3> QED BY <1>1, <1>3, <3>1, <3>2, PeekIsAnswer
  <2>6. PeekHeader(p) = [to |-> routing', id |-> id', line |-> line']
      BY <2>1, <2>2
  <2>7. /\ Answer' = Answer /\ First' = First
        /\ Stops(request)' = Stops(request)
      BY <1>3, AnswerKept
  <2>8. RoutedAsSent'
      BY <2>1, <2>5, <2>6, <2>7 DEF RoutedAsSent
  <2> QED BY <2>4, <2>8 DEF RouteKnown
<1> QED BY <1>7, <1>8, <1>9

\* Everything else leaves the answer alone.
LEMMA OthersKeepRoute ==
    ASSUME RouteKnown, UNCHANGED <<request, mux, arrived, id, line>>,
           \/ UNCHANGED <<routing, taken>>
           \/ routing = "routed" /\ UNCHANGED routing
           \/ routing = "peeking" /\ routing' = "ended" /\ UNCHANGED taken
    PROVE  RouteKnown'
<1>1. RouteTypes'
    BY DEF RouteKnown, RouteTypes, Refusals
<1>2. /\ Answer' = Answer /\ First' = First
      /\ Stops(request)' = Stops(request)
    BY AnswerKept
<1>3. RoutedAsSent'
    BY <1>2 DEF RouteKnown, RoutedAsSent
<1> QED BY <1>1, <1>3 DEF RouteKnown

LEMMA RouteKnownStep ==
    WriteKnown /\ RouteKnown /\ [PathNext]_dataVars => RouteKnown'
<1> SUFFICES ASSUME WriteKnown, RouteKnown, [PathNext]_dataVars PROVE RouteKnown'
    OBVIOUS
<1>1. request \in Seq(STRING)
    BY RequestType DEF WriteKnown, TypeOK
<1>2. CASE UNCHANGED <<vars, pubVars>>
    BY <1>2, OthersKeepRoute DEF vars, pubVars
<1>3. CASE PublicNext
  <2>1. ASSUME NEW k \in 1 .. Len(request) - arrived, Arrive(k) PROVE RouteKnown'
      BY <1>1, <2>1, ArriveKeepsRoute
  <2>2. CASE Ends
      BY <2>2, OthersKeepRoute DEF Ends, vars
  <2>3. CASE Forwarded
    <3>1. request' = request
        BY <2>3 DEF Forwarded, Next, Write, WriteFails
    <3> QED BY <2>3, <3>1, OthersKeepRoute DEF Forwarded, pubVars
  <2> QED BY <1>3, <2>1, <2>2, <2>3 DEF PublicNext
<1> QED BY <1>2, <1>3 DEF PathNext, HTTPData, PeerData, TaskData, dataVars

LEMMA RouteKnownHolds == PathSpec => []RouteKnown
<1>1. PathInit => RouteKnown
    BY RouteKnownInit DEF PathInit
<1> QED BY <1>1, RouteKnownStep, WriteKnownHolds, PTL DEF PathSpec

\* However the reads cut a request, the server (peekHeader and handleHTTP,
\* server/http.go and server/conn.go) comes to the id and to the refusal that
\* the whole request calls for; only the size limit may refuse one whose line
\* ends behind it.
THEOREM RequestRouted == PathSpec => []RoutedAsSent
<1>1. RouteKnown => RoutedAsSent
    BY DEF RouteKnown
<1> QED BY <1>1, RouteKnownHolds, PTL

-----------------------------------------------------------------------------
(* The line the server found and the line the agent replaces.               *)

PrefixAt(s, a) == \A j \in 1 .. 6 : s[a + j - 1] = headerHostPrefix[j]

LEMMA PrefixAtIs ==
    ASSUME NEW s \in Seq(STRING), NEW a \in Nat \ {0}, NEW b \in Nat,
           a <= b + 1, b <= Len(s)
    PROVE  HasPrefix(SubSeq(s, a, b), headerHostPrefix) <=> a + 5 <= b /\ PrefixAt(s, a)
<1> DEFINE p == SubSeq(s, a, b)
<1>1. /\ p \in Seq(STRING) /\ Len(p) = b - a + 1
      /\ \A i \in 1 .. b - a + 1 : p[i] = s[a + i - 1]
    BY PieceFacts
<1>2. Len(headerHostPrefix) = 6
    BY PrefixBytes
<1> HIDE DEF p
<1>3. CASE a + 5 <= b
  <2>1. HasPrefix(p, headerHostPrefix) <=> \A j \in 1 .. 6 : p[j] = headerHostPrefix[j]
    <3>1. Len(headerHostPrefix) <= Len(p)
        BY <1>1, <1>2, <1>3
    <3>2. PICK T : headerHostPrefix \in Seq(T)
        BY PrefixBytes
    <3>3. HasPrefix(p, headerHostPrefix)
             <=> \A j \in 1 .. Len(headerHostPrefix) : p[j] = headerHostPrefix[j]
        BY <1>1, <3>1, <3>2, PrefixIs
    <3> QED BY <1>2, <3>3
  <2>2. \A j \in 1 .. 6 : p[j] = s[a + j - 1]
    <3>1. \A j \in 1 .. 6 : j \in 1 .. b - a + 1
        BY <1>3
    <3> QED BY <1>1, <3>1
  <2> QED BY <1>3, <2>1, <2>2 DEF PrefixAt, p
<1>4. CASE ~(a + 5 <= b)
    BY <1>1, <1>2, <1>4 DEF HasPrefix, p
<1> QED BY <1>3, <1>4

\* Where the server sees a Host line the agent sees one.
LEMMA TargetIsHost ==
    ASSUME NEW r \in Seq(STRING), NEW i \in 1 .. Len(r), mux = "Host", HasTarget(r, i)
    PROVE  LineStart(r, i) \in HostLines(r)
<1> DEFINE g == LineStart(r, i)
           b == i - 1
<1>0. Len(r) \in Nat
    BY LenProperties
<1>1. g \in LineStarts(r) /\ g \in 1 .. i
    BY LineStartIs
<1>2. HasPrefix(SubSeq(r, g, b), headerHostPrefix)
    BY DEF HasTarget, target
<1> HIDE DEF g
<1>3. g \in Nat \ {0} /\ b \in Nat /\ g <= b + 1 /\ b <= Len(r)
    BY <1>0, <1>1
<1>4. g + 5 <= b /\ PrefixAt(r, g)
  <2> HIDE DEF b
  <2> QED BY <1>2, <1>3, PrefixAtIs
<1>5. HostAt(r, g)
  <2>1. \A j \in 1 .. 6 : r[g + j - 1] = headerHostPrefix[j]
      BY <1>4 DEF PrefixAt
  <2>2. /\ r[g + 1 - 1] = "H" /\ r[g + 2 - 1] = "o" /\ r[g + 3 - 1] = "s"
        /\ r[g + 4 - 1] = "t" /\ r[g + 5 - 1] = ":"
    <3>1. 1 \in 1 .. 6 /\ 2 \in 1 .. 6 /\ 3 \in 1 .. 6 /\ 4 \in 1 .. 6 /\ 5 \in 1 .. 6
        OBVIOUS
    <3> QED BY <2>1, <3>1, PrefixBytes
  <2>3. /\ g + 1 - 1 = g /\ g + 2 - 1 = g + 1 /\ g + 3 - 1 = g + 2
        /\ g + 4 - 1 = g + 3 /\ g + 5 - 1 = g + 4
      BY <1>3
  <2>4. g + 4 <= Len(r)
      BY <1>0, <1>3, <1>4
  <2> QED BY <2>2, <2>3, <2>4 DEF HostAt
<1> QED BY <1>1, <1>5 DEF HostLines, g

\* The server stops at the end of a whole line that begins as it wants it.
LEMMA PrefixedStops ==
    ASSUME NEW r \in Seq(STRING), mux = "Host",
           NEW h \in LineStarts(r), NEW g \in LineStarts(r), h < g,
           HasPrefix(From(r, h), headerHostPrefix)
    PROVE  \E e \in Stops(r) : e < g
<1>0. Len(r) \in Nat /\ DOMAIN r = 1 .. Len(r)
    BY LenProperties
<1>1. h \in 1 .. Len(r) /\ g \in 1 .. Len(r) /\ r[g - 1] = NL
    BY <1>0 DEF LineStarts
<1>2. PrefixAt(r, h)
  <2>1. h \in Nat \ {0} /\ Len(r) \in Nat /\ h <= Len(r) + 1 /\ Len(r) <= Len(r)
      BY <1>0, <1>1
  <2> QED BY <2>1, PrefixAtIs DEF From
<1>3. PICK e \in h .. g - 1 : r[e] = NL /\ \A i \in h .. e - 1 : r[i] # NL
  <2>1. g - 1 \in h .. g - 1 /\ g - 1 \in Nat /\ h \in Nat
      BY <1>0, <1>1
  <2> QED BY <1>1, <2>1, FirstEnd
<1>4. e \in 1 .. Len(r) /\ e < g /\ h <= e
    BY <1>0, <1>1
<1>5. LineStart(r, e) = h
  <2>1. ASSUME NEW k \in LineStarts(r), k <= e PROVE k <= h
    <3>1. k \in 1 .. Len(r) /\ (k = 1 \/ r[k - 1] = NL)
        BY <1>0 DEF LineStarts
    <3>2. SUFFICES ASSUME k > h PROVE FALSE
        BY <1>1, <3>1
    <3>3. k - 1 \in h .. e - 1 /\ k # 1
        BY <1>1, <1>4, <2>1, <3>1, <3>2
    <3> QED BY <1>3, <3>1, <3>3
  <2> QED BY <1>4, <2>1, LineStartUnique
<1>6. h + 6 <= e
  <2>1. SUFFICES ASSUME e < h + 6 PROVE FALSE
      BY <1>1, <1>4
  <2>2. e - h + 1 \in 1 .. 6 /\ h + (e - h + 1) - 1 = e
      BY <1>1, <1>4, <2>1
  <2>3. r[h + (e - h + 1) - 1] = headerHostPrefix[e - h + 1]
      BY <1>2, <2>2 DEF PrefixAt
  <2>4. headerHostPrefix[e - h + 1] # NL
      BY <2>2, PrefixBytes
  <2> QED BY <1>3, <2>2, <2>3, <2>4
<1>7. HasTarget(r, e)
  <2> DEFINE b == e - 1
  <2>1. /\ h \in Nat \ {0} /\ b \in Nat /\ h <= b + 1 /\ b <= Len(r)
        /\ h + 5 <= b
      BY <1>0, <1>1, <1>4, <1>6
  <2>2. HasPrefix(SubSeq(r, h, b), headerHostPrefix)
    <3> HIDE DEF b
    <3> QED BY <1>2, <2>1, PrefixAtIs
  <2> QED BY <1>5, <2>2 DEF HasTarget, target
<1>8. e \in Stops(r)
    BY <1>0, <1>3, <1>4, <1>7 DEF Stops, LineEnds
<1> QED BY <1>4, <1>8

\* The line of a connection that was routed by its Host line.
LEMMA RoutedLine ==
    ASSUME request \in Seq(STRING), RouteKnown, mux = "Host", routing = "routed"
    PROVE  /\ line \in HostLines(request)
           /\ \A e \in Stops(request) : line <= e
<1>0. Len(request) \in Nat /\ DOMAIN request = 1 .. Len(request)
    BY LenProperties
<1>1. PeekHeader(request) = [to |-> "routed", id |-> id, line |-> line]
    BY DEF RouteKnown, RoutedAsSent, Answer
<1>2. Stops(request) # {}
    BY <1>1 DEF PeekHeader
<1>3. Stops(request) \subseteq 1 .. Len(request) /\ Stops(request) \in SUBSET Nat
    BY <1>0 DEF Stops, LineEnds
<1>4. PICK i \in Stops(request) : \A e \in Stops(request) : i <= e
    BY <1>2, <1>3, LeastNumber
<1>5. Min(Stops(request)) = i
    BY <1>3, <1>4, MinIs
<1>6. HasTarget(request, i) /\ line = LineStart(request, i)
    BY <1>1, <1>2, <1>5 DEF PeekHeader
<1>7. i \in 1 .. Len(request)
    BY <1>3
<1>8. line \in HostLines(request)
    BY <1>6, <1>7, TargetIsHost
<1>9. line \in 1 .. i
    BY <1>6, <1>7, LineStartIs
<1>10. \A e \in Stops(request) : line <= e
    BY <1>3, <1>4, <1>9
<1> QED BY <1>8, <1>10

\* The first line of the agent's own in what it has written.
LEMMA FirstReplaced ==
    ASSUME NEW r \in Seq(STRING), \A i \in DOMAIN r : r[i] # HostLine,
           NEW h, FirstHost(r, h), NEW o \in Seq(STRING), IsPrefix(o, Rewrite(r))
    PROVE  IF \E i \in DOMAIN o : o[i] = HostLine
           THEN Min({j \in DOMAIN o : o[j] = HostLine}) = h
           ELSE Len(o) < h
<1>0. /\ Len(r) \in Nat /\ DOMAIN r = 1 .. Len(r) /\ h \in 1 .. Len(r)
      /\ Len(o) \in Nat /\ DOMAIN o = 1 .. Len(o)
    BY LenProperties, HostLineRange DEF FirstHost
<1>1. /\ Rewrite(r) \in Seq(STRING)
      /\ h \in 1 .. Len(Rewrite(r)) /\ Len(Rewrite(r)) \in Nat
      /\ Rewrite(r)[h] = HostLine
      /\ \A i \in 1 .. h - 1 : Rewrite(r)[i] = r[i]
    BY RewriteMembers
<1>2. Len(o) <= Len(Rewrite(r)) /\ \A i \in 1 .. Len(o) : o[i] = Rewrite(r)[i]
    BY <1>1, PrefixFacts
<1>3. \A i \in 1 .. Len(o) : i < h => o[i] # HostLine
  <2>1. \A i \in 1 .. Len(o) : i < h => i \in 1 .. h - 1 /\ i \in 1 .. Len(r)
      BY <1>0
  <2> QED BY <1>0, <1>1, <1>2, <2>1
<1> DEFINE T == {j \in DOMAIN o : o[j] = HostLine}
<1>4. CASE h <= Len(o)
  <2>1. h \in T
      BY <1>0, <1>1, <1>2, <1>4
  <2>2. T \in SUBSET Nat /\ \A k \in T : h <= k
      BY <1>0, <1>3
  <2>3. Min(T) = h
    <3> HIDE DEF T
    <3> QED BY <2>1, <2>2, MinIs
  <2> QED BY <2>1, <2>3
<1>5. CASE Len(o) < h
  <2>1. \A i \in DOMAIN o : o[i] # HostLine
      BY <1>0, <1>3, <1>5
  <2> QED BY <1>5, <2>1
<1> QED BY <1>0, <1>4, <1>5

\* httpTask.Write (client/task.go) replaces the very line by which the server
\* (server/http.go) chose the agent, before any of it reaches the local
\* service, except for a line before it that has no space behind "Host:",
\* which the server does not see as one.
THEOREM SameLineReplaced == PathSpec => []RoutedLineReplaced
<1>1. WriteKnown /\ RouteKnown => RoutedLineReplaced
  <2> SUFFICES ASSUME WriteKnown, RouteKnown,
                      mux = "Host", routing = "routed", useLocalAsHTTPHost
               PROVE  IF \E i \in DOMAIN out : out[i] = HostLine
                      THEN LET i == Min({j \in DOMAIN out : out[j] = HostLine}) IN
                           \/ i = line
                           \/ i < line /\ ~HasPrefix(From(request, i), headerHostPrefix)
                      ELSE Len(out) < line
      BY DEF RoutedLineReplaced
  <2>1. /\ request \in Seq(STRING) /\ request \in Requests /\ out \in Seq(STRING)
        /\ IsPrefix(out, Rewrite(request))
      BY RequestType DEF WriteKnown, TypeOK, NeverRevised, Intended
  <2>2. \A i \in DOMAIN request : request[i] # HostLine
      BY <2>1, RequestsAssumption
  <2>3. /\ line \in HostLines(request)
        /\ \A e \in Stops(request) : line <= e
      BY <2>1, RoutedLine
  <2>4. PICK h : FirstHost(request, h)
      BY <2>1, <2>3, HostExists
  <2>5. h \in HostLines(request) /\ h <= line
      BY <2>3, <2>4 DEF FirstHost
  <2>6. h \in 1 .. Len(request) /\ line \in 1 .. Len(request)
        /\ h \in LineStarts(request) /\ line \in LineStarts(request)
        /\ Len(request) \in Nat /\ Len(out) \in Nat
      BY <2>1, <2>3, <2>5, HostLineRange, LenProperties DEF HostLines
  <2>7. ASSUME h < line, HasPrefix(From(request, h), headerHostPrefix) PROVE FALSE
    <3>1. PICK e \in Stops(request) : e < line
        BY <2>1, <2>6, <2>7, PrefixedStops
    <3>2. e \in 1 .. Len(request)
        BY <2>1, LenProperties DEF Stops, LineEnds
    <3> QED BY <2>3, <2>6, <3>1, <3>2
  <2>8. IF \E i \in DOMAIN out : out[i] = HostLine
        THEN Min({j \in DOMAIN out : out[j] = HostLine}) = h
        ELSE Len(out) < h
      BY <2>1, <2>2, <2>4, FirstReplaced
  <2>9. h = line \/ h < line
      BY <2>5, <2>6
  <2>10. CASE \E i \in DOMAIN out : out[i] = HostLine
      BY <2>7, <2>8, <2>9, <2>10
  <2>11. CASE ~\E i \in DOMAIN out : out[i] = HostLine
    <3>1. Len(out) < line
        BY <2>5, <2>6, <2>8, <2>11
    <3> QED BY <2>11, <3>1
  <2> QED BY <2>10, <2>11
<1> QED BY <1>1, WriteKnownHolds, RouteKnownHolds, PTL

-----------------------------------------------------------------------------
(* The types of all parts.                                                  *)

\* The variables of all parts of the way of a connection's data keep their
\* types: conn.handle and handleHTTP (server/conn.go) while they look at the
\* request, httpTask.Write (client/task.go), the exchange and the ids.
THEOREM PathTypesCorrect == PathSpec => []PathTypeOK
<1>1. WriteKnown /\ RouteKnown => PublicTypeOK
    BY DEF WriteKnown, RouteKnown, RouteTypes, PublicTypeOK
<1> QED
    BY <1>1, WriteKnownHolds, RouteKnownHolds, PeerTypesCorrect, IdTypesCorrect, PTL
       DEF PathTypeOK
=============================================================================
