---------------------------- MODULE SyncMapProofs ----------------------------
(* That the two maps agree, and that every call takes effect at one instant  *)
(* while it runs, for any numbers of callers, keys, values and entries.      *)
EXTENDS SyncMap, FiniteSetTheorems, TLAPS

KeyOps == {"load", "delete", "store", "create"}

\* Where a caller is says what it has at hand.
ControlOf(p) ==
    /\ pc[p] = "idle" <=> call[p] = NoCall
    /\ pc[p] \in {"entry", "locked"} => ent[p] \in Entries
    /\ pc[p] \notin {"entry", "locked"} => ent[p] = NoEntry
    /\ pc[p] # "visit" => view[p] = NoEntries
    /\ pc[p] = "visit" => Op(p, {"range"})
    /\ pc[p] = "entry" => Op(p, KeyOps)
    /\ pc[p] \in {"locked", "expunge"} => Op(p, {"store", "create"})
    /\ mu = p <=> pc[p] \in {"locked", "expunge"}
    /\ effect[p] # NoEffect =>
          pc[p] = "done" \/ (pc[p] = "entry" /\ Op(p, {"delete"}))
    /\ pc[p] = "done" => answer[p] \in Abs!Answers(call[p])
    /\ pc[p] = "visit" =>
          answer[p] \in [got : [Keys -> Abs!Held], loaded : {FALSE}]

Control ==
    /\ DOMAIN answer = Procs /\ effect \in [Procs -> Abs!Held \cup {NoEffect}]
    /\ \A p \in Procs : ControlOf(p)

\* Somebody is in dirtyLocked.
Copying == mu \in Procs /\ pc[mu] = "expunge"

\* The dirty map has what the read map has, unless it is expunged, and keys of
\* its own only when amended says so.
DirtyMap ==
    /\ amended => dirty # NoMap
    /\ dirty # NoMap /\ ~amended => Copying
    /\ expunging # {} => Copying
    /\ \A k \in expunging :
          /\ dirty # NoMap /\ read[k] # NoEntry /\ dirty[k] = NoEntry
          /\ ptr[read[k]] # Expunged
    /\ dirty # NoMap => \A k \in Keys :
          /\ dirty[k] # NoEntry => /\ ptr[dirty[k]] # Expunged
                                   /\ read[k] # NoEntry => dirty[k] = read[k]
          /\ ~amended /\ read[k] = NoEntry => dirty[k] = NoEntry

\* What the holder of the lock has found stays true.
Holder ==
    \A p \in Procs :
        /\ pc[p] = "locked" =>
              /\ ptr[ent[p]] # Expunged
              /\ \/ read[Key(p)] = ent[p]
                 \/ read[Key(p)] = NoEntry /\ amended /\ dirty[Key(p)] = ent[p]
        /\ pc[p] = "expunge" =>
              read[Key(p)] = NoEntry /\ dirty # NoMap /\ dirty[Key(p)] = NoEntry

\* An entry is of one key, wherever it is referred to.
OfKey(e, k) ==
    \/ read[k] = e
    \/ dirty # NoMap /\ dirty[k] = e
    \/ \E p \in Procs : view[p][k] = e
    \/ \E p \in Procs : ent[p] = e /\ Key(p) = k

OneKey ==
    \A e \in Entries : \A k, l \in Keys : OfKey(e, k) /\ OfKey(e, l) => k = l

MapsInv == TypeOK /\ Control /\ DirtyMap /\ MapsAgree /\ Holder /\ OneKey

\* No map has the entry any more.
Out(e, k) == read[k] # e /\ (dirty # NoMap => dirty[k] # e)

\* An entry that a caller took without the lock is still the read map's, or it
\* was expunged since; only Load may have one that the read map lacks, and
\* Delete one that it took out of the dirty map itself.
Left(p, e, k) ==
    /\ Out(e, k) /\ Absent \in seen[p][k]
    /\ Op(p, {"load"}) => ValueOf(e) \in seen[p][k]
    /\ Op(p, {"store", "create"}) => ptr[e] = Expunged
    /\ Op(p, {"delete"}) =>
          effect[p] = IF ptr[e] \in Values THEN ptr[e] ELSE NoEffect

Holds(p) ==
    pc[p] = "entry" =>
        \/ read[Key(p)] = ent[p] /\ effect[p] = NoEffect
        \/ /\ Op(p, {"load"}) /\ read[Key(p)] = NoEntry
           /\ amended /\ dirty[Key(p)] = ent[p]
        \/ Left(p, ent[p], Key(p))

\* Nobody else will delete what Delete took out of the dirty map.
Deletes(p, e) == pc[p] = "entry" /\ Op(p, {"delete"}) /\ ent[p] = e

OneDeletes ==
    \A p, q \in Procs : \A e \in Entries :
        Deletes(p, e) /\ Deletes(q, e) /\ p # q =>
            read[Key(p)] = e \/ ptr[e] \notin Values

\* What Range has visited it has seen, and what it has yet to visit is there.
Visited(p) ==
    pc[p] = "visit" => \A k \in Keys :
        IF view[p][k] = NoEntry THEN answer[p].got[k] \in seen[p][k]
        ELSE \/ read[k] = view[p][k]
             \/ /\ Out(view[p][k], k) /\ ptr[view[p][k]] = Expunged
                /\ Absent \in seen[p][k]

\* A pending call has seen what the map holds.
Seen ==
    /\ seen \in [Procs -> [Keys -> SUBSET Abs!Held]]
    /\ \A p \in Procs : \A k \in Keys :
          IF pc[p] \notin {"idle", "done"} /\ k \in call[p].keys
          THEN Content[k] \in seen[p][k] ELSE seen[p][k] = {}

CallsInv == Seen /\ OneDeletes /\ \A p \in Procs : Holds(p) /\ Visited(p)

-----------------------------------------------------------------------------
(* Calls, entries and their pointers.                                       *)

LEMMA CallFacts ==
    ASSUME NEW c \in Abs!Calls
    PROVE  /\ c # NoCall /\ c.op \in KeyOps \cup {"range"}
           /\ c.op = "range" => c.keys = Keys
           /\ c.op \in KeyOps => c.keys = {Abs!TheKey(c)} /\ Abs!TheKey(c) \in Keys
           /\ c.op \in {"store", "create"} => c.val \in Values
           /\ c.op = "delete" => c.val = Absent
<1>1. c # NoCall
    BY ConstantsAssumption
<1>2. /\ c.op \in KeyOps \cup {"range"}
      /\ c.op = "range" => c.keys = Keys
      /\ c.op \in KeyOps => \E k \in Keys : c.keys = {k}
      /\ c.op \in {"store", "create"} => c.val \in Values
      /\ c.op = "delete" => c.val = Absent
    BY DEF Abs!Calls, KeyOps
<1>3. ASSUME NEW k, c.keys = {k} PROVE Abs!TheKey(c) = k
    BY <1>3 DEF Abs!TheKey
<1> QED BY <1>1, <1>2, <1>3

LEMMA KeyFacts ==
    ASSUME TypeOK, NEW p \in Procs, Op(p, KeyOps)
    PROVE  /\ Key(p) \in Keys /\ call[p].keys = {Key(p)}
           /\ call[p] \in Abs!Calls
           /\ Op(p, {"store", "create"}) => call[p].val \in Values
<1>1. call[p] \in Abs!Calls /\ call[p].op \in KeyOps
    BY DEF TypeOK, Op
<1> QED BY <1>1, CallFacts DEF Key, Op

LEMMA ValueFacts ==
    ASSUME TypeOK, NEW e \in Entries
    PROVE  /\ ValueOf(e) \in Abs!Held
           /\ ptr[e] \in Values => ValueOf(e) = ptr[e] /\ ValueOf(e) # Absent
           /\ ptr[e] \notin Values => ValueOf(e) = Absent
           /\ ptr[e] \in {Nil, Expunged} => ptr[e] \notin Values
    BY ConstantsAssumption DEF ValueOf, TypeOK, Pointers, Abs!Held

LEMMA ContentType ==
    ASSUME TypeOK, amended => dirty # NoMap
    PROVE  Content \in [Keys -> Abs!Held]
<1>1. ASSUME NEW k \in Keys
      PROVE  /\ read[k] # NoEntry => ValueOf(read[k]) \in Abs!Held
             /\ amended /\ dirty[k] # NoEntry => ValueOf(dirty[k]) \in Abs!Held
             /\ Absent \in Abs!Held
  <2>1. read[k] \in Entries \cup {NoEntry}
      BY DEF TypeOK, MapOfEntries
  <2>2. amended => dirty[k] \in Entries \cup {NoEntry}
      BY DEF TypeOK, MapOfEntries
  <2> QED BY <2>1, <2>2, ValueFacts DEF Abs!Held
<1> QED BY <1>1 DEF Content

-----------------------------------------------------------------------------
(* Types and control.                                                       *)

\* An action is about one caller.
LEMMA Others ==
    ASSUME TypeOK, Control, NEW p \in Procs, Step(p)
    PROVE  \A q \in Procs \ {p} :
               /\ pc'[q] = pc[q] /\ call'[q] = call[q] /\ answer'[q] = answer[q]
               /\ ent'[q] = ent[q] /\ view'[q] = view[q] /\ effect'[q] = effect[q]
<1> USE DEF GoTo, TakeEntry, Finish, FinishKey, Effect, TypeOK, Control
<1> SUFFICES ASSUME NEW q \in Procs \ {p}
             PROVE  /\ pc'[q] = pc[q] /\ call'[q] = call[q]
                    /\ answer'[q] = answer[q]
                    /\ ent'[q] = ent[q] /\ view'[q] = view[q]
                    /\ effect'[q] = effect[q]
    OBVIOUS
<1>1. CASE Begin(p) \/ ReadHit(p) \/ ReadMiss(p) \/ ReadAbsent(p)
    BY <1>1 DEF Begin, ReadHit, ReadMiss, ReadAbsent
<1>2. CASE EntryLoad(p) \/ EntryStore(p) \/ EntryCreate(p)
    BY <1>2 DEF EntryLoad, EntryStore, EntryCreate
<1>3. CASE EntryLoaded(p) \/ EntryExpunged(p) \/ EntryDelete(p)
    BY <1>3 DEF EntryLoaded, EntryExpunged, EntryDelete
<1>4. CASE RangeRead(p) \/ RangeVisit(p) \/ RangeEnds(p) \/ Return(p)
    BY <1>4 DEF RangeRead, RangeVisit, RangeEnds, Return
<1>5. CASE LockedReadHit(p) \/ LockedReadAbsent(p) \/ LockedLoad(p)
    BY <1>5 DEF LockedReadHit, LockedReadAbsent, LockedLoad
<1>6. CASE LockedDelete(p) \/ LockedRange(p) \/ LockedHit(p) \/ LockedInDirty(p)
    BY <1>6 DEF LockedDelete, LockedRange, LockedHit, LockedInDirty
<1>7. CASE LockedStore(p) \/ LockedCreate(p)
    BY <1>7 DEF LockedStore, LockedCreate
<1>8. CASE LockedNew(p) \/ Expunge(p) \/ Insert(p)
    BY <1>8 DEF LockedNew, Expunge, Insert
<1> QED BY <1>1, <1>2, <1>3, <1>4, <1>5, <1>6, <1>7, <1>8 DEF Step

\* The effect of a call is what the map held.
LEMMA EffectType ==
    ASSUME TypeOK, Control, amended => dirty # NoMap,
           NEW p \in Procs, Op(p, KeyOps), Effect(p)
    PROVE  effect' \in [Procs -> Abs!Held \cup {NoEffect}] /\ effect'[p] # NoEffect
<1>1. Content[Key(p)] \in Abs!Held /\ NoEffect \notin Abs!Held
    BY KeyFacts, ContentType, ConstantsAssumption
<1> QED BY <1>1 DEF Effect, Control

\* The answer to a call about one key.
LEMMA AnswerType ==
    ASSUME TypeOK, Control, NEW p \in Procs, Op(p, KeyOps),
           NEW v \in Abs!Held, NEW b \in BOOLEAN, FinishKey(p, v, b)
    PROVE  /\ DOMAIN answer' = Procs /\ answer'[p] \in Abs!Answers(call[p])
           /\ answer'[p].got[Key(p)] = v /\ answer'[p].loaded = b
           /\ pc' = [pc EXCEPT ![p] = "done"]
           /\ ent' = [ent EXCEPT ![p] = NoEntry]
           /\ view' = [view EXCEPT ![p] = NoEntries]
<1>1. Key(p) \in Keys /\ call[p].keys = {Key(p)}
    BY KeyFacts
<1> DEFINE a == [got |-> [k \in {Key(p)} |-> v], loaded |-> b]
<1>2. DOMAIN answer' = Procs /\ answer'[p] = a
    BY DEF FinishKey, Finish, Control
<1>3. a \in [got : [{Key(p)} -> Abs!Held], loaded : BOOLEAN]
    OBVIOUS
<1>4. a.got[Key(p)] = v /\ a.loaded = b
    OBVIOUS
<1> QED BY <1>1, <1>2, <1>3, <1>4 DEF FinishKey, Finish, GoTo, Abs!Answers

\* The lock is taken by a caller that finds it free, and given back by it.
LEMMA LockMoves ==
    ASSUME TypeOK, Control, NEW p \in Procs, Step(p)
    PROVE  mu' = mu \/ (mu = NoProc /\ mu' = p) \/ (mu = p /\ mu' = NoProc)
<1>1. CASE LockedHit(p) \/ LockedInDirty(p) \/ LockedNew(p)
    BY <1>1 DEF LockedHit, LockedInDirty, LockedNew, LockAt
<1>2. CASE LockedStore(p) \/ LockedCreate(p) \/ Insert(p)
  <2>1. mu = p
      BY <1>2 DEF LockedStore, LockedCreate, Insert, At, Control, ControlOf
  <2>2. mu' = NoProc
      BY <1>2 DEF LockedStore, LockedCreate, Insert
  <2> QED BY <2>1, <2>2
<1>3. CASE Begin(p) \/ ReadHit(p) \/ ReadMiss(p) \/ ReadAbsent(p)
           \/ EntryLoad(p) \/ EntryStore(p) \/ EntryCreate(p) \/ EntryLoaded(p)
    BY <1>3 DEF Begin, ReadHit, ReadMiss, ReadAbsent, EntryLoad, EntryStore,
                EntryCreate, EntryLoaded
<1>4. CASE EntryExpunged(p) \/ EntryDelete(p) \/ RangeRead(p) \/ RangeVisit(p)
           \/ RangeEnds(p) \/ Return(p) \/ LockedReadHit(p)
           \/ LockedReadAbsent(p)
    BY <1>4 DEF EntryExpunged, EntryDelete, RangeRead, RangeVisit, RangeEnds,
                Return, LockedReadHit, LockedReadAbsent
<1>5. CASE LockedLoad(p) \/ LockedDelete(p) \/ LockedRange(p) \/ Expunge(p)
    BY <1>5 DEF LockedLoad, LockedDelete, LockedRange, Expunge
<1> QED BY <1>1, <1>2, <1>3, <1>4, <1>5 DEF Step

LEMMA MissType ==
    ASSUME TypeOK, NEW m \in MapOfEntries, MissLocked(m)
    PROVE  /\ read' \in MapOfEntries /\ amended' \in BOOLEAN
           /\ dirty' \in MapOfEntries \cup {NoMap}
           /\ misses' \in 0 .. Cardinality(Keys)
<1>1. /\ Cardinality(KeysOf(m)) \in Nat /\ Cardinality(Keys) \in Nat
      /\ Cardinality(KeysOf(m)) <= Cardinality(Keys)
  <2>1. KeysOf(m) \subseteq Keys
      BY DEF KeysOf
  <2>2. IsFiniteSet(KeysOf(m)) /\ IsFiniteSet(Keys)
      BY <2>1, ConstantsAssumption, FS_Subset
  <2>3. Cardinality(KeysOf(m)) \in Nat /\ Cardinality(Keys) \in Nat
      BY <2>2, FS_CardinalityType
  <2>4. Cardinality(KeysOf(m)) <= Cardinality(Keys)
      BY <2>1, <2>2, FS_Subset
  <2> QED BY <2>3, <2>4
<1> DEFINE n == Cardinality(KeysOf(m))
           s == Cardinality(Keys)
<1>2. n \in Nat /\ s \in Nat /\ n <= s /\ misses \in 0 .. s
    BY <1>1 DEF TypeOK
<1>3. CASE misses + 1 < n
  <2>1. misses' = misses + 1 /\ dirty' = m /\ UNCHANGED <<read, amended>>
      BY <1>3 DEF MissLocked
  <2>2. misses + 1 \in 0 .. s
    <3> HIDE DEF n, s
    <3> QED BY <1>2, <1>3
  <2> QED BY <2>1, <2>2 DEF TypeOK
<1>4. CASE ~(misses + 1 < n)
  <2>1. read' = m /\ amended' = FALSE /\ dirty' = NoMap /\ misses' = 0
      BY <1>4 DEF MissLocked
  <2>2. 0 \in 0 .. s
    <3> HIDE DEF n, s
    <3> QED BY <1>2
  <2> QED BY <2>1, <2>2
<1> QED BY <1>3, <1>4

\* The entry a caller finds in a map.
LEMMA FoundType ==
    ASSUME TypeOK, NEW p \in Procs, Op(p, KeyOps)
    PROVE  /\ read[Key(p)] \in Entries \cup {NoEntry}
           /\ dirty # NoMap => /\ dirty \in MapOfEntries
                               /\ dirty[Key(p)] \in Entries \cup {NoEntry}
           /\ InDirty(Key(p)) => dirty[Key(p)] \in Entries
<1>1. Key(p) \in Keys
    BY KeyFacts
<1>2. dirty # NoMap => dirty \in MapOfEntries
    BY DEF TypeOK
<1> QED BY <1>1, <1>2 DEF TypeOK, MapOfEntries, InDirty

LEMMA TypesStep ==
    ASSUME TypeOK, Control, DirtyMap, MapsAgree, Holder, NEW p \in Procs, Step(p)
    PROVE  TypeOK'
<1>a. Op(p, KeyOps) =>
        /\ Key(p) \in Keys /\ read[Key(p)] \in Entries \cup {NoEntry}
        /\ dirty # NoMap => /\ dirty \in MapOfEntries
                            /\ dirty[Key(p)] \in Entries \cup {NoEntry}
        /\ InDirty(Key(p)) => dirty[Key(p)] \in Entries
        /\ Op(p, {"store", "create"}) => call[p].val \in Values
    BY KeyFacts, FoundType
<1>b. NoEntries \in MapOfEntries
    BY DEF NoEntries, MapOfEntries
<1>c. /\ At(p, "entry") => ent[p] \in Entries /\ Op(p, KeyOps)
      /\ At(p, "locked") => ent[p] \in Entries /\ Op(p, {"store", "create"})
      /\ At(p, "expunge") => Op(p, {"store", "create"})
    BY DEF Control, ControlOf, At
<1>d. /\ Op(p, {"load", "delete"}) => Op(p, KeyOps)
      /\ Op(p, {"store", "create"}) => Op(p, KeyOps)
    BY DEF Op, KeyOps
<1>e. ~Op(p, {"range"}) /\ At(p, "read") => Op(p, KeyOps)
  <2>1. At(p, "read") => call[p] \in Abs!Calls
      BY DEF Control, ControlOf, At, TypeOK
  <2> QED BY <2>1, CallFacts DEF Op
<1> USE DEF GoTo, TakeEntry, SetPointer, Finish, FinishKey, maps
<1>1. CASE Begin(p)
    BY <1>1 DEF Begin, TypeOK
<1>2. CASE ReadHit(p) \/ ReadMiss(p) \/ ReadAbsent(p)
    BY <1>2, <1>a, <1>b, <1>d, <1>e DEF ReadHit, ReadMiss, ReadAbsent, TypeOK
<1>3. CASE EntryLoad(p) \/ EntryLoaded(p) \/ EntryExpunged(p)
    BY <1>3, <1>b DEF EntryLoad, EntryLoaded, EntryExpunged, TypeOK
<1>4. CASE EntryStore(p) \/ EntryCreate(p)
  <2>1. call[p].val \in Pointers /\ Op(p, {"store", "create"})
      BY <1>4, <1>a, <1>d DEF EntryStore, EntryCreate, Op, Pointers
  <2> QED BY <1>4, <2>1, <1>b, <1>c DEF EntryStore, EntryCreate, TypeOK
<1>5. CASE EntryDelete(p)
    BY <1>5, <1>b DEF EntryDelete, TypeOK, Pointers
<1>6. CASE RangeRead(p) \/ RangeEnds(p) \/ Return(p)
    BY <1>6, <1>b DEF RangeRead, RangeEnds, Return, TypeOK
<1>7. CASE RangeVisit(p)
  <2>1. PICK k \in KeysOf(view[p]) : view' = [view EXCEPT ![p][k] = NoEntry]
      BY <1>7 DEF RangeVisit
  <2>2. view' \in [Procs -> MapOfEntries]
      BY <2>1 DEF TypeOK, MapOfEntries
  <2> QED BY <1>7, <2>2 DEF RangeVisit, TypeOK
<1>8. CASE LockedReadHit(p) \/ LockedReadAbsent(p)
    BY <1>8, <1>a, <1>b, <1>d DEF LockedReadHit, LockedReadAbsent, LockAt, TypeOK
<1>9. CASE LockedLoad(p)
  <2>1. dirty \in MapOfEntries /\ MissLocked(dirty)
      BY <1>9 DEF LockedLoad, DirtyMap, TypeOK
  <2>2. /\ read' \in MapOfEntries /\ amended' \in BOOLEAN
        /\ dirty' \in MapOfEntries \cup {NoMap} /\ misses' \in 0 .. Cardinality(Keys)
      BY <2>1, MissType
  <2>3. Op(p, {"load"}) /\ ptr' = ptr /\ mu' = mu /\ expunging' = expunging
        /\ call' = call
      BY <1>9 DEF LockedLoad, LockAt
  <2>4. Op(p, {"load", "delete"})
      BY <2>3 DEF Op
  <2>5. pc' \in [Procs -> {"idle", "read", "entry", "lock", "locked", "expunge",
                           "visit", "done"}]
      BY <1>9 DEF LockedLoad, TypeOK
  <2>6. ent' \in [Procs -> Entries \cup {NoEntry}] /\ view' \in [Procs -> MapOfEntries]
      BY <1>9, <1>a, <1>b, <1>d, <2>4 DEF LockedLoad, TypeOK
  <2> QED BY <2>2, <2>3, <2>5, <2>6 DEF TypeOK
<1>10. CASE LockedDelete(p)
  <2> DEFINE m == [dirty EXCEPT ![Key(p)] = NoEntry]
  <2>1. m \in MapOfEntries /\ MissLocked(m)
      BY <1>10 DEF LockedDelete, DirtyMap, TypeOK, MapOfEntries
  <2> HIDE DEF m
  <2>2. /\ read' \in MapOfEntries /\ amended' \in BOOLEAN
        /\ dirty' \in MapOfEntries \cup {NoMap} /\ misses' \in 0 .. Cardinality(Keys)
      BY <2>1, MissType
  <2>3. Op(p, {"delete"}) /\ ptr' = ptr /\ mu' = mu /\ expunging' = expunging
        /\ call' = call
      BY <1>10 DEF LockedDelete, LockAt
  <2>4. pc' \in [Procs -> {"idle", "read", "entry", "lock", "locked", "expunge",
                           "visit", "done"}]
      BY <1>10 DEF LockedDelete, TypeOK
  <2>5. Op(p, {"load", "delete"})
      BY <2>3 DEF Op
  <2>6. ent' \in [Procs -> Entries \cup {NoEntry}] /\ view' \in [Procs -> MapOfEntries]
      BY <1>10, <1>a, <1>b, <1>d, <2>5 DEF LockedDelete, TypeOK
  <2> QED BY <2>2, <2>3, <2>4, <2>6 DEF TypeOK
<1>11. CASE LockedRange(p)
  <2>1. amended => dirty \in MapOfEntries
      BY DEF DirtyMap, TypeOK
  <2>2. 0 \in 0 .. Cardinality(Keys)
      BY ConstantsAssumption, FS_CardinalityType
  <2> QED BY <1>11, <2>1, <2>2 DEF LockedRange, TypeOK
<1>12. CASE LockedHit(p)
  <2>1. read[Key(p)] \in Entries /\ Nil \in Pointers
      BY <1>12, <1>a, <1>d DEF LockedHit, LockAt, Pointers
  <2>2. dirty # NoMap =>
          [dirty EXCEPT ![Key(p)] = read[Key(p)]] \in MapOfEntries
      BY <2>1 DEF TypeOK, MapOfEntries
  <2>3. ptr[read[Key(p)]] = Expunged => dirty # NoMap
      BY <1>12, <1>a, <1>d DEF LockedHit, LockAt, MapsAgree, ExpungedHasDirty,
                               KeysOf
  <2> QED BY <1>12, <2>1, <2>2, <2>3 DEF LockedHit, TypeOK
<1>13. CASE LockedInDirty(p)
    BY <1>13, <1>a, <1>d DEF LockedInDirty, LockAt, TypeOK
<1>14. CASE LockedStore(p)
  <2>1. call[p].val \in Pointers
      BY <1>14, <1>a, <1>d DEF LockedStore, Op, Pointers
  <2> QED BY <1>14, <2>1, <1>b DEF LockedStore, TypeOK
<1>15. CASE LockedCreate(p)
  <2>1. call[p].val \in Pointers
      BY <1>15, <1>a, <1>d DEF LockedCreate, Op, Pointers
  <2>2. /\ read' \in MapOfEntries /\ amended' \in BOOLEAN
        /\ dirty' \in MapOfEntries \cup {NoMap}
        /\ misses' \in 0 .. Cardinality(Keys)
    <3>1. CASE read[Key(p)] = NoEntry
      <4>1. pc[p] = "locked" /\ ent[p] # NoEntry
          BY <1>15, <1>c, ConstantsAssumption DEF LockedCreate, At
      <4>2. dirty \in MapOfEntries
          BY <3>1, <4>1 DEF Holder, TypeOK, DirtyMap
      <4>3. MissLocked(dirty)
          BY <1>15, <3>1 DEF LockedCreate
      <4> QED BY <4>2, <4>3, MissType
    <3>2. CASE read[Key(p)] # NoEntry
        BY <1>15, <3>2 DEF LockedCreate, TypeOK
    <3> QED BY <3>1, <3>2
  <2>3. ptr' \in [Entries -> Pointers]
      BY <1>15, <2>1 DEF LockedCreate, TypeOK
  <2> QED BY <1>15, <2>2, <2>3, <1>b DEF LockedCreate, TypeOK
<1>16. CASE LockedNew(p)
    BY <1>16, <1>b DEF LockedNew, TypeOK, KeysOf
<1>17. CASE Expunge(p)
  <2>1. PICK k \in expunging :
          /\ expunging' = expunging \ {k}
          /\ IF ptr[read[k]] \in Values
             THEN dirty' = [dirty EXCEPT ![k] = read[k]] /\ UNCHANGED ptr
             ELSE SetPointer(read[k], Expunged) /\ UNCHANGED dirty
      BY <1>17 DEF Expunge
  <2>2. k \in Keys /\ read[k] \in Entries /\ dirty \in MapOfEntries
      BY DEF TypeOK, DirtyMap, MapOfEntries
  <2>3. dirty' \in MapOfEntries
      BY <2>1, <2>2 DEF MapOfEntries
  <2>4. ptr' \in [Entries -> Pointers]
      BY <2>1, <2>2 DEF TypeOK, Pointers
  <2>5. expunging' \subseteq Keys
      BY <2>1 DEF TypeOK
  <2> QED BY <1>17, <2>3, <2>4, <2>5 DEF Expunge, TypeOK
<1>18. CASE Insert(p)
  <2>1. Fresh \in Entries
      BY <1>18 DEF Insert, Fresh
  <2>2. call[p].val \in Pointers
      BY <1>18, <1>a, <1>c, <1>d DEF Insert, Pointers
  <2>3. dirty \in MapOfEntries
    <3>1. pc[p] = "expunge"
        BY <1>18 DEF Insert, At
    <3> QED BY <3>1 DEF TypeOK, Holder
  <2>4. dirty' \in MapOfEntries
      BY <1>18, <2>1, <2>3 DEF Insert, MapOfEntries
  <2>5. ptr' \in [Entries -> Pointers]
      BY <1>18, <2>1, <2>2 DEF Insert, TypeOK
  <2>6. /\ amended' \in BOOLEAN /\ read' = read /\ misses' = misses
        /\ mu' = NoProc /\ expunging' = expunging /\ call' = call
      BY <1>18 DEF Insert
  <2>7. /\ pc' \in [Procs -> {"idle", "read", "entry", "lock", "locked", "expunge",
                              "visit", "done"}]
        /\ ent' \in [Procs -> Entries \cup {NoEntry}]
        /\ view' \in [Procs -> MapOfEntries]
      BY <1>18, <1>b DEF Insert, TypeOK
  <2> QED BY <2>4, <2>5, <2>6, <2>7 DEF TypeOK
<1> HIDE DEF GoTo, TakeEntry, SetPointer, Finish, FinishKey, maps
<1> QED
    BY <1>1, <1>2, <1>3, <1>4, <1>5, <1>6, <1>7, <1>8, <1>9, <1>10, <1>11, <1>12,
       <1>13, <1>14, <1>15, <1>16, <1>17, <1>18 DEF Step

\* A call about one key that has its answer.
LEMMA DoneControl ==
    ASSUME TypeOK, Control, NEW p \in Procs, Op(p, KeyOps),
           NEW v \in Abs!Held, NEW b \in BOOLEAN, FinishKey(p, v, b),
           call' = call, mu' # p
    PROVE  /\ ControlOf(p)' /\ DOMAIN answer' = Procs
           /\ answer'[p].got[Key(p)] = v /\ answer'[p].loaded = b
<1>1. /\ DOMAIN answer' = Procs /\ answer'[p] \in Abs!Answers(call[p])
      /\ answer'[p].got[Key(p)] = v /\ answer'[p].loaded = b
      /\ pc' = [pc EXCEPT ![p] = "done"]
      /\ ent' = [ent EXCEPT ![p] = NoEntry]
      /\ view' = [view EXCEPT ![p] = NoEntries]
    BY AnswerType
<1>2. pc'[p] = "done" /\ ent'[p] = NoEntry /\ view'[p] = NoEntries
    BY <1>1 DEF TypeOK
<1>3. call'[p] # NoCall
    BY DEF Op
<1>4. answer'[p] \in Abs!Answers(call'[p])
    BY <1>1
<1>5. ControlOf(p)'
    BY <1>2, <1>3, <1>4 DEF ControlOf
<1> QED BY <1>1, <1>5

\* What the acting caller has at hand.
LEMMA OwnControl ==
    ASSUME TypeOK, Control, DirtyMap, MapsAgree, Holder, NEW p \in Procs, Step(p)
    PROVE  /\ ControlOf(p)' /\ DOMAIN answer' = Procs
           /\ effect' \in [Procs -> Abs!Held \cup {NoEffect}]
<1>a. /\ ControlOf(p) /\ DOMAIN answer = Procs
      /\ effect \in [Procs -> Abs!Held \cup {NoEffect}]
      /\ p # NoProc /\ NoEntry \notin Entries
    BY ConstantsAssumption DEF Control
<1>b. Op(p, KeyOps) => Key(p) \in Keys /\ call[p].val \in Abs!Held
    BY KeyFacts, CallFacts DEF Abs!Held, Op, KeyOps, Abs!Calls
<1>c. /\ Op(p, {"load", "delete"}) => Op(p, KeyOps)
      /\ Op(p, {"store", "create"}) => Op(p, KeyOps)
      /\ Op(p, {"load"}) => Op(p, KeyOps)
      /\ Op(p, {"delete"}) => Op(p, KeyOps)
      /\ Op(p, {"store"}) => Op(p, KeyOps)
      /\ Op(p, {"create"}) => Op(p, KeyOps)
      /\ Op(p, {"load"}) => Op(p, {"load", "delete"})
      /\ Op(p, {"delete"}) => Op(p, {"load", "delete"})
      /\ Op(p, {"store"}) => Op(p, {"store", "create"})
      /\ Op(p, {"create"}) => Op(p, {"store", "create"})
    BY DEF Op, KeyOps
<1>d. ~Op(p, {"range"}) /\ At(p, "read") => Op(p, KeyOps)
  <2>1. At(p, "read") => call[p] \in Abs!Calls
      BY <1>a DEF ControlOf, At, TypeOK
  <2> QED BY <2>1, CallFacts DEF Op
<1>e. Absent \in Abs!Held /\ FALSE \in BOOLEAN /\ TRUE \in BOOLEAN
    BY DEF Abs!Held
<1>f. pc[p] \notin {"locked", "expunge"} => mu # p
    BY <1>a DEF ControlOf
<1>g. amended => dirty # NoMap
    BY DEF DirtyMap
<1>h. ASSUME Op(p, KeyOps)
      PROVE  /\ read[Key(p)] \in Entries \cup {NoEntry}
             /\ InDirty(Key(p)) => dirty[Key(p)] \in Entries
    BY <1>h, FoundType
<1> USE DEF GoTo, TakeEntry, maps
<1>1. CASE Begin(p)
  <2>1. PICK c \in Abs!Calls : call' = [call EXCEPT ![p] = c]
      BY <1>1 DEF Begin
  <2>2. call'[p] = c /\ c # NoCall /\ pc'[p] = "read"
      BY <1>1, <2>1, CallFacts DEF Begin, TypeOK
  <2> QED BY <1>1, <1>a, <2>2 DEF Begin, ControlOf, At
<1>2. CASE ReadHit(p)
    BY <1>2, <1>a, <1>d, <1>h DEF ReadHit, TypeOK, ControlOf, At, Op
<1>3. CASE ReadMiss(p)
    BY <1>3, <1>a DEF ReadMiss, TypeOK, ControlOf, At
<1>4. CASE ReadAbsent(p)
  <2>1. Op(p, KeyOps) /\ FinishKey(p, Absent, FALSE) /\ call' = call /\ mu' # p
      BY <1>4, <1>c, <1>f DEF ReadAbsent, At
  <2> QED BY <1>4, <1>a, <1>e, <2>1, DoneControl DEF ReadAbsent
<1>5. CASE EntryLoad(p)
  <2>1. ValueOf(ent[p]) \in Abs!Held
      BY <1>5, <1>a, ValueFacts DEF EntryLoad, ControlOf, At
  <2>2. FinishKey(p, ValueOf(ent[p]), ValueOf(ent[p]) # Absent)
      BY <1>5 DEF EntryLoad
  <2>3. Op(p, KeyOps) /\ call' = call /\ mu' # p
      BY <1>5, <1>c, <1>f DEF EntryLoad, At
  <2>4. (ValueOf(ent[p]) # Absent) \in BOOLEAN
      OBVIOUS
  <2>5. ControlOf(p)' /\ DOMAIN answer' = Procs
      BY <2>1, <2>2, <2>3, <2>4, DoneControl
  <2> QED BY <1>5, <1>a, <2>5 DEF EntryLoad
<1>6. CASE EntryStore(p)
  <2>1. Op(p, KeyOps) /\ FinishKey(p, Absent, FALSE) /\ call' = call /\ mu' # p
        /\ Effect(p)
      BY <1>6, <1>c, <1>f DEF EntryStore, At
  <2>2. ControlOf(p)' /\ DOMAIN answer' = Procs
      BY <1>e, <2>1, DoneControl
  <2> QED BY <2>1, <2>2, <1>g, EffectType
<1>7. CASE EntryCreate(p)
  <2>1. Op(p, KeyOps) /\ FinishKey(p, call[p].val, FALSE) /\ call' = call
        /\ mu' # p /\ Effect(p)
      BY <1>7, <1>c, <1>f DEF EntryCreate, At
  <2>2. ControlOf(p)' /\ DOMAIN answer' = Procs
      BY <1>b, <1>e, <2>1, DoneControl
  <2> QED BY <2>1, <2>2, <1>g, EffectType
<1>8. CASE EntryLoaded(p)
  <2>1. Op(p, KeyOps) /\ FinishKey(p, ptr[ent[p]], TRUE) /\ call' = call
        /\ mu' # p /\ ptr[ent[p]] \in Abs!Held
      BY <1>8, <1>c, <1>f DEF EntryLoaded, At, Abs!Held
  <2>2. ControlOf(p)' /\ DOMAIN answer' = Procs
      BY <1>e, <2>1, DoneControl
  <2> QED BY <1>8, <1>a, <2>2 DEF EntryLoaded
<1>9. CASE EntryExpunged(p)
  <2>1. Op(p, {"store", "create"}) /\ ~Op(p, {"delete"})
      BY <1>9 DEF EntryExpunged, Op
  <2> QED BY <1>9, <1>a, <2>1 DEF EntryExpunged, TypeOK, ControlOf, At
<1>10. CASE EntryDelete(p)
  <2>1. ValueOf(ent[p]) \in Abs!Held
      BY <1>10, <1>a, ValueFacts DEF EntryDelete, ControlOf, At
  <2>2. FinishKey(p, ValueOf(ent[p]), ValueOf(ent[p]) # Absent)
      BY <1>10 DEF EntryDelete
  <2>3. Op(p, KeyOps) /\ call' = call /\ mu' # p
      BY <1>10, <1>c, <1>f DEF EntryDelete, At
  <2>4. (ValueOf(ent[p]) # Absent) \in BOOLEAN
      OBVIOUS
  <2>5. ControlOf(p)' /\ DOMAIN answer' = Procs
      BY <2>1, <2>2, <2>3, <2>4, DoneControl
  <2>6. Effect(p) \/ effect' = effect
      BY <1>10 DEF EntryDelete
  <2> QED BY <1>a, <1>g, <2>3, <2>5, <2>6, EffectType
<1>11. CASE RangeRead(p)
  <2>1. pc'[p] = "lock" \/ pc'[p] = "visit"
      BY <1>11 DEF RangeRead, TypeOK
  <2>2. pc'[p] = "visit" => answer'[p] \in [got : [Keys -> Abs!Held], loaded : {FALSE}]
    <3>1. NothingYet \in [got : [Keys -> Abs!Held], loaded : {FALSE}]
        BY <1>e DEF NothingYet
    <3>2. pc'[p] = "visit" => answer'[p] = NothingYet
        BY <1>11, <1>a DEF RangeRead, TypeOK
    <3> QED BY <3>1, <3>2
  <2>3. Op(p, {"range"})' /\ call'[p] # NoCall /\ mu' # p /\ ent'[p] = NoEntry
      BY <1>11, <1>a, <1>f DEF RangeRead, Op, ControlOf, At
  <2>4. pc'[p] # "visit" => view'[p] = NoEntries
      BY <1>11, <1>a DEF RangeRead, ControlOf, At, TypeOK
  <2>5. effect' = effect /\ effect[p] = NoEffect
      BY <1>11, <1>a DEF RangeRead, ControlOf, At
  <2>6. DOMAIN answer' = Procs
      BY <1>11, <1>a DEF RangeRead
  <2> QED BY <1>a, <2>1, <2>2, <2>3, <2>4, <2>5, <2>6 DEF ControlOf
<1>12. CASE RangeVisit(p)
  <2>1. PICK k \in KeysOf(view[p]) :
           answer' = [answer EXCEPT ![p].got[k] = ValueOf(view[p][k])]
      BY <1>12 DEF RangeVisit
  <2>2. ValueOf(view[p][k]) \in Abs!Held
    <3>1. view[p][k] \in Entries
        BY DEF KeysOf, TypeOK, MapOfEntries
    <3> QED BY <3>1, ValueFacts
  <2>3. /\ DOMAIN answer' = Procs
        /\ answer'[p] = [answer[p] EXCEPT !.got[k] = ValueOf(view[p][k])]
      BY <1>a, <2>1
  <2>4. answer[p] \in [got : [Keys -> Abs!Held], loaded : {FALSE}]
      BY <1>12, <1>a DEF RangeVisit, At, ControlOf
  <2>5. answer'[p] \in [got : [Keys -> Abs!Held], loaded : {FALSE}]
      BY <2>2, <2>3, <2>4
  <2> QED BY <1>12, <1>a, <2>3, <2>5 DEF RangeVisit, ControlOf, At, Op
<1>13. CASE RangeEnds(p)
  <2>1. /\ pc'[p] = "done" /\ ent'[p] = NoEntry /\ view'[p] = NoEntries
        /\ DOMAIN answer' = Procs
        /\ answer'[p] = [got |-> answer[p].got, loaded |-> FALSE]
      BY <1>13, <1>a DEF RangeEnds, Finish, TypeOK
  <2>2. answer[p].got \in [Keys -> Abs!Held] /\ Op(p, {"range"})
      BY <1>13, <1>a DEF RangeEnds, At, ControlOf
  <2>3. call[p].keys = Keys
      BY <2>2, CallFacts DEF Op, TypeOK
  <2>4. answer'[p] \in Abs!Answers(call[p])
      BY <2>1, <2>2, <2>3 DEF Abs!Answers
  <2>5. call' = call /\ mu' # p /\ call[p] # NoCall
      BY <1>13, <1>f, <2>2 DEF RangeEnds, At, Op
  <2>6. answer'[p] \in Abs!Answers(call'[p])
      BY <2>4, <2>5
  <2> QED BY <1>13, <1>a, <2>1, <2>5, <2>6 DEF RangeEnds, ControlOf
<1>14. CASE Return(p)
    BY <1>14, <1>a DEF Return, TypeOK, ControlOf, At
<1>15. CASE LockedReadHit(p)
    BY <1>15, <1>a, <1>c, <1>h DEF LockedReadHit, LockAt, TypeOK, ControlOf, At, Op
<1>16. CASE LockedReadAbsent(p)
  <2>1. Op(p, KeyOps) /\ FinishKey(p, Absent, FALSE) /\ call' = call /\ mu' # p
      BY <1>16, <1>c, <1>f DEF LockedReadAbsent, LockAt, At
  <2> QED BY <1>16, <1>a, <1>e, <2>1, DoneControl DEF LockedReadAbsent
<1>17. CASE LockedLoad(p)
  <2>1. /\ Op(p, KeyOps) /\ call' = call /\ mu' # p /\ effect' = effect
        /\ effect[p] = NoEffect /\ pc[p] = "lock"
      BY <1>17, <1>a, <1>c, <1>f DEF LockedLoad, LockAt, At, ControlOf
  <2>2. CASE InDirty(Key(p))
      BY <1>17, <1>a, <1>h, <2>1, <2>2 DEF LockedLoad, TypeOK, ControlOf, Op
  <2>3. CASE ~InDirty(Key(p))
    <3>1. FinishKey(p, Absent, FALSE)
        BY <1>17, <2>3 DEF LockedLoad
    <3> QED BY <1>a, <1>e, <2>1, <3>1, DoneControl
  <2> QED BY <2>2, <2>3
<1>18. CASE LockedDelete(p)
  <2>1. /\ Op(p, KeyOps) /\ call' = call /\ mu' # p /\ pc[p] = "lock"
        /\ Op(p, {"delete"})
      BY <1>18, <1>a, <1>c, <1>f DEF LockedDelete, LockAt, At
  <2>2. Effect(p) \/ effect' = effect
      BY <1>18 DEF LockedDelete
  <2>3. effect' \in [Procs -> Abs!Held \cup {NoEffect}]
      BY <1>a, <1>g, <2>1, <2>2, EffectType
  <2>4. CASE InDirty(Key(p))
    <3>1. /\ ent' = [ent EXCEPT ![p] = dirty[Key(p)]] /\ pc' = [pc EXCEPT ![p] = "entry"]
          /\ answer' = answer /\ view' = view
        BY <1>18, <2>4 DEF LockedDelete
    <3> QED BY <1>a, <1>h, <2>1, <2>3, <2>4, <3>1 DEF TypeOK, ControlOf, Op
  <2>5. CASE ~InDirty(Key(p))
    <3>1. FinishKey(p, Absent, FALSE)
        BY <1>18, <2>5 DEF LockedDelete
    <3> QED BY <1>a, <1>e, <2>1, <2>3, <3>1, DoneControl
  <2> QED BY <2>4, <2>5
<1>19. CASE LockedRange(p)
  <2>1. /\ pc'[p] = "visit" /\ DOMAIN answer' = Procs
        /\ answer'[p] = NothingYet
      BY <1>19, <1>a DEF LockedRange, TypeOK
  <2>2. answer'[p] \in [got : [Keys -> Abs!Held], loaded : {FALSE}]
      BY <2>1, <1>e DEF NothingYet
  <2>3. /\ Op(p, {"range"})' /\ call'[p] # NoCall /\ mu' # p /\ ent'[p] = NoEntry
        /\ effect' = effect /\ effect[p] = NoEffect
      BY <1>19, <1>a, <1>f DEF LockedRange, LockAt, Op, ControlOf, At
  <2> QED BY <1>a, <2>1, <2>2, <2>3 DEF ControlOf
<1>20. CASE LockedHit(p)
    BY <1>20, <1>a, <1>c, <1>h DEF LockedHit, LockAt, TypeOK, ControlOf, At, Op
<1>21. CASE LockedInDirty(p)
    BY <1>21, <1>a, <1>c, <1>h DEF LockedInDirty, LockAt, TypeOK, ControlOf, At, Op
<1>22. CASE LockedStore(p)
  <2>1. Op(p, KeyOps) /\ FinishKey(p, Absent, FALSE) /\ call' = call /\ mu' # p
        /\ Effect(p)
      BY <1>22, <1>a, <1>c DEF LockedStore
  <2>2. ControlOf(p)' /\ DOMAIN answer' = Procs
      BY <1>e, <2>1, DoneControl
  <2> QED BY <2>1, <2>2, <1>g, EffectType
<1>23. CASE LockedCreate(p)
  <2>1. Op(p, KeyOps) /\ call' = call /\ mu' # p
      BY <1>23, <1>a, <1>c DEF LockedCreate
  <2>2. Effect(p) \/ effect' = effect
      BY <1>23 DEF LockedCreate
  <2>3. effect' \in [Procs -> Abs!Held \cup {NoEffect}]
      BY <1>a, <1>g, <2>1, <2>2, EffectType
  <2>4. ValueOf(ent[p]) \in Abs!Held
      BY <1>23, <1>a, ValueFacts DEF LockedCreate, ControlOf, At
  <2>5. CASE FinishKey(p, call[p].val, FALSE)
      BY <1>b, <1>e, <2>1, <2>3, <2>5, DoneControl
  <2>6. CASE FinishKey(p, ValueOf(ent[p]), ptr[ent[p]] # Expunged)
    <3>1. (ptr[ent[p]] # Expunged) \in BOOLEAN
        OBVIOUS
    <3> QED BY <2>1, <2>3, <2>4, <2>6, <3>1, DoneControl
  <2> QED BY <1>23, <2>5, <2>6 DEF LockedCreate
<1>24. CASE LockedNew(p)
    BY <1>24, <1>a DEF LockedNew, LockAt, TypeOK, ControlOf, At, Op
<1>25. CASE Expunge(p)
    BY <1>25, <1>a DEF Expunge, ControlOf, At, Op
<1>26. CASE Insert(p)
  <2>1. Op(p, KeyOps) /\ call' = call /\ mu' # p /\ Effect(p)
      BY <1>26, <1>a, <1>c DEF Insert, ControlOf, At
  <2>2. FinishKey(p, call[p].val, FALSE) \/ FinishKey(p, Absent, FALSE)
      BY <1>26 DEF Insert
  <2>3. ControlOf(p)' /\ DOMAIN answer' = Procs
      BY <1>b, <1>e, <2>1, <2>2, DoneControl
  <2> QED BY <2>1, <2>3, <1>g, EffectType
<1> HIDE DEF GoTo, TakeEntry, maps
<1> QED
    BY <1>1, <1>2, <1>3, <1>4, <1>5, <1>6, <1>7, <1>8, <1>9, <1>10, <1>11, <1>12,
       <1>13, <1>14, <1>15, <1>16, <1>17, <1>18, <1>19, <1>20, <1>21, <1>22,
       <1>23, <1>24, <1>25, <1>26 DEF Step

LEMMA ControlStep ==
    ASSUME TypeOK, Control, DirtyMap, MapsAgree, Holder, NEW p \in Procs, Step(p)
    PROVE  Control'
<1>1. ASSUME NEW q \in Procs \ {p} PROVE ControlOf(q)'
  <2>1. ControlOf(q) /\ q # p /\ q # NoProc
      BY ConstantsAssumption DEF Control
  <2>2. /\ pc'[q] = pc[q] /\ call'[q] = call[q] /\ answer'[q] = answer[q]
        /\ ent'[q] = ent[q] /\ view'[q] = view[q] /\ effect'[q] = effect[q]
      BY Others
  <2>3. mu' = q <=> mu = q
      BY <2>1, LockMoves
  <2> QED BY <2>1, <2>2, <2>3 DEF ControlOf, Op
<1> QED BY <1>1, OwnControl DEF Control

-----------------------------------------------------------------------------
(* An entry is of one key.                                                  *)

\* No step puts an entry into a map at a key that no map had it at, but for
\* the new entry.
LEMMA MapsKeep ==
    ASSUME TypeOK, Control, DirtyMap, MapsAgree, Holder, NEW p \in Procs, Step(p),
           NEW e \in Entries, NEW k \in Keys, Out(e, k)
    PROVE  Out(e, k)' \/ (Insert(p) /\ e = Fresh /\ k = Key(p))
<1>a. e # NoEntry
    BY ConstantsAssumption
<1>1. CASE read' = read /\ dirty' = dirty
    BY <1>1 DEF Out
<1>2. ASSUME NEW m, MissLocked(m), dirty # NoMap, m[k] # e PROVE Out(e, k)'
    BY <1>2 DEF MissLocked, Out
<1>3. CASE LockedLoad(p)
  <2>1. MissLocked(dirty) /\ dirty # NoMap
      BY <1>3 DEF LockedLoad, DirtyMap
  <2> QED BY <1>2, <2>1 DEF Out
<1>4. CASE LockedDelete(p)
  <2>1. dirty \in MapOfEntries /\ dirty # NoMap
      BY <1>4 DEF LockedDelete, DirtyMap, TypeOK
  <2> DEFINE m == [dirty EXCEPT ![Key(p)] = NoEntry]
  <2>2. m[k] # e
      BY <1>a, <2>1 DEF Out, MapOfEntries, TypeOK
  <2>3. MissLocked(m) /\ dirty # NoMap
      BY <1>4 DEF LockedDelete, DirtyMap
  <2> HIDE DEF m
  <2> QED BY <1>2, <2>2, <2>3
<1>5. CASE LockedRange(p)
    BY <1>1, <1>5 DEF LockedRange, Out, DirtyMap, maps
<1>6. CASE LockedHit(p)
  <2>1. Key(p) \in Keys /\ read' = read /\ read[Key(p)] # NoEntry
    <3>1. Op(p, KeyOps)
        BY <1>6 DEF LockedHit, LockAt, Op, KeyOps
    <3> QED BY <1>6, <3>1, KeyFacts DEF LockedHit
  <2>2. CASE dirty' = dirty
      BY <1>1, <2>1, <2>2
  <2>3. CASE dirty' # dirty
    <3>1. dirty' = [dirty EXCEPT ![Key(p)] = read[Key(p)]]
          /\ ptr[read[Key(p)]] = Expunged
        BY <1>6, <2>3 DEF LockedHit
    <3>2. dirty # NoMap /\ dirty \in MapOfEntries
        BY <2>1, <3>1 DEF MapsAgree, ExpungedHasDirty, KeysOf, TypeOK
    <3> QED BY <2>1, <3>1, <3>2 DEF Out, MapOfEntries
  <2> QED BY <2>2, <2>3
<1>7. CASE LockedCreate(p)
  <2>1. CASE read[Key(p)] # NoEntry
      BY <1>1, <1>7, <2>1 DEF LockedCreate, maps
  <2>2. CASE read[Key(p)] = NoEntry
    <3>1. pc[p] = "locked" /\ ent[p] # NoEntry
        BY <1>7, ConstantsAssumption DEF LockedCreate, At, Control, ControlOf
    <3>2. dirty # NoMap
        BY <2>2, <3>1 DEF Holder, DirtyMap
    <3>3. MissLocked(dirty)
        BY <1>7, <2>2 DEF LockedCreate
    <3> QED BY <1>2, <3>2, <3>3 DEF Out
  <2> QED BY <2>1, <2>2
<1>8. CASE LockedNew(p)
    BY <1>8, <1>a DEF LockedNew, Out, NoEntries
<1>9. CASE Expunge(p)
  <2>1. PICK l \in expunging : dirty' = [dirty EXCEPT ![l] = read[l]] \/ dirty' = dirty
      BY <1>9 DEF Expunge
  <2>2. dirty \in MapOfEntries
      BY DEF DirtyMap, TypeOK
  <2>3. dirty'[k] # e
      BY <2>1, <2>2 DEF Out, MapOfEntries, DirtyMap
  <2> QED BY <1>9, <2>3 DEF Expunge, Out
<1>10. CASE Insert(p)
  <2>1. pc[p] = "expunge"
      BY <1>10 DEF Insert, At
  <2>2. dirty \in MapOfEntries /\ dirty # NoMap
      BY <2>1 DEF Holder, TypeOK
  <2>3. dirty' = [dirty EXCEPT ![Key(p)] = Fresh] /\ read' = read
      BY <1>10 DEF Insert
  <2>4. e # Fresh \/ k # Key(p) => dirty'[k] # e
      BY <2>2, <2>3 DEF Out, MapOfEntries
  <2> QED BY <1>10, <2>3, <2>4 DEF Out
<1>11. CASE \/ Begin(p) \/ ReadHit(p) \/ ReadMiss(p) \/ ReadAbsent(p)
            \/ EntryLoad(p) \/ EntryStore(p) \/ EntryCreate(p)
    BY <1>1, <1>11 DEF Begin, ReadHit, ReadMiss, ReadAbsent, EntryLoad,
                       EntryStore, EntryCreate, maps
<1>12. CASE \/ EntryLoaded(p) \/ EntryExpunged(p) \/ EntryDelete(p)
            \/ RangeRead(p) \/ RangeVisit(p) \/ RangeEnds(p) \/ Return(p)
    BY <1>1, <1>12 DEF EntryLoaded, EntryExpunged, EntryDelete, RangeRead,
                       RangeVisit, RangeEnds, Return, maps
<1>13. CASE \/ LockedReadHit(p) \/ LockedReadAbsent(p) \/ LockedInDirty(p)
            \/ LockedStore(p)
    BY <1>1, <1>13 DEF LockedReadHit, LockedReadAbsent, LockedInDirty,
                       LockedStore, maps
<1> QED
    BY <1>3, <1>4, <1>5, <1>6, <1>7, <1>8, <1>9, <1>10, <1>11, <1>12, <1>13 DEF Step

\* A caller takes an entry from a map, for the key it is at there.
LEMMA TakesOfKey ==
    ASSUME TypeOK, Control, DirtyMap, MapsAgree, Holder, NEW p \in Procs, Step(p),
           NEW e \in Entries, NEW k \in Keys,
           view'[p][k] = e \/ (ent'[p] = e /\ Key(p)' = k)
    PROVE  OfKey(e, k)
<1>a. e # NoEntry /\ NoEntries[k] = NoEntry
    BY ConstantsAssumption DEF NoEntries
<1>1. CASE /\ ent'[p] \in {ent[p], NoEntry}
           /\ view'[p] \in {view[p], NoEntries}
           /\ ent'[p] = ent[p] => call'[p] = call[p]
    BY <1>1, <1>a DEF OfKey, Key
<1>2. CASE /\ call' = call /\ view' = view
           /\ \/ ent'[p] = read[Key(p)]
              \/ InDirty(Key(p)) /\ ent'[p] = dirty[Key(p)]
    BY <1>2 DEF OfKey, Key, InDirty
<1> USE DEF GoTo, TakeEntry, Finish, FinishKey, TypeOK
<1>3. CASE Begin(p) \/ Return(p)
  <2>1. ent[p] = NoEntry
      BY <1>3 DEF Begin, Return, Control, ControlOf, At
  <2>2. ent' = ent /\ view' = view
      BY <1>3 DEF Begin, Return
  <2> QED BY <1>a, <2>1, <2>2 DEF OfKey
<1>4. CASE ReadHit(p) \/ LockedReadHit(p) \/ LockedHit(p) \/ LockedInDirty(p)
    BY <1>4, <1>2 DEF ReadHit, LockedReadHit, LockedHit, LockedInDirty
<1>5. CASE ReadMiss(p) \/ ReadAbsent(p) \/ EntryLoad(p) \/ EntryStore(p)
           \/ EntryCreate(p) \/ EntryLoaded(p) \/ EntryExpunged(p)
           \/ EntryDelete(p)
    BY <1>5, <1>1 DEF ReadMiss, ReadAbsent, EntryLoad, EntryStore, EntryCreate,
                      EntryLoaded, EntryExpunged, EntryDelete
<1>6. CASE RangeEnds(p) \/ LockedReadAbsent(p) \/ LockedStore(p)
           \/ LockedCreate(p) \/ LockedNew(p) \/ Expunge(p) \/ Insert(p)
    BY <1>6, <1>1 DEF RangeEnds, LockedReadAbsent, LockedStore, LockedCreate,
                      LockedNew, Expunge, Insert
<1>7. CASE LockedLoad(p) \/ LockedDelete(p)
  <2>1. CASE InDirty(Key(p))
      BY <1>7, <2>1, <1>2 DEF LockedLoad, LockedDelete
  <2>2. CASE ~InDirty(Key(p))
      BY <1>7, <2>2, <1>1 DEF LockedLoad, LockedDelete
  <2> QED BY <2>1, <2>2
<1>8. CASE RangeRead(p) \/ LockedRange(p)
  <2>1. /\ view'[p] = view[p] \/ view'[p] = read \/ (amended /\ view'[p] = dirty)
        /\ ent' = ent /\ call' = call
      BY <1>8 DEF RangeRead, LockedRange
  <2> QED BY <2>1 DEF OfKey, Key, DirtyMap
<1>9. CASE RangeVisit(p)
  <2>1. PICK l \in KeysOf(view[p]) : view' = [view EXCEPT ![p][l] = NoEntry]
      BY <1>9 DEF RangeVisit
  <2>2. view'[p][k] \in {view[p][k], NoEntry}
      BY <2>1 DEF MapOfEntries
  <2>3. ent' = ent /\ call' = call
      BY <1>9 DEF RangeVisit
  <2> QED BY <1>a, <2>2, <2>3 DEF OfKey, Key
<1> HIDE DEF GoTo, TakeEntry, Finish, FinishKey, TypeOK
<1> QED BY <1>3, <1>4, <1>5, <1>6, <1>7, <1>8, <1>9 DEF Step

LEMMA OfKeyUsed ==
    ASSUME NEW e \in Entries, NEW k \in Keys, OfKey(e, k)
    PROVE  e \in Used
<1>1. CASE read[k] = e \/ (dirty # NoMap /\ dirty[k] = e)
  <2>1. e \in InMaps
      BY <1>1 DEF InMaps
  <2> QED BY <2>1, Zenon DEF Used
<1>2. ASSUME NEW q \in Procs, view[q][k] = e PROVE e \in Used
  <2>1. e \in {view[q][i] : i \in Keys}
      BY <1>2
  <2>2. e \in UNION {{view[o][i] : i \in Keys} : o \in Procs}
      BY <2>1, Zenon
  <2> QED BY <2>2, Zenon DEF Used
<1>3. ASSUME NEW q \in Procs, ent[q] = e PROVE e \in Used
    BY <1>3 DEF Used
<1> QED BY <1>1, <1>2, <1>3 DEF OfKey

LEMMA OneKeyStep ==
    ASSUME TypeOK, Control, DirtyMap, MapsAgree, Holder, OneKey,
           NEW p \in Procs, Step(p)
    PROVE  OneKey'
<1>1. ASSUME NEW e \in Entries, NEW k \in Keys, OfKey(e, k)'
      PROVE  OfKey(e, k) \/ (Insert(p) /\ e = Fresh /\ k = Key(p))
  <2>1. CASE ~Out(e, k)'
      BY <2>1, MapsKeep DEF Out, OfKey
  <2>2. CASE \E q \in Procs : view'[q][k] = e \/ (ent'[q] = e /\ Key(q)' = k)
    <3>1. PICK q \in Procs : view'[q][k] = e \/ (ent'[q] = e /\ Key(q)' = k)
        BY <2>2
    <3>2. CASE q = p
        BY <3>1, <3>2, TakesOfKey
    <3>3. CASE q # p
        BY <3>1, <3>3, Others DEF OfKey, Key
    <3> QED BY <3>2, <3>3
  <2> QED BY <1>1, <2>1, <2>2 DEF OfKey, Out
<1>2. Insert(p) => Fresh \notin Used
    BY DEF Insert, Fresh
<1>3. ASSUME NEW e \in Entries, NEW k \in Keys, NEW l \in Keys,
             OfKey(e, k)', OfKey(e, l)'
      PROVE  k = l
    BY <1>1, <1>2, <1>3, OfKeyUsed DEF OneKey
<1> QED BY <1>3 DEF OneKey

-----------------------------------------------------------------------------
(* The two maps agree.                                                      *)

\* The map m is the dirty map, or the dirty map without a key of its own.
FromDirty(m) ==
    /\ m \in MapOfEntries
    /\ \A k \in Keys : m[k] = dirty[k] \/ (m[k] = NoEntry /\ read[k] = NoEntry)

\* It becomes the dirty map, or is promoted to the read map.
Promote(m) ==
    \/ dirty' = m /\ UNCHANGED <<read, amended>>
    \/ read' = m /\ amended' = FALSE /\ dirty' = NoMap

\* No entry is expunged, and none is unexpunged.
SameExpunged == \A e \in Entries : ptr'[e] = Expunged <=> ptr[e] = Expunged

LEMMA DirtyKept ==
    ASSUME TypeOK, DirtyMap, MapsAgree, UNCHANGED <<maps, expunging>>,
           Copying => Copying', SameExpunged
    PROVE  DirtyMap' /\ MapsAgree'
<1>1. \A k \in Keys :
         /\ read[k] \in Entries \cup {NoEntry}
         /\ dirty # NoMap => dirty[k] \in Entries \cup {NoEntry}
    BY DEF TypeOK, MapOfEntries
<1>2. UNCHANGED <<read, amended, dirty, expunging>> /\ expunging \subseteq Keys
    BY DEF maps, TypeOK
<1>3. KeysOf(read)' = KeysOf(read)
    BY <1>2 DEF KeysOf
<1>4. DirtyMap'
    BY <1>1, <1>2 DEF DirtyMap, SameExpunged
<1>5. MapsAgree'
    BY <1>1, <1>2, <1>3 DEF MapsAgree, DirtyComplete, ExpungedHasDirty,
                            SameExpunged, KeysOf
<1> QED BY <1>4, <1>5

LEMMA DirtyPromoted ==
    ASSUME TypeOK, DirtyMap, MapsAgree, ~Copying, dirty # NoMap,
           NEW m, FromDirty(m), Promote(m), UNCHANGED expunging, SameExpunged
    PROVE  DirtyMap' /\ MapsAgree'
<1>1. \A k \in Keys :
         /\ read[k] \in Entries \cup {NoEntry}
         /\ dirty[k] \in Entries \cup {NoEntry}
         /\ m[k] \in Entries \cup {NoEntry}
    BY DEF TypeOK, MapOfEntries, FromDirty
<1>2. amended /\ expunging = {} /\ expunging' = {} /\ m # NoMap
    BY ConstantsAssumption DEF DirtyMap, FromDirty
<1>3. CASE dirty' = m /\ UNCHANGED <<read, amended>>
  <2>1. DirtyMap'
      BY <1>1, <1>2, <1>3 DEF DirtyMap, SameExpunged, FromDirty
  <2>2. KeysOf(read)' = KeysOf(read) /\ KeysOf(read) \subseteq Keys
      BY <1>3 DEF KeysOf
  <2>3. DirtyComplete'
      BY <1>1, <1>2, <1>3, <2>2 DEF MapsAgree, DirtyComplete, SameExpunged,
                                    FromDirty, KeysOf
  <2>4. ExpungedHasDirty'
      BY <1>1, <1>2, <1>3, <2>2 DEF MapsAgree, ExpungedHasDirty, SameExpunged,
                                    FromDirty, KeysOf
  <2> QED BY <2>1, <2>3, <2>4 DEF MapsAgree
<1>4. CASE read' = m /\ amended' = FALSE /\ dirty' = NoMap
  <2>1. DirtyMap' /\ DirtyComplete'
      BY <1>2, <1>4 DEF DirtyMap, DirtyComplete
  <2>2. ExpungedHasDirty'
      BY <1>1, <1>4 DEF ExpungedHasDirty, DirtyMap, SameExpunged, FromDirty, KeysOf
  <2> QED BY <2>1, <2>2 DEF MapsAgree
<1> QED BY <1>3, <1>4 DEF Promote

\* The dirty map, and the dirty map that lost a key, may be promoted.
LEMMA Promotes ==
    ASSUME TypeOK, DirtyMap, amended,
           NEW k0, NEW m, m = dirty \/ (read[k0] = NoEntry /\
                                        m = [dirty EXCEPT ![k0] = NoEntry])
    PROVE  dirty # NoMap /\ FromDirty(m) /\ (MissLocked(m) => Promote(m))
<1>1. dirty # NoMap /\ dirty \in MapOfEntries
    BY DEF DirtyMap, TypeOK
<1>2. FromDirty(m)
    BY <1>1 DEF FromDirty, MapOfEntries
<1>3. MissLocked(m) => Promote(m)
    BY DEF MissLocked, Promote
<1> QED BY <1>1, <1>2, <1>3

\* A pointer that is not expunged gets a value or loses it.
LEMMA PointerKept ==
    ASSUME TypeOK, NEW e \in Entries, ptr[e] # Expunged,
           NEW v \in Values \cup {Nil}, SetPointer(e, v)
    PROVE  SameExpunged
    BY ConstantsAssumption DEF SetPointer, SameExpunged, TypeOK

LEMMA HitAgrees ==
    ASSUME TypeOK, Control, DirtyMap, MapsAgree, OneKey,
           NEW p \in Procs, LockedHit(p)
    PROVE  DirtyMap' /\ MapsAgree'
<1> DEFINE k0 == Key(p)
           e == read[k0]
<1>1. Op(p, KeyOps) /\ mu = NoProc /\ mu' = p /\ pc' = [pc EXCEPT ![p] = "locked"]
    BY DEF LockedHit, LockAt, Op, KeyOps, GoTo
<1>2. k0 \in Keys /\ e \in Entries
    BY <1>1, FoundType, KeyFacts DEF LockedHit
<1>3. ~Copying /\ ~Copying'
    BY <1>1, ConstantsAssumption DEF Copying, TypeOK
<1>4. UNCHANGED <<read, amended, misses, expunging>>
    BY DEF LockedHit
<1> HIDE DEF k0
<1>5. CASE ptr[e] # Expunged
  <2>1. UNCHANGED <<ptr, dirty>>
      BY <1>5 DEF LockedHit, k0
  <2>2. SameExpunged /\ UNCHANGED <<maps, expunging>>
      BY <1>4, <2>1 DEF SameExpunged, maps
  <2> QED BY <1>3, <2>2, DirtyKept
<1>6. CASE ptr[e] = Expunged
  <2>1. ptr' = [ptr EXCEPT ![e] = Nil] /\ dirty' = [dirty EXCEPT ![k0] = e]
      BY <1>6 DEF LockedHit, SetPointer, k0
  <2>2. dirty # NoMap /\ dirty \in MapOfEntries /\ amended /\ expunging = {}
      BY <1>2, <1>3, <1>6, ConstantsAssumption
      DEF MapsAgree, ExpungedHasDirty, KeysOf, DirtyMap, TypeOK
  <2>3. dirty' \in MapOfEntries /\ dirty' # NoMap
    <3>1. dirty' \in MapOfEntries
        BY <1>2, <2>1, <2>2 DEF MapOfEntries
    <3> QED BY <3>1, ConstantsAssumption
  <2>4. \A k \in Keys : dirty'[k] = IF k = k0 THEN e ELSE dirty[k]
      BY <1>2, <2>1, <2>2 DEF MapOfEntries
  <2>5. \A d \in Entries : ptr'[d] = IF d = e THEN Nil ELSE ptr[d]
      BY <1>2, <2>1 DEF TypeOK
  <2>6. \A k \in Keys : /\ read[k] \in Entries \cup {NoEntry}
                        /\ dirty[k] \in Entries \cup {NoEntry}
                        /\ read[k] = e => k = k0
      BY <1>2, <2>2 DEF TypeOK, MapOfEntries, OneKey, OfKey
  <2> HIDE DEF e
  <2>7. Nil # Expunged
      BY ConstantsAssumption
  <2>8. DirtyMap'
    <3>1. \A k \in Keys :
            /\ dirty'[k] # NoEntry => /\ ptr'[dirty'[k]] # Expunged
                                      /\ read[k] # NoEntry => dirty'[k] = read[k]
            /\ ~amended /\ read[k] = NoEntry => dirty'[k] = NoEntry
        BY <1>2, <2>2, <2>4, <2>5, <2>6, <2>7 DEF DirtyMap, e
    <3> QED BY <1>4, <2>2, <2>3, <3>1 DEF DirtyMap
  <2>9. KeysOf(read)' = KeysOf(read) /\ KeysOf(read) \subseteq Keys
      BY <1>4 DEF KeysOf
  <2>10. DirtyComplete'
    <3>1. \A k \in KeysOf(read) :
             dirty'[k] = IF ptr'[read[k]] = Expunged THEN NoEntry ELSE read[k]
        BY <1>2, <2>2, <2>4, <2>5, <2>6, <2>7
        DEF MapsAgree, DirtyComplete, KeysOf, e
    <3> QED BY <1>4, <2>9, <3>1 DEF DirtyComplete
  <2>11. ExpungedHasDirty'
      BY <1>4, <2>2, <2>3, <2>4, <2>5, <2>6, <2>7, <2>9
      DEF MapsAgree, ExpungedHasDirty, KeysOf, e
  <2> QED BY <2>8, <2>10, <2>11 DEF MapsAgree
<1> QED BY <1>5, <1>6

LEMMA NewAgrees ==
    ASSUME TypeOK, Control, DirtyMap, MapsAgree, NEW p \in Procs, LockedNew(p)
    PROVE  DirtyMap' /\ MapsAgree'
<1>1. /\ mu = NoProc /\ mu' = p /\ pc'[p] = "expunge"
      /\ UNCHANGED <<read, amended, misses, ptr>>
    BY DEF LockedNew, LockAt, GoTo, TypeOK
<1>2. ~Copying /\ Copying'
    BY <1>1, ConstantsAssumption DEF Copying, TypeOK
<1>3. CASE ~(~amended /\ dirty = NoMap)
  <2>1. UNCHANGED <<maps, expunging>> /\ SameExpunged
      BY <1>1, <1>3 DEF LockedNew, maps, SameExpunged
  <2> QED BY <1>2, <2>1, DirtyKept
<1>4. CASE ~amended /\ dirty = NoMap
  <2>1. dirty' = NoEntries /\ expunging' = KeysOf(read)
      BY <1>4 DEF LockedNew
  <2>2. NoEntries # NoMap /\ \A k \in Keys : NoEntries[k] = NoEntry
      BY ConstantsAssumption DEF NoEntries, MapOfEntries
  <2>3. \A k \in KeysOf(read) : ptr[read[k]] # Expunged /\ read[k] # NoEntry
      BY <1>4 DEF MapsAgree, ExpungedHasDirty, KeysOf
  <2>4. KeysOf(read)' = KeysOf(read)
      BY <1>1 DEF KeysOf
  <2>5. DirtyMap'
    <3>1. \A k \in expunging' :
            /\ dirty' # NoMap /\ read'[k] # NoEntry /\ dirty'[k] = NoEntry
            /\ ptr'[read'[k]] # Expunged
        BY <1>1, <2>1, <2>2, <2>3 DEF KeysOf
    <3> QED BY <1>1, <1>2, <1>4, <2>1, <2>2, <3>1 DEF DirtyMap
  <2>6. MapsAgree'
      BY <1>1, <2>1, <2>3, <2>4 DEF MapsAgree, DirtyComplete, ExpungedHasDirty
  <2> QED BY <2>5, <2>6
<1> QED BY <1>3, <1>4

LEMMA ExpungeAgrees ==
    ASSUME TypeOK, Control, DirtyMap, MapsAgree, OneKey,
           NEW p \in Procs, Expunge(p)
    PROVE  DirtyMap' /\ MapsAgree'
<1>1. PICK k0 \in expunging :
          /\ expunging' = expunging \ {k0}
          /\ IF ptr[read[k0]] \in Values
             THEN dirty' = [dirty EXCEPT ![k0] = read[k0]] /\ UNCHANGED ptr
             ELSE SetPointer(read[k0], Expunged) /\ UNCHANGED dirty
    BY DEF Expunge
<1> DEFINE e == read[k0]
<1>2. /\ k0 \in Keys /\ e \in Entries /\ dirty[k0] = NoEntry /\ ptr[e] # Expunged
      /\ dirty # NoMap /\ dirty \in MapOfEntries /\ expunging \subseteq Keys
    BY DEF DirtyMap, TypeOK, MapOfEntries
<1>3. UNCHANGED <<read, amended, mu, pc>>
    BY DEF Expunge
<1>4. Copying' /\ Copying
    BY <1>1, <1>3 DEF DirtyMap, Copying
<1>5. \A k \in Keys : /\ read[k] \in Entries \cup {NoEntry}
                      /\ dirty[k] \in Entries \cup {NoEntry}
                      /\ read[k] = e \/ dirty[k] = e => k = k0
    BY <1>2 DEF TypeOK, MapOfEntries, OneKey, OfKey
<1>6. KeysOf(read)' = KeysOf(read) /\ KeysOf(read) \subseteq Keys
    BY <1>3 DEF KeysOf
<1>7. CASE ptr[e] \in Values
  <2>1. UNCHANGED ptr /\ dirty' = [dirty EXCEPT ![k0] = e]
      BY <1>1, <1>7
  <2>2. dirty' \in MapOfEntries /\ dirty' # NoMap
    <3>1. dirty' \in MapOfEntries
        BY <1>2, <2>1 DEF MapOfEntries
    <3> QED BY <3>1, ConstantsAssumption
  <2>3. \A k \in Keys : dirty'[k] = IF k = k0 THEN e ELSE dirty[k]
      BY <1>2, <2>1 DEF MapOfEntries
  <2>4. \A k \in expunging' : /\ read[k] # NoEntry /\ dirty'[k] = NoEntry
                              /\ ptr[read[k]] # Expunged
      BY <1>1, <1>2, <2>3 DEF DirtyMap
  <2>5. \A k \in Keys :
          /\ dirty'[k] # NoEntry => /\ ptr[dirty'[k]] # Expunged
                                    /\ read[k] # NoEntry => dirty'[k] = read[k]
          /\ ~amended /\ read[k] = NoEntry => dirty'[k] = NoEntry
      BY <1>2, <2>3, ConstantsAssumption DEF DirtyMap
  <2>6. DirtyMap'
      BY <1>3, <1>4, <2>1, <2>2, <2>4, <2>5 DEF DirtyMap
  <2>7. \A k \in KeysOf(read) \ expunging' :
          dirty'[k] = IF ptr[read[k]] = Expunged THEN NoEntry ELSE read[k]
      BY <1>1, <1>2, <1>6, <2>3 DEF MapsAgree, DirtyComplete
  <2>8. \A k \in KeysOf(read) :
          ptr[read[k]] = Expunged => dirty'[k] = NoEntry
      BY <1>2, <1>6, <2>3 DEF MapsAgree, ExpungedHasDirty
  <2> QED BY <1>3, <1>6, <2>1, <2>2, <2>6, <2>7, <2>8
          DEF MapsAgree, DirtyComplete, ExpungedHasDirty
<1>8. CASE ptr[e] \notin Values
  <2>1. UNCHANGED dirty /\ ptr' = [ptr EXCEPT ![e] = Expunged]
      BY <1>1, <1>8 DEF SetPointer
  <2>2. \A d \in Entries : ptr'[d] = IF d = e THEN Expunged ELSE ptr[d]
      BY <1>2, <2>1 DEF TypeOK
  <2>3. \A k \in expunging' : /\ read[k] # NoEntry /\ dirty[k] = NoEntry
                              /\ ptr'[read[k]] # Expunged
      BY <1>1, <1>2, <1>5, <2>2 DEF DirtyMap
  <2>4. \A k \in Keys :
          /\ dirty[k] # NoEntry => /\ ptr'[dirty[k]] # Expunged
                                   /\ read[k] # NoEntry => dirty[k] = read[k]
          /\ ~amended /\ read[k] = NoEntry => dirty[k] = NoEntry
      BY <1>2, <1>5, <2>2, ConstantsAssumption DEF DirtyMap
  <2>5. DirtyMap'
      BY <1>2, <1>3, <1>4, <2>1, <2>3, <2>4 DEF DirtyMap
  <2>6. \A k \in KeysOf(read) \ expunging' :
          dirty[k] = IF ptr'[read[k]] = Expunged THEN NoEntry ELSE read[k]
      BY <1>1, <1>2, <1>5, <2>2 DEF MapsAgree, DirtyComplete, KeysOf
  <2>7. \A k \in KeysOf(read) :
          ptr'[read[k]] = Expunged => dirty[k] = NoEntry
      BY <1>2, <1>5, <2>2 DEF MapsAgree, ExpungedHasDirty, KeysOf
  <2> QED BY <1>2, <1>3, <1>6, <2>1, <2>5, <2>6, <2>7
          DEF MapsAgree, DirtyComplete, ExpungedHasDirty
<1> QED BY <1>7, <1>8

\* The entry that is new is in no map.
LEMMA FreshFacts ==
    ASSUME Entries \ Used # {}
    PROVE  /\ Fresh \in Entries /\ Fresh \notin Used
           /\ \A k \in Keys : Out(Fresh, k)
<1>1. Fresh \in Entries /\ Fresh \notin Used
    BY DEF Fresh
<1>2. Fresh \notin InMaps
    BY <1>1 DEF Used
<1>3. ASSUME NEW k \in Keys PROVE Out(Fresh, k)
    BY <1>2 DEF InMaps, Out
<1> QED BY <1>1, <1>3

LEMMA InsertAgrees ==
    ASSUME TypeOK, Control, DirtyMap, MapsAgree, Holder,
           NEW p \in Procs, Insert(p)
    PROVE  DirtyMap' /\ MapsAgree'
<1> DEFINE k0 == Key(p)
           e == Fresh
<1>1. Op(p, {"store", "create"}) /\ mu = p /\ pc[p] = "expunge"
    BY DEF Insert, At, Control, ControlOf
<1>2. k0 \in Keys /\ call[p].val \in Values
  <2>1. Op(p, KeyOps)
      BY <1>1 DEF Op, KeyOps
  <2> QED BY <1>1, <2>1, KeyFacts
<1>3. e \in Entries /\ \A k \in Keys : read[k] # e /\ (dirty # NoMap => dirty[k] # e)
    BY FreshFacts DEF Insert, Out
<1>4. /\ read[k0] = NoEntry /\ dirty # NoMap /\ dirty \in MapOfEntries
      /\ expunging = {} /\ expunging' = {} /\ amended' = TRUE /\ read' = read
    BY <1>1 DEF Holder, TypeOK, Insert
<1>5. ptr' = [ptr EXCEPT ![e] = call[p].val] /\ dirty' = [dirty EXCEPT ![k0] = e]
    BY DEF Insert, SetPointer
<1> HIDE DEF e, k0
<1>6. \A d \in Entries : ptr'[d] = IF d = e THEN call[p].val ELSE ptr[d]
    BY <1>3, <1>5 DEF TypeOK
<1>7. \A k \in Keys : dirty'[k] = IF k = k0 THEN e ELSE dirty[k]
    BY <1>2, <1>4, <1>5 DEF MapOfEntries
<1>8. dirty' # NoMap
  <2>1. dirty' \in MapOfEntries
      BY <1>2, <1>3, <1>4, <1>5 DEF MapOfEntries
  <2> QED BY <2>1, ConstantsAssumption
<1>9. call[p].val # Expunged
    BY <1>2, ConstantsAssumption
<1>10. \A k \in Keys : /\ read[k] \in Entries \cup {NoEntry}
                       /\ dirty[k] \in Entries \cup {NoEntry}
    BY <1>4 DEF TypeOK, MapOfEntries
<1>11. KeysOf(read)' = KeysOf(read) /\ KeysOf(read) \subseteq Keys
    BY <1>4 DEF KeysOf
<1>12. \A k \in Keys : dirty'[k] # NoEntry => /\ ptr'[dirty'[k]] # Expunged
                                              /\ read[k] # NoEntry => dirty'[k] = read[k]
    BY <1>2, <1>3, <1>4, <1>6, <1>7, <1>9, <1>10 DEF DirtyMap
<1>13. DirtyMap'
    BY <1>4, <1>8, <1>12 DEF DirtyMap
<1>14. \A k \in KeysOf(read) :
          dirty'[k] = IF ptr'[read[k]] = Expunged THEN NoEntry ELSE read[k]
    BY <1>3, <1>4, <1>6, <1>7, <1>10, <1>11
    DEF MapsAgree, DirtyComplete, KeysOf
<1> QED BY <1>4, <1>8, <1>11, <1>13, <1>14
        DEF MapsAgree, DirtyComplete, ExpungedHasDirty

\* What LockedCreate works with.
LEMMA LockedFacts ==
    ASSUME TypeOK, Control, DirtyMap, Holder, NEW p \in Procs, At(p, "locked")
    PROVE  /\ mu = p /\ ~Copying /\ ent[p] \in Entries /\ ptr[ent[p]] # Expunged
           /\ Op(p, {"store", "create"}) /\ Op(p, KeyOps)
           /\ Key(p) \in Keys /\ call[p].val \in Values
           /\ \/ read[Key(p)] = ent[p]
              \/ read[Key(p)] = NoEntry /\ amended /\ dirty[Key(p)] = ent[p]
           /\ read[Key(p)] = NoEntry => amended
<1>1. /\ mu = p /\ ~Copying /\ ent[p] \in Entries /\ ent[p] # NoEntry
      /\ Op(p, {"store", "create"})
    BY ConstantsAssumption DEF Control, ControlOf, At, Copying
<1>2. Op(p, KeyOps)
    BY <1>1 DEF Op, KeyOps
<1>3. /\ ptr[ent[p]] # Expunged
      /\ \/ read[Key(p)] = ent[p]
         \/ read[Key(p)] = NoEntry /\ amended /\ dirty[Key(p)] = ent[p]
    BY DEF Holder, At
<1> QED BY <1>1, <1>2, <1>3, KeyFacts

LEMMA AgreeStep ==
    ASSUME TypeOK, Control, DirtyMap, MapsAgree, Holder, OneKey,
           NEW p \in Procs, Step(p)
    PROVE  DirtyMap' /\ MapsAgree'
<1>a. pc[p] \notin {"locked", "expunge"} => mu # p
    BY DEF Control, ControlOf
<1>b. mu = NoProc => ~Copying
    BY ConstantsAssumption DEF Copying
<1>c. ASSUME UNCHANGED <<maps, expunging, mu>>, mu # p, SameExpunged
      PROVE  DirtyMap' /\ MapsAgree'
  <2>1. Copying => Copying'
      BY <1>c, Others DEF Copying
  <2> QED BY <1>c, <2>1, DirtyKept
<1>d. UNCHANGED ptr => SameExpunged
    BY DEF SameExpunged
<1>1. CASE \/ Begin(p) \/ ReadHit(p) \/ ReadMiss(p) \/ ReadAbsent(p)
           \/ EntryLoad(p) \/ EntryLoaded(p) \/ EntryExpunged(p)
  <2>1. UNCHANGED <<maps, expunging, mu, ptr>> /\ pc[p] \notin {"locked", "expunge"}
      BY <1>1 DEF Begin, ReadHit, ReadMiss, ReadAbsent, EntryLoad, EntryLoaded,
                  EntryExpunged, At
  <2> QED BY <2>1, <1>a, <1>c, <1>d
<1>2. CASE \/ RangeRead(p) \/ RangeVisit(p) \/ RangeEnds(p) \/ Return(p)
           \/ LockedReadHit(p) \/ LockedReadAbsent(p)
  <2>1. UNCHANGED <<maps, expunging, mu, ptr>> /\ pc[p] \notin {"locked", "expunge"}
      BY <1>2 DEF RangeRead, RangeVisit, RangeEnds, Return, LockedReadHit,
                  LockedReadAbsent, LockAt, At
  <2> QED BY <2>1, <1>a, <1>c, <1>d
<1>3. CASE EntryStore(p) \/ EntryCreate(p)
  <2>1. ent[p] \in Entries /\ call[p].val \in Values /\ pc[p] = "entry"
    <3>1. Op(p, {"store", "create"}) /\ Op(p, KeyOps) /\ pc[p] = "entry"
        BY <1>3 DEF EntryStore, EntryCreate, Op, KeyOps, At
    <3> QED BY <3>1, KeyFacts DEF Control, ControlOf
  <2>2. /\ ptr[ent[p]] # Expunged /\ SetPointer(ent[p], call[p].val)
        /\ UNCHANGED <<maps, expunging, mu>>
      BY <1>3, ConstantsAssumption DEF EntryStore, EntryCreate
  <2>3. SameExpunged
      BY <2>1, <2>2, PointerKept
  <2> QED BY <1>a, <1>c, <2>1, <2>2, <2>3
<1>4. CASE EntryDelete(p)
  <2>1. UNCHANGED <<maps, expunging, mu>> /\ pc[p] = "entry" /\ ent[p] \in Entries
      BY <1>4 DEF EntryDelete, At, Control, ControlOf
  <2>2. CASE ValueOf(ent[p]) = Absent
      BY <1>4, <1>a, <1>c, <1>d, <2>1, <2>2 DEF EntryDelete
  <2>3. CASE ValueOf(ent[p]) # Absent
    <3>1. ptr[ent[p]] # Expunged /\ SetPointer(ent[p], Nil)
        BY <1>4, <2>1, <2>3, ValueFacts DEF EntryDelete
    <3>2. SameExpunged
        BY <2>1, <3>1, PointerKept
    <3> QED BY <1>a, <1>c, <2>1, <3>2
  <2> QED BY <2>2, <2>3
<1>5. CASE LockedLoad(p) \/ LockedDelete(p)
  <2> DEFINE m == IF LockedLoad(p) THEN dirty ELSE [dirty EXCEPT ![Key(p)] = NoEntry]
  <2>1. /\ mu = NoProc /\ amended /\ MissLocked(m) /\ UNCHANGED <<ptr, expunging>>
        /\ m = dirty \/ (read[Key(p)] = NoEntry
                         /\ m = [dirty EXCEPT ![Key(p)] = NoEntry])
      BY <1>5 DEF LockedLoad, LockedDelete, LockAt
  <2> HIDE DEF m
  <2>2. dirty # NoMap /\ FromDirty(m) /\ Promote(m)
      BY <2>1, Promotes
  <2> QED BY <1>b, <1>d, <2>1, <2>2, DirtyPromoted
<1>6. CASE LockedRange(p)
  <2>1. mu = NoProc /\ UNCHANGED <<ptr, expunging, mu>> /\ pc[p] = "lock"
      BY <1>6 DEF LockedRange, LockAt, At
  <2>2. CASE amended
    <3>1. Promote(dirty) /\ dirty # NoMap /\ FromDirty(dirty)
        BY <1>6, <2>2, Promotes DEF LockedRange, Promote
    <3> QED BY <1>b, <1>d, <2>1, <3>1, DirtyPromoted
  <2>3. CASE ~amended
      BY <1>6, <1>a, <1>c, <1>d, <2>1, <2>3 DEF LockedRange
  <2> QED BY <2>2, <2>3
<1>7. CASE LockedHit(p)
    BY <1>7, HitAgrees
<1>8. CASE LockedInDirty(p)
  <2>1. mu = NoProc /\ UNCHANGED <<maps, ptr, expunging>>
      BY <1>8 DEF LockedInDirty, LockAt
  <2> QED BY <1>b, <1>d, <2>1, DirtyKept
<1>9. CASE LockedStore(p)
  <2>1. /\ UNCHANGED <<maps, expunging>> /\ At(p, "locked")
        /\ SetPointer(ent[p], call[p].val)
      BY <1>9 DEF LockedStore
  <2>2. ~Copying /\ SameExpunged
      BY <2>1, LockedFacts, PointerKept
  <2> QED BY <2>1, <2>2, DirtyKept
<1>10. CASE LockedCreate(p)
  <2>1. At(p, "locked") /\ UNCHANGED expunging
      BY <1>10 DEF LockedCreate
  <2>2. SetPointer(ent[p], call[p].val) \/ UNCHANGED ptr
      BY <1>10 DEF LockedCreate
  <2>3. ~Copying /\ SameExpunged /\ (read[Key(p)] = NoEntry => amended)
      BY <1>d, <2>1, <2>2, LockedFacts, PointerKept
  <2>4. CASE read[Key(p)] # NoEntry
    <3>1. UNCHANGED maps
        BY <1>10, <2>4 DEF LockedCreate
    <3> QED BY <2>1, <2>3, <3>1, DirtyKept
  <2>5. CASE read[Key(p)] = NoEntry
    <3>1. MissLocked(dirty)
        BY <1>10, <2>5 DEF LockedCreate
    <3>2. dirty # NoMap /\ FromDirty(dirty) /\ Promote(dirty)
        BY <2>3, <2>5, <3>1, Promotes
    <3> QED BY <2>1, <2>3, <3>2, DirtyPromoted
  <2> QED BY <2>4, <2>5
<1>11. CASE LockedNew(p)
    BY <1>11, NewAgrees
<1>12. CASE Expunge(p)
    BY <1>12, ExpungeAgrees
<1>13. CASE Insert(p)
    BY <1>13, InsertAgrees
<1> QED
    BY <1>1, <1>2, <1>3, <1>4, <1>5, <1>6, <1>7, <1>8, <1>9, <1>10, <1>11, <1>12,
       <1>13 DEF Step

\* While a caller holds the lock, the others change no map, and they neither
\* expunge an entry nor unexpunge one.
LEMMA HeldMaps ==
    ASSUME TypeOK, Control, NEW p \in Procs, Step(p),
           NEW q \in Procs \ {p}, mu = q
    PROVE  UNCHANGED <<maps, mu>> /\ SameExpunged
<1>a. mu # NoProc /\ mu # p /\ pc[p] \notin {"locked", "expunge"}
    BY ConstantsAssumption DEF Control, ControlOf
<1>d. UNCHANGED ptr => SameExpunged
    BY DEF SameExpunged
<1>1. CASE \/ Begin(p) \/ ReadHit(p) \/ ReadMiss(p) \/ ReadAbsent(p)
           \/ EntryLoad(p) \/ EntryLoaded(p) \/ EntryExpunged(p)
           \/ RangeRead(p) \/ RangeVisit(p) \/ RangeEnds(p) \/ Return(p)
    BY <1>1, <1>d DEF Begin, ReadHit, ReadMiss, ReadAbsent, EntryLoad, EntryLoaded,
                      EntryExpunged, RangeRead, RangeVisit, RangeEnds, Return
<1>2. CASE EntryStore(p) \/ EntryCreate(p)
  <2>1. ent[p] \in Entries /\ call[p].val \in Values
    <3>1. Op(p, {"store", "create"}) /\ Op(p, KeyOps) /\ pc[p] = "entry"
        BY <1>2 DEF EntryStore, EntryCreate, Op, KeyOps, At
    <3> QED BY <3>1, KeyFacts DEF Control, ControlOf
  <2>2. /\ ptr[ent[p]] # Expunged /\ SetPointer(ent[p], call[p].val)
        /\ UNCHANGED <<maps, mu>>
      BY <1>2, ConstantsAssumption DEF EntryStore, EntryCreate
  <2> QED BY <2>1, <2>2, PointerKept
<1>3. CASE EntryDelete(p)
  <2>1. UNCHANGED <<maps, mu>> /\ ent[p] \in Entries
      BY <1>3 DEF EntryDelete, At, Control, ControlOf
  <2>2. CASE ValueOf(ent[p]) = Absent
      BY <1>3, <1>d, <2>1, <2>2 DEF EntryDelete
  <2>3. CASE ValueOf(ent[p]) # Absent
    <3>1. ptr[ent[p]] # Expunged /\ SetPointer(ent[p], Nil)
        BY <1>3, <2>1, <2>3, ValueFacts DEF EntryDelete
    <3> QED BY <2>1, <3>1, PointerKept
  <2> QED BY <2>2, <2>3
<1>4. CASE \/ LockedReadHit(p) \/ LockedReadAbsent(p) \/ LockedLoad(p)
           \/ LockedDelete(p) \/ LockedRange(p) \/ LockedHit(p)
           \/ LockedInDirty(p) \/ LockedNew(p)
    BY <1>4, <1>a DEF LockedReadHit, LockedReadAbsent, LockedLoad, LockedDelete,
                      LockedRange, LockedHit, LockedInDirty, LockedNew, LockAt
<1>5. CASE LockedStore(p) \/ LockedCreate(p) \/ Expunge(p) \/ Insert(p)
    BY <1>5, <1>a DEF LockedStore, LockedCreate, Expunge, Insert, At
<1> QED BY <1>1, <1>2, <1>3, <1>4, <1>5 DEF Step

LEMMA HolderStep ==
    ASSUME TypeOK, Control, DirtyMap, MapsAgree, Holder, OneKey,
           NEW p \in Procs, Step(p), Control'
    PROVE  Holder'
<1> DEFINE Held(q) ==
        /\ pc[q] = "locked" =>
              /\ ptr[ent[q]] # Expunged
              /\ \/ read[Key(q)] = ent[q]
                 \/ read[Key(q)] = NoEntry /\ amended /\ dirty[Key(q)] = ent[q]
        /\ pc[q] = "expunge" =>
              read[Key(q)] = NoEntry /\ dirty # NoMap /\ dirty[Key(q)] = NoEntry
<1>1. ASSUME NEW q \in Procs \ {p} PROVE Held(q)'
  <2>1. CASE pc[q] \notin {"locked", "expunge"}
      BY <2>1, Others
  <2>2. CASE pc[q] \in {"locked", "expunge"}
    <3>1. mu = q /\ (pc[q] = "locked" => ent[q] \in Entries) /\ Held(q)
        BY <2>2 DEF Control, ControlOf, Holder
    <3>2. UNCHANGED <<read, amended, dirty>> /\ SameExpunged
        BY <3>1, HeldMaps DEF maps
    <3>3. pc'[q] = pc[q] /\ ent'[q] = ent[q] /\ Key(q)' = Key(q)
        BY Others DEF Key
    <3> QED BY <3>1, <3>2, <3>3 DEF SameExpunged
  <2> QED BY <2>1, <2>2
<1>2. Held(p)'
  <2>1. CASE mu' # p
      BY <2>1 DEF Control, ControlOf
  <2>2. CASE LockedHit(p)
    <3>1. Op(p, KeyOps) /\ read[Key(p)] # NoEntry
        BY <2>2 DEF LockedHit, LockAt, Op, KeyOps
    <3>2. read[Key(p)] \in Entries
        BY <3>1, FoundType
    <3>3. /\ pc'[p] = "locked" /\ ent'[p] = read[Key(p)] /\ read' = read
          /\ call' = call
        BY <2>2 DEF LockedHit, GoTo, TakeEntry, TypeOK
    <3>4. ptr'[read[Key(p)]] # Expunged
        BY <2>2, <3>2, ConstantsAssumption DEF LockedHit, SetPointer, TypeOK
    <3> QED BY <3>3, <3>4 DEF Key
  <2>3. CASE LockedInDirty(p)
    <3>1. Op(p, KeyOps) /\ read[Key(p)] = NoEntry /\ InDirty(Key(p)) /\ mu = NoProc
        BY <2>3 DEF LockedInDirty, LockAt, Op, KeyOps
    <3>2. amended /\ Key(p) \in Keys /\ ptr[dirty[Key(p)]] # Expunged
        BY <3>1, KeyFacts, ConstantsAssumption DEF DirtyMap, Copying, InDirty
    <3>3. /\ pc'[p] = "locked" /\ ent'[p] = dirty[Key(p)] /\ UNCHANGED <<maps, ptr, call>>
        BY <2>3 DEF LockedInDirty, GoTo, TakeEntry, TypeOK
    <3> QED BY <3>1, <3>2, <3>3 DEF Key, maps
  <2>4. CASE LockedNew(p)
    <3>1. Op(p, KeyOps) /\ read[Key(p)] = NoEntry /\ ~InDirty(Key(p)) /\ mu = NoProc
        BY <2>4 DEF LockedNew, LockAt, Op, KeyOps
    <3>2. Key(p) \in Keys /\ (amended => dirty # NoMap)
        BY <3>1, KeyFacts DEF DirtyMap
    <3>3. pc'[p] = "expunge" /\ read' = read /\ call' = call
        BY <2>4 DEF LockedNew, GoTo, TypeOK
    <3>4. dirty' # NoMap /\ dirty'[Key(p)] = NoEntry
      <4>1. NoEntries # NoMap /\ NoEntries[Key(p)] = NoEntry
          BY <3>2, ConstantsAssumption DEF NoEntries, MapOfEntries
      <4> QED BY <2>4, <3>1, <3>2, <4>1 DEF LockedNew, InDirty
    <3> QED BY <3>1, <3>3, <3>4 DEF Key
  <2>5. CASE Expunge(p)
    <3>1. PICK k \in expunging : dirty' = [dirty EXCEPT ![k] = read[k]] \/ dirty' = dirty
        BY <2>5 DEF Expunge
    <3>2. /\ pc' = pc /\ call' = call /\ read' = read /\ pc[p] = "expunge"
        BY <2>5 DEF Expunge, At
    <3>3. /\ read[Key(p)] = NoEntry /\ dirty # NoMap /\ dirty[Key(p)] = NoEntry
          /\ dirty \in MapOfEntries
        BY <3>2 DEF Holder, TypeOK
    <3>4. k \in Keys /\ read[k] \in Entries
        BY DEF DirtyMap, TypeOK, MapOfEntries
    <3>5. dirty' \in MapOfEntries /\ dirty' # NoMap
      <4>1. dirty' \in MapOfEntries
          BY <3>1, <3>3, <3>4 DEF MapOfEntries
      <4> QED BY <4>1, ConstantsAssumption
    <3>6. dirty'[Key(p)] = NoEntry
      <4>1. Op(p, KeyOps)
          BY <3>2 DEF Control, ControlOf, Op, KeyOps
      <4>2. Key(p) \in Keys /\ k # Key(p)
          BY <3>3, <3>4, <4>1, KeyFacts, ConstantsAssumption
      <4> QED BY <3>1, <3>3, <4>2 DEF MapOfEntries
    <3> QED BY <3>2, <3>3, <3>5, <3>6 DEF Key
  <2>6. CASE LockedStore(p) \/ LockedCreate(p) \/ Insert(p)
      BY <2>6, <2>1, ConstantsAssumption DEF LockedStore, LockedCreate, Insert
  <2>7. CASE mu' = mu /\ pc[p] \notin {"locked", "expunge"}
      BY <2>1, <2>7 DEF Control, ControlOf
  <2>8. CASE \/ Begin(p) \/ ReadHit(p) \/ ReadMiss(p) \/ ReadAbsent(p)
             \/ EntryLoad(p) \/ EntryLoaded(p) \/ EntryExpunged(p)
             \/ EntryStore(p) \/ EntryCreate(p) \/ EntryDelete(p)
      BY <2>7, <2>8 DEF Begin, ReadHit, ReadMiss, ReadAbsent, EntryLoad, EntryLoaded,
                        EntryExpunged, EntryStore, EntryCreate, EntryDelete, At
  <2>9. CASE \/ RangeRead(p) \/ RangeVisit(p) \/ RangeEnds(p) \/ Return(p)
             \/ LockedReadHit(p) \/ LockedReadAbsent(p) \/ LockedLoad(p)
             \/ LockedDelete(p) \/ LockedRange(p)
      BY <2>7, <2>9 DEF RangeRead, RangeVisit, RangeEnds, Return, LockedReadHit,
                        LockedReadAbsent, LockedLoad, LockedDelete, LockedRange,
                        LockAt, At
  <2> QED BY <2>2, <2>3, <2>4, <2>5, <2>6, <2>8, <2>9 DEF Step
<1> QED BY <1>1, <1>2 DEF Holder

LEMMA MapsInvInit ==
    ASSUME Init
    PROVE  MapsInv
<1> USE DEF Init
<1>1. NoEntries \in MapOfEntries /\ \A k \in Keys : NoEntries[k] = NoEntry
    BY DEF NoEntries, MapOfEntries
<1>2. 0 \in 0 .. Cardinality(Keys)
    BY ConstantsAssumption, FS_CardinalityType
<1>3. TypeOK
    BY <1>1, <1>2 DEF TypeOK, Pointers
<1>4. Control
    BY ConstantsAssumption DEF Control, ControlOf
<1>5. KeysOf(read) = {}
    BY <1>1 DEF KeysOf
<1>6. DirtyMap /\ MapsAgree /\ Holder
    BY <1>5 DEF DirtyMap, MapsAgree, DirtyComplete, ExpungedHasDirty, Holder
<1>7. OneKey
    BY <1>1, ConstantsAssumption DEF OneKey, OfKey
<1> QED BY <1>3, <1>4, <1>6, <1>7 DEF MapsInv

LEMMA MapsInvStep ==
    ASSUME MapsInv, [Next]_vars
    PROVE  MapsInv'
<1>1. CASE Next
  <2>1. PICK p \in Procs : Step(p)
      BY <1>1 DEF Next
  <2> USE <2>1 DEF MapsInv
  <2>2. TypeOK'
      BY TypesStep
  <2>3. Control'
      BY ControlStep
  <2>4. DirtyMap' /\ MapsAgree'
      BY AgreeStep
  <2>5. Holder'
      BY <2>3, HolderStep
  <2>6. OneKey'
      BY OneKeyStep
  <2> QED BY <2>2, <2>3, <2>4, <2>5, <2>6
<1>2. CASE UNCHANGED vars
  <2> USE <1>2 DEF vars, maps, MapsInv
  <2>1. TypeOK'
      BY DEF TypeOK
  <2>2. Control'
      BY DEF Control, ControlOf, Op
  <2>3. DirtyMap'
      BY DEF DirtyMap, Copying
  <2>4. MapsAgree'
      BY DEF MapsAgree, DirtyComplete, ExpungedHasDirty, KeysOf
  <2>5. Holder'
      BY DEF Holder, Key
  <2>6. OneKey'
      BY DEF OneKey, OfKey, Key
  <2> QED BY <2>1, <2>2, <2>3, <2>4, <2>5, <2>6
<1> QED BY <1>1, <1>2

LEMMA MapsInvHolds == Spec => []MapsInv
<1>1. Init => MapsInv
    BY MapsInvInit
<1>2. MapsInv /\ [Next]_vars => MapsInv'
    BY MapsInvStep
<1> QED BY <1>1, <1>2, PTL DEF Spec

\* The variables keep their types, misses never beyond the number of keys
\* (map.go:30-62).
THEOREM MapTypeCorrect == Spec => []TypeOK
<1>1. MapsInv => TypeOK
    BY DEF MapsInv
<1> QED BY <1>1, MapsInvHolds, PTL

\* The dirty map lacks no key of the read map that is not expunged, and an
\* expunged entry is lacking there: promoting it loses nothing
\* (map.go:30-80, 352-360).
THEOREM MapsAlwaysAgree == Spec => []MapsAgree
<1>1. MapsInv => MapsAgree
    BY DEF MapsInv
<1> QED BY <1>1, MapsInvHolds, PTL

-----------------------------------------------------------------------------
(* What the map holds.                                                      *)

\* Where the map finds a key.
EntryOf(k) ==
    IF read[k] # NoEntry THEN read[k]
    ELSE IF amended /\ dirty[k] # NoEntry THEN dirty[k] ELSE NoEntry

ContentByEntry ==
    /\ Content \in [Keys -> Abs!Held]
    /\ \A k \in Keys :
          /\ EntryOf(k) \in Entries \cup {NoEntry}
          /\ EntryOf(k) = NoEntry => Content[k] = Absent
          /\ \A e \in Entries : EntryOf(k) = e => Content[k] = ValueOf(e)

LEMMA ContentFacts == MapsInv => ContentByEntry
<1> SUFFICES ASSUME MapsInv PROVE ContentByEntry
    OBVIOUS
<1>1. TypeOK /\ (amended => dirty # NoMap) /\ NoEntry \notin Entries
    BY ConstantsAssumption DEF MapsInv, DirtyMap
<1>2. Content \in [Keys -> Abs!Held]
    BY <1>1, ContentType
<1>3. ASSUME NEW k \in Keys
      PROVE  /\ EntryOf(k) \in Entries \cup {NoEntry}
             /\ EntryOf(k) = NoEntry => Content[k] = Absent
             /\ \A e \in Entries : EntryOf(k) = e => Content[k] = ValueOf(e)
  <2>1. /\ read[k] \in Entries \cup {NoEntry}
        /\ amended => dirty[k] \in Entries \cup {NoEntry}
      BY <1>1 DEF TypeOK, MapOfEntries
  <2> QED BY <1>1, <2>1 DEF EntryOf, Content
<1> QED BY <1>2, <1>3 DEF ContentByEntry

\* A key is found where it was, or was expunged and is found no more.
EntryStays(k) ==
    \/ EntryOf(k)' = EntryOf(k)
    \/ /\ EntryOf(k)' = NoEntry
       /\ EntryOf(k) # NoEntry /\ ptr[EntryOf(k)] = Expunged

EntriesStay == \A k \in Keys : EntryStays(k)

LEMMA ContentStaysAt ==
    ASSUME MapsInv, MapsInv', NEW k \in Keys,
           \/ EntryOf(k)' = EntryOf(k)
           \/ /\ EntryOf(k)' = NoEntry
              /\ EntryOf(k) # NoEntry /\ ptr[EntryOf(k)] = Expunged,
           \A e \in Entries :
               EntryOf(k) = e => \/ ptr'[e] = ptr[e]
                                 \/ ptr[e] \notin Values /\ ptr'[e] \notin Values
    PROVE  Content'[k] = Content[k]
<1>1. ContentByEntry /\ ContentByEntry'
  <2>1. MapsInv' => ContentByEntry'
      BY ContentFacts, PTL
  <2> QED BY <2>1, ContentFacts
<1>2. CASE EntryOf(k) = NoEntry
    BY <1>1, <1>2 DEF ContentByEntry
<1>3. CASE EntryOf(k) # NoEntry
  <2>1. PICK e \in Entries : EntryOf(k) = e
      BY <1>1, <1>3 DEF ContentByEntry
  <2>2. Content[k] = ValueOf(e)
      BY <1>1, <2>1 DEF ContentByEntry
  <2>3. CASE EntryOf(k)' = e
    <3>1. Content'[k] = ValueOf(e)'
        BY <1>1, <2>3 DEF ContentByEntry
    <3>2. ValueOf(e)' = ValueOf(e)
        BY <2>1 DEF ValueOf
    <3> QED BY <2>2, <3>1, <3>2
  <2>4. CASE EntryOf(k)' # e
    <3>1. EntryOf(k)' = NoEntry /\ ptr[e] = Expunged
        BY <2>1, <2>4
    <3>2. Content'[k] = Absent
        BY <1>1, <3>1 DEF ContentByEntry
    <3>3. ValueOf(e) = Absent
        BY <3>1, ValueFacts DEF MapsInv
    <3> QED BY <2>2, <3>2, <3>3
  <2> QED BY <2>3, <2>4
<1> QED BY <1>2, <1>3

LEMMA ContentStays ==
    ASSUME MapsInv, MapsInv', EntriesStay,
           \A e \in Entries :
               \/ ptr'[e] = ptr[e]
               \/ ptr[e] \notin Values /\ ptr'[e] \notin Values
               \/ \A k \in Keys : EntryOf(k) # e
    PROVE  Content' = Content
<1>1. Content \in [Keys -> Abs!Held] /\ Content' \in [Keys -> Abs!Held]
  <2>1. MapsInv' => ContentByEntry'
      BY ContentFacts, PTL
  <2> QED BY <2>1, ContentFacts DEF ContentByEntry
<1>2. ASSUME NEW k \in Keys PROVE Content'[k] = Content[k]
  <2>1. \/ EntryOf(k)' = EntryOf(k)
        \/ /\ EntryOf(k)' = NoEntry
           /\ EntryOf(k) # NoEntry /\ ptr[EntryOf(k)] = Expunged
      BY DEF EntriesStay, EntryStays
  <2>2. \A e \in Entries :
           EntryOf(k) = e => \/ ptr'[e] = ptr[e]
                             \/ ptr[e] \notin Values /\ ptr'[e] \notin Values
      OBVIOUS
  <2> QED BY <2>1, <2>2, ContentStaysAt
<1> QED BY <1>1, <1>2

\* One key of the map gets another value.
LEMMA ContentChanges ==
    ASSUME MapsInv, MapsInv', NEW k0 \in Keys, NEW v \in Abs!Held,
           \A k \in Keys : Content'[k] = IF k = k0 THEN v ELSE Content[k]
    PROVE  Content' = [Content EXCEPT ![k0] = v]
<1>1. Content \in [Keys -> Abs!Held] /\ Content' \in [Keys -> Abs!Held]
  <2>1. MapsInv' => ContentByEntry'
      BY ContentFacts, PTL
  <2> QED BY <2>1, ContentFacts DEF ContentByEntry
<1>2. Content' = [k \in Keys |-> IF k = k0 THEN v ELSE Content[k]]
    BY <1>1
<1> QED BY <1>1, <1>2

LEMMA ContentSet ==
    ASSUME MapsInv, MapsInv', EntriesStay, NEW k0 \in Keys, NEW e \in Entries,
           EntryOf(k0) = e, ptr[e] # Expunged,
           NEW v \in Values \cup {Nil}, SetPointer(e, v)
    PROVE  /\ Content[k0] = ValueOf(e)
           /\ Content' = [Content EXCEPT ![k0] = IF v \in Values THEN v ELSE Absent]
<1> DEFINE w == IF v \in Values THEN v ELSE Absent
<1>1. ContentByEntry /\ ContentByEntry'
  <2>1. MapsInv' => ContentByEntry'
      BY ContentFacts, PTL
  <2> QED BY <2>1, ContentFacts
<1>2. \A d \in Entries : ptr'[d] = IF d = e THEN v ELSE ptr[d]
    BY DEF SetPointer, MapsInv, TypeOK
<1>3. Content[k0] = ValueOf(e)
    BY <1>1 DEF ContentByEntry
<1>4. Content'[k0] = w
  <2>1. EntryOf(k0)' = e
      BY DEF EntriesStay, EntryStays
  <2>2. Content'[k0] = ValueOf(e)'
      BY <1>1, <2>1 DEF ContentByEntry
  <2> QED BY <1>2, <2>2 DEF ValueOf
<1>5. ASSUME NEW k \in Keys, k # k0 PROVE Content'[k] = Content[k]
  <2>1. EntryOf(k) # e
    <3>1. OfKey(e, k0)
        BY ConstantsAssumption DEF EntryOf, OfKey, MapsInv, DirtyMap
    <3>2. EntryOf(k) = e => OfKey(e, k)
        BY ConstantsAssumption DEF EntryOf, OfKey, MapsInv, DirtyMap
    <3> QED BY <1>5, <3>1, <3>2 DEF MapsInv, OneKey
  <2> QED BY <1>2, <2>1, ContentStaysAt DEF EntriesStay, EntryStays
<1>6. w \in Abs!Held
    BY DEF Abs!Held
<1> HIDE DEF w
<1>7. Content' = [Content EXCEPT ![k0] = w]
    BY <1>4, <1>5, <1>6, ContentChanges
<1> QED BY <1>3, <1>7 DEF w

\* A promotion of the dirty map changes no key's entry.
LEMMA PromoteStays ==
    ASSUME TypeOK, DirtyMap, MapsAgree, ~Copying, amended, Promote(dirty)
    PROVE  EntriesStay
<1>1. dirty # NoMap /\ expunging = {}
    BY DEF DirtyMap
<1>2. ASSUME NEW k \in Keys PROVE EntryStays(k)
  <2>1. CASE dirty' = dirty /\ UNCHANGED <<read, amended>>
      BY <2>1 DEF EntryOf, EntryStays
  <2>2. CASE read' = dirty /\ amended' = FALSE /\ dirty' = NoMap
    <3>1. EntryOf(k)' = dirty[k]
        BY <2>2 DEF EntryOf
    <3>2. CASE read[k] = NoEntry
        BY <3>1, <3>2 DEF EntryOf, EntryStays
    <3>3. CASE read[k] # NoEntry
      <4>1. dirty[k] = IF ptr[read[k]] = Expunged THEN NoEntry ELSE read[k]
          BY <1>1, <3>3 DEF MapsAgree, DirtyComplete, KeysOf
      <4> QED BY <3>1, <3>3, <4>1 DEF EntryOf, EntryStays
    <3> QED BY <3>2, <3>3
  <2> QED BY <2>1, <2>2 DEF Promote
<1> QED BY <1>2 DEF EntriesStay

\* Where the dirty map alone has a key, the read map and amended stay.
LEMMA ReadStays ==
    ASSUME UNCHANGED <<read, amended>>,
           \A k \in Keys : read[k] = NoEntry /\ amended => dirty'[k] = dirty[k]
    PROVE  EntriesStay
    BY DEF EntriesStay, EntryStays, EntryOf

-----------------------------------------------------------------------------
(* What each action does to what the map holds.                             *)

\* A caller at an entry: Store and LoadOrCreate change it only when the read
\* map has it.
LEMMA AtEntry ==
    ASSUME MapsInv, CallsInv, NEW p \in Procs, At(p, "entry")
    PROVE  /\ ent[p] \in Entries /\ Op(p, KeyOps) /\ Key(p) \in Keys
           /\ Op(p, {"store", "create"}) =>
                 /\ call[p].val \in Values /\ effect[p] = NoEffect
                 /\ ptr[ent[p]] # Expunged => read[Key(p)] = ent[p]
           /\ read[Key(p)] = ent[p] =>
                 EntryOf(Key(p)) = ent[p] /\ effect[p] = NoEffect
           /\ mu # p
<1>1. TypeOK /\ ControlOf(p) /\ Holds(p) /\ pc[p] = "entry" /\ NoEntry \notin Entries
    BY ConstantsAssumption DEF MapsInv, CallsInv, Control, At
<1>2. ent[p] \in Entries /\ Op(p, KeyOps) /\ mu # p
    BY <1>1 DEF ControlOf
<1>3. Key(p) \in Keys /\ (Op(p, {"store", "create"}) => call[p].val \in Values)
    BY <1>1, <1>2, KeyFacts
<1>4. Op(p, {"store", "create"}) => effect[p] = NoEffect
    BY <1>1 DEF ControlOf, Op
<1>5. Op(p, {"store", "create"}) /\ ptr[ent[p]] # Expunged => read[Key(p)] = ent[p]
    BY <1>1 DEF Holds, Left, Op
<1>6. read[Key(p)] = ent[p] => EntryOf(Key(p)) = ent[p]
    BY <1>1, <1>2 DEF EntryOf
<1>7. read[Key(p)] = ent[p] => effect[p] = NoEffect
    BY <1>1, <1>2 DEF Holds, Left, Out
<1> QED BY <1>2, <1>3, <1>4, <1>5, <1>6, <1>7

\* Actions that leave the maps or move keys between them.
LEMMA QuietSteps ==
    ASSUME MapsInv, MapsInv', CallsInv, NEW p \in Procs,
           \/ Begin(p) \/ ReadHit(p) \/ ReadMiss(p) \/ ReadAbsent(p)
           \/ EntryLoad(p) \/ EntryLoaded(p) \/ EntryExpunged(p)
           \/ RangeRead(p) \/ RangeVisit(p) \/ RangeEnds(p) \/ Return(p)
           \/ LockedReadHit(p) \/ LockedReadAbsent(p) \/ LockedLoad(p)
           \/ LockedRange(p) \/ LockedHit(p) \/ LockedInDirty(p)
           \/ LockedNew(p) \/ Expunge(p)
    PROVE  Content' = Content
<1>a. /\ TypeOK /\ DirtyMap /\ MapsAgree /\ (mu = NoProc => ~Copying)
    BY ConstantsAssumption DEF MapsInv, Copying
<1>b. ASSUME UNCHANGED <<maps, ptr>> PROVE Content' = Content
  <2>1. EntriesStay
      BY <1>b, ReadStays DEF maps
  <2> QED BY <1>b, <2>1, ContentStays
<1>1. CASE \/ Begin(p) \/ ReadHit(p) \/ ReadMiss(p) \/ ReadAbsent(p)
           \/ EntryLoad(p) \/ EntryLoaded(p) \/ EntryExpunged(p)
    BY <1>1, <1>b DEF Begin, ReadHit, ReadMiss, ReadAbsent, EntryLoad, EntryLoaded,
                      EntryExpunged
<1>2. CASE \/ RangeRead(p) \/ RangeVisit(p) \/ RangeEnds(p) \/ Return(p)
           \/ LockedReadHit(p) \/ LockedReadAbsent(p) \/ LockedInDirty(p)
    BY <1>2, <1>b DEF RangeRead, RangeVisit, RangeEnds, Return, LockedReadHit,
                      LockedReadAbsent, LockedInDirty
<1>3. CASE LockedLoad(p)
  <2>1. amended /\ mu = NoProc /\ UNCHANGED ptr /\ MissLocked(dirty)
      BY <1>3 DEF LockedLoad, LockAt
  <2>2. EntriesStay
      BY <1>a, <2>1, PromoteStays DEF MissLocked, Promote
  <2> QED BY <2>1, <2>2, ContentStays
<1>4. CASE LockedRange(p)
  <2>1. mu = NoProc /\ UNCHANGED ptr
      BY <1>4 DEF LockedRange, LockAt
  <2>2. CASE amended
    <3>1. EntriesStay
        BY <1>4, <1>a, <2>1, <2>2, PromoteStays DEF LockedRange, Promote
    <3> QED BY <2>1, <3>1, ContentStays
  <2>3. CASE ~amended
      BY <1>4, <1>b, <2>1, <2>3 DEF LockedRange
  <2> QED BY <2>2, <2>3
<1>5. CASE LockedHit(p)
  <2> DEFINE e == read[Key(p)]
  <2>1. Key(p) \in Keys /\ e \in Entries
    <3>1. Op(p, KeyOps) /\ e # NoEntry
        BY <1>5 DEF LockedHit, LockAt, Op, KeyOps
    <3> QED BY <1>a, <3>1, KeyFacts, FoundType
  <2>2. CASE ptr[e] # Expunged
      BY <1>5, <1>b, <2>2 DEF LockedHit, maps
  <2>3. CASE ptr[e] = Expunged
    <3>1. /\ UNCHANGED <<read, amended>> /\ dirty' = [dirty EXCEPT ![Key(p)] = e]
          /\ ptr' = [ptr EXCEPT ![e] = Nil]
        BY <1>5, <2>3 DEF LockedHit, SetPointer
    <3>2. \A k \in Keys : read[k] = NoEntry /\ amended => dirty'[k] = dirty[k]
      <4>1. amended => dirty \in MapOfEntries
          BY <1>a DEF DirtyMap, TypeOK
      <4> QED BY <2>1, <3>1, <4>1, ConstantsAssumption DEF MapOfEntries
    <3>3. EntriesStay
        BY <3>1, <3>2, ReadStays
    <3>4. \A d \in Entries : \/ ptr'[d] = ptr[d]
                             \/ ptr[d] \notin Values /\ ptr'[d] \notin Values
        BY <1>a, <2>1, <2>3, <3>1, ConstantsAssumption DEF TypeOK
    <3> QED BY <3>3, <3>4, ContentStays
  <2> QED BY <2>2, <2>3
<1>6. CASE LockedNew(p)
  <2>1. UNCHANGED <<read, amended, ptr>> /\ (amended => dirty' = dirty)
      BY <1>6 DEF LockedNew
  <2>2. EntriesStay
      BY <2>1, ReadStays
  <2> QED BY <2>1, <2>2, ContentStays
<1>7. CASE Expunge(p)
  <2>1. PICK k0 \in expunging :
          IF ptr[read[k0]] \in Values
          THEN dirty' = [dirty EXCEPT ![k0] = read[k0]] /\ UNCHANGED ptr
          ELSE SetPointer(read[k0], Expunged) /\ UNCHANGED dirty
      BY <1>7 DEF Expunge
  <2>2. /\ k0 \in Keys /\ read[k0] \in Entries /\ dirty \in MapOfEntries
        /\ UNCHANGED <<read, amended>>
      BY <1>7, <1>a DEF DirtyMap, TypeOK, MapOfEntries, Expunge
  <2>3. \A k \in Keys : read[k] = NoEntry => dirty'[k] = dirty[k]
      BY <2>1, <2>2, ConstantsAssumption DEF MapOfEntries
  <2>4. EntriesStay
      BY <2>2, <2>3, ReadStays
  <2>5. \A d \in Entries : \/ ptr'[d] = ptr[d]
                           \/ ptr[d] \notin Values /\ ptr'[d] \notin Values
      BY <1>a, <2>1, <2>2, ConstantsAssumption DEF TypeOK, SetPointer
  <2> QED BY <2>4, <2>5, ContentStays
<1> QED BY <1>1, <1>2, <1>3, <1>4, <1>5, <1>6, <1>7

\* Store, and LoadOrCreate of a key that was deleted.
LEMMA StoreSteps ==
    ASSUME MapsInv, MapsInv', CallsInv, NEW p \in Procs,
           \/ EntryStore(p) \/ EntryCreate(p) \/ LockedStore(p)
           \/ LockedCreate(p) /\ ptr[ent[p]] = Nil
    PROVE  /\ Content[Key(p)] = ValueOf(ent[p])
           /\ Content' = [Content EXCEPT ![Key(p)] = call[p].val]
<1>a. TypeOK /\ Control /\ DirtyMap /\ MapsAgree /\ Holder /\ NoEntry \notin Entries
    BY ConstantsAssumption DEF MapsInv
<1>1. CASE EntryStore(p) \/ EntryCreate(p)
  <2>1. /\ At(p, "entry") /\ Op(p, {"store", "create"}) /\ UNCHANGED maps
        /\ SetPointer(ent[p], call[p].val) /\ ptr[ent[p]] # Expunged
      BY <1>1, ConstantsAssumption DEF EntryStore, EntryCreate, Op
  <2>2. /\ ent[p] \in Entries /\ Key(p) \in Keys /\ call[p].val \in Values
        /\ EntryOf(Key(p)) = ent[p]
      BY <2>1, AtEntry
  <2>3. EntriesStay
      BY <2>1, ReadStays DEF maps
  <2> QED BY <2>1, <2>2, <2>3, ContentSet
<1>2. CASE LockedStore(p) \/ (LockedCreate(p) /\ ptr[ent[p]] = Nil)
  <2>1. At(p, "locked") /\ SetPointer(ent[p], call[p].val)
      BY <1>2 DEF LockedStore, LockedCreate
  <2>2. /\ ent[p] \in Entries /\ Key(p) \in Keys /\ call[p].val \in Values
        /\ ptr[ent[p]] # Expunged /\ ~Copying
        /\ \/ read[Key(p)] = ent[p]
           \/ read[Key(p)] = NoEntry /\ amended /\ dirty[Key(p)] = ent[p]
      BY <1>a, <2>1, LockedFacts
  <2>3. EntryOf(Key(p)) = ent[p]
      BY <1>a, <2>2 DEF EntryOf
  <2>4. CASE UNCHANGED maps
    <3>1. EntriesStay
        BY <2>4, ReadStays DEF maps
    <3> QED BY <2>1, <2>2, <2>3, <3>1, ContentSet
  <2>5. CASE ~UNCHANGED maps
    <3>1. MissLocked(dirty) /\ read[Key(p)] = NoEntry
        BY <1>2, <2>5 DEF LockedStore, LockedCreate
    <3>2. amended
        BY <1>a, <2>2, <3>1
    <3>3. EntriesStay
        BY <1>a, <2>2, <3>1, <3>2, PromoteStays DEF MissLocked, Promote
    <3> QED BY <2>1, <2>2, <2>3, <3>3, ContentSet
  <2> QED BY <2>4, <2>5
<1> QED BY <1>1, <1>2

\* LoadOrCreate that finds a value.
LEMMA LoadedSteps ==
    ASSUME MapsInv, MapsInv', CallsInv, NEW p \in Procs,
           LockedCreate(p), ptr[ent[p]] # Nil
    PROVE  /\ Content' = Content /\ Content[Key(p)] = ValueOf(ent[p])
           /\ ptr[ent[p]] \in Values
<1>a. TypeOK /\ Control /\ DirtyMap /\ MapsAgree /\ Holder /\ NoEntry \notin Entries
    BY ConstantsAssumption DEF MapsInv
<1>1. At(p, "locked") /\ UNCHANGED ptr
    BY DEF LockedCreate
<1>2. /\ ent[p] \in Entries /\ Key(p) \in Keys /\ ptr[ent[p]] # Expunged /\ ~Copying
      /\ \/ read[Key(p)] = ent[p]
         \/ read[Key(p)] = NoEntry /\ amended /\ dirty[Key(p)] = ent[p]
    BY <1>a, <1>1, LockedFacts
<1>3. EntryOf(Key(p)) = ent[p]
    BY <1>a, <1>2 DEF EntryOf
<1>4. Content[Key(p)] = ValueOf(ent[p])
    BY <1>2, <1>3, ContentFacts DEF ContentByEntry
<1>5. ptr[ent[p]] \in Values
    BY <1>a, <1>2 DEF TypeOK, Pointers
<1>6. EntriesStay
  <2>1. CASE UNCHANGED maps
      BY <2>1, ReadStays DEF maps
  <2>2. CASE ~UNCHANGED maps
    <3>1. MissLocked(dirty) /\ amended
        BY <1>a, <1>2, <2>2 DEF LockedCreate
    <3> QED BY <1>a, <1>2, <3>1, PromoteStays DEF MissLocked, Promote
  <2> QED BY <2>1, <2>2
<1> QED BY <1>1, <1>4, <1>5, <1>6, ContentStays

\* Delete of an entry of the read map, and of one that no map has any more.
LEMMA DeleteSteps ==
    ASSUME MapsInv, MapsInv', CallsInv, NEW p \in Procs, EntryDelete(p)
    PROVE  \/ /\ read[Key(p)] = ent[p] /\ effect[p] = NoEffect
              /\ Content[Key(p)] = ValueOf(ent[p])
              /\ Content' = [Content EXCEPT ![Key(p)] = Absent]
           \/ Left(p, ent[p], Key(p)) /\ Content' = Content
<1>1. At(p, "entry") /\ UNCHANGED maps /\ Op(p, {"delete"})
    BY DEF EntryDelete
<1>2. ent[p] \in Entries /\ Key(p) \in Keys /\ NoEntry \notin Entries
    BY <1>1, AtEntry, ConstantsAssumption
<1>3. EntriesStay
    BY <1>1, ReadStays DEF maps
<1>4. TypeOK /\ ContentByEntry
    BY ContentFacts DEF MapsInv
<1>5. CASE read[Key(p)] = ent[p]
  <2>1. EntryOf(Key(p)) = ent[p] /\ effect[p] = NoEffect
      BY <1>1, <1>5, AtEntry
  <2>2. Content[Key(p)] = ValueOf(ent[p])
      BY <1>2, <1>4, <2>1 DEF ContentByEntry
  <2>3. CASE ValueOf(ent[p]) = Absent
    <3>1. Content' = Content
        BY <1>3, <2>3, ContentStays DEF EntryDelete
    <3> QED BY <1>4, <1>5, <2>1, <2>2, <2>3, <3>1 DEF ContentByEntry
  <2>4. CASE ValueOf(ent[p]) # Absent
    <3>1. ptr[ent[p]] # Expunged /\ SetPointer(ent[p], Nil) /\ Nil \notin Values
        BY <1>2, <1>4, <2>4, ValueFacts, ConstantsAssumption DEF EntryDelete
    <3>2. Content' = [Content EXCEPT ![Key(p)] = Absent]
        BY <1>2, <1>3, <2>1, <3>1, ContentSet
    <3> QED BY <1>5, <2>1, <2>2, <3>2
  <2> QED BY <2>3, <2>4
<1>6. CASE read[Key(p)] # ent[p]
  <2>1. Left(p, ent[p], Key(p))
      BY <1>1, <1>6 DEF CallsInv, Holds, At, Op
  <2>2. ASSUME NEW k \in Keys PROVE EntryOf(k) # ent[p]
    <3>1. OfKey(ent[p], Key(p))
        BY DEF OfKey
    <3>2. EntryOf(k) = ent[p] => OfKey(ent[p], k)
        BY <1>2 DEF EntryOf, OfKey, MapsInv, DirtyMap
    <3>3. EntryOf(Key(p)) # ent[p]
        BY <1>2, <2>1 DEF EntryOf, Left, Out, MapsInv, DirtyMap
    <3> QED BY <1>2, <3>1, <3>2, <3>3 DEF MapsInv, OneKey
  <2>3. \A e \in Entries : ptr'[e] = ptr[e] \/ e = ent[p]
      BY <1>4, <1>2 DEF EntryDelete, SetPointer, TypeOK
  <2>4. Content' = Content
      BY <1>3, <2>2, <2>3, ContentStays
  <2> QED BY <2>1, <2>4
<1> QED BY <1>5, <1>6

\* Delete of a key that the read map lacks.
LEMMA LockedDeleteSteps ==
    ASSUME MapsInv, MapsInv', NEW p \in Procs, LockedDelete(p)
    PROVE  /\ Key(p) \in Keys
           /\ Content[Key(p)] = IF InDirty(Key(p)) THEN ValueOf(dirty[Key(p)])
                                                   ELSE Absent
           /\ Content' = [Content EXCEPT ![Key(p)] = Absent]
<1>a. Op(p, KeyOps) /\ TypeOK
    BY DEF LockedDelete, LockAt, Op, KeyOps, MapsInv
<1>b. PICK k0 \in Keys : k0 = Key(p)
    BY <1>a, KeyFacts
<1> DEFINE m == [dirty EXCEPT ![k0] = NoEntry]
<1>1. /\ read[k0] = NoEntry /\ amended /\ UNCHANGED ptr
      /\ MissLocked(m) /\ mu = NoProc
    BY <1>b DEF LockedDelete, LockAt
<1>2. TypeOK /\ DirtyMap /\ MapsAgree /\ ~Copying /\ dirty # NoMap /\ NoEntry \notin Entries
    BY <1>1, ConstantsAssumption DEF MapsInv, Copying, DirtyMap
<1>3. k0 \in Keys /\ dirty \in MapOfEntries /\ expunging = {}
    BY <1>2 DEF TypeOK, DirtyMap
<1>4. ContentByEntry /\ ContentByEntry'
  <2>1. MapsInv' => ContentByEntry'
      BY ContentFacts, PTL
  <2> QED BY <2>1, ContentFacts
<1>5. Content[k0] = IF InDirty(k0) THEN ValueOf(dirty[k0]) ELSE Absent
  <2>1. CASE InDirty(k0)
    <3>1. EntryOf(k0) = dirty[k0] /\ dirty[k0] \in Entries
        BY <1>1, <1>3, <2>1 DEF EntryOf, InDirty, MapOfEntries
    <3> QED BY <1>3, <1>4, <2>1, <3>1 DEF ContentByEntry
  <2>2. CASE ~InDirty(k0)
    <3>1. EntryOf(k0) = NoEntry
        BY <1>1, <1>2, <2>2 DEF EntryOf, InDirty
    <3> QED BY <1>3, <1>4, <2>2, <3>1 DEF ContentByEntry
  <2> QED BY <2>1, <2>2
<1>6. \A k \in Keys : m[k] = IF k = k0 THEN NoEntry ELSE dirty[k]
    BY <1>3 DEF MapOfEntries
<1> HIDE DEF m
<1>7. Promote(m)
    BY <1>1 DEF MissLocked, Promote
<1>8. Content'[k0] = Absent
  <2>1. EntryOf(k0)' = NoEntry
      BY <1>1, <1>3, <1>6, <1>7 DEF Promote, EntryOf
  <2> QED BY <1>3, <1>4, <2>1 DEF ContentByEntry
<1>9. ASSUME NEW k \in Keys, k # k0 PROVE Content'[k] = Content[k]
  <2>1. EntryStays(k)
    <3>1. CASE dirty' = m /\ UNCHANGED <<read, amended>>
        BY <1>6, <1>9, <3>1 DEF EntryOf, EntryStays
    <3>2. CASE read' = m /\ amended' = FALSE /\ dirty' = NoMap
      <4>1. EntryOf(k)' = dirty[k]
          BY <1>6, <1>9, <3>2 DEF EntryOf
      <4>2. CASE read[k] = NoEntry
          BY <1>1, <4>1, <4>2 DEF EntryOf, EntryStays
      <4>3. CASE read[k] # NoEntry
        <5>1. dirty[k] = IF ptr[read[k]] = Expunged THEN NoEntry ELSE read[k]
            BY <1>2, <1>3, <4>3 DEF MapsAgree, DirtyComplete, KeysOf
        <5> QED BY <4>1, <4>3, <5>1 DEF EntryOf, EntryStays
      <4> QED BY <4>2, <4>3
    <3> QED BY <1>7, <3>1, <3>2 DEF Promote
  <2> QED BY <1>1, <2>1, ContentStaysAt DEF EntryStays
<1>10. Content' = [Content EXCEPT ![k0] = Absent]
  <2>1. Absent \in Abs!Held
      BY DEF Abs!Held
  <2> QED BY <1>3, <1>8, <1>9, <2>1, ContentChanges
<1> QED BY <1>b, <1>5, <1>10

\* Store and LoadOrCreate of a key that is new.
LEMMA InsertSteps ==
    ASSUME MapsInv, MapsInv', NEW p \in Procs, Insert(p)
    PROVE  /\ Key(p) \in Keys /\ Content[Key(p)] = Absent
           /\ Content' = [Content EXCEPT ![Key(p)] = call[p].val]
<1>1. Op(p, {"store", "create"}) /\ pc[p] = "expunge" /\ Op(p, KeyOps)
    BY DEF Insert, At, MapsInv, Control, ControlOf, Op, KeyOps
<1>2. TypeOK /\ DirtyMap /\ NoEntry \notin Entries
    BY ConstantsAssumption DEF MapsInv
<1>a. PICK k0 \in Keys : k0 = Key(p)
    BY <1>1, <1>2, KeyFacts
<1>b. PICK e \in Entries : e = Fresh
    BY FreshFacts DEF Insert
<1>3. call[p].val \in Values
    BY <1>1, <1>2, KeyFacts
<1>4. /\ read[k0] = NoEntry /\ dirty # NoMap /\ dirty[k0] = NoEntry
      /\ dirty \in MapOfEntries
    BY <1>1, <1>2, <1>a DEF MapsInv, Holder, TypeOK
<1>5. /\ amended' = TRUE /\ read' = read
      /\ ptr' = [ptr EXCEPT ![e] = call[p].val] /\ dirty' = [dirty EXCEPT ![k0] = e]
    BY <1>a, <1>b DEF Insert, SetPointer
<1>6. \A k \in Keys : Out(e, k)
    BY <1>b, FreshFacts DEF Insert
<1>7. ContentByEntry /\ ContentByEntry'
  <2>1. MapsInv' => ContentByEntry'
      BY ContentFacts, PTL
  <2> QED BY <2>1, ContentFacts
<1>8. /\ \A k \in Keys : dirty'[k] = IF k = k0 THEN e ELSE dirty[k]
      /\ \A d \in Entries : ptr'[d] = IF d = e THEN call[p].val ELSE ptr[d]
    BY <1>2, <1>3, <1>4, <1>5, <1>6 DEF MapOfEntries, TypeOK
<1>9. Content[k0] = Absent
  <2>1. EntryOf(k0) = NoEntry
      BY <1>4 DEF EntryOf
  <2> QED BY <1>3, <1>7, <2>1 DEF ContentByEntry
<1>10. Content'[k0] = call[p].val
  <2>1. EntryOf(k0)' = e
      BY <1>2, <1>3, <1>4, <1>5, <1>6, <1>8 DEF EntryOf
  <2>2. ValueOf(e)' = call[p].val
      BY <1>3, <1>6, <1>8 DEF ValueOf
  <2> QED BY <1>3, <1>6, <1>7, <2>1, <2>2 DEF ContentByEntry
<1>11. ASSUME NEW k \in Keys, k # k0 PROVE Content'[k] = Content[k]
  <2>1. EntryStays(k)
      BY <1>2, <1>4, <1>5, <1>8, <1>11 DEF EntryOf, EntryStays, DirtyMap
  <2>2. EntryOf(k) # e
      BY <1>2, <1>4, <1>6 DEF EntryOf, Out
  <2> QED BY <1>8, <2>1, <2>2, ContentStaysAt DEF EntryStays
<1>12. Content' = [Content EXCEPT ![k0] = call[p].val]
  <2>1. call[p].val \in Abs!Held
      BY <1>3 DEF Abs!Held
  <2> QED BY <1>3, <1>10, <1>11, <2>1, ContentChanges
<1> QED BY <1>a, <1>9, <1>12

-----------------------------------------------------------------------------
(* What becomes of an entry that a caller has at hand.                      *)

\* A key of the read map is still there after a promotion, unless it was
\* expunged; a key of the dirty map alone is there or in the read map.
LEMMA PromoteMoves ==
    ASSUME DirtyMap, MapsAgree, ~Copying, amended,
           NEW m, FromDirty(m), Promote(m), NEW k \in Keys
    PROVE  /\ read[k] # NoEntry =>
                 \/ read'[k] = read[k]
                 \/ /\ ptr[read[k]] = Expunged /\ read'[k] = NoEntry
                    /\ dirty' = NoMap /\ ~amended'
           /\ read[k] = NoEntry /\ m[k] = dirty[k] =>
                 \/ read'[k] = NoEntry /\ amended' /\ dirty'[k] = dirty[k]
                 \/ read'[k] = dirty[k]
<1>1. dirty # NoMap /\ expunging = {}
    BY DEF DirtyMap
<1>2. read[k] # NoEntry =>
        m[k] = IF ptr[read[k]] = Expunged THEN NoEntry ELSE read[k]
    BY <1>1 DEF MapsAgree, DirtyComplete, KeysOf, FromDirty
<1> QED BY <1>1, <1>2 DEF Promote

\* The actions that may promote the dirty map.
LEMMA MissSteps ==
    ASSUME MapsInv, NEW p \in Procs,
           \/ LockedLoad(p) \/ LockedDelete(p)
           \/ LockedRange(p) /\ amended
           \/ LockedCreate(p) /\ read[Key(p)] = NoEntry
    PROVE  /\ ~Copying /\ amended
           /\ \E m : /\ FromDirty(m) /\ Promote(m)
                     /\ \A k \in Keys : ~LockedDelete(p) \/ Key(p) # k => m[k] = dirty[k]
           /\ ~LockedCreate(p) => UNCHANGED ptr
<1>a. /\ TypeOK /\ Control /\ DirtyMap /\ Holder
      /\ mu = NoProc => ~Copying
    BY ConstantsAssumption DEF MapsInv, Copying
<1>1. CASE LockedDelete(p)
  <2> DEFINE m == [dirty EXCEPT ![Key(p)] = NoEntry]
  <2>1. /\ mu = NoProc /\ amended /\ read[Key(p)] = NoEntry /\ MissLocked(m)
        /\ UNCHANGED ptr
      BY <1>1 DEF LockedDelete, LockAt
  <2>2. FromDirty(m) /\ Promote(m)
      BY <1>a, <2>1, Promotes
  <2>3. \A k \in Keys : Key(p) # k => m[k] = dirty[k]
      BY <1>a, <2>1 DEF TypeOK, DirtyMap, MapOfEntries
  <2> HIDE DEF m
  <2> QED BY <1>1, <1>a, <2>1, <2>2, <2>3
<1>2. CASE ~LockedDelete(p)
  <2>1. /\ ~Copying /\ amended
        /\ MissLocked(dirty) \/ Promote(dirty)
        /\ ~LockedCreate(p) => UNCHANGED ptr
    <3>1. CASE LockedCreate(p)
      <4>1. At(p, "locked")
          BY <3>1 DEF LockedCreate
      <4> QED BY <1>a, <1>2, <3>1, <4>1, LockedFacts
              DEF LockedCreate, LockedLoad, LockedRange, LockAt, At
    <3>2. CASE ~LockedCreate(p)
        BY <1>a, <1>2, <3>2 DEF LockedLoad, LockedRange, LockAt, Promote
    <3> QED BY <3>1, <3>2
  <2>2. FromDirty(dirty) /\ Promote(dirty)
      BY <1>a, <2>1, Promotes
  <2> QED BY <1>2, <2>1, <2>2
<1> QED BY <1>1, <1>2

\* The other actions.
LEMMA NoMissSteps ==
    ASSUME MapsInv, NEW p \in Procs, Step(p),
           ~LockedLoad(p), ~LockedDelete(p), ~(LockedRange(p) /\ amended),
           ~(LockedCreate(p) /\ read[Key(p)] = NoEntry)
    PROVE  /\ read' = read /\ (amended => amended')
           /\ \A k \in Keys :
                 read[k] = NoEntry /\ amended /\ dirty[k] # NoEntry =>
                    dirty'[k] = dirty[k]
<1>a. TypeOK /\ DirtyMap /\ Holder /\ (amended => dirty \in MapOfEntries)
    BY DEF MapsInv, DirtyMap, TypeOK
<1>1. CASE UNCHANGED maps
    BY <1>1 DEF maps
<1>2. CASE LockedHit(p)
    BY <1>2, <1>a DEF LockedHit, MapOfEntries
<1>3. CASE LockedNew(p)
    BY <1>3 DEF LockedNew
<1>4. CASE Expunge(p)
  <2>1. PICK l \in expunging : dirty' = [dirty EXCEPT ![l] = read[l]] \/ dirty' = dirty
      BY <1>4 DEF Expunge
  <2>2. read[l] # NoEntry /\ UNCHANGED <<read, amended>>
      BY <1>4, <1>a DEF DirtyMap, Expunge
  <2> QED BY <1>a, <2>1, <2>2 DEF MapOfEntries
<1>5. CASE Insert(p)
  <2>1. dirty[Key(p)] = NoEntry
      BY <1>5, <1>a DEF Insert, At, Holder
  <2> QED BY <1>5, <1>a, <2>1 DEF Insert, MapOfEntries
<1>6. CASE \/ Begin(p) \/ ReadHit(p) \/ ReadMiss(p) \/ ReadAbsent(p)
           \/ EntryLoad(p) \/ EntryStore(p) \/ EntryCreate(p) \/ EntryLoaded(p)
           \/ EntryExpunged(p) \/ EntryDelete(p)
    BY <1>1, <1>6 DEF Begin, ReadHit, ReadMiss, ReadAbsent, EntryLoad, EntryStore,
                      EntryCreate, EntryLoaded, EntryExpunged, EntryDelete
<1>7. CASE \/ RangeRead(p) \/ RangeVisit(p) \/ RangeEnds(p) \/ Return(p)
           \/ LockedReadHit(p) \/ LockedReadAbsent(p) \/ LockedRange(p)
           \/ LockedInDirty(p) \/ LockedStore(p) \/ LockedCreate(p)
    BY <1>1, <1>7 DEF RangeRead, RangeVisit, RangeEnds, Return, LockedReadHit,
                      LockedReadAbsent, LockedRange, LockedInDirty, LockedStore,
                      LockedCreate
<1> QED BY <1>2, <1>3, <1>4, <1>5, <1>6, <1>7 DEF Step

\* An entry of the read map, or of the dirty map alone, after a step.
LEMMA EntryMoves ==
    ASSUME MapsInv, MapsInv', CallsInv, NEW p \in Procs, Step(p),
           NEW e \in Entries, NEW k \in Keys
    PROVE  /\ read[k] = e =>
                 \/ read'[k] = e
                 \/ /\ Out(e, k)' /\ ptr[e] = Expunged /\ ptr'[e] = Expunged
                    /\ Content'[k] = Absent
           /\ read[k] = NoEntry /\ amended /\ dirty[k] = e =>
                 \/ read'[k] = NoEntry /\ amended' /\ dirty'[k] = e
                 \/ read'[k] = e
                 \/ LockedDelete(p) /\ Key(p) = k
<1>a. NoEntry # e /\ DirtyMap /\ MapsAgree
    BY ConstantsAssumption DEF MapsInv
<1>1. CASE \/ LockedLoad(p) \/ LockedDelete(p)
           \/ (LockedRange(p) /\ amended)
           \/ (LockedCreate(p) /\ read[Key(p)] = NoEntry)
  <2>1. PICK m : /\ FromDirty(m) /\ Promote(m) /\ ~Copying /\ amended
                 /\ ~LockedDelete(p) \/ Key(p) # k => m[k] = dirty[k]
                 /\ ~LockedCreate(p) => UNCHANGED ptr
      BY <1>1, MissSteps
  <2>2. /\ read[k] # NoEntry =>
              \/ read'[k] = read[k]
              \/ /\ ptr[read[k]] = Expunged /\ read'[k] = NoEntry
                 /\ dirty' = NoMap /\ ~amended'
        /\ read[k] = NoEntry /\ m[k] = dirty[k] =>
              \/ read'[k] = NoEntry /\ amended' /\ dirty'[k] = dirty[k]
              \/ read'[k] = dirty[k]
      BY <1>a, <2>1, PromoteMoves
  <2>3. ASSUME read[k] = e, read'[k] # e
        PROVE  /\ Out(e, k)' /\ ptr[e] = Expunged /\ ptr'[e] = Expunged
               /\ Content'[k] = Absent
    <3>1. /\ ptr[e] = Expunged /\ read'[k] = NoEntry /\ dirty' = NoMap /\ ~amended'
        BY <1>a, <2>2, <2>3
    <3>2. Out(e, k)'
        BY <1>a, <3>1 DEF Out
    <3>3. Content'[k] = Absent
      <4>1. MapsInv' => ContentByEntry'
          BY ContentFacts, PTL
      <4>2. EntryOf(k)' = NoEntry
          BY <3>1 DEF EntryOf
      <4> QED BY <4>1, <4>2 DEF ContentByEntry
    <3>4. ptr'[e] = ptr[e]
      <4>1. CASE LockedCreate(p)
        <5>1. At(p, "locked") /\ ent[p] # e
            BY <3>1, <4>1, LockedFacts DEF LockedCreate, MapsInv
        <5> QED BY <4>1, <5>1 DEF LockedCreate, SetPointer, MapsInv, TypeOK
      <4>2. CASE ~LockedCreate(p)
          BY <2>1, <4>2
      <4> QED BY <4>1, <4>2
    <3> QED BY <3>1, <3>2, <3>3, <3>4
  <2> QED BY <2>1, <2>2, <2>3
<1>2. CASE ~(\/ LockedLoad(p) \/ LockedDelete(p)
             \/ (LockedRange(p) /\ amended)
             \/ (LockedCreate(p) /\ read[Key(p)] = NoEntry))
    BY <1>2, <1>a, NoMissSteps
<1> QED BY <1>1, <1>2

\* An entry of no map: only Delete changes its pointer.
LEMMA OutMoves ==
    ASSUME MapsInv, MapsInv', CallsInv, NEW p \in Procs, Step(p),
           NEW e \in Entries, NEW k \in Keys, OfKey(e, k), Out(e, k)
    PROVE  /\ Out(e, k)'
           /\ \/ ptr'[e] = ptr[e]
              \/ /\ EntryDelete(p) /\ ent[p] = e
                 /\ ptr[e] \in Values /\ ptr'[e] = Nil
<1>a. TypeOK /\ Control /\ DirtyMap /\ MapsAgree /\ Holder /\ OneKey
    BY DEF MapsInv
<1>b. e \in Used
    BY OfKeyUsed
<1>1. Out(e, k)'
    BY <1>a, <1>b, MapsKeep, FreshFacts DEF Insert
<1>2. ASSUME NEW l \in Keys, ~Out(e, l) PROVE FALSE
    BY <1>a, <1>2 DEF OneKey, OfKey, Out
<1>3. ASSUME NEW x, NEW v, SetPointer(x, v), x # e PROVE ptr'[e] = ptr[e]
    BY <1>3, <1>a DEF SetPointer, TypeOK
<1>4. CASE EntryStore(p) \/ EntryCreate(p)
  <2>1. /\ At(p, "entry") /\ SetPointer(ent[p], call[p].val)
        /\ Op(p, {"store", "create"}) /\ ptr[ent[p]] # Expunged
      BY <1>4, ConstantsAssumption DEF EntryStore, EntryCreate, Op
  <2>2. read[Key(p)] = ent[p] /\ Key(p) \in Keys
      BY <2>1, AtEntry
  <2>3. ent[p] # e
      BY <1>2, <2>2 DEF Out
  <2> QED BY <1>1, <1>3, <2>1, <2>3
<1>5. CASE EntryDelete(p)
  <2>1. CASE ent[p] = e
      BY <1>1, <1>5, <1>a, <2>1, ValueFacts DEF EntryDelete, SetPointer, TypeOK
  <2>2. CASE ent[p] # e
      BY <1>1, <1>3, <1>5, <2>2 DEF EntryDelete
  <2> QED BY <2>1, <2>2
<1>6. CASE LockedHit(p)
  <2>1. Op(p, KeyOps)
      BY <1>6 DEF LockedHit, LockAt, Op, KeyOps
  <2>2. read[Key(p)] # e
      BY <1>2, <1>a, <2>1, KeyFacts DEF Out
  <2> QED BY <1>1, <1>3, <1>6, <2>2 DEF LockedHit
<1>7. CASE LockedStore(p) \/ LockedCreate(p)
  <2>1. At(p, "locked") /\ (SetPointer(ent[p], call[p].val) \/ ptr' = ptr)
      BY <1>7 DEF LockedStore, LockedCreate
  <2>2. /\ Key(p) \in Keys
        /\ \/ read[Key(p)] = ent[p]
           \/ read[Key(p)] = NoEntry /\ amended /\ dirty[Key(p)] = ent[p]
      BY <1>a, <2>1, LockedFacts
  <2>3. ent[p] # e
      BY <1>2, <1>a, <2>2 DEF Out, DirtyMap
  <2> QED BY <1>1, <1>3, <2>1, <2>3
<1>8. CASE Expunge(p)
  <2>1. PICK l \in expunging : SetPointer(read[l], Expunged) \/ ptr' = ptr
      BY <1>8 DEF Expunge
  <2>2. read[l] # e
      BY <1>2, <1>a DEF Out, TypeOK
  <2> QED BY <1>1, <1>3, <2>1, <2>2
<1>9. CASE Insert(p)
    BY <1>1, <1>3, <1>9, <1>b, FreshFacts DEF Insert
<1>10. CASE UNCHANGED ptr
    BY <1>1, <1>10
<1>11. CASE \/ Begin(p) \/ ReadHit(p) \/ ReadMiss(p) \/ ReadAbsent(p)
            \/ EntryLoad(p) \/ EntryLoaded(p) \/ EntryExpunged(p)
            \/ RangeRead(p) \/ RangeVisit(p) \/ RangeEnds(p) \/ Return(p)
    BY <1>10, <1>11 DEF Begin, ReadHit, ReadMiss, ReadAbsent, EntryLoad, EntryLoaded,
                        EntryExpunged, RangeRead, RangeVisit, RangeEnds, Return
<1>12. CASE \/ LockedReadHit(p) \/ LockedReadAbsent(p) \/ LockedLoad(p)
            \/ LockedDelete(p) \/ LockedRange(p) \/ LockedInDirty(p) \/ LockedNew(p)
    BY <1>10, <1>12 DEF LockedReadHit, LockedReadAbsent, LockedLoad, LockedDelete,
                        LockedRange, LockedInDirty, LockedNew
<1> QED BY <1>4, <1>5, <1>6, <1>7, <1>8, <1>9, <1>11, <1>12 DEF Step

-----------------------------------------------------------------------------
(* What the callers have at hand stays good.                                *)

LEMMA Observed ==
    ASSUME MapsInv, MapsInv', Seen, Abs!Observe
    PROVE  /\ seen' \in [Procs -> [Keys -> SUBSET Abs!Held]]
           /\ \A q \in Procs : \A k \in Keys :
                 seen'[q][k] =
                    IF pc'[q] \notin {"idle", "done"} /\ k \in call'[q].keys
                    THEN (IF pc[q] = "idle" THEN {} ELSE seen[q][k])
                         \cup {Content'[k]}
                    ELSE {}
<1>1. Content' \in [Keys -> Abs!Held]
  <2>1. MapsInv' => ContentByEntry'
      BY ContentFacts, PTL
  <2> QED BY <2>1 DEF ContentByEntry
<1> DEFINE open(q) == call'[q] # NoCall /\ (IF pc'[q] = "done" THEN answer'[q]
                                            ELSE NoAnswer) = NoAnswer
<1>2. seen' = [q \in Procs |-> [k \in Keys |->
                  IF open(q)
                  THEN IF k \in call'[q].keys
                       THEN (IF call[q] = NoCall THEN {} ELSE seen[q][k])
                            \cup {Content'[k]}
                       ELSE {}
                  ELSE {}]]
    BY DEF Abs!Observe
<1>3. ASSUME NEW q \in Procs
      PROVE  /\ open(q) <=> pc'[q] \notin {"idle", "done"}
             /\ call[q] = NoCall <=> pc[q] = "idle"
  <2>1. /\ pc'[q] = "idle" <=> call'[q] = NoCall
        /\ pc'[q] = "done" => answer'[q] \in Abs!Answers(call'[q])
        /\ call'[q] \in Abs!Calls \cup {NoCall}
      BY DEF MapsInv, Control, ControlOf, TypeOK
  <2>2. pc'[q] = "done" => answer'[q] # NoAnswer
      BY <2>1, ConstantsAssumption
  <2> QED BY <2>1, <2>2 DEF MapsInv, Control, ControlOf
<1> HIDE DEF open
<1>4. ASSUME NEW q \in Procs, NEW k \in Keys
      PROVE  /\ seen'[q][k] =
                    IF pc'[q] \notin {"idle", "done"} /\ k \in call'[q].keys
                    THEN (IF pc[q] = "idle" THEN {} ELSE seen[q][k])
                         \cup {Content'[k]}
                    ELSE {}
    BY <1>2, <1>3
<1>5. seen' \in [Procs -> [Keys -> SUBSET Abs!Held]]
  <2>1. ASSUME NEW q \in Procs, NEW k \in Keys
        PROVE  (IF open(q)
                THEN IF k \in call'[q].keys
                     THEN (IF call[q] = NoCall THEN {} ELSE seen[q][k])
                          \cup {Content'[k]}
                     ELSE {}
                ELSE {}) \in SUBSET Abs!Held
    <3>1. seen[q][k] \subseteq Abs!Held /\ Content'[k] \in Abs!Held
        BY <1>1 DEF Seen
    <3> QED BY <3>1
  <2> QED BY <1>2, <2>1
<1> QED BY <1>4, <1>5

LEMMA SeenStep ==
    ASSUME MapsInv, MapsInv', Seen, Abs!Observe
    PROVE  Seen'
    BY Observed DEF Seen

\* What a call that goes on has seen.
LEMMA SeenGrows ==
    ASSUME MapsInv, MapsInv', Seen, Abs!Observe, NEW q \in Procs, NEW k \in Keys,
           pc[q] # "idle", pc'[q] \notin {"idle", "done"},
           call'[q] = call[q], k \in call[q].keys
    PROVE  seen'[q][k] = seen[q][k] \cup {Content'[k]}
    BY Observed

LEMMA HoldsOthers ==
    ASSUME MapsInv, MapsInv', CallsInv, NEW p \in Procs, Step(p), Abs!Observe,
           NEW q \in Procs \ {p}
    PROVE  Holds(q)'
<1> SUFFICES ASSUME pc'[q] = "entry" PROVE Holds(q)'
    BY DEF Holds
<1>1. /\ pc'[q] = pc[q] /\ call'[q] = call[q] /\ ent'[q] = ent[q]
      /\ effect'[q] = effect[q]
    BY Others DEF MapsInv
<1>2. /\ At(q, "entry") /\ ent[q] \in Entries /\ Op(q, KeyOps) /\ Key(q) \in Keys
      /\ call[q].keys = {Key(q)} /\ Holds(q) /\ Seen /\ TypeOK
    BY <1>1, AtEntry, KeyFacts DEF At, CallsInv, MapsInv
<1>3. PICK e \in Entries : e = ent[q]
    BY <1>2
<1>4. PICK k \in Keys : k = Key(q)
    BY <1>2
<1>5. ent'[q] = e /\ Key(q)' = k
    BY <1>1, <1>3, <1>4 DEF Key
<1>6. seen'[q][k] = seen[q][k] \cup {Content'[k]} /\ Content[k] \in seen[q][k]
  <2>1. k \in call[q].keys
      BY <1>2, <1>4
  <2> QED BY <1>1, <1>2, <2>1, SeenGrows DEF Seen
<1>7. /\ Op(q, {"load"})' <=> Op(q, {"load"})
      /\ Op(q, {"delete"})' <=> Op(q, {"delete"})
      /\ Op(q, {"store", "create"})' <=> Op(q, {"store", "create"})
    BY <1>1 DEF Op
<1>8. OfKey(e, k) /\ effect'[q] = effect[q]
    BY <1>1, <1>3, <1>4 DEF OfKey
<1>9. /\ ValueOf(e)' = IF ptr'[e] \in Values THEN ptr'[e] ELSE Absent
      /\ Expunged \notin Values /\ Nil \notin Values
    BY ConstantsAssumption DEF ValueOf
<1>10. CASE read[k] = e /\ effect[q] = NoEffect
  <2>1. CASE read'[k] = e
      BY <1>1, <1>5, <1>10, <2>1 DEF Holds
  <2>2. CASE read'[k] # e
    <3>1. /\ Out(e, k)' /\ ptr[e] = Expunged /\ ptr'[e] = Expunged
          /\ Content'[k] = Absent
        BY <1>10, <2>2, EntryMoves
    <3>2. Left(q, e, k)'
        BY <1>6, <1>8, <1>9, <1>10, <3>1 DEF Left
    <3> QED BY <1>5, <3>2 DEF Holds, Left, Out, ValueOf
  <2> QED BY <2>1, <2>2
<1>11. CASE Op(q, {"load"}) /\ read[k] = NoEntry /\ amended /\ dirty[k] = e
  <2>1. CASE read'[k] = NoEntry /\ amended' /\ dirty'[k] = e
      BY <1>5, <1>7, <1>11, <2>1 DEF Holds
  <2>2. CASE read'[k] = e
    <3>1. effect'[q] = NoEffect
        BY <1>1, <1>11, <1>2 DEF MapsInv, Control, ControlOf, Op
    <3> QED BY <1>5, <2>2, <3>1 DEF Holds
  <2>3. CASE LockedDelete(p) /\ Key(p) = k
    <3>1. /\ Content' = [Content EXCEPT ![k] = Absent]
          /\ Content[k] = IF InDirty(k) THEN ValueOf(dirty[k]) ELSE Absent
        BY <2>3, LockedDeleteSteps
    <3>2. Content'[k] = Absent /\ Content[k] = ValueOf(e)
      <4>1. Content \in [Keys -> Abs!Held]
          BY ContentFacts DEF ContentByEntry
      <4>2. InDirty(k)
          BY <1>11, ConstantsAssumption DEF InDirty, MapsInv, DirtyMap
      <4> QED BY <1>11, <3>1, <4>1, <4>2
    <3>3. UNCHANGED ptr
        BY <2>3 DEF LockedDelete
    <3>4. Out(e, k)'
      <4> DEFINE m == [dirty EXCEPT ![Key(p)] = NoEntry]
      <4>1. MissLocked(m) /\ m[k] = NoEntry
          BY <1>11, <2>3 DEF LockedDelete, MapsInv, DirtyMap, TypeOK, MapOfEntries
      <4> HIDE DEF m
      <4> QED BY <1>11, <4>1, ConstantsAssumption DEF MissLocked, Out
    <3>5. ~Op(q, {"delete"}) /\ ~Op(q, {"store", "create"})
        BY <1>11 DEF Op
    <3>6. ValueOf(e)' \in seen'[q][k] /\ Absent \in seen'[q][k]
        BY <1>6, <1>9, <3>2, <3>3 DEF ValueOf
    <3>7. Left(q, e, k)'
        BY <1>7, <3>4, <3>5, <3>6 DEF Left
    <3> QED BY <1>5, <3>7 DEF Holds, Left, Out, ValueOf
  <2> QED BY <1>11, <2>1, <2>2, <2>3, EntryMoves
<1>12. CASE Left(q, e, k)
  <2>1. /\ Out(e, k)'
        /\ \/ ptr'[e] = ptr[e]
           \/ /\ EntryDelete(p) /\ ent[p] = e
              /\ ptr[e] \in Values /\ ptr'[e] = Nil
      BY <1>8, <1>12, OutMoves DEF Left
  <2>2. Absent \in seen'[q][k]
      BY <1>6, <1>12 DEF Left
  <2>3. Op(q, {"load"}) => ValueOf(e)' \in seen'[q][k]
      BY <1>6, <1>9, <1>12, <2>1 DEF Left, ValueOf
  <2>4. Op(q, {"store", "create"}) => ptr'[e] = Expunged
      BY <1>9, <1>12, <2>1 DEF Left
  <2>5. Op(q, {"delete"}) =>
           effect'[q] = IF ptr'[e] \in Values THEN ptr'[e] ELSE NoEffect
    <3>1. CASE ptr'[e] = ptr[e]
        BY <1>8, <1>12, <3>1 DEF Left
    <3>2. CASE EntryDelete(p) /\ ent[p] = e /\ Op(q, {"delete"})
      <4>1. Deletes(p, e) /\ Deletes(q, e) /\ p # q
          BY <1>2, <1>3, <3>2 DEF Deletes, EntryDelete, At
      <4>2. read[k] = e \/ ptr[e] \notin Values
          BY <1>4, <4>1 DEF CallsInv, OneDeletes
      <4>3. ptr[e] \notin Values
          BY <1>12, <4>2 DEF Left, Out
      <4> QED BY <1>8, <1>12, <2>1, <4>3 DEF Left
    <3> QED BY <2>1, <3>1, <3>2
  <2>6. Left(q, e, k)'
      BY <1>7, <2>1, <2>2, <2>3, <2>4, <2>5 DEF Left
  <2> QED BY <1>5, <2>6 DEF Holds, Left, Out, ValueOf
<1> QED BY <1>2, <1>3, <1>4, <1>10, <1>11, <1>12 DEF Holds, At

\* How a caller comes to an entry without the lock.
LEMMA EntersEntry ==
    ASSUME MapsInv, NEW p \in Procs, Step(p), pc'[p] = "entry"
    PROVE  \/ ReadHit(p) \/ LockedReadHit(p)
           \/ LockedLoad(p) /\ InDirty(Key(p))
           \/ LockedDelete(p) /\ InDirty(Key(p))
<1> USE DEF MapsInv, TypeOK, GoTo, Finish, FinishKey
<1>1. ASSUME \/ Begin(p) \/ ReadMiss(p) \/ ReadAbsent(p)
             \/ EntryLoad(p) \/ EntryStore(p) \/ EntryCreate(p) \/ EntryLoaded(p)
             \/ EntryExpunged(p) \/ EntryDelete(p)
      PROVE  FALSE
    BY <1>1 DEF Begin, ReadMiss, ReadAbsent, EntryLoad, EntryStore, EntryCreate,
                EntryLoaded, EntryExpunged, EntryDelete
<1>2. ASSUME \/ RangeRead(p) \/ RangeVisit(p) \/ RangeEnds(p) \/ Return(p)
             \/ LockedReadAbsent(p) \/ LockedRange(p) \/ LockedHit(p)
      PROVE  FALSE
    BY <1>2 DEF RangeRead, RangeVisit, RangeEnds, Return, LockedReadAbsent,
                LockedRange, LockedHit, At
<1>3. ASSUME \/ LockedInDirty(p) \/ LockedStore(p) \/ LockedCreate(p)
             \/ LockedNew(p) \/ Expunge(p) \/ Insert(p)
      PROVE  FALSE
    BY <1>3 DEF LockedInDirty, LockedStore, LockedCreate, LockedNew, Expunge,
                Insert, At
<1>4. ASSUME LockedLoad(p) \/ LockedDelete(p), ~InDirty(Key(p)) PROVE FALSE
    BY <1>4 DEF LockedLoad, LockedDelete
<1> HIDE DEF MapsInv, TypeOK, GoTo, Finish, FinishKey
<1> QED BY <1>1, <1>2, <1>3, <1>4 DEF Step

LEMMA HoldsOwn ==
    ASSUME MapsInv, MapsInv', CallsInv, NEW p \in Procs, Step(p), Abs!Observe
    PROVE  Holds(p)'
<1> SUFFICES ASSUME pc'[p] = "entry" PROVE Holds(p)'
    BY DEF Holds
<1>a. TypeOK /\ Control /\ DirtyMap /\ Seen
    BY DEF MapsInv, CallsInv
<1>1. \/ ReadHit(p) \/ LockedReadHit(p)
      \/ LockedLoad(p) /\ InDirty(Key(p))
      \/ LockedDelete(p) /\ InDirty(Key(p))
    BY EntersEntry
<1>2. Op(p, KeyOps) /\ pc[p] \in {"read", "lock"} /\ call' = call
  <2>1. pc[p] \in {"read", "lock"} /\ call' = call
      BY <1>1 DEF ReadHit, LockedReadHit, LockedLoad, LockedDelete, LockAt, At
  <2>2. Op(p, KeyOps)'
      BY DEF MapsInv, Control, ControlOf
  <2> QED BY <2>1, <2>2 DEF Op
<1>3. PICK k \in Keys : k = Key(p) /\ call[p].keys = {k}
    BY <1>a, <1>2, KeyFacts
<1>4. Key(p)' = k /\ effect[p] = NoEffect
    BY <1>a, <1>2, <1>3 DEF Key, Control, ControlOf
<1>5. CASE ReadHit(p) \/ LockedReadHit(p)
    BY <1>a, <1>3, <1>4, <1>5 DEF ReadHit, LockedReadHit, TakeEntry, TypeOK, maps, Holds
<1>6. CASE (LockedLoad(p) \/ LockedDelete(p)) /\ InDirty(k)
  <2>1. read[k] = NoEntry /\ amended /\ UNCHANGED ptr /\ ent' = [ent EXCEPT ![p] = dirty[k]]
      BY <1>3, <1>6 DEF LockedLoad, LockedDelete, TakeEntry
  <2>2. PICK e \in Entries : e = dirty[k]
      BY <1>6, <1>a, <1>2, <1>3, FoundType
  <2>3. ent'[p] = e /\ NoEntry # e
      BY <1>a, <2>1, <2>2, ConstantsAssumption DEF TypeOK
  <2>4. CASE LockedLoad(p)
    <3>1. MissLocked(dirty) /\ effect' = effect /\ Op(p, {"load"})'
        BY <1>2, <2>4 DEF LockedLoad, LockAt, Op
    <3> QED BY <1>4, <2>1, <2>2, <2>3, <3>1 DEF MissLocked, Holds
  <2>5. CASE LockedDelete(p)
    <3>1. /\ Content' = [Content EXCEPT ![k] = Absent]
          /\ Content[k] = ValueOf(e)
        BY <1>3, <1>6, <2>2, <2>5, LockedDeleteSteps
    <3>2. Content'[k] = Absent
      <4>1. Content \in [Keys -> Abs!Held]
          BY ContentFacts DEF ContentByEntry
      <4> QED BY <3>1, <4>1
    <3>3. Absent \in seen'[p][k]
      <4>1. k \in call[p].keys /\ call'[p] = call[p]
          BY <1>2, <1>3
      <4> QED BY <1>a, <1>2, <3>2, <4>1, SeenGrows
    <3>4. Out(e, k)'
      <4> DEFINE m == [dirty EXCEPT ![k] = NoEntry]
      <4>1. MissLocked(m) /\ m[k] = NoEntry
          BY <1>a, <1>3, <2>5 DEF LockedDelete, DirtyMap, TypeOK, MapOfEntries
      <4> HIDE DEF m
      <4> QED BY <2>1, <2>3, <4>1 DEF MissLocked, Out
    <3>5. effect'[p] = IF ptr'[e] \in Values THEN ptr'[e] ELSE NoEffect
      <4>1. /\ Content[k] # Absent => Effect(p)
            /\ Content[k] = Absent => effect' = effect
          BY <1>3, <1>6, <2>5 DEF LockedDelete
      <4>2. Effect(p) => effect'[p] = Content[k]
          BY <1>a, <1>3, <1>4 DEF Effect, Control
      <4>3. /\ ptr[e] \in Values => Content[k] = ptr[e] /\ Content[k] # Absent
            /\ ptr[e] \notin Values => Content[k] = Absent
          BY <1>a, <3>1, ValueFacts
      <4> QED BY <1>4, <2>1, <4>1, <4>2, <4>3
    <3>6. Op(p, {"delete"})' /\ ~Op(p, {"load"})' /\ ~Op(p, {"store", "create"})'
        BY <1>2, <2>5 DEF LockedDelete, LockAt, Op
    <3>7. Left(p, e, k)'
        BY <3>3, <3>4, <3>5, <3>6 DEF Left
    <3> QED BY <1>4, <2>3, <3>7 DEF Holds, Left, Out, ValueOf
  <2> QED BY <1>6, <2>4, <2>5
<1> QED BY <1>1, <1>3, <1>5, <1>6

LEMMA VisitedOthers ==
    ASSUME MapsInv, MapsInv', CallsInv, NEW p \in Procs, Step(p), Abs!Observe,
           NEW q \in Procs \ {p}
    PROVE  Visited(q)'
<1> SUFFICES ASSUME pc'[q] = "visit", NEW k \in Keys
             PROVE  IF view'[q][k] = NoEntry THEN answer'[q].got[k] \in seen'[q][k]
                    ELSE \/ read'[k] = view'[q][k]
                         \/ /\ Out(view[q][k], k)' /\ ptr'[view'[q][k]] = Expunged
                            /\ Absent \in seen'[q][k]
    BY DEF Visited
<1>1. /\ pc[q] = "visit" /\ call'[q] = call[q] /\ view'[q] = view[q]
      /\ answer'[q] = answer[q]
    BY Others DEF MapsInv
<1>2. Visited(q) /\ Op(q, {"range"}) /\ Seen /\ TypeOK
    BY <1>1 DEF CallsInv, MapsInv, Control, ControlOf
<1>3. k \in call[q].keys
    BY <1>2, CallFacts DEF Op, TypeOK
<1>4. seen'[q][k] = seen[q][k] \cup {Content'[k]}
    BY <1>1, <1>2, <1>3, SeenGrows
<1>5. CASE view[q][k] = NoEntry
    BY <1>1, <1>2, <1>4, <1>5 DEF Visited
<1>6. CASE view[q][k] # NoEntry
  <2>1. PICK e \in Entries : e = view[q][k]
      BY <1>2, <1>6 DEF TypeOK, MapOfEntries
  <2>2. OfKey(e, k) /\ Expunged \notin Values
      BY <2>1, ConstantsAssumption DEF OfKey
  <2>3. CASE read[k] = e
    <3>1. \/ read'[k] = e
          \/ /\ Out(e, k)' /\ ptr'[e] = Expunged /\ Content'[k] = Absent
        BY <2>3, EntryMoves
    <3> QED BY <1>1, <1>4, <1>6, <2>1, <3>1 DEF Out
  <2>4. CASE Out(e, k) /\ ptr[e] = Expunged /\ Absent \in seen[q][k]
    <3>1. Out(e, k)' /\ ptr'[e] = Expunged
        BY <2>2, <2>4, OutMoves
    <3> QED BY <1>1, <1>4, <1>6, <2>1, <2>4, <3>1 DEF Out
  <2> QED BY <1>1, <1>2, <1>6, <2>1, <2>3, <2>4 DEF Visited
<1> QED BY <1>5, <1>6

LEMMA VisitedOwn ==
    ASSUME MapsInv, MapsInv', CallsInv, NEW p \in Procs, Step(p), Abs!Observe
    PROVE  Visited(p)'
<1> SUFFICES ASSUME pc'[p] = "visit" PROVE Visited(p)'
    BY DEF Visited
<1>a. TypeOK /\ Control /\ DirtyMap /\ Seen /\ ContentByEntry
    BY ContentFacts DEF MapsInv, CallsInv
<1>1. (RangeRead(p) /\ ~amended) \/ LockedRange(p) \/ RangeVisit(p)
  <2> USE <1>a DEF TypeOK, GoTo, Finish, FinishKey
  <2>1. ASSUME \/ Begin(p) \/ ReadHit(p) \/ ReadMiss(p) \/ ReadAbsent(p)
               \/ EntryLoad(p) \/ EntryStore(p) \/ EntryCreate(p) \/ EntryLoaded(p)
               \/ EntryExpunged(p) \/ EntryDelete(p)
               \/ RangeRead(p) /\ amended
        PROVE  FALSE
      BY <2>1 DEF Begin, ReadHit, ReadMiss, ReadAbsent, EntryLoad, EntryStore,
                  EntryCreate, EntryLoaded, EntryExpunged, EntryDelete, RangeRead
  <2>2. ASSUME \/ RangeEnds(p) \/ Return(p) \/ LockedReadHit(p)
               \/ LockedReadAbsent(p) \/ LockedLoad(p) \/ LockedDelete(p)
               \/ LockedHit(p)
        PROVE  FALSE
      BY <2>2 DEF RangeEnds, Return, LockedReadHit, LockedReadAbsent, LockedLoad,
                  LockedDelete, LockedHit
  <2>3. ASSUME \/ LockedInDirty(p) \/ LockedStore(p) \/ LockedCreate(p)
               \/ LockedNew(p) \/ Expunge(p) \/ Insert(p)
        PROVE  FALSE
      BY <2>3 DEF LockedInDirty, LockedStore, LockedCreate, LockedNew, Expunge,
                  Insert, At
  <2> HIDE DEF TypeOK, GoTo, Finish, FinishKey
  <2> QED BY <2>1, <2>2, <2>3 DEF Step
<1>2. Op(p, {"range"}) /\ call' = call /\ pc[p] # "idle"
  <2>1. call' = call /\ pc[p] # "idle"
      BY <1>1 DEF RangeRead, LockedRange, RangeVisit, LockAt, At
  <2>2. Op(p, {"range"})'
      BY DEF MapsInv, Control, ControlOf
  <2> QED BY <2>1, <2>2 DEF Op
<1>3. call[p].keys = Keys /\ Content' = Content
  <2>1. call[p].keys = Keys
      BY <1>a, <1>2, CallFacts DEF Op, TypeOK
  <2> QED BY <1>1, <2>1, QuietSteps
<1>4. \A k \in Keys : seen'[p][k] = seen[p][k] \cup {Content[k]}
    BY <1>a, <1>2, <1>3, SeenGrows
<1>5. CASE RangeRead(p) /\ ~amended
  <2>1. /\ view'[p] = read /\ answer'[p] = NothingYet /\ read' = read
      BY <1>5, <1>a DEF RangeRead, TypeOK, maps, Control
  <2>2. ASSUME NEW k \in Keys, read[k] = NoEntry PROVE Content[k] = Absent
    <3>1. EntryOf(k) = NoEntry
        BY <1>5, <2>2 DEF EntryOf
    <3> QED BY <1>a, <3>1 DEF ContentByEntry
  <2>3. \A k \in Keys : NothingYet.got[k] = Absent
      BY DEF NothingYet
  <2> QED BY <1>4, <2>1, <2>2, <2>3 DEF Visited
<1>6. CASE LockedRange(p)
  <2>1. /\ view'[p] = read' /\ answer'[p] = NothingYet /\ ~amended'
      BY <1>6, <1>a DEF LockedRange, TypeOK, maps, Control
  <2>2. ASSUME NEW k \in Keys, read'[k] = NoEntry PROVE Content[k] = Absent
    <3>1. MapsInv' => ContentByEntry'
        BY ContentFacts, PTL
    <3>2. EntryOf(k)' = NoEntry
        BY <2>1, <2>2 DEF EntryOf
    <3>3. Content'[k] = Absent
        BY <3>1, <3>2 DEF ContentByEntry
    <3> QED BY <1>3, <3>3
  <2>3. \A k \in Keys : NothingYet.got[k] = Absent
      BY DEF NothingYet
  <2> QED BY <1>4, <2>1, <2>2, <2>3 DEF Visited
<1>7. CASE RangeVisit(p)
  <2>1. PICK l \in KeysOf(view[p]) :
           /\ answer' = [answer EXCEPT ![p].got[l] = ValueOf(view[p][l])]
           /\ view' = [view EXCEPT ![p][l] = NoEntry]
      BY <1>7 DEF RangeVisit
  <2>2. l \in Keys /\ view[p][l] # NoEntry
      BY DEF KeysOf
  <2>3. PICK e \in Entries : e = view[p][l]
      BY <1>a, <2>2 DEF TypeOK, MapOfEntries
  <2>4. Visited(p) /\ pc[p] = "visit" /\ UNCHANGED <<read, dirty, ptr>>
      BY <1>7 DEF CallsInv, RangeVisit, At, maps
  <2>5. answer[p] \in [got : [Keys -> Abs!Held], loaded : {FALSE}]
      BY <1>a, <2>4 DEF Control, ControlOf
  <2>6. /\ view'[p] = [view[p] EXCEPT ![l] = NoEntry] /\ view[p] \in MapOfEntries
        /\ answer'[p] = [answer[p] EXCEPT !.got[l] = ValueOf(e)]
      BY <1>a, <2>1, <2>3 DEF TypeOK, Control
  <2>7. \A k \in Keys : /\ view'[p][k] = IF k = l THEN NoEntry ELSE view[p][k]
                        /\ answer'[p].got[k] = IF k = l THEN ValueOf(e)
                                                        ELSE answer[p].got[k]
      BY <2>2, <2>5, <2>6 DEF MapOfEntries
  <2>8. ValueOf(e) \in seen'[p][l]
    <3>1. CASE read[l] = e
      <4>1. EntryOf(l) = e
          BY <2>2, <2>3, <3>1 DEF EntryOf
      <4>2. Content[l] = ValueOf(e)
          BY <1>a, <2>2, <4>1 DEF ContentByEntry
      <4> QED BY <1>4, <2>2, <4>2
    <3>2. CASE ptr[e] = Expunged /\ Absent \in seen[p][l]
      <4>1. ValueOf(e) = Absent
          BY <1>a, <3>2, ValueFacts
      <4> QED BY <1>4, <2>2, <3>2, <4>1
    <3> QED BY <2>2, <2>3, <2>4, <3>1, <3>2 DEF Visited
  <2>9. ASSUME NEW k \in Keys
        PROVE  IF view'[p][k] = NoEntry THEN answer'[p].got[k] \in seen'[p][k]
               ELSE \/ read'[k] = view'[p][k]
                    \/ /\ Out(view[p][k], k)' /\ ptr'[view'[p][k]] = Expunged
                       /\ Absent \in seen'[p][k]
    <3>1. CASE k = l
        BY <2>7, <2>8, <3>1
    <3>2. CASE k # l
        BY <1>4, <2>4, <2>7, <3>2 DEF Visited, Out
    <3> QED BY <3>1, <3>2
  <2> QED BY <2>9 DEF Visited
<1> QED BY <1>1, <1>5, <1>6, <1>7

LEMMA OneDeletesStep ==
    ASSUME MapsInv, MapsInv', CallsInv, NEW p \in Procs, Step(p), Abs!Observe
    PROVE  OneDeletes'
<1>a. TypeOK /\ Control /\ OneKey /\ OneDeletes
    BY DEF MapsInv, CallsInv
<1>b. Expunged \notin Values /\ Nil \notin Values
    BY ConstantsAssumption
\* Two calls of Delete that both had the entry.
<1>1. ASSUME NEW a \in Procs \ {p}, NEW b \in Procs \ {p}, NEW e \in Entries,
             Deletes(a, e)', Deletes(b, e)', a # b
      PROVE  read'[Key(a)'] = e \/ ptr'[e] \notin Values
  <2>1. /\ Deletes(a, e) /\ Deletes(b, e) /\ Key(a)' = Key(a)
    <3>1. /\ pc'[a] = pc[a] /\ call'[a] = call[a] /\ ent'[a] = ent[a]
          /\ pc'[b] = pc[b] /\ call'[b] = call[b] /\ ent'[b] = ent[b]
        BY Others, <1>a
    <3> QED BY <1>1, <3>1 DEF Deletes, Op, Key
  <2>2. /\ At(a, "entry") /\ Op(a, {"delete"}) /\ ent[a] = e /\ Holds(a)
      BY <2>1 DEF Deletes, At, CallsInv
  <2>3. PICK k \in Keys : k = Key(a)
      BY <2>2, AtEntry
  <2>4. OfKey(e, k)
      BY <2>2, <2>3 DEF OfKey
  <2>5. CASE read[k] = e
    <3>1. read'[k] = e \/ ptr'[e] = Expunged
        BY <2>5, EntryMoves
    <3> QED BY <1>b, <2>1, <2>3, <3>1
  <2>6. CASE Out(e, k)
    <3>1. ptr[e] \notin Values
        BY <1>1, <1>a, <2>1, <2>3, <2>6 DEF OneDeletes, Out
    <3>2. ptr'[e] = ptr[e] \/ ptr'[e] = Nil
        BY <2>4, <2>6, OutMoves
    <3> QED BY <1>b, <3>1, <3>2
  <2> QED BY <2>2, <2>3, <2>5, <2>6 DEF Holds, At, Left, Op
\* A call of Delete that takes an entry another has.
<1>2. ASSUME NEW c \in Procs \ {p}, NEW e \in Entries,
             Deletes(p, e)', Deletes(c, e)'
      PROVE  /\ read'[Key(p)'] = e /\ read'[Key(c)'] = e
  <2>1. /\ pc'[c] = pc[c] /\ call'[c] = call[c] /\ ent'[c] = ent[c]
      BY Others, <1>a
  <2>2. /\ Deletes(c, e) /\ Key(c)' = Key(c)
      BY <1>2, <2>1 DEF Deletes, Op, Key
  <2>3. /\ At(c, "entry") /\ Op(c, {"delete"}) /\ ent[c] = e /\ Holds(c)
        /\ Key(c) \in Keys
      BY <2>2, AtEntry DEF Deletes, At, CallsInv
  <2>4. /\ Key(p)' \in Keys /\ Key(c)' = Key(p)'
    <3>1. At(p, "entry")' /\ ent'[p] = e /\ Key(c)' \in Keys
        BY <1>2, <2>2, <2>3 DEF Deletes, At
    <3>2. TypeOK' /\ OneKey' /\ Op(p, KeyOps)'
        BY <3>1 DEF MapsInv, Control, ControlOf, At
    <3>3. Key(p)' \in Keys
      <4>1. call'[p] \in Abs!Calls /\ call'[p].op \in KeyOps
          BY <3>2 DEF TypeOK, Op
      <4> QED BY <4>1, CallFacts DEF Key
    <3>4. PICK k \in Keys : k = Key(p)'
        BY <3>3
    <3>5. PICK l \in Keys : l = Key(c)'
        BY <3>1
    <3>6. OfKey(e, k)' /\ OfKey(e, l)'
        BY <1>2, <3>1, <3>4, <3>5 DEF OfKey, Deletes
    <3>7. k = l
        BY <3>2, <3>6 DEF OneKey
    <3> QED BY <3>3, <3>4, <3>5, <3>7
  <2>5. CASE ReadHit(p) \/ LockedReadHit(p)
    <3>1. ent' = [ent EXCEPT ![p] = read[Key(p)]] /\ read' = read /\ call' = call
        BY <2>5 DEF ReadHit, LockedReadHit, TakeEntry, maps
    <3>2. ent'[p] = read'[Key(p)']
        BY <1>a, <3>1 DEF TypeOK, Key
    <3> QED BY <1>2, <2>4, <3>2 DEF Deletes
  <2>6. CASE LockedDelete(p)
    <3>1. /\ read[Key(p)] = NoEntry /\ call' = call
          /\ InDirty(Key(p)) => ent' = [ent EXCEPT ![p] = dirty[Key(p)]]
          /\ ~InDirty(Key(p)) => pc' = [pc EXCEPT ![p] = "done"]
        BY <2>6 DEF LockedDelete, TakeEntry, FinishKey, Finish, GoTo
    <3>2. Key(c) = Key(p) /\ InDirty(Key(p)) /\ dirty[Key(p)] = e
        BY <1>2, <1>a, <2>2, <2>4, <3>1 DEF Key, Deletes, TypeOK
    <3>3. read[Key(c)] # e /\ ~Out(e, Key(c)) /\ ~Op(c, {"load"})
        BY <2>3, <3>1, <3>2, ConstantsAssumption DEF Out, InDirty, Op
    <3> QED BY <2>3, <3>3 DEF Holds, Left, Out, At
  <2>7. ReadHit(p) \/ LockedReadHit(p) \/ LockedLoad(p) \/ LockedDelete(p)
      BY <1>2, EntersEntry DEF Deletes
  <2>8. ~LockedLoad(p)
    <3>1. LockedLoad(p) => Op(p, {"load"})'
        BY DEF LockedLoad, LockAt, Op
    <3> QED BY <1>2, <3>1 DEF Deletes, Op
  <2> QED BY <2>5, <2>6, <2>7, <2>8
<1>3. ASSUME NEW a \in Procs, NEW b \in Procs, NEW e \in Entries,
             Deletes(a, e)', Deletes(b, e)', a # b
      PROVE  read'[Key(a)'] = e \/ ptr'[e] \notin Values
  <2>1. CASE a = p
      BY <1>2, <1>3, <2>1
  <2>2. CASE b = p
      BY <1>2, <1>3, <2>2
  <2>3. CASE a # p /\ b # p
      BY <1>1, <1>3, <2>3
  <2> QED BY <2>1, <2>2, <2>3
<1> QED BY <1>3 DEF OneDeletes

LEMMA CallsInvStep ==
    ASSUME MapsInv, MapsInv', CallsInv, Next
    PROVE  CallsInv'
<1>1. PICK p \in Procs : Step(p)
    BY DEF Next
<1>2. Abs!Observe
    BY DEF Next
<1>3. Seen'
    BY <1>2, SeenStep DEF CallsInv
<1>4. OneDeletes'
    BY <1>1, <1>2, OneDeletesStep
<1>5. ASSUME NEW q \in Procs PROVE Holds(q)' /\ Visited(q)'
  <2>1. CASE q = p
      BY <1>1, <1>2, <2>1, HoldsOwn, VisitedOwn
  <2>2. CASE q # p
      BY <1>1, <1>2, <2>2, HoldsOthers, VisitedOthers
  <2> QED BY <2>1, <2>2
<1> QED BY <1>3, <1>4, <1>5 DEF CallsInv

-----------------------------------------------------------------------------
(* Every step is one of the abstract map, or none.                          *)

AbsAnswer == [p \in Procs |-> IF pc[p] = "done" THEN answer[p] ELSE NoAnswer]

\* Only the acting caller's answer changes.
LEMMA AnswerMoves ==
    ASSUME MapsInv, MapsInv', NEW p \in Procs, Step(p)
    PROVE  /\ AbsAnswer' = [AbsAnswer EXCEPT ![p] =
                               IF pc'[p] = "done" THEN answer'[p] ELSE NoAnswer]
           /\ AbsAnswer[p] = NoAnswer <=> pc[p] # "done"
           /\ call[p] # NoCall <=> pc[p] # "idle"
<1>1. \A q \in Procs \ {p} : pc'[q] = pc[q] /\ answer'[q] = answer[q]
    BY Others DEF MapsInv
<1>2. pc[p] = "done" => answer[p] # NoAnswer
  <2>1. pc[p] = "done" => answer[p] \in Abs!Answers(call[p]) /\ call[p] \in Abs!Calls
      BY DEF MapsInv, Control, ControlOf, TypeOK
  <2> QED BY <2>1, ConstantsAssumption
<1>3. call[p] # NoCall <=> pc[p] # "idle"
    BY DEF MapsInv, Control, ControlOf
<1> QED BY <1>1, <1>2, <1>3 DEF AbsAnswer

\* A call goes on.
LEMMA StutterStep ==
    ASSUME MapsInv, MapsInv', CallsInv, NEW p \in Procs, Step(p), Abs!Observe,
           {pc[p], pc'[p]} \cap {"idle", "done"} = {},
           Content' = Content, UNCHANGED <<call, effect>>
    PROVE  UNCHANGED Abs!mapVars
<1>1. AbsAnswer' = AbsAnswer
    BY AnswerMoves DEF AbsAnswer
<1>2. ASSUME NEW q \in Procs, NEW k \in Keys PROVE seen'[q][k] = seen[q][k]
  <2>1. pc'[q] \in {"idle", "done"} <=> pc[q] \in {"idle", "done"}
      BY Others DEF MapsInv
  <2>2. pc[q] = "idle" => pc'[q] = "idle"
      BY Others DEF MapsInv
  <2>3. seen'[q][k] =
           IF pc'[q] \notin {"idle", "done"} /\ k \in call'[q].keys
           THEN (IF pc[q] = "idle" THEN {} ELSE seen[q][k]) \cup {Content'[k]}
           ELSE {}
      BY Observed DEF CallsInv
  <2>4. IF pc[q] \notin {"idle", "done"} /\ k \in call[q].keys
        THEN Content[k] \in seen[q][k] ELSE seen[q][k] = {}
      BY DEF CallsInv, Seen
  <2> QED BY <2>1, <2>2, <2>3, <2>4
<1>3. seen' = seen
  <2>1. /\ seen \in [Procs -> [Keys -> SUBSET Abs!Held]]
        /\ seen' \in [Procs -> [Keys -> SUBSET Abs!Held]]
      BY Observed DEF CallsInv, Seen
  <2> QED BY <1>2, <2>1
<1> QED BY <1>1, <1>3 DEF Abs!mapVars, AbsAnswer

\* A call gets its answer.
LEMMA AnswerStep ==
    ASSUME MapsInv, MapsInv', NEW p \in Procs, Step(p),
           pc[p] \notin {"idle", "done"}, pc'[p] = "done", call' = call,
           Abs!Allowed(p, answer'[p], effect'[p])
    PROVE  Abs!Answer(p)
<1>1. /\ AbsAnswer' = [AbsAnswer EXCEPT ![p] = answer'[p]]
      /\ AbsAnswer[p] = NoAnswer /\ call[p] # NoCall
    BY AnswerMoves
<1>2. answer'[p] \in Abs!Answers(call[p])
  <2>1. answer'[p] \in Abs!Answers(call'[p])
      BY DEF MapsInv, Control, ControlOf
  <2> QED BY <2>1
<1> QED BY <1>1, <1>2 DEF Abs!Answer, Abs!Pending, AbsAnswer

\* A call changes the map.
LEMMA UpdateStep ==
    ASSUME MapsInv, MapsInv', NEW p \in Procs, Step(p),
           pc[p] \notin {"idle", "done"}, effect[p] = NoEffect, Effect(p),
           call' = call, Content' = [Content EXCEPT ![Key(p)] = call[p].val],
           \/ Op(p, {"store"})
           \/ Op(p, {"create"}) /\ Content[Key(p)] = Absent
           \/ Op(p, {"delete"}) /\ Content[Key(p)] # Absent
    PROVE  Abs!Update(p)
<1>1. AbsAnswer[p] = NoAnswer /\ call[p] # NoCall
    BY AnswerMoves
<1>2. effect' = [effect EXCEPT ![p] = Content[Key(p)]]
    BY DEF Effect, MapsInv, Control
<1> QED BY <1>1, <1>2 DEF Abs!Update, Abs!Pending, AbsAnswer, Key, Op

\* What AnswerStep and UpdateStep need of a call about one key.
LEMMA PendingFacts ==
    ASSUME MapsInv, CallsInv, NEW p \in Procs, pc[p] \notin {"idle", "done"},
           Op(p, KeyOps)
    PROVE  /\ Key(p) \in Keys /\ call[p].keys = {Key(p)}
           /\ Content[Key(p)] \in seen[p][Key(p)] /\ Content[Key(p)] \in Abs!Held
           /\ Op(p, {"delete"}) => call[p].val = Absent
           /\ Op(p, {"store", "create"}) => call[p].val \in Values
<1>1. Key(p) \in Keys /\ call[p].keys = {Key(p)} /\ call[p] \in Abs!Calls
    BY KeyFacts DEF MapsInv
<1>2. Content[Key(p)] \in seen[p][Key(p)]
    BY <1>1 DEF CallsInv, Seen
<1>3. Content[Key(p)] \in Abs!Held
    BY <1>1, ContentFacts DEF ContentByEntry
<1> QED BY <1>1, <1>2, <1>3, CallFacts DEF Op

\* A call that answers with what it found.
LEMMA FoundStep ==
    ASSUME MapsInv, MapsInv', CallsInv, NEW p \in Procs, Step(p),
           pc[p] \notin {"idle", "done"}, Op(p, KeyOps),
           UNCHANGED <<call, effect>>,
           NEW v \in Abs!Held, NEW b \in BOOLEAN, FinishKey(p, v, b),
           mu' # p, v \in seen[p][Key(p)], b <=> v # Absent,
           \/ Op(p, {"load"})
           \/ Op(p, {"create"}) /\ v # Absent /\ effect[p] = NoEffect
           \/ Op(p, {"delete"}) /\ v = Absent /\ effect[p] = NoEffect
    PROVE  Abs!Answer(p)
<1>1. answer'[p].got[Key(p)] = v /\ answer'[p].loaded = b
    BY DoneControl DEF MapsInv
<1>2. pc'[p] = "done"
    BY DEF FinishKey, Finish, GoTo, MapsInv, TypeOK
<1>3. Abs!TheKey(call[p]) = Key(p)
    BY DEF Key
<1>4. Abs!Allowed(p, answer'[p], effect'[p])
  <2>1. CASE Op(p, {"load"})
      BY <1>1, <1>3, <2>1 DEF Abs!Allowed, Op
  <2>2. CASE Op(p, {"create"}) /\ v # Absent /\ effect[p] = NoEffect
      BY <1>1, <1>3, <2>2 DEF Abs!Allowed, Op
  <2>3. CASE Op(p, {"delete"}) /\ v = Absent /\ effect[p] = NoEffect
      BY <1>1, <1>3, <2>3 DEF Abs!Allowed, Op
  <2> QED BY <2>1, <2>2, <2>3
<1> QED BY <1>2, <1>4, AnswerStep

\* A call that answers with what it did.
LEMMA DoneStep ==
    ASSUME MapsInv, MapsInv', CallsInv, NEW p \in Procs, Step(p),
           pc[p] \notin {"idle", "done"}, Op(p, KeyOps), call' = call,
           effect'[p] # NoEffect,
           NEW v \in Abs!Held, NEW b \in BOOLEAN, FinishKey(p, v, b), mu' # p,
           \/ Op(p, {"store"})
           \/ Op(p, {"create"}) /\ v = call[p].val /\ ~b
           \/ Op(p, {"delete"}) /\ v = effect'[p] /\ b
    PROVE  Abs!Answer(p)
<1>1. answer'[p].got[Key(p)] = v /\ answer'[p].loaded = b
    BY DoneControl DEF MapsInv
<1>2. pc'[p] = "done"
    BY DEF FinishKey, Finish, GoTo, MapsInv, TypeOK
<1>3. Abs!TheKey(call[p]) = Key(p)
    BY DEF Key
<1>4. Abs!Allowed(p, answer'[p], effect'[p])
  <2>1. CASE Op(p, {"store"})
      BY <2>1 DEF Abs!Allowed, Op
  <2>2. CASE Op(p, {"create"}) /\ v = call[p].val /\ ~b
      BY <1>1, <1>3, <2>2 DEF Abs!Allowed, Op
  <2>3. CASE Op(p, {"delete"}) /\ v = effect'[p] /\ b
      BY <1>1, <1>3, <2>3 DEF Abs!Allowed, Op
  <2> QED BY <2>1, <2>2, <2>3
<1> QED BY <1>2, <1>4, AnswerStep

\* Calls that go on without changing the map.
LEMMA GoesOn ==
    ASSUME MapsInv, MapsInv', CallsInv, NEW p \in Procs, Step(p), Abs!Observe,
           \/ ReadHit(p) \/ ReadMiss(p) \/ EntryExpunged(p)
           \/ RangeRead(p) \/ RangeVisit(p)
           \/ LockedReadHit(p) \/ LockedRange(p) \/ LockedHit(p)
           \/ LockedInDirty(p) \/ LockedNew(p) \/ Expunge(p)
           \/ LockedLoad(p) /\ InDirty(Key(p))
    PROVE  UNCHANGED Abs!mapVars
<1>1. Content' = Content
    BY QuietSteps
<1>2. UNCHANGED <<call, effect>> /\ pc[p] \notin {"idle", "done"}
  <2>1. CASE \/ ReadHit(p) \/ ReadMiss(p) \/ EntryExpunged(p) \/ RangeRead(p)
             \/ RangeVisit(p) \/ LockedReadHit(p)
      BY <2>1 DEF ReadHit, ReadMiss, EntryExpunged, RangeRead, RangeVisit,
                  LockedReadHit, LockAt, At
  <2>2. CASE \/ LockedRange(p) \/ LockedHit(p) \/ LockedInDirty(p) \/ LockedNew(p)
             \/ Expunge(p)
             \/ (LockedLoad(p) /\ InDirty(Key(p)))
      BY <2>2 DEF LockedRange, LockedHit, LockedInDirty, LockedNew, Expunge,
                  LockedLoad, LockAt, At
  <2> QED BY <2>1, <2>2
<1>3. pc'[p] \notin {"idle", "done"}
  <2> USE DEF GoTo, MapsInv, TypeOK
  <2>1. CASE \/ ReadHit(p) \/ ReadMiss(p) \/ EntryExpunged(p) \/ RangeRead(p)
             \/ RangeVisit(p) \/ LockedReadHit(p)
      BY <2>1 DEF ReadHit, ReadMiss, EntryExpunged, RangeRead, RangeVisit,
                  LockedReadHit, At
  <2>2. CASE \/ LockedRange(p) \/ LockedHit(p) \/ LockedInDirty(p) \/ LockedNew(p)
             \/ Expunge(p)
             \/ (LockedLoad(p) /\ InDirty(Key(p)))
      BY <2>2 DEF LockedRange, LockedHit, LockedInDirty, LockedNew, Expunge,
                  LockedLoad, At
  <2> QED BY <2>1, <2>2
<1>4. {pc[p], pc'[p]} \cap {"idle", "done"} = {}
    BY <1>2, <1>3
<1> QED BY <1>1, <1>2, <1>4, StutterStep

\* Calls that find the key in no map.
LEMMA AbsentStep ==
    ASSUME MapsInv, MapsInv', CallsInv, NEW p \in Procs, Step(p),
           \/ ReadAbsent(p) \/ LockedReadAbsent(p)
           \/ LockedLoad(p) /\ ~InDirty(Key(p))
           \/ LockedDelete(p) /\ ~InDirty(Key(p))
    PROVE  Abs!Answer(p) /\ Content' = Content /\ effect' = effect
<1>1. /\ pc[p] \in {"read", "lock"} /\ UNCHANGED <<call, effect, mu>>
      /\ Op(p, {"load", "delete"}) /\ FinishKey(p, Absent, FALSE)
      /\ read[Key(p)] = NoEntry
      /\ ~amended \/ ~InDirty(Key(p))
    BY DEF ReadAbsent, LockedReadAbsent, LockedLoad, LockedDelete, LockAt, At, Op
<1>2. Op(p, KeyOps) /\ mu' # p /\ effect[p] = NoEffect
    BY <1>1 DEF MapsInv, Control, ControlOf, Op, KeyOps
<1>3. Key(p) \in Keys /\ Content[Key(p)] \in seen[p][Key(p)]
    BY <1>1, <1>2, PendingFacts
<1>4. Content[Key(p)] = Absent
  <2>1. EntryOf(Key(p)) = NoEntry
      BY <1>1 DEF EntryOf, InDirty, MapsInv, DirtyMap
  <2> QED BY <1>3, <2>1, ContentFacts DEF ContentByEntry
<1>5. Content' = Content
  <2>1. CASE LockedDelete(p)
    <3>1. Content' = [Content EXCEPT ![Key(p)] = Absent]
        BY <2>1, LockedDeleteSteps
    <3> QED BY <1>3, <1>4, <3>1, ContentFacts DEF ContentByEntry
  <2>2. CASE ~LockedDelete(p)
      BY <2>2, QuietSteps
  <2> QED BY <2>1, <2>2
<1>6. Op(p, {"load"}) \/ Op(p, {"delete"})
    BY <1>1 DEF Op
<1>7. Absent \in Abs!Held
    BY DEF Abs!Held
<1> QED BY <1>1, <1>2, <1>3, <1>4, <1>5, <1>6, <1>7, FoundStep

\* Calls that find a value, and Load of a deleted entry.
LEMMA LoadStep ==
    ASSUME MapsInv, MapsInv', CallsInv, NEW p \in Procs, Step(p),
           EntryLoad(p) \/ EntryLoaded(p)
    PROVE  Abs!Answer(p) /\ Content' = Content /\ effect' = effect
<1>1. /\ At(p, "entry") /\ UNCHANGED <<call, effect, mu, ptr>>
    BY DEF EntryLoad, EntryLoaded
<1>2. /\ ent[p] \in Entries /\ Op(p, KeyOps) /\ Key(p) \in Keys /\ mu' # p
      /\ Holds(p) /\ pc[p] = "entry"
    BY <1>1, AtEntry DEF CallsInv, At
<1>3. PICK e \in Entries : e = ent[p]
    BY <1>2
<1>4. /\ Content[Key(p)] \in seen[p][Key(p)]
      /\ read[Key(p)] = e => Content[Key(p)] = ValueOf(e)
      /\ read[Key(p)] = NoEntry /\ amended /\ dirty[Key(p)] = e =>
            Content[Key(p)] = ValueOf(e)
  <2>1. Content[Key(p)] \in seen[p][Key(p)]
      BY <1>2, PendingFacts
  <2>2. EntryOf(Key(p)) = e => Content[Key(p)] = ValueOf(e)
      BY <1>2, ContentFacts DEF ContentByEntry
  <2> QED BY <2>1, <2>2, ConstantsAssumption DEF EntryOf
<1>5. ValueOf(e) \in Abs!Held /\ (ptr[e] \in Values => ValueOf(e) = ptr[e])
      /\ (ptr[e] \in Values => ValueOf(e) # Absent) /\ Expunged \notin Values
    BY ValueFacts, ConstantsAssumption DEF MapsInv
<1>6. Content' = Content
    BY QuietSteps
<1>7. CASE EntryLoad(p)
  <2>1. FinishKey(p, ValueOf(e), ValueOf(e) # Absent) /\ Op(p, {"load"})
      BY <1>3, <1>7 DEF EntryLoad
  <2>2. ValueOf(e) \in seen[p][Key(p)]
      BY <1>2, <1>3, <1>4, <2>1 DEF Holds, Left
  <2>3. (ValueOf(e) # Absent) \in BOOLEAN
      OBVIOUS
  <2> QED BY <1>1, <1>2, <1>5, <1>6, <2>1, <2>2, <2>3, FoundStep
<1>8. CASE EntryLoaded(p)
  <2>1. FinishKey(p, ptr[e], TRUE) /\ Op(p, {"create"}) /\ ptr[e] \in Values
      BY <1>3, <1>8 DEF EntryLoaded
  <2>2. read[Key(p)] = e /\ effect[p] = NoEffect
      BY <1>1, <1>3, <1>5, <2>1, AtEntry DEF Op
  <2>3. ptr[e] \in seen[p][Key(p)] /\ ptr[e] # Absent /\ ptr[e] \in Abs!Held
      BY <1>4, <1>5, <2>1, <2>2
  <2> QED BY <1>1, <1>2, <1>6, <2>1, <2>2, <2>3, FoundStep
<1> QED BY <1>7, <1>8

\* Store, and LoadOrCreate that creates.
LEMMA SetStep ==
    ASSUME MapsInv, MapsInv', CallsInv, NEW p \in Procs, Step(p),
           \/ EntryStore(p) \/ EntryCreate(p) \/ LockedStore(p) \/ Insert(p)
           \/ LockedCreate(p) /\ ptr[ent[p]] = Nil
    PROVE  Abs!Update(p) /\ Abs!Answer(p)
<1>1. /\ pc[p] \in {"entry", "locked", "expunge"} /\ call' = call /\ Effect(p)
      /\ (EntryCreate(p) \/ LockedCreate(p)) => ptr[ent[p]] = Nil
  <2>1. CASE EntryStore(p)
      BY <2>1 DEF EntryStore, EntryCreate, LockedCreate, At, Op
  <2>2. CASE EntryCreate(p)
      BY <2>2 DEF EntryCreate, LockedCreate, At
  <2>3. CASE LockedStore(p)
      BY <2>3 DEF LockedStore, EntryCreate, LockedCreate, At, Op
  <2>4. CASE LockedCreate(p) /\ ptr[ent[p]] = Nil
      BY <2>4 DEF EntryCreate, LockedCreate, At
  <2>5. CASE Insert(p)
      BY <2>5 DEF Insert, EntryCreate, LockedCreate, At
  <2> QED BY <2>1, <2>2, <2>3, <2>4, <2>5
<1>2. /\ Op(p, {"store"}) \/ Op(p, {"create"})
      /\ Op(p, {"store", "create"}) /\ Op(p, KeyOps)
      /\ (EntryCreate(p) \/ LockedCreate(p)) => Op(p, {"create"})
      /\ (EntryStore(p) \/ LockedStore(p)) => Op(p, {"store"})
  <2>1. Op(p, {"store"}) \/ Op(p, {"create"})
    <3>1. CASE Insert(p)
        BY <3>1 DEF Insert, At, MapsInv, Control, ControlOf, Op
    <3>2. CASE ~Insert(p)
        BY <3>2 DEF EntryStore, EntryCreate, LockedStore, LockedCreate
    <3> QED BY <3>1, <3>2
  <2>2. Op(p, {"store", "create"}) /\ Op(p, KeyOps)
      BY <2>1 DEF Op, KeyOps
  <2> QED BY <2>1, <2>2 DEF EntryStore, EntryCreate, LockedStore, LockedCreate
<1>3. pc[p] \notin {"idle", "done"} /\ effect[p] = NoEffect
    BY <1>1, <1>2 DEF MapsInv, Control, ControlOf, Op
<1>4. /\ Key(p) \in Keys /\ call[p].val \in Values /\ call[p].val \in Abs!Held
      /\ Absent \in Abs!Held
    BY <1>2, <1>3, PendingFacts DEF Abs!Held
<1>5. /\ Content' = [Content EXCEPT ![Key(p)] = call[p].val]
      /\ Op(p, {"create"}) => Content[Key(p)] = Absent
  <2>1. CASE Insert(p)
      BY <2>1, InsertSteps
  <2>2. CASE ~Insert(p)
    <3>1. /\ Content[Key(p)] = ValueOf(ent[p])
          /\ Content' = [Content EXCEPT ![Key(p)] = call[p].val]
        BY <2>2, StoreSteps
    <3>2. Op(p, {"create"}) => ptr[ent[p]] = Nil
        BY <1>1, <1>2, <2>2 DEF Op
    <3>3. ptr[ent[p]] = Nil => ValueOf(ent[p]) = Absent
        BY ConstantsAssumption DEF ValueOf
    <3> QED BY <3>1, <3>2, <3>3
  <2> QED BY <2>1, <2>2
<1>6. Abs!Update(p)
    BY <1>1, <1>2, <1>3, <1>5, UpdateStep
<1>7. effect'[p] # NoEffect /\ mu' # p
  <2>1. effect'[p] # NoEffect
      BY <1>1, <1>2, EffectType DEF MapsInv, DirtyMap
  <2>2. mu' = NoProc \/ (mu' = mu /\ pc[p] = "entry")
      BY DEF EntryStore, EntryCreate, LockedStore, LockedCreate, Insert, At
  <2> QED BY <2>1, <2>2, ConstantsAssumption DEF MapsInv, Control, ControlOf
<1>8. \/ Op(p, {"store"}) /\ FinishKey(p, Absent, FALSE)
      \/ Op(p, {"create"}) /\ FinishKey(p, call[p].val, FALSE)
    BY <1>1, <1>2 DEF EntryStore, EntryCreate, LockedStore, LockedCreate, Insert
<1>9. Abs!Answer(p)
  <2>1. CASE Op(p, {"store"}) /\ FinishKey(p, Absent, FALSE)
      BY <1>1, <1>2, <1>3, <1>4, <1>7, <2>1, DoneStep
  <2>2. CASE Op(p, {"create"}) /\ FinishKey(p, call[p].val, FALSE)
      BY <1>1, <1>2, <1>3, <1>4, <1>7, <2>2, DoneStep
  <2> QED BY <1>8, <2>1, <2>2
<1> QED BY <1>6, <1>9

\* LoadOrCreate that finds a value behind the lock.
LEMMA LoadedStep ==
    ASSUME MapsInv, MapsInv', CallsInv, NEW p \in Procs, Step(p),
           LockedCreate(p), ptr[ent[p]] # Nil
    PROVE  Abs!Answer(p) /\ Content' = Content /\ effect' = effect
<1>1. /\ pc[p] = "locked" /\ UNCHANGED <<call, effect>> /\ mu' = NoProc
      /\ Op(p, {"create"})
      /\ FinishKey(p, ValueOf(ent[p]), ptr[ent[p]] # Expunged)
    BY DEF LockedCreate, At
<1>2. /\ Content' = Content /\ Content[Key(p)] = ValueOf(ent[p])
      /\ ptr[ent[p]] \in Values
    BY LoadedSteps
<1>3. ValueOf(ent[p]) = ptr[ent[p]] /\ ValueOf(ent[p]) # Absent
      /\ ptr[ent[p]] # Expunged /\ ValueOf(ent[p]) \in Abs!Held
    BY <1>2, ConstantsAssumption DEF ValueOf, Abs!Held
<1>4. Op(p, KeyOps) /\ effect[p] = NoEffect /\ mu' # p
    BY <1>1, ConstantsAssumption DEF MapsInv, Control, ControlOf, Op, KeyOps
<1>5. ValueOf(ent[p]) \in seen[p][Key(p)]
    BY <1>1, <1>2, <1>4, PendingFacts
<1>6. (ptr[ent[p]] # Expunged) \in BOOLEAN
    OBVIOUS
<1>7. ptr[ent[p]] # Expunged <=> ValueOf(ent[p]) # Absent
    BY <1>3
<1>8. pc[p] \notin {"idle", "done"}
    BY <1>1
<1>9. Abs!Answer(p)
    BY <1>1, <1>3, <1>4, <1>5, <1>6, <1>7, <1>8, FoundStep
<1> QED BY <1>1, <1>2, <1>9

\* What Delete may do: the change and the answer, only the answer, or only
\* the change.
DeleteMoves(p) ==
    \/ Abs!Update(p) /\ Abs!Answer(p)
    \/ UNCHANGED <<Content, effect>> /\ Abs!Answer(p)

LEMMA EntryDeleteStep ==
    ASSUME MapsInv, MapsInv', CallsInv, NEW p \in Procs, Step(p),
           EntryDelete(p)
    PROVE  DeleteMoves(p)
<1>1. PICK e \in Entries : e = ent[p]
    BY AtEntry DEF EntryDelete
<1>2. /\ pc[p] = "entry" /\ Op(p, {"delete"}) /\ UNCHANGED <<call, mu>>
      /\ FinishKey(p, ValueOf(e), ValueOf(e) # Absent)
      /\ ValueOf(e) # Absent => Effect(p)
      /\ ValueOf(e) = Absent => UNCHANGED effect
    BY <1>1 DEF EntryDelete, At
<1>3. /\ Op(p, KeyOps) /\ Key(p) \in Keys /\ mu' # p
      /\ pc[p] \notin {"idle", "done"}
    BY <1>2, AtEntry DEF At
<1>4. /\ Content[Key(p)] \in seen[p][Key(p)] /\ call[p].val = Absent
      /\ seen[p] \in [Keys -> SUBSET Abs!Held]
    BY <1>2, <1>3, PendingFacts DEF CallsInv, Seen
<1>5. ValueOf(e) \in Abs!Held /\ (ValueOf(e) # Absent) \in BOOLEAN
    BY <1>1, ValueFacts DEF MapsInv
<1>6. Content \in [Keys -> Abs!Held] /\ NoEffect \notin Abs!Held
      /\ effect \in [Procs -> Abs!Held \cup {NoEffect}]
    BY ContentFacts, ConstantsAssumption
       DEF ContentByEntry, MapsInv, Control, ControlOf
<1>7. CASE /\ read[Key(p)] = ent[p] /\ effect[p] = NoEffect
           /\ Content[Key(p)] = ValueOf(ent[p])
           /\ Content' = [Content EXCEPT ![Key(p)] = Absent]
  <2>1. CASE ValueOf(e) # Absent
    <3>1. Abs!Update(p)
        BY <1>1, <1>2, <1>3, <1>4, <1>7, <2>1, UpdateStep
    <3>2. effect'[p] = ValueOf(e) /\ effect'[p] # NoEffect
        BY <1>1, <1>2, <1>5, <1>6, <1>7, <2>1 DEF Effect
    <3>3. Abs!Answer(p)
        BY <1>2, <1>3, <1>5, <2>1, <3>2, DoneStep
    <3> QED BY <3>1, <3>3 DEF DeleteMoves
  <2>2. CASE ValueOf(e) = Absent
    <3>1. Content' = Content
        BY <1>1, <1>3, <1>6, <1>7, <2>2
    <3>2. Abs!Answer(p)
        BY <1>1, <1>2, <1>3, <1>4, <1>5, <1>7, <2>2, FoundStep
    <3> QED BY <1>2, <2>2, <3>1, <3>2 DEF DeleteMoves
  <2> QED BY <2>1, <2>2
<1>8. CASE Left(p, ent[p], Key(p)) /\ Content' = Content
  <2>1. /\ Absent \in seen[p][Key(p)]
        /\ effect[p] = IF ptr[e] \in Values THEN ptr[e] ELSE NoEffect
      BY <1>1, <1>2, <1>8 DEF Left
  <2>2. CASE ptr[e] \in Values
    <3>1. ValueOf(e) = ptr[e] /\ ValueOf(e) # Absent
        BY <2>2, ConstantsAssumption DEF ValueOf
    <3>2. effect[p] = ValueOf(e) /\ effect[p] # NoEffect
        BY <1>5, <1>6, <2>1, <2>2, <3>1
    <3>3. effect' = effect
        BY <1>2, <1>6, <3>1, <3>2 DEF Effect
    <3>4. Abs!Answer(p)
        BY <1>2, <1>3, <1>5, <3>1, <3>2, <3>3, DoneStep
    <3> QED BY <1>8, <3>3, <3>4 DEF DeleteMoves
  <2>3. CASE ptr[e] \notin Values
    <3>1. ValueOf(e) = Absent /\ effect[p] = NoEffect
        BY <2>1, <2>3 DEF ValueOf
    <3>2. Abs!Answer(p)
        BY <1>2, <1>3, <1>5, <2>1, <3>1, FoundStep
    <3> QED BY <1>2, <1>8, <3>1, <3>2 DEF DeleteMoves
  <2> QED BY <2>2, <2>3
<1> QED BY <1>7, <1>8, DeleteSteps

\* Delete takes the key out of the dirty map before it deletes the entry.
LEMMA LockedDeleteStep ==
    ASSUME MapsInv, MapsInv', CallsInv, NEW p \in Procs, Step(p), Abs!Observe,
           LockedDelete(p), InDirty(Key(p))
    PROVE  \/ Abs!Update(p) /\ AbsAnswer' = AbsAnswer
           \/ UNCHANGED Abs!mapVars
<1>1. /\ pc[p] = "lock" /\ Op(p, {"delete"}) /\ UNCHANGED <<call, mu>>
      /\ pc' = [pc EXCEPT ![p] = "entry"]
      /\ Content[Key(p)] # Absent => Effect(p)
      /\ Content[Key(p)] = Absent => UNCHANGED effect
    BY DEF LockedDelete, LockAt, At, GoTo
<1>2. pc[p] \notin {"idle", "done"} /\ pc'[p] = "entry" /\ Op(p, KeyOps)
      /\ effect[p] = NoEffect
    BY <1>1 DEF MapsInv, TypeOK, Control, ControlOf, Op, KeyOps
<1>3. Key(p) \in Keys /\ call[p].val = Absent
    BY <1>1, <1>2, PendingFacts
<1>4. Content' = [Content EXCEPT ![Key(p)] = Absent]
    BY LockedDeleteSteps
<1>5. Content \in [Keys -> Abs!Held]
    BY ContentFacts DEF ContentByEntry
<1>6. CASE Content[Key(p)] # Absent
  <2>1. Abs!Update(p)
      BY <1>1, <1>2, <1>3, <1>4, <1>6, UpdateStep
  <2>2. AbsAnswer' = AbsAnswer
      BY <1>1, <1>2, AnswerMoves DEF AbsAnswer
  <2> QED BY <2>1, <2>2
<1>7. CASE Content[Key(p)] = Absent
  <2>1. Content' = Content
      BY <1>3, <1>4, <1>5, <1>7
  <2>2. {pc[p], pc'[p]} \cap {"idle", "done"} = {}
      BY <1>1, <1>2
  <2> QED BY <1>1, <1>7, <2>1, <2>2, StutterStep
<1> QED BY <1>6, <1>7

\* Range answers with what it has seen of every key.
LEMMA RangeEndsStep ==
    ASSUME MapsInv, MapsInv', CallsInv, NEW p \in Procs, Step(p),
           RangeEnds(p)
    PROVE  Abs!Answer(p) /\ Content' = Content /\ effect' = effect
<1>1. /\ pc[p] = "visit" /\ KeysOf(view[p]) = {} /\ UNCHANGED <<call, effect>>
      /\ Finish(p, answer[p].got, FALSE)
    BY DEF RangeEnds, At
<1>2. Op(p, {"range"}) /\ pc[p] \notin {"idle", "done"}
    BY <1>1 DEF MapsInv, Control, ControlOf, Op
<1>3. pc'[p] = "done" /\ answer'[p].got = answer[p].got
    BY <1>1 DEF Finish, GoTo, MapsInv, TypeOK, Control, ControlOf
<1>4. \A k \in Keys : answer[p].got[k] \in seen[p][k]
    BY <1>1 DEF CallsInv, Visited, KeysOf
<1>5. Abs!Allowed(p, answer'[p], effect'[p])
    BY <1>2, <1>3, <1>4 DEF Abs!Allowed, Op
<1>6. Content' = Content
    BY QuietSteps
<1> QED BY <1>1, <1>2, <1>3, <1>5, <1>6, AnswerStep

LEMMA BeginStep ==
    ASSUME MapsInv, MapsInv', CallsInv, NEW p \in Procs, Step(p), Begin(p)
    PROVE  Abs!Begin(p)
<1>1. call[p] = NoCall /\ pc'[p] # "done" /\ pc[p] # "done"
    BY AnswerMoves DEF Begin, At, GoTo, MapsInv, TypeOK
<1>2. AbsAnswer' = AbsAnswer
    BY <1>1, AnswerMoves DEF AbsAnswer
<1>3. Content' = Content
    BY QuietSteps
<1> QED BY <1>1, <1>2, <1>3 DEF Abs!Begin, AbsAnswer, Begin

LEMMA ReturnStep ==
    ASSUME MapsInv, MapsInv', CallsInv, NEW p \in Procs, Step(p), Return(p)
    PROVE  Abs!Return(p)
<1>1. pc[p] = "done" /\ pc'[p] # "done" /\ AbsAnswer[p] # NoAnswer
    BY AnswerMoves DEF Return, At, GoTo, MapsInv, TypeOK
<1>2. AbsAnswer' = [AbsAnswer EXCEPT ![p] = NoAnswer]
    BY <1>1, AnswerMoves
<1>3. Content' = Content
    BY QuietSteps
<1> QED BY <1>1, <1>2, <1>3 DEF Abs!Return, AbsAnswer, Return

\* Every step of a caller is a step of AbstractMap, or none.
LEMMA StepRefines ==
    ASSUME MapsInv, MapsInv', CallsInv, Next
    PROVE  Abs!MapNext \/ UNCHANGED Abs!mapVars
<1>1. PICK p \in Procs : Step(p)
    BY DEF Next
<1>2. Abs!Observe
    BY DEF Next
<1>3. SUFFICES \/ Abs!Begin(p) \/ Abs!Return(p)
               \/ Abs!Update(p) /\ AbsAnswer' = AbsAnswer
               \/ Abs!Update(p) /\ Abs!Answer(p)
               \/ UNCHANGED <<Content, effect>> /\ Abs!Answer(p)
               \/ UNCHANGED Abs!mapVars
    BY <1>2 DEF Abs!MapNext, AbsAnswer
<1>4. CASE Begin(p)
    BY <1>1, <1>4, BeginStep
<1>5. CASE Return(p)
    BY <1>1, <1>5, ReturnStep
<1>6. CASE \/ ReadHit(p) \/ ReadMiss(p) \/ EntryExpunged(p)
           \/ RangeRead(p) \/ RangeVisit(p)
           \/ LockedReadHit(p) \/ LockedRange(p) \/ LockedHit(p)
           \/ LockedInDirty(p) \/ LockedNew(p) \/ Expunge(p)
           \/ (LockedLoad(p) /\ InDirty(Key(p)))
    BY <1>1, <1>2, <1>6, GoesOn
<1>7. CASE \/ ReadAbsent(p) \/ LockedReadAbsent(p)
           \/ (LockedLoad(p) /\ ~InDirty(Key(p)))
           \/ (LockedDelete(p) /\ ~InDirty(Key(p)))
    BY <1>1, <1>7, AbsentStep
<1>8. CASE EntryLoad(p) \/ EntryLoaded(p)
    BY <1>1, <1>8, LoadStep
<1>9. CASE \/ EntryStore(p) \/ EntryCreate(p) \/ LockedStore(p) \/ Insert(p)
           \/ (LockedCreate(p) /\ ptr[ent[p]] = Nil)
    BY <1>1, <1>9, SetStep
<1>10. CASE LockedCreate(p) /\ ptr[ent[p]] # Nil
    BY <1>1, <1>10, LoadedStep
<1>11. CASE EntryDelete(p)
    BY <1>1, <1>11, EntryDeleteStep DEF DeleteMoves
<1>12. CASE LockedDelete(p) /\ InDirty(Key(p))
    BY <1>1, <1>2, <1>12, LockedDeleteStep
<1>13. CASE RangeEnds(p)
    BY <1>1, <1>13, RangeEndsStep
<1> QED BY <1>1, <1>4, <1>5, <1>6, <1>7, <1>8, <1>9, <1>10, <1>11, <1>12, <1>13
        DEF Step

LEMMA CallsInvInit == Init => CallsInv
<1> SUFFICES ASSUME Init PROVE CallsInv
    OBVIOUS
<1>1. Seen
    BY DEF Init, Seen
<1>2. OneDeletes
    BY DEF Init, OneDeletes, Deletes
<1>3. \A p \in Procs : Holds(p) /\ Visited(p)
    BY DEF Init, Holds, Visited
<1> QED BY <1>1, <1>2, <1>3 DEF CallsInv

LEMMA MapInitRefines == Init => Abs!MapInit
<1> SUFFICES ASSUME Init PROVE Abs!MapInit
    OBVIOUS
<1>1. Content = [k \in Keys |-> Absent]
    BY DEF Init, Content, NoEntries
<1>2. AbsAnswer = [p \in Procs |-> NoAnswer]
    BY DEF Init, AbsAnswer
<1> QED BY <1>1, <1>2 DEF Init, Abs!MapInit, AbsAnswer

LEMMA StutterKeeps ==
    ASSUME UNCHANGED vars
    PROVE  (CallsInv => CallsInv') /\ UNCHANGED Abs!mapVars
<1> USE DEF vars, maps
<1>1. Content' = Content /\ AbsAnswer' = AbsAnswer
    BY DEF Content, ValueOf, AbsAnswer
<1>2. UNCHANGED Abs!mapVars
    BY <1>1 DEF Abs!mapVars, AbsAnswer
<1>3. ASSUME CallsInv PROVE CallsInv'
  <2>1. Seen'
    <3>1. seen' \in [Procs -> [Keys -> SUBSET Abs!Held]]
        BY <1>3 DEF CallsInv, Seen, Abs!Held
    <3>2. \A p \in Procs : \A k \in Keys :
             IF pc[p] \notin {"idle", "done"} /\ k \in call[p].keys
             THEN Content[k] \in seen[p][k] ELSE seen[p][k] = {}
        BY <1>3 DEF CallsInv, Seen
    <3>3. UNCHANGED <<pc, call, seen>>
        OBVIOUS
    <3> HIDE DEF vars, maps
    <3> QED BY <1>1, <3>1, <3>2, <3>3 DEF Seen, Abs!Held
  <2>2. OneDeletes'
    <3>1. SUFFICES ASSUME NEW p \in Procs, NEW q \in Procs, NEW e \in Entries,
                          Deletes(p, e)', Deletes(q, e)', p # q
                   PROVE  read'[Key(p)'] = e \/ ptr'[e] \notin Values
        BY DEF OneDeletes
    <3>2. Deletes(p, e) /\ Deletes(q, e)
        BY <3>1 DEF Deletes, Op
    <3>3. read[Key(p)] = e \/ ptr[e] \notin Values
        BY <1>3, <3>1, <3>2 DEF CallsInv, OneDeletes
    <3> QED BY <3>3 DEF Key
  <2>3. ASSUME NEW p \in Procs PROVE Holds(p)' /\ Visited(p)'
    <3>1. Holds(p) /\ Visited(p)
        BY <1>3 DEF CallsInv
    <3>2. Holds(p)'
        BY <3>1 DEF Holds, Left, Out, Op, Key, ValueOf
    <3>3. Visited(p)'
        BY <3>1 DEF Visited, Out
    <3> QED BY <3>2, <3>3
  <2> QED BY <2>1, <2>2, <2>3 DEF CallsInv
<1> QED BY <1>2, <1>3

LEMMA CallsInvHolds == Spec => []CallsInv
<1>1. MapsInv /\ MapsInv' /\ CallsInv /\ [Next]_vars => CallsInv'
    BY CallsInvStep, StutterKeeps
<1> QED BY <1>1, CallsInvInit, MapsInvHolds, PTL DEF Spec

\* Every call of Load, Store, LoadOrCreate, Delete and Range takes effect at
\* one instant while it runs: the map of server/sync/map.go is linearizable
\* for any numbers of callers, keys and values.
THEOREM MapLinearizable == Spec => Linearizable
<1>1. MapsInv /\ MapsInv' /\ CallsInv /\ [Next]_vars
         => [Abs!MapNext]_(Abs!mapVars)
    BY StepRefines, StutterKeeps
<1> QED BY <1>1, MapInitRefines, MapsInvHolds, CallsInvHolds, PTL
        DEF Spec, Linearizable, Abs!MapSpec

=============================================================================
