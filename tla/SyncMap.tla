------------------------------ MODULE SyncMap ------------------------------
(***************************************************************************)
(* The server's concurrent map: server/sync/map.go with LoadOrCreate of    *)
(* server/sync/create.go.  Keys are looked up in the read map without a    *)
(* lock; the dirty map, behind the lock, has the keys the read map lacks   *)
(* and becomes the read map after enough misses.  An entry's pointer is    *)
(* changed by compare-and-swap, with or without the lock.                  *)
(*                                                                         *)
(* One step is one access to shared memory that another goroutine can      *)
(* race with.  A compare-and-swap loop is one step: the swap that succeeds *)
(* or the load that ends it.  What a holder of the lock does to memory     *)
(* only holders of the lock touch is part of its neighbouring step.        *)
(***************************************************************************)
EXTENDS Naturals, FiniteSets

CONSTANTS Procs, Keys, Values, Absent, NoCall, NoAnswer, NoEffect,
          Nil, Expunged,    \* an entry's pointer: deleted, and not in dirty
          NoEntry, NoMap, NoProc,
          Entries           \* bound: entries that exist at the same time

VARIABLES
    read,      \* per key: its entry in the read map
    amended,   \* the dirty map has keys the read map lacks
    dirty,     \* NoMap, or per key: its entry in the dirty map
    misses,
    ptr,       \* per entry: its pointer
    mu,        \* who holds the lock
    expunging, \* the keys dirtyLocked still has to copy
    pc, call, answer,   \* per caller
    ent,       \* per caller: the entry it works on
    view,      \* per caller: what Range still has to visit
    seen, effect        \* history variables, for AbstractMap

maps == <<read, amended, dirty, misses>>
vars == <<maps, ptr, mu, expunging, pc, call, answer, ent, view, seen, effect>>

Pointers == Values \cup {Nil, Expunged}
MapOfEntries == [Keys -> Entries \cup {NoEntry}]
NoEntries == [k \in Keys |-> NoEntry]
KeysOf(m) == {k \in Keys : m[k] # NoEntry}

ValueOf(e) == IF ptr[e] \in Values THEN ptr[e] ELSE Absent

\* What the map holds: the read map first, then the dirty map.
Content ==
    [k \in Keys |->
        IF read[k] # NoEntry THEN ValueOf(read[k])
        ELSE IF amended /\ dirty[k] # NoEntry THEN ValueOf(dirty[k])
        ELSE Absent]

Abs == INSTANCE AbstractMap
           WITH content <- Content,
                answer <- [p \in Procs |->
                              IF pc[p] = "done" THEN answer[p] ELSE NoAnswer]

\* What stands for nothing is nothing else.
ASSUME ConstantsAssumption ==
    /\ IsFiniteSet(Keys)
    /\ Nil # Expunged /\ {Nil, Expunged, Absent} \cap Values = {}
    /\ NoEntry \notin Entries /\ NoMap \notin MapOfEntries
    /\ NoProc \notin Procs
    /\ NoCall \notin Abs!Calls /\ NoEffect \notin Abs!Held
    /\ \A c \in Abs!Calls : NoAnswer \notin Abs!Answers(c)

TypeOK ==
    /\ read \in MapOfEntries
    /\ amended \in BOOLEAN
    /\ dirty \in MapOfEntries \cup {NoMap}
    /\ misses \in 0 .. Cardinality(Keys)
    /\ ptr \in [Entries -> Pointers]
    /\ mu \in Procs \cup {NoProc}
    /\ expunging \subseteq Keys
    /\ pc \in [Procs -> {"idle", "read", "entry", "lock", "locked", "expunge",
                         "visit", "done"}]
    /\ call \in [Procs -> Abs!Calls \cup {NoCall}]
    /\ ent \in [Procs -> Entries \cup {NoEntry}]
    /\ view \in [Procs -> MapOfEntries]

Init ==
    /\ read = NoEntries /\ amended = FALSE /\ dirty = NoMap /\ misses = 0
    /\ ptr = [e \in Entries |-> Nil]
    /\ mu = NoProc /\ expunging = {}
    /\ pc = [p \in Procs |-> "idle"]
    /\ call = [p \in Procs |-> NoCall]
    /\ answer = [p \in Procs |-> NoAnswer]
    /\ ent = [p \in Procs |-> NoEntry]
    /\ view = [p \in Procs |-> NoEntries]
    /\ seen = [p \in Procs |-> [k \in Keys |-> {}]]
    /\ effect = [p \in Procs |-> NoEffect]

Key(p) == Abs!TheKey(call[p])
Op(p, ops) == call[p] # NoCall /\ call[p].op \in ops
At(p, where) == pc[p] = where

GoTo(p, where) == pc' = [pc EXCEPT ![p] = where]
TakeEntry(p, e) == ent' = [ent EXCEPT ![p] = e]
SetPointer(e, v) == ptr' = [ptr EXCEPT ![e] = v]

\* The call gets its answer.
Finish(p, got, loaded) ==
    /\ GoTo(p, "done")
    /\ answer' = [answer EXCEPT ![p] = [got |-> got, loaded |-> loaded]]
    /\ ent' = [ent EXCEPT ![p] = NoEntry]
    /\ view' = [view EXCEPT ![p] = NoEntries]
FinishKey(p, v, loaded) == Finish(p, [k \in {Key(p)} |-> v], loaded)

\* Range has visited no key.
NothingYet == [got |-> [k \in Keys |-> Absent], loaded |-> FALSE]

\* The call's own change of the map.
Effect(p) == effect' = [effect EXCEPT ![p] =
                            IF @ = NoEffect THEN Content[Key(p)] ELSE @]

\* Mutation: the misses are not counted anew after a promotion.
MissLockedKeepsCount(m) ==
    /\ misses' = misses + 1
    /\ IF misses + 1 < Cardinality(KeysOf(m))
       THEN dirty' = m /\ UNCHANGED <<read, amended>>
       ELSE read' = m /\ amended' = FALSE /\ dirty' = NoMap

\* missLocked, with m the dirty map.
MissLocked(m) ==
    IF misses + 1 < Cardinality(KeysOf(m))
    THEN /\ misses' = misses + 1 /\ dirty' = m
         /\ UNCHANGED <<read, amended>>
    ELSE /\ read' = m /\ amended' = FALSE
         /\ dirty' = NoMap /\ misses' = 0

-----------------------------------------------------------------------------
(* Without the lock *)

Begin(p) ==
    /\ At(p, "idle")
    /\ \E c \in Abs!Calls : call' = [call EXCEPT ![p] = c]
    /\ GoTo(p, "read")
    /\ UNCHANGED <<maps, ptr, mu, expunging, answer, ent, view, effect>>

ReadHit(p) ==
    /\ At(p, "read") /\ ~Op(p, {"range"})
    /\ read[Key(p)] # NoEntry
    /\ TakeEntry(p, read[Key(p)])
    /\ GoTo(p, "entry")
    /\ UNCHANGED <<maps, ptr, mu, expunging, call, answer, view, effect>>

ReadMiss(p) ==
    /\ At(p, "read") /\ ~Op(p, {"range"})
    /\ read[Key(p)] = NoEntry
    /\ amended \/ Op(p, {"store", "create"})
    /\ GoTo(p, "lock")
    /\ UNCHANGED <<maps, ptr, mu, expunging, call, answer, ent, view, effect>>

ReadAbsent(p) ==
    /\ At(p, "read") /\ Op(p, {"load", "delete"})
    /\ read[Key(p)] = NoEntry /\ ~amended
    /\ FinishKey(p, Absent, FALSE)
    /\ UNCHANGED <<maps, ptr, mu, expunging, call, effect>>

EntryLoad(p) ==
    /\ At(p, "entry") /\ Op(p, {"load"})
    /\ LET v == ValueOf(ent[p]) IN FinishKey(p, v, v # Absent)
    /\ UNCHANGED <<maps, ptr, mu, expunging, call, effect>>

\* tryStore
EntryStore(p) ==
    /\ At(p, "entry") /\ Op(p, {"store"})
    /\ ptr[ent[p]] # Expunged
    /\ SetPointer(ent[p], call[p].val)
    /\ Effect(p)
    /\ FinishKey(p, Absent, FALSE)
    /\ UNCHANGED <<maps, mu, expunging, call>>

\* tryLoadOrCreate, tryLoadOrStore
EntryCreate(p) ==
    /\ At(p, "entry") /\ Op(p, {"create"})
    /\ ptr[ent[p]] = Nil
    /\ SetPointer(ent[p], call[p].val)
    /\ Effect(p)
    /\ FinishKey(p, call[p].val, FALSE)
    /\ UNCHANGED <<maps, mu, expunging, call>>

EntryLoaded(p) ==
    /\ At(p, "entry") /\ Op(p, {"create"})
    /\ ptr[ent[p]] \in Values
    /\ FinishKey(p, ptr[ent[p]], TRUE)
    /\ UNCHANGED <<maps, ptr, mu, expunging, call, effect>>

EntryExpunged(p) ==
    /\ At(p, "entry") /\ Op(p, {"store", "create"})
    /\ ptr[ent[p]] = Expunged
    /\ TakeEntry(p, NoEntry)
    /\ GoTo(p, "lock")
    /\ UNCHANGED <<maps, ptr, mu, expunging, call, answer, view, effect>>

\* entry.delete
EntryDelete(p) ==
    /\ At(p, "entry") /\ Op(p, {"delete"})
    /\ LET v == ValueOf(ent[p])
       IN  /\ FinishKey(p, v, v # Absent)
           /\ IF v # Absent THEN SetPointer(ent[p], Nil) /\ Effect(p)
                            ELSE UNCHANGED <<ptr, effect>>
    /\ UNCHANGED <<maps, mu, expunging, call>>

RangeRead(p) ==
    /\ At(p, "read") /\ Op(p, {"range"})
    /\ IF amended
       THEN GoTo(p, "lock") /\ UNCHANGED <<view, answer>>
       ELSE /\ GoTo(p, "visit")
            /\ view' = [view EXCEPT ![p] = read]
            /\ answer' = [answer EXCEPT ![p] = NothingYet]
    /\ UNCHANGED <<maps, ptr, mu, expunging, call, ent, effect>>

RangeVisit(p) ==
    /\ At(p, "visit")
    /\ \E k \in KeysOf(view[p]) :
          /\ answer' = [answer EXCEPT ![p].got[k] = ValueOf(view[p][k])]
          /\ view' = [view EXCEPT ![p][k] = NoEntry]
    /\ UNCHANGED <<maps, ptr, mu, expunging, pc, call, ent, effect>>

RangeEnds(p) ==
    /\ At(p, "visit") /\ KeysOf(view[p]) = {}
    /\ Finish(p, answer[p].got, FALSE)
    /\ UNCHANGED <<maps, ptr, mu, expunging, call, effect>>

Return(p) ==
    /\ At(p, "done")
    /\ GoTo(p, "idle")
    /\ call' = [call EXCEPT ![p] = NoCall]
    /\ answer' = [answer EXCEPT ![p] = NoAnswer]
    /\ effect' = [effect EXCEPT ![p] = NoEffect]
    /\ UNCHANGED <<maps, ptr, mu, expunging, ent, view>>

-----------------------------------------------------------------------------
(* With the lock.  Sections that touch an entry or the read map only once   *)
(* are one step; those of Store and LoadOrCreate hold mu.                   *)

InDirty(k) == dirty # NoMap /\ dirty[k] # NoEntry

LockAt(p, ops) == At(p, "lock") /\ Op(p, ops) /\ mu = NoProc

\* The read map has the key by now, or the dirty map was promoted.
LockedReadHit(p) ==
    /\ LockAt(p, {"load", "delete"})
    /\ read[Key(p)] # NoEntry
    /\ TakeEntry(p, read[Key(p)])
    /\ GoTo(p, "entry")
    /\ UNCHANGED <<maps, ptr, mu, expunging, call, answer, view, effect>>

LockedReadAbsent(p) ==
    /\ LockAt(p, {"load", "delete"})
    /\ read[Key(p)] = NoEntry /\ ~amended
    /\ FinishKey(p, Absent, FALSE)
    /\ UNCHANGED <<maps, ptr, mu, expunging, call, effect>>

LockedLoad(p) ==
    /\ LockAt(p, {"load"})
    /\ read[Key(p)] = NoEntry /\ amended
    /\ MissLocked(dirty)
    /\ IF InDirty(Key(p))
       THEN /\ TakeEntry(p, dirty[Key(p)]) /\ GoTo(p, "entry")
            /\ UNCHANGED <<answer, view>>
       ELSE FinishKey(p, Absent, FALSE)
    /\ UNCHANGED <<ptr, mu, expunging, call, effect>>

LockedDelete(p) ==
    /\ LockAt(p, {"delete"})
    /\ read[Key(p)] = NoEntry /\ amended
    /\ MissLocked([dirty EXCEPT ![Key(p)] = NoEntry])
    /\ IF InDirty(Key(p))
       THEN /\ TakeEntry(p, dirty[Key(p)]) /\ GoTo(p, "entry")
            /\ IF Content[Key(p)] # Absent THEN Effect(p)
                                           ELSE UNCHANGED effect
            /\ UNCHANGED <<answer, view>>
       ELSE FinishKey(p, Absent, FALSE) /\ UNCHANGED effect
    /\ UNCHANGED <<ptr, mu, expunging, call>>

\* Range promotes the dirty map at once.
LockedRange(p) ==
    /\ LockAt(p, {"range"})
    /\ GoTo(p, "visit")
    /\ answer' = [answer EXCEPT ![p] = NothingYet]
    /\ view' = [view EXCEPT ![p] = IF amended THEN dirty ELSE read]
    /\ IF amended
       THEN read' = dirty /\ amended' = FALSE /\ dirty' = NoMap /\ misses' = 0
       ELSE UNCHANGED maps
    /\ UNCHANGED <<ptr, mu, expunging, call, ent, effect>>

\* Mutation: the unexpunged entry is not put back into dirty.
LockedHitForgetsDirty(p) ==
    /\ LockAt(p, {"store", "create"})
    /\ read[Key(p)] # NoEntry
    /\ LET e == read[Key(p)]
       IN  /\ TakeEntry(p, e)
           /\ ptr' = [ptr EXCEPT ![e] = IF @ = Expunged THEN Nil ELSE @]
    /\ mu' = p /\ GoTo(p, "locked")
    /\ UNCHANGED <<maps, expunging, call, answer, view, effect>>

\* Store and LoadOrCreate: unexpungeLocked, and the entry is in dirty again.
LockedHit(p) ==
    /\ LockAt(p, {"store", "create"})
    /\ read[Key(p)] # NoEntry
    /\ LET e == read[Key(p)]
       IN  /\ TakeEntry(p, e)
           /\ IF ptr[e] = Expunged
              THEN /\ SetPointer(e, Nil)
                   /\ dirty' = [dirty EXCEPT ![Key(p)] = e]
              ELSE UNCHANGED <<ptr, dirty>>
    /\ mu' = p /\ GoTo(p, "locked")
    /\ UNCHANGED <<read, amended, misses, expunging, call, answer, view, effect>>

LockedInDirty(p) ==
    /\ LockAt(p, {"store", "create"})
    /\ read[Key(p)] = NoEntry /\ InDirty(Key(p))
    /\ TakeEntry(p, dirty[Key(p)])
    /\ mu' = p /\ GoTo(p, "locked")
    /\ UNCHANGED <<maps, ptr, expunging, call, answer, view, effect>>

\* storeLocked
LockedStore(p) ==
    /\ At(p, "locked") /\ Op(p, {"store"})
    /\ SetPointer(ent[p], call[p].val)
    /\ Effect(p)
    /\ FinishKey(p, Absent, FALSE)
    /\ mu' = NoProc
    /\ UNCHANGED <<maps, expunging, call>>

\* tryLoadOrCreate; the key was missed if the read map lacks it.
LockedCreate(p) ==
    /\ At(p, "locked") /\ Op(p, {"create"})
    /\ IF ptr[ent[p]] = Nil
       THEN /\ SetPointer(ent[p], call[p].val) /\ Effect(p)
            /\ FinishKey(p, call[p].val, FALSE)
       ELSE /\ FinishKey(p, ValueOf(ent[p]), ptr[ent[p]] # Expunged)
            /\ UNCHANGED <<ptr, effect>>
    /\ IF read[Key(p)] = NoEntry THEN MissLocked(dirty) ELSE UNCHANGED maps
    /\ mu' = NoProc
    /\ UNCHANGED <<expunging, call>>

\* The key is new: dirtyLocked starts if the dirty map has to be made.
LockedNew(p) ==
    /\ LockAt(p, {"store", "create"})
    /\ read[Key(p)] = NoEntry /\ ~InDirty(Key(p))
    /\ IF ~amended /\ dirty = NoMap
       THEN dirty' = NoEntries /\ expunging' = KeysOf(read)
       ELSE UNCHANGED <<dirty, expunging>>
    /\ mu' = p /\ GoTo(p, "expunge")
    /\ UNCHANGED <<read, amended, misses, ptr, call, answer, ent, view, effect>>

\* Mutation: a deleted entry is left out of dirty without being expunged.
ExpungeNothing(p) ==
    /\ At(p, "expunge")
    /\ \E k \in expunging :
          /\ expunging' = expunging \ {k}
          /\ dirty' = IF ptr[read[k]] \in Values
                      THEN [dirty EXCEPT ![k] = read[k]] ELSE dirty
    /\ UNCHANGED <<read, amended, misses, ptr, mu, pc, call, answer, ent, view,
                   effect>>

\* dirtyLocked copies an entry, or tryExpungeLocked expunges it.
Expunge(p) ==
    /\ At(p, "expunge")
    /\ \E k \in expunging :
          /\ expunging' = expunging \ {k}
          /\ IF ptr[read[k]] \in Values
             THEN dirty' = [dirty EXCEPT ![k] = read[k]] /\ UNCHANGED ptr
             ELSE SetPointer(read[k], Expunged) /\ UNCHANGED dirty
    /\ UNCHANGED <<read, amended, misses, mu, pc, call, answer, ent, view, effect>>

InMaps ==
    {read[k] : k \in Keys}
    \cup (IF dirty = NoMap THEN {} ELSE {dirty[k] : k \in Keys})

Used ==
    InMaps \cup {ent[p] : p \in Procs}
    \cup UNION {{view[p][k] : k \in Keys} : p \in Procs}

\* newEntry: which of the free entries it is makes no difference.
Fresh == CHOOSE e \in Entries \ Used : TRUE

\* The read map is marked as amended and the new entry put into dirty.
Insert(p) ==
    /\ At(p, "expunge") /\ expunging = {}
    /\ Entries \ Used # {}
    /\ amended' = TRUE
    /\ dirty' = [dirty EXCEPT ![Key(p)] = Fresh]
    /\ SetPointer(Fresh, call[p].val)
    /\ Effect(p)
    /\ IF Op(p, {"create"}) THEN FinishKey(p, call[p].val, FALSE)
                            ELSE FinishKey(p, Absent, FALSE)
    /\ mu' = NoProc
    /\ UNCHANGED <<read, misses, expunging, call>>

-----------------------------------------------------------------------------
Step(p) ==
    \/ Begin(p) \/ ReadHit(p) \/ ReadMiss(p) \/ ReadAbsent(p)
    \/ EntryLoad(p) \/ EntryStore(p) \/ EntryCreate(p) \/ EntryLoaded(p)
    \/ EntryExpunged(p) \/ EntryDelete(p)
    \/ RangeRead(p) \/ RangeVisit(p) \/ RangeEnds(p) \/ Return(p)
    \/ LockedReadHit(p) \/ LockedReadAbsent(p) \/ LockedLoad(p)
    \/ LockedDelete(p) \/ LockedRange(p)
    \/ LockedHit(p) \/ LockedInDirty(p) \/ LockedStore(p) \/ LockedCreate(p)
    \/ LockedNew(p) \/ Expunge(p) \/ Insert(p)

Next == (\E p \in Procs : Step(p)) /\ Abs!Observe

Spec == Init /\ [][Next]_vars

-----------------------------------------------------------------------------
(* Properties *)

\* Every call takes effect at one instant while it runs: the map is
\* linearizable, with Range as a read per key (map.go:103-350,
\* create.go:11-66).
Linearizable == Abs!MapSpec

\* The dirty map lacks no key: with nobody in dirtyLocked it has every entry
\* of the read map that is not expunged, so promoting it loses none
\* (map.go:42-50).
DirtyComplete ==
    dirty # NoMap =>
        \A k \in KeysOf(read) \ expunging :
            dirty[k] = IF ptr[read[k]] = Expunged THEN NoEntry ELSE read[k]

\* An expunged entry is one of the read map that a dirty map lacks, or one
\* that no map has any more (map.go:46-48, 79-80).
ExpungedHasDirty ==
    \A k \in KeysOf(read) :
        ptr[read[k]] = Expunged => dirty # NoMap /\ dirty[k] = NoEntry

\* What the read map has, the dirty map has or lacks on purpose: the two
\* together, between any two atomic accesses of the callers (map.go:30-80).
MapsAgree == DirtyComplete /\ ExpungedHasDirty
=============================================================================
