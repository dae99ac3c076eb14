---------------------------- MODULE AbstractMap ----------------------------
(***************************************************************************)
(* What sync.Map promises its callers: every call takes effect at one      *)
(* instant between its begin and its return.  A call that changes the map  *)
(* does so in Update; a call that only reads must answer with what some    *)
(* instant of the call held.  Range is a read of every key at an instant   *)
(* of its own per key, as its comment says.                                *)
(***************************************************************************)
EXTENDS Naturals

CONSTANTS Procs, Keys, Values,
          Absent,                        \* the key is not in the map
          NoCall, NoAnswer, NoEffect

VARIABLES content,   \* the map
          call,      \* per caller: the call it makes
          seen,      \* per caller, key: what the map held since the call began
          effect,    \* per caller: what its Update replaced
          answer     \* per caller: what the call returned

mapVars == <<content, call, seen, effect, answer>>

Held == Values \cup {Absent}

\* A call names the keys it is about; Range is about all of them.
Calls ==
    [op : {"load", "delete"}, keys : {{k} : k \in Keys}, val : {Absent}]
    \cup [op : {"store", "create"}, keys : {{k} : k \in Keys}, val : Values]
    \cup [op : {"range"}, keys : {Keys}, val : {Absent}]

TheKey(c) == CHOOSE k \in c.keys : TRUE

Answers(c) == [got : [c.keys -> Held], loaded : BOOLEAN]

Pending(p) == call[p] # NoCall /\ answer[p] = NoAnswer

MapInit ==
    /\ content = [k \in Keys |-> Absent]
    /\ call = [p \in Procs |-> NoCall]
    /\ seen = [p \in Procs |-> [k \in Keys |-> {}]]
    /\ effect = [p \in Procs |-> NoEffect]
    /\ answer = [p \in Procs |-> NoAnswer]

\* What every pending call has seen after a step.
Observe ==
    seen' = [p \in Procs |-> [k \in Keys |->
                IF call'[p] # NoCall /\ answer'[p] = NoAnswer
                THEN IF k \in call'[p].keys
                     THEN (IF call[p] = NoCall THEN {} ELSE seen[p][k])
                          \cup {content'[k]}
                     ELSE {}
                ELSE {}]]

Begin(p) ==
    /\ call[p] = NoCall
    /\ \E c \in Calls : call' = [call EXCEPT ![p] = c]
    /\ UNCHANGED <<content, effect, answer>>

Update(p) ==
    /\ Pending(p) /\ effect[p] = NoEffect
    /\ LET c == call[p]  k == TheKey(c)
       IN  /\ \/ c.op = "store"
              \/ c.op = "create" /\ content[k] = Absent
              \/ c.op = "delete" /\ content[k] # Absent
           /\ content' = [content EXCEPT ![k] = c.val]
           /\ effect' = [effect EXCEPT ![p] = content[k]]
    /\ UNCHANGED call

\* The answers a call may give, "done" being what its Update replaced.
Allowed(p, a, done) ==
    LET c == call[p]  k == TheKey(c)
    IN  \/ /\ c.op = "range"
           /\ \A i \in Keys : a.got[i] \in seen[p][i]
        \/ /\ c.op = "load"
           /\ a.got[k] \in seen[p][k]
           /\ a.loaded = (a.got[k] # Absent)
        \/ /\ c.op = "store" /\ done # NoEffect
        \/ /\ c.op = "create" /\ done # NoEffect
           /\ a.got[k] = c.val /\ ~a.loaded
        \/ /\ c.op = "create" /\ done = NoEffect
           /\ a.got[k] \in seen[p][k] \ {Absent} /\ a.loaded
        \/ /\ c.op = "delete" /\ done # NoEffect
           /\ a.got[k] = done /\ a.loaded
        \/ /\ c.op = "delete" /\ done = NoEffect
           /\ a.got[k] = Absent /\ Absent \in seen[p][k] /\ ~a.loaded

Answer(p) ==
    /\ Pending(p)
    /\ \E a \in Answers(call[p]) :
          /\ Allowed(p, a, effect'[p])
          /\ answer' = [answer EXCEPT ![p] = a]
    /\ UNCHANGED call

Return(p) ==
    /\ answer[p] # NoAnswer
    /\ call' = [call EXCEPT ![p] = NoCall]
    /\ effect' = [effect EXCEPT ![p] = NoEffect]
    /\ answer' = [answer EXCEPT ![p] = NoAnswer]
    /\ UNCHANGED content

MapNext ==
    /\ \E p \in Procs :
          \/ Begin(p) \/ Return(p)
          \/ Update(p) /\ UNCHANGED answer
          \/ Update(p) /\ Answer(p)
          \/ UNCHANGED <<content, effect>> /\ Answer(p)
    /\ Observe

MapSpec == MapInit /\ [][MapNext]_mapVars
=============================================================================
