------------------------------- MODULE TaskIds -------------------------------
(***************************************************************************)
(* The ids under which the server's public connections share the tunnels   *)
(* of an agent: client.process with addTask and removeTask                 *)
(* (src/server/client.go 33-44, 85-102). Ids are counted up by an atomic   *)
(* add; the handler that gets to the reserved ones sets the count back by  *)
(* a store of its own, between which and its add others may add, and set   *)
(* it back, too.                                                           *)
(***************************************************************************)
EXTENDS Naturals

CONSTANTS
    PublicConns,      \* public connections that may be there at once
    NoTask,
    PreservedSignal,  \* the first reserved id (2^32 - 3001 in the code)
    Word              \* 2^32 in the code

ASSUME IdAssumption ==
    /\ PreservedSignal \in Nat /\ Word \in Nat
    /\ 1 < PreservedSignal /\ PreservedSignal < Word
    /\ NoTask \notin PublicConns

VARIABLES
    seed,     \* client.taskIDSeed
    step,     \* per task: where process is
    taskId,   \* per task: its id
    entries,  \* client.tasks
    crossed   \* history: tasks during which the seed was set back by another

idVars == <<seed, step, taskId, entries, crossed>>

\* A client that has served any number of tasks before.
IdsFresh ==
    /\ seed \in 0 .. PreservedSignal - 1
    /\ step = [t \in PublicConns |-> "new"]
    /\ taskId = [t \in PublicConns |-> 0]
    /\ entries = [i \in 0 .. PreservedSignal - 1 |-> NoTask]
    /\ crossed = {}

HasId(t) == step[t] \in {"add", "live"}

\* atomic.AddUint32
AddSeed(t) ==
    LET i == (seed + 1) % Word IN
    /\ step[t] = "new"
    /\ seed' = i
    /\ IF i >= PreservedSignal
       THEN step' = [step EXCEPT ![t] = "reset"] /\ UNCHANGED taskId
       ELSE /\ step' = [step EXCEPT ![t] = "add"]
            /\ taskId' = [taskId EXCEPT ![t] = i]
    /\ UNCHANGED <<entries, crossed>>

\* Mutation: the seed is set back to nothing.
ResetSeedZero(t) ==
    /\ step[t] = "reset"
    /\ seed' = 0
    /\ step' = [step EXCEPT ![t] = "add"]
    /\ taskId' = [taskId EXCEPT ![t] = 1]
    /\ crossed' = crossed \union {u \in PublicConns \ {t} : step[u] # "new"}
    /\ UNCHANGED entries

\* atomic.StoreUint32
ResetSeed(t) ==
    /\ step[t] = "reset"
    /\ seed' = 1
    /\ step' = [step EXCEPT ![t] = "add"]
    /\ taskId' = [taskId EXCEPT ![t] = 1]
    /\ crossed' = crossed \union {u \in PublicConns \ {t} : step[u] # "new"}
    /\ UNCHANGED entries

AddTask(t) ==
    /\ step[t] = "add"
    /\ entries' = [entries EXCEPT ![taskId[t]] = t]
    /\ step' = [step EXCEPT ![t] = "live"]
    /\ UNCHANGED <<seed, taskId, crossed>>

\* The deferred removeTask; then the task is gone, and another may come.
RemoveTask(t) ==
    /\ step[t] = "live"
    /\ entries' = [entries EXCEPT ![taskId[t]] = NoTask]
    /\ step' = [step EXCEPT ![t] = "new"]
    /\ taskId' = [taskId EXCEPT ![t] = 0]
    /\ crossed' = crossed \ {t}
    /\ UNCHANGED seed

IdNext ==
    \E t \in PublicConns : AddSeed(t) \/ ResetSeed(t) \/ AddTask(t) \/ RemoveTask(t)

-----------------------------------------------------------------------------
IdTypeOK ==
    /\ seed \in 0 .. Word - 1
    /\ step \in [PublicConns -> {"new", "reset", "add", "live"}]
    /\ taskId \in [PublicConns -> 0 .. PreservedSignal - 1]
    /\ entries \in [0 .. PreservedSignal - 1 -> PublicConns \cup {NoTask}]
    /\ crossed \subseteq PublicConns

\* Two tasks have the same id, so that one takes the other's entry and the
\* answers meant for it (server/client.go 33-44), only if the seed was set
\* back while one of them was there: never by the adds alone, in any order
\* with the stores, and not between two that both came after the last one.
IdsApart ==
    \A t, u \in PublicConns :
        t # u /\ HasId(t) /\ HasId(u) /\ taskId[t] = taskId[u]
        => t \in crossed \/ u \in crossed
=============================================================================
