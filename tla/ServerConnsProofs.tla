------------------------- MODULE ServerConnsProofs -------------------------
(* That the whole server runs the registry of AgentRegistry, that its state  *)
(* stays well typed, that its counters balance and what the comparison of    *)
(* Shutdown then shows, and that TasksCount counts the requests of a tunnel, *)
(* for any finite numbers of connections and any ids and client objects.     *)
EXTENDS ServerConns, AgentRegistryProofs, FiniteSetTheorems

\* The handler of a tunnel is before its registration.
Handshake == {"auth", "option", "lookup", "init", "initTasks", "add"}

\* A request that knows the client object it was routed to.
Routed == {"found", "getTunnel", "count", "copy", "removeTask", "unwind"}

SettledTunnels == {c \in counted \cap Conns : pc[c] \notin Handshake}
IdleTunnels    == {c \in counted \cap Conns : pc[c] = "idle"}
DoneRequests   == {r \in Requests : rpc[r] = "done"}
Copying(c)     == {r \in Requests : rpc[r] = "copy" /\ rtun[r] = c}
Begun          == {r \in Requests : rpc[r] \in {"copy", "removeTask", "done"}}

\* The state without the counters.
PlainTypes ==
    /\ taken \in SUBSET (Conns \cup Requests)
    /\ counted \in SUBSET (Conns \cup Requests)
    /\ rpc \in [Requests -> RequestSteps]
    /\ rcli \in [Requests -> Clients \cup {NoClient}]
    /\ rtun \in [Requests -> Conns \cup {NoTunnel}]
    /\ tasks \in [Clients -> SUBSET Requests]
    /\ tasksLocked \in [Clients -> BOOLEAN]
    /\ closing \in SUBSET Conns
    /\ closed \in SUBSET Conns
    /\ told \in SUBSET Conns
    /\ spc \in StopSteps
    /\ todo \in SUBSET Ids
    /\ visit \in Clients \cup {NoClient}
    /\ late \in SUBSET (Conns \cup Requests)

\* A connection is counted once, before its handler starts.
CountedOnce ==
    /\ taken \cap counted = {}
    /\ \A c \in Conns : pc[c] # "idle" => c \in counted
    /\ \A r \in Requests : rpc[r] = "none" <=> r \notin counted

\* What the handler of a public connection and Shutdown know by where they
\* are.
RequestKnows ==
    /\ \A r \in Requests : rpc[r] \in Routed => rcli[r] \in Clients
    /\ \A r \in Requests : rpc[r] \in {"count", "copy"} => rtun[r] \in Conns
    /\ spc \in {"rangeTunnels", "closeTunnels"} => visit \in Clients

PlainInv == PlainTypes /\ CountedOnce /\ RequestKnows

\* The counters against the connections they count.
Accounts ==
    /\ {served, failed, tunneling, panics} \subseteq Nat
    /\ served = Cardinality(DoneRequests)
    /\ failed + tunneling = Cardinality(SettledTunnels) + panics
    /\ panics <= Cardinality(DoneRequests) + Cardinality(IdleTunnels)

\* The counts of a tunnel's tasks.
TaskCounts ==
    /\ tasksCount \in [Conns -> Nat]
    /\ TasksCountExact
    /\ \A c \in Conns : tasksCount[c] <= Cardinality(Begun)

\* What Shutdown has read: nothing is accepted any more, and the other
\* counters only grow.
ReadKnows ==
    /\ read \in [accepted : Limit, served : Limit, failed : Limit]
    /\ spc # "running" /\ late = {} => taken = {}
    /\ spc \in {"readServed", "readFailed", "readTunneling"} /\ late = {}
          => read.accepted = Cardinality(counted)
    /\ spc \in {"readFailed", "readTunneling"} => read.served <= served
    /\ spc = "readTunneling" => read.failed <= failed

-----------------------------------------------------------------------------
(* The tunnel handlers of the server are those of the registry.              *)

\* Every step of the server is a step of the registry or none of it.
LEMMA RegistryStep == [ServerNext]_serverVars => [RegistryNext]_registryVars
<1> SUFFICES ASSUME [ServerNext]_serverVars PROVE [RegistryNext]_registryVars
    OBVIOUS
<1>1. ASSUME NEW c \in Conns, TunnelStep(c) PROVE [RegistryNext]_registryVars
  <2>1. CASE Take(c)
      BY <2>1 DEF Take
  <2>2. CASE StartTunnel(c)
      BY <2>2 DEF StartTunnel, RegistryNext, PeerStep
  <2>3. CASE TunnelFails(c)
      BY <2>3 DEF TunnelFails, RegistryNext, PeerStep, HandlerStep
  <2>4. CASE \/ TunnelCreates(c) \/ TunnelInitTasks(c) \/ TunnelRegisters(c)
             \/ TunnelLoopEnds(c)
      BY <2>4 DEF TunnelCreates, TunnelInitTasks, TunnelRegisters,
                  TunnelLoopEnds, RegistryNext, PeerStep, HandlerStep
  <2>5. CASE TunnelMoves(c)
      BY <2>5 DEF TunnelMoves, RegistryNext, PeerStep, HandlerStep,
                  RemoveClient
  <2>6. CASE TunnelReturns(c) \/ TunnelPanics(c)
      BY <2>6 DEF TunnelReturns, TunnelPanics, RegistryNext, HandlerStep,
                  RemoveClient
  <2> QED BY <1>1, <2>1, <2>2, <2>3, <2>4, <2>5, <2>6 DEF TunnelStep
<1>2. ASSUME NEW r \in Requests, RequestStep(r) PROVE UNCHANGED registryVars
    BY <1>2 DEF RequestStep, Take, StartRequest, RequestRefused, GetClient,
                AddTask, AddTaskPanics, GetTunnel, NoTunnelPanics, StartTask,
                TaskEnds, TunnelWriteFails, RemoveTask, Unwind
<1>3. CASE StopStep
    BY <1>3 DEF StopStep, BeginShutdown, BeginClose, ReadCounter, Compare,
                CompareAgain, ShutdownTasks, CloseTasks, ShutdownTunnels,
                CloseTunnels, NextRound, Stopped
<1>4. CASE UNCHANGED serverVars
    BY <1>4 DEF serverVars
<1> QED BY <1>1, <1>2, <1>3, <1>4 DEF ServerNext

\* The server implements the registry: whatever public connections and a
\* shutdown do, what is proved of RegistrySpec holds of it
\* (server/server.go:389-456, server/conn.go:244-260).
THEOREM ServerRunsRegistry == ServerSpec => RegistrySpec
<1>1. ServerInit => RegistryInit
    BY DEF ServerInit
<1> QED BY <1>1, RegistryStep, PTL DEF ServerSpec, RegistrySpec

\* The registry's own guarantees hold in the whole server, with public
\* connections and a shutdown interleaved (server/client.go:57-65,
\* server/conn.go:244-260, server/server.go:609-623).
THEOREM ServerRegistrySafe ==
    ServerSpec => [](RegisteredIsMapped /\ EntryHasOwner) /\ ConfiguredUsersStay
    BY ServerRunsRegistry, RegistrySafe, EntriesAreOwned, ConfiguredUsersKept,
       PTL


-----------------------------------------------------------------------------
(* The state without the counters.                                          *)

\* Where a tunnel handler comes from and where it goes.
LEMMA TunnelPc ==
    ASSUME TypeOK, NEW c \in Conns
    PROVE
    /\ Accept(c) => pc[c] = "idle" /\ pc' = [pc EXCEPT ![c] = "auth"]
    /\ TunnelFails(c) =>
          pc[c] \in Handshake /\ pc' = [pc EXCEPT ![c] = "idle"]
    /\ TunnelCreates(c) \/ TunnelInitTasks(c) \/ TunnelMoves(c)
       \/ TunnelLoopEnds(c) =>
          /\ pc[c] # "idle" /\ pc'[c] # "idle"
          /\ pc[c] \in Handshake <=> pc'[c] \in Handshake
          /\ pc' = [pc EXCEPT ![c] = pc'[c]]
    /\ TunnelRegisters(c) =>
          pc[c] = "add" /\ pc' = [pc EXCEPT ![c] = "loop"]
    /\ TunnelReturns(c) \/ TunnelPanics(c) =>
          /\ pc[c] \notin Handshake \cup {"idle"}
          /\ pc' = [pc EXCEPT ![c] = "idle"]
<1> USE DEF TypeOK, Handshake, Goto, HandlerReturns
<1>1. Accept(c) => pc[c] = "idle" /\ pc' = [pc EXCEPT ![c] = "auth"]
    BY DEF Accept
<1>2. TunnelFails(c) =>
          pc[c] \in Handshake /\ pc' = [pc EXCEPT ![c] = "idle"]
    BY DEF TunnelFails, HandshakeFails, GiveUp
<1>3. TunnelRegisters(c) =>
          pc[c] = "add" /\ pc' = [pc EXCEPT ![c] = "loop"]
    BY DEF TunnelRegisters, AddTunnel
<1>4. TunnelReturns(c) \/ TunnelPanics(c) =>
          /\ pc[c] \notin Handshake \cup {"idle"}
          /\ pc' = [pc EXCEPT ![c] = "idle"]
    BY DEF TunnelReturns, TunnelPanics, RemoveTunnel, RemoveClientOnly,
           RemoveUser, RemoveClientPanics, DeleteEntry
<1>5. TunnelCreates(c) \/ TunnelInitTasks(c) \/ TunnelLoopEnds(c) =>
          /\ pc[c] # "idle" /\ pc'[c] # "idle"
          /\ pc[c] \in Handshake <=> pc'[c] \in Handshake
          /\ pc' = [pc EXCEPT ![c] = pc'[c]]
    BY DEF TunnelCreates, TunnelInitTasks, TunnelLoopEnds, LookupCreate,
           InitTasks, LoopEnds
<1>6. TunnelMoves(c) =>
          /\ pc[c] # "idle" /\ pc'[c] # "idle"
          /\ pc[c] \in Handshake <=> pc'[c] \in Handshake
          /\ pc' = [pc EXCEPT ![c] = pc'[c]]
    BY DEF TunnelMoves, Authenticate, ReadOption, LookupExisting, InitTunnels,
           AddRefused, RemoveLastTunnel, RemoveClientThenUser, DeleteEntry
<1> QED BY <1>1, <1>2, <1>3, <1>4, <1>5, <1>6

LEMMA PlainTypesStep ==
    TypeOK /\ TypeOK' /\ PlainInv /\ [ServerNext]_serverVars => PlainTypes'
<1> SUFFICES ASSUME TypeOK, TypeOK', PlainInv, [ServerNext]_serverVars
             PROVE PlainTypes'
    OBVIOUS
<1> USE DEF PlainInv, PlainTypes, RequestSteps, StopSteps, requestVars,
            socketVars, stopVars, countVars
<1>1. ASSUME NEW c \in Conns, TunnelStep(c) PROVE PlainTypes'
  <2>1. CASE Take(c)
      BY <2>1 DEF Take
  <2>2. CASE StartTunnel(c)
      BY <2>2 DEF StartTunnel, CountAccepted
  <2>3. CASE TunnelFails(c)
      BY <2>3 DEF TunnelFails, CloseConn
  <2>4. CASE TunnelCreates(c)
      BY <2>4 DEF TunnelCreates
  <2>5. CASE TunnelInitTasks(c) \/ TunnelRegisters(c) \/ TunnelMoves(c)
             \/ TunnelLoopEnds(c)
      BY <2>5 DEF TunnelInitTasks, TunnelRegisters, TunnelMoves,
                  TunnelLoopEnds
  <2>6. CASE TunnelReturns(c) \/ TunnelPanics(c)
      BY <2>6 DEF TunnelReturns, TunnelPanics, CloseConn
  <2> QED BY <1>1, <2>1, <2>2, <2>3, <2>4, <2>5, <2>6 DEF TunnelStep
<1>2. ASSUME NEW r \in Requests, RequestStep(r) PROVE PlainTypes'
  <2>1. CASE Take(r)
      BY <2>1 DEF Take
  <2>2. CASE StartRequest(r)
      BY <2>2 DEF StartRequest, CountAccepted
  <2>3. CASE GetClient(r)
      BY <2>3 DEF GetClient, RGoto, TypeOK
  <2>4. CASE RequestRefused(r) \/ AddTaskPanics(r) \/ RemoveTask(r)
             \/ Unwind(r)
    <3>1. Served(r)
        BY <2>4 DEF RequestRefused, AddTaskPanics, RemoveTask, Unwind,
                    PanicReturns
    <3>2. /\ rpc' \in [Requests -> RequestSteps]
          /\ rcli' \in [Requests -> Clients \cup {NoClient}]
          /\ rtun' \in [Requests -> Conns \cup {NoTunnel}]
        BY <3>1 DEF Served, RGoto
    <3>3. CASE RequestRefused(r)
        BY <3>3, <3>2 DEF RequestRefused
    <3>4. CASE AddTaskPanics(r)
        BY <3>4, <3>2 DEF AddTaskPanics
    <3>5. CASE RemoveTask(r) \/ Unwind(r)
      <4>1. tasks' \in [Clients -> SUBSET Requests]
          BY <3>5 DEF RemoveTask, Unwind
      <4> QED BY <3>5, <3>2, <4>1 DEF RemoveTask, Unwind
    <3> QED BY <2>4, <3>3, <3>4, <3>5
  <2>5. CASE AddTask(r)
      BY <2>5 DEF AddTask, RGoto
  <2>6. CASE GetTunnel(r)
    <3>1. rcli[r] \in Clients
        BY <2>6 DEF GetTunnel, RequestKnows, Routed
    <3> QED BY <2>6, <3>1 DEF GetTunnel, RGoto, TypeOK
  <2>7. CASE NoTunnelPanics(r) \/ StartTask(r)
      BY <2>7 DEF NoTunnelPanics, StartTask, RGoto
  <2>8. CASE TaskEnds(r) \/ TunnelWriteFails(r)
    <3>1. rtun[r] \in Conns
        BY <2>8 DEF TaskEnds, TunnelWriteFails, RequestKnows
    <3> QED BY <2>8, <3>1 DEF TaskEnds, TunnelWriteFails, CloseConn, RGoto
  <2> QED BY <1>2, <2>1, <2>2, <2>3, <2>4, <2>5, <2>6, <2>7, <2>8
          DEF RequestStep
<1>3. CASE StopStep
  <2>1. CASE BeginShutdown \/ BeginClose \/ ReadCounter \/ Compare
             \/ CompareAgain
      BY <2>1 DEF BeginShutdown, BeginClose, ReadCounter, Compare,
                  CompareAgain, SGoto, RegisteredIds
  <2>2. ASSUME NEW i \in Ids, ShutdownTasks(i) \/ CloseTasks(i)
        PROVE PlainTypes'
      BY <2>2 DEF ShutdownTasks, CloseTasks, Visit, SGoto, TypeOK
  <2>3. CASE ShutdownTunnels \/ CloseTunnels
    <3>1. tunnels[visit] \in SUBSET Conns
        BY <2>3 DEF ShutdownTunnels, CloseTunnels, RequestKnows, TypeOK
    <3> QED BY <2>3, <3>1 DEF ShutdownTunnels, CloseTunnels, SGoto
  <2>4. CASE NextRound \/ Stopped
      BY <2>4 DEF NextRound, Stopped, SGoto
  <2> QED BY <1>3, <2>1, <2>2, <2>3, <2>4 DEF StopStep
<1>4. CASE UNCHANGED serverVars
    BY <1>4 DEF serverVars
<1> QED BY <1>1, <1>2, <1>3, <1>4 DEF ServerNext

LEMMA CountedStep ==
    TypeOK /\ PlainInv /\ [ServerNext]_serverVars => CountedOnce'
<1> SUFFICES ASSUME TypeOK, PlainInv, [ServerNext]_serverVars
             PROVE CountedOnce'
    OBVIOUS
<1> USE DisjointAssumption
    DEF PlainInv, PlainTypes, CountedOnce, requestVars, stopVars, countVars
<1>1. ASSUME NEW c \in Conns, TunnelStep(c) PROVE CountedOnce'
  <2>1. CASE Take(c)
      BY <2>1 DEF Take, registryVars, handler
  <2>2. CASE StartTunnel(c)
    <3>1. pc' = [pc EXCEPT ![c] = "auth"]
        BY <2>2, TunnelPc DEF StartTunnel
    <3> QED BY <2>2, <3>1 DEF StartTunnel, CountAccepted, TypeOK
  <2>3. CASE TunnelFails(c) \/ TunnelReturns(c) \/ TunnelPanics(c)
    <3>1. pc' = [pc EXCEPT ![c] = "idle"]
        BY <2>3, TunnelPc
    <3> QED BY <2>3, <3>1 DEF TunnelFails, TunnelReturns, TunnelPanics, TypeOK
  <2>4. CASE TunnelCreates(c) \/ TunnelInitTasks(c) \/ TunnelMoves(c)
             \/ TunnelLoopEnds(c) \/ TunnelRegisters(c)
    <3>1. pc[c] # "idle" /\ pc' = [pc EXCEPT ![c] = pc'[c]]
      <4>1. CASE TunnelRegisters(c)
          BY <4>1, TunnelPc DEF TypeOK
      <4> QED BY <2>4, <4>1, TunnelPc
    <3> QED BY <2>4, <3>1 DEF TunnelCreates, TunnelInitTasks, TunnelMoves,
               TunnelLoopEnds, TunnelRegisters, TypeOK
  <2> QED BY <1>1, <2>1, <2>2, <2>3, <2>4 DEF TunnelStep
<1>2. ASSUME NEW r \in Requests, RequestStep(r) PROVE CountedOnce'
  <2>1. CASE Take(r)
      BY <2>1 DEF Take, registryVars, handler
  <2>2. CASE StartRequest(r)
      BY <2>2 DEF StartRequest, CountAccepted, registryVars, handler
  <2>3. CASE RequestRefused(r) \/ AddTaskPanics(r) \/ RemoveTask(r)
             \/ Unwind(r)
      BY <2>3 DEF RequestRefused, AddTaskPanics, RemoveTask, Unwind,
                  PanicReturns, Served, RGoto, registryVars, handler
  <2>4. CASE GetClient(r) \/ AddTask(r) \/ GetTunnel(r) \/ NoTunnelPanics(r)
      BY <2>4 DEF GetClient, AddTask, GetTunnel, NoTunnelPanics, RGoto,
                  registryVars, handler
  <2>5. CASE StartTask(r) \/ TaskEnds(r) \/ TunnelWriteFails(r)
      BY <2>5 DEF StartTask, TaskEnds, TunnelWriteFails, RGoto, registryVars,
                  handler
  <2> QED BY <1>2, <2>1, <2>2, <2>3, <2>4, <2>5 DEF RequestStep
<1>3. CASE StopStep
    BY <1>3 DEF StopStep, BeginShutdown, BeginClose, ReadCounter, Compare,
                CompareAgain, ShutdownTasks, CloseTasks, ShutdownTunnels,
                CloseTunnels, NextRound, Stopped, registryVars, handler
<1>4. CASE UNCHANGED serverVars
    BY <1>4 DEF serverVars, registryVars, handler
<1> QED BY <1>1, <1>2, <1>3, <1>4 DEF ServerNext

LEMMA RequestKnowsStep ==
    TypeOK /\ PlainInv /\ [ServerNext]_serverVars => RequestKnows'
<1> SUFFICES ASSUME TypeOK, PlainInv, [ServerNext]_serverVars
             PROVE RequestKnows'
    OBVIOUS
<1> USE DEF PlainInv, PlainTypes, RequestKnows, Routed, requestVars, stopVars
<1>1. ASSUME NEW c \in Conns, TunnelStep(c) PROVE RequestKnows'
    BY <1>1 DEF TunnelStep, Take, StartTunnel, TunnelFails, TunnelCreates,
                TunnelInitTasks, TunnelRegisters, TunnelMoves, TunnelLoopEnds,
                TunnelReturns, TunnelPanics
<1>2. ASSUME NEW r \in Requests, RequestStep(r) PROVE RequestKnows'
  <2>1. CASE Take(r)
      BY <2>1 DEF Take
  <2>2. CASE StartRequest(r)
      BY <2>2 DEF StartRequest
  <2>3. CASE GetClient(r)
      BY <2>3 DEF GetClient, RGoto, TypeOK
  <2>4. CASE RequestRefused(r) \/ AddTaskPanics(r) \/ RemoveTask(r)
             \/ Unwind(r)
      BY <2>4 DEF RequestRefused, AddTaskPanics, RemoveTask, Unwind,
                  PanicReturns, Served, RGoto
  <2>5. CASE AddTask(r) \/ NoTunnelPanics(r) \/ StartTask(r) \/ TaskEnds(r)
             \/ TunnelWriteFails(r)
      BY <2>5 DEF AddTask, NoTunnelPanics, StartTask, TaskEnds,
                  TunnelWriteFails, RGoto
  <2>6. CASE GetTunnel(r)
      BY <2>6 DEF GetTunnel, RGoto, TypeOK
  <2> QED BY <1>2, <2>1, <2>2, <2>3, <2>4, <2>5, <2>6 DEF RequestStep
<1>3. CASE StopStep
  <2>1. CASE \/ BeginShutdown \/ BeginClose \/ ReadCounter \/ Compare
             \/ CompareAgain \/ NextRound \/ Stopped
             \/ ShutdownTunnels \/ CloseTunnels
      BY <2>1 DEF BeginShutdown, BeginClose, ReadCounter, Compare,
                  CompareAgain, NextRound, Stopped, ShutdownTunnels,
                  CloseTunnels, SGoto
  <2>2. ASSUME NEW i \in Ids, ShutdownTasks(i) \/ CloseTasks(i)
        PROVE RequestKnows'
      BY <2>2 DEF ShutdownTasks, CloseTasks, Visit, SGoto, TypeOK
  <2> QED BY <1>3, <2>1, <2>2 DEF StopStep
<1>4. CASE UNCHANGED serverVars
    BY <1>4 DEF serverVars
<1> QED BY <1>1, <1>2, <1>3, <1>4 DEF ServerNext

LEMMA PlainInductive == ServerSpec => []PlainInv
<1>1. ServerInit => PlainInv
    BY DisjointAssumption
    DEF ServerInit, RegistryInit, PlainInv, PlainTypes, CountedOnce, RequestKnows, Routed,
        RequestSteps, StopSteps
<1>2. ServerSpec => []TypeOK
    BY ServerRunsRegistry, TypeCorrect, PTL
<1>3. TypeOK /\ TypeOK' /\ PlainInv /\ [ServerNext]_serverVars => PlainInv'
    BY PlainTypesStep, CountedStep, RequestKnowsStep DEF PlainInv
<1> QED BY <1>1, <1>2, <1>3, PTL DEF ServerSpec

-----------------------------------------------------------------------------
(* The counters.                                                            *)

\* A step that counts nothing.
CountsNothing ==
    UNCHANGED <<served, failed, tunneling, panics,
                DoneRequests, SettledTunnels, IdleTunnels>>

\* A tunnel handler leaves the handshake: it is counted as failed or as
\* tunneling.
TunnelSettles(c) ==
    /\ c \notin SettledTunnels /\ SettledTunnels' = SettledTunnels \cup {c}
    /\ \/ failed' = failed + 1 /\ UNCHANGED tunneling
       \/ tunneling' = tunneling + 1 /\ UNCHANGED failed
    /\ IdleTunnels \subseteq IdleTunnels'
    /\ UNCHANGED <<served, panics, DoneRequests>>

\* A tunnel handler that had settled returns, with or without a panic.
TunnelLeaves(c) ==
    /\ UNCHANGED <<served, tunneling, DoneRequests, SettledTunnels>>
    /\ c \notin IdleTunnels /\ IdleTunnels' = IdleTunnels \cup {c}
    /\ \/ UNCHANGED <<failed, panics>>
       \/ failed' = failed + 1 /\ panics' = panics + 1

\* A request is counted as served, and once more if it panicked.
RequestLeaves(r) ==
    /\ UNCHANGED <<tunneling, SettledTunnels, IdleTunnels>>
    /\ r \notin DoneRequests /\ DoneRequests' = DoneRequests \cup {r}
    /\ served' = served + 1
    /\ \/ UNCHANGED <<failed, panics>>
       \/ failed' = failed + 1 /\ panics' = panics + 1

\* Every step counts what it does.
LEMMA EveryStepCounts ==
    ASSUME TypeOK, PlainInv, {served, failed, tunneling, panics} \subseteq Nat,
           [ServerNext]_serverVars
    PROVE  \/ CountsNothing
           \/ \E c \in Conns : TunnelSettles(c) \/ TunnelLeaves(c)
           \/ \E r \in Requests : RequestLeaves(r)
<1> DEFINE Goal == \/ CountsNothing
                   \/ \E c \in Conns : TunnelSettles(c) \/ TunnelLeaves(c)
                   \/ \E r \in Requests : RequestLeaves(r)
<1> USE DisjointAssumption
    DEF PlainInv, PlainTypes, CountedOnce, DoneRequests, SettledTunnels,
        IdleTunnels
<1>1. ASSUME NEW c \in Conns, TunnelStep(c) PROVE Goal
  <2>1. CASE Take(c)
      BY <2>1 DEF Take, CountsNothing, registryVars, handler, requestVars
  <2>2. CASE StartTunnel(c)
    <3>1. pc[c] = "idle" /\ pc' = [pc EXCEPT ![c] = "auth"]
        BY <2>2, TunnelPc DEF StartTunnel
    <3>2. /\ c \notin counted /\ counted' = counted \cup {c}
          /\ UNCHANGED <<served, failed, tunneling, panics, rpc>>
        BY <2>2 DEF StartTunnel, CountAccepted, requestVars
    <3>3. SettledTunnels' = SettledTunnels /\ IdleTunnels' = IdleTunnels
        BY <3>1, <3>2 DEF Handshake, TypeOK
    <3> QED BY <3>2, <3>3 DEF CountsNothing
  <2>3. CASE TunnelFails(c)
    <3>1. pc[c] \in Handshake /\ pc' = [pc EXCEPT ![c] = "idle"]
        BY <2>3, TunnelPc
    <3>2. /\ failed' = failed + 1
          /\ UNCHANGED <<counted, served, tunneling, panics, rpc>>
        BY <2>3 DEF TunnelFails, requestVars
    <3>3. /\ c \notin SettledTunnels
          /\ SettledTunnels' = SettledTunnels \cup {c}
          /\ IdleTunnels \subseteq IdleTunnels'
        BY <3>1, <3>2 DEF Handshake, TypeOK
    <3> QED BY <3>2, <3>3 DEF TunnelSettles
  <2>4. CASE TunnelRegisters(c)
    <3>1. pc[c] = "add" /\ pc' = [pc EXCEPT ![c] = "loop"]
        BY <2>4, TunnelPc
    <3>2. /\ tunneling' = tunneling + 1
          /\ UNCHANGED <<counted, served, failed, panics, rpc>>
        BY <2>4 DEF TunnelRegisters, requestVars
    <3>3. /\ c \notin SettledTunnels
          /\ SettledTunnels' = SettledTunnels \cup {c}
          /\ IdleTunnels \subseteq IdleTunnels'
        BY <3>1, <3>2 DEF Handshake, TypeOK
    <3> QED BY <3>2, <3>3 DEF TunnelSettles
  <2>5. CASE TunnelCreates(c) \/ TunnelInitTasks(c) \/ TunnelMoves(c)
             \/ TunnelLoopEnds(c)
    <3>1. /\ pc[c] # "idle" /\ pc'[c] # "idle"
          /\ pc[c] \in Handshake <=> pc'[c] \in Handshake
          /\ pc' = [pc EXCEPT ![c] = pc'[c]]
        BY <2>5, TunnelPc
    <3>2. UNCHANGED <<counted, served, failed, tunneling, panics, rpc>>
        BY <2>5 DEF TunnelCreates, TunnelInitTasks, TunnelMoves,
                    TunnelLoopEnds, countVars, requestVars
    <3>3. \A d \in Conns : /\ pc'[d] = "idle" <=> pc[d] = "idle"
                           /\ pc'[d] \in Handshake <=> pc[d] \in Handshake
        BY <3>1 DEF TypeOK
    <3>4. SettledTunnels' = SettledTunnels /\ IdleTunnels' = IdleTunnels
        BY <3>2, <3>3
    <3> QED BY <3>2, <3>4 DEF CountsNothing
  <2>6. CASE TunnelReturns(c) \/ TunnelPanics(c)
    <3>1. /\ pc[c] \notin Handshake \cup {"idle"}
          /\ pc' = [pc EXCEPT ![c] = "idle"]
        BY <2>6, TunnelPc
    <3>2. /\ UNCHANGED <<counted, served, tunneling, rpc>>
          /\ \/ UNCHANGED <<failed, panics>>
             \/ failed' = failed + 1 /\ panics' = panics + 1
        BY <2>6 DEF TunnelReturns, TunnelPanics, countVars, requestVars
    <3>3. /\ SettledTunnels' = SettledTunnels
          /\ c \notin IdleTunnels /\ IdleTunnels' = IdleTunnels \cup {c}
        BY <3>1, <3>2 DEF Handshake, TypeOK
    <3> QED BY <3>2, <3>3 DEF TunnelLeaves
  <2> QED BY <1>1, <2>1, <2>2, <2>3, <2>4, <2>5, <2>6 DEF TunnelStep
<1>2. ASSUME NEW r \in Requests, RequestStep(r) PROVE Goal
  <2>1. CASE Take(r)
      BY <2>1 DEF Take, CountsNothing, registryVars, handler, requestVars
  <2>2. CASE StartRequest(r)
    <3>1. /\ r \notin counted /\ counted' = counted \cup {r}
          /\ UNCHANGED <<served, failed, tunneling, panics, pc>>
          /\ rpc' = [rpc EXCEPT ![r] = "parse"]
        BY <2>2 DEF StartRequest, CountAccepted, registryVars, handler
    <3>2. rpc[r] = "none" /\ counted' \cap Conns = counted \cap Conns
        BY <3>1
    <3> QED BY <3>1, <3>2 DEF CountsNothing
  <2>3. CASE RequestRefused(r) \/ AddTaskPanics(r) \/ RemoveTask(r)
             \/ Unwind(r)
    <3>1. /\ rpc[r] # "done" /\ rpc' = [rpc EXCEPT ![r] = "done"]
          /\ UNCHANGED <<pc, counted, tunneling>>
          /\ served' = served + 1
          /\ \/ UNCHANGED <<failed, panics>>
             \/ failed' = failed + 1 /\ panics' = panics + 1
        BY <2>3 DEF RequestRefused, AddTaskPanics, RemoveTask, Unwind,
                    PanicReturns, Served, RGoto, registryVars, handler
    <3> QED BY <3>1 DEF RequestLeaves
  <2>4. CASE GetClient(r) \/ AddTask(r) \/ GetTunnel(r) \/ NoTunnelPanics(r)
             \/ StartTask(r) \/ TaskEnds(r) \/ TunnelWriteFails(r)
    <3>1. /\ UNCHANGED <<pc, counted, served, failed, tunneling, panics>>
          /\ rpc[r] # "done"
          /\ \E step \in RequestSteps \ {"done"} :
                rpc' = [rpc EXCEPT ![r] = step]
        BY <2>4 DEF GetClient, AddTask, GetTunnel, NoTunnelPanics, StartTask,
                    TaskEnds, TunnelWriteFails, RGoto, RequestSteps,
                    registryVars, handler, countVars
    <3> QED BY <3>1 DEF CountsNothing
  <2> QED BY <1>2, <2>1, <2>2, <2>3, <2>4 DEF RequestStep
<1>3. CASE StopStep
  <2>1. UNCHANGED <<rpc, pc, counted, served, failed, tunneling, panics>>
      BY <1>3 DEF StopStep, BeginShutdown, BeginClose, ReadCounter, Compare,
                CompareAgain, ShutdownTasks, CloseTasks, ShutdownTunnels,
                CloseTunnels, NextRound, Stopped, registryVars, handler,
                countVars, requestVars
  <2> QED BY <2>1 DEF CountsNothing
<1>4. CASE UNCHANGED serverVars
    BY <1>4 DEF serverVars, registryVars, handler, countVars, requestVars,
                CountsNothing
<1> QED BY <1>1, <1>2, <1>3, <1>4 DEF ServerNext

\* The sizes of sets of connections.
LEMMA SizeOfSet ==
    ASSUME NEW S, S \in SUBSET Conns \/ S \in SUBSET Requests
    PROVE  IsFiniteSet(S) /\ Cardinality(S) \in Nat
    BY FS_Subset, FS_CardinalityType, FiniteAssumption

\* The sizes of the counted sets, now and in the next state.
LEMMA CountedSizes ==
    /\ IsFiniteSet(DoneRequests) /\ IsFiniteSet(SettledTunnels)
    /\ IsFiniteSet(IdleTunnels) /\ IsFiniteSet(IdleTunnels')
    /\ Cardinality(DoneRequests) \in Nat
    /\ Cardinality(SettledTunnels) \in Nat
    /\ Cardinality(IdleTunnels) \in Nat
    /\ Cardinality(IdleTunnels') \in Nat
<1>1. /\ DoneRequests \in SUBSET Requests
      /\ SettledTunnels \in SUBSET Conns
      /\ IdleTunnels \in SUBSET Conns
      /\ IdleTunnels' \in SUBSET Conns
    BY DEF DoneRequests, SettledTunnels, IdleTunnels
<1> QED BY <1>1, SizeOfSet

LEMMA AccountsStep ==
    TypeOK /\ PlainInv /\ Accounts /\ [ServerNext]_serverVars => Accounts'
<1> SUFFICES ASSUME TypeOK, PlainInv, Accounts, [ServerNext]_serverVars
             PROVE Accounts'
    OBVIOUS
<1>1. {served, failed, tunneling, panics} \subseteq Nat
    BY DEF Accounts
<1>2. CASE CountsNothing
    BY <1>2 DEF CountsNothing, Accounts
<1>3. ASSUME NEW c \in Conns, TunnelSettles(c) PROVE Accounts'
  <2>1. Cardinality(SettledTunnels') = Cardinality(SettledTunnels) + 1
      BY <1>3, CountedSizes, FS_AddElement DEF TunnelSettles
  <2>2. Cardinality(IdleTunnels) <= Cardinality(IdleTunnels')
      BY <1>3, CountedSizes, FS_Subset DEF TunnelSettles
  <2>3. /\ \/ failed' = failed + 1 /\ tunneling' = tunneling
           \/ tunneling' = tunneling + 1 /\ failed' = failed
        /\ served' = served /\ panics' = panics
        /\ Cardinality(DoneRequests') = Cardinality(DoneRequests)
      BY <1>3 DEF TunnelSettles
  <2> QED BY <1>1, <2>1, <2>2, <2>3, CountedSizes DEF Accounts
<1>4. ASSUME NEW c \in Conns, TunnelLeaves(c) PROVE Accounts'
  <2>1. Cardinality(IdleTunnels') = Cardinality(IdleTunnels) + 1
      BY <1>4, CountedSizes, FS_AddElement DEF TunnelLeaves
  <2>2. /\ \/ failed' = failed /\ panics' = panics
           \/ failed' = failed + 1 /\ panics' = panics + 1
        /\ served' = served /\ tunneling' = tunneling
        /\ Cardinality(DoneRequests') = Cardinality(DoneRequests)
        /\ Cardinality(SettledTunnels') = Cardinality(SettledTunnels)
      BY <1>4 DEF TunnelLeaves
  <2> QED BY <1>1, <2>1, <2>2, CountedSizes DEF Accounts
<1>5. ASSUME NEW r \in Requests, RequestLeaves(r) PROVE Accounts'
  <2>1. Cardinality(DoneRequests') = Cardinality(DoneRequests) + 1
      BY <1>5, CountedSizes, FS_AddElement DEF RequestLeaves
  <2>2. /\ \/ failed' = failed /\ panics' = panics
           \/ failed' = failed + 1 /\ panics' = panics + 1
        /\ served' = served + 1 /\ tunneling' = tunneling
        /\ Cardinality(IdleTunnels') = Cardinality(IdleTunnels)
        /\ Cardinality(SettledTunnels') = Cardinality(SettledTunnels)
      BY <1>5 DEF RequestLeaves
  <2> QED BY <1>1, <2>1, <2>2, CountedSizes DEF Accounts
<1> QED BY EveryStepCounts, <1>1, <1>2, <1>3, <1>4, <1>5

LEMMA AccountsInductive == ServerSpec => [](TypeOK /\ PlainInv /\ Accounts)
<1>1. ServerInit => Accounts
  <2> SUFFICES ASSUME ServerInit PROVE Accounts
      OBVIOUS
  <2>1. DoneRequests = {} /\ SettledTunnels = {} /\ IdleTunnels = {}
      BY DEF ServerInit, DoneRequests, SettledTunnels, IdleTunnels
  <2>2. served = 0 /\ failed = 0 /\ tunneling = 0 /\ panics = 0
      BY DEF ServerInit
  <2> QED BY <2>1, <2>2, FS_EmptySet DEF Accounts
<1>2. ServerSpec => []TypeOK
    BY ServerRunsRegistry, TypeCorrect, PTL
<1> QED BY <1>1, <1>2, PlainInductive, AccountsStep, PTL DEF ServerSpec

\* The settled connections are the requests that are done and the tunnels
\* that have settled.
LEMMA SettledSize ==
    Cardinality(Settled) = Cardinality(DoneRequests)
                            + Cardinality(SettledTunnels)
<1>1. Settled = DoneRequests \cup SettledTunnels
    BY DEF Settled, DoneRequests, SettledTunnels, Handshake
<1>2. DoneRequests \cap SettledTunnels = {}
    BY DisjointAssumption DEF DoneRequests, SettledTunnels
<1>3. Cardinality(DoneRequests \cap SettledTunnels) = 0
    BY <1>2, FS_EmptySet
<1>4. Cardinality(DoneRequests \cup SettledTunnels)
        = Cardinality(DoneRequests) + Cardinality(SettledTunnels)
          - Cardinality(DoneRequests \cap SettledTunnels)
    BY CountedSizes, FS_Union
<1> QED BY <1>1, <1>3, <1>4, CountedSizes

\* Every accepted connection is accounted for once in served, failed and
\* tunneling, and once more for each recovered panic
\* (server/server.go:484-488).
THEOREM Balanced == ServerSpec => []AccountsBalance
<1>1. Accounts => AccountsBalance
    BY SettledSize, CountedSizes DEF Accounts, AccountsBalance
<1> QED BY <1>1, AccountsInductive, PTL

-----------------------------------------------------------------------------
(* The counts of the tunnels' tasks.                                        *)

\* Copying and Begun, now and in the next state, are finite.
LEMMA CopyingSizes ==
    ASSUME NEW c
    PROVE  /\ IsFiniteSet(Copying(c)) /\ Cardinality(Copying(c)) \in Nat
           /\ IsFiniteSet(Copying(c)') /\ Cardinality(Copying(c)') \in Nat
           /\ IsFiniteSet(Begun) /\ Cardinality(Begun) \in Nat
           /\ IsFiniteSet(Begun') /\ Cardinality(Begun') \in Nat
<1>1. /\ Copying(c) \in SUBSET Requests /\ Copying(c)' \in SUBSET Requests
      /\ Begun \in SUBSET Requests /\ Begun' \in SUBSET Requests
    BY DEF Copying, Begun
<1> QED BY <1>1, SizeOfSet

\* What a step that is not a copying request's does to the counts.
KeepsTasks ==
    /\ UNCHANGED <<tasksCount, closing>>
    /\ \A c \in Conns : Copying(c)' = Copying(c)
    /\ Begun \subseteq Begun'

\* A tunnel is marked, alone or with others.
MarksTunnels ==
    /\ UNCHANGED <<tasksCount, rpc, rtun>>
    /\ closing \subseteq closing'

\* Every step either leaves the counts alone or is one of three that do not.
LEMMA TaskSteps ==
    ASSUME PlainInv, [ServerNext]_serverVars
    PROVE  \/ KeepsTasks \/ MarksTunnels
           \/ \E r \in Requests : StartTask(r) \/ TaskEnds(r)
                                  \/ TunnelWriteFails(r)
<1> DEFINE Goal == \/ KeepsTasks \/ MarksTunnels
                   \/ \E r \in Requests : StartTask(r) \/ TaskEnds(r)
                                          \/ TunnelWriteFails(r)
<1> USE DEF PlainInv, PlainTypes
<1>1. ASSUME NEW c \in Conns, TunnelStep(c) PROVE Goal
  <2>1. CASE Take(c) \/ StartTunnel(c) \/ TunnelCreates(c)
             \/ TunnelInitTasks(c) \/ TunnelRegisters(c) \/ TunnelMoves(c)
             \/ TunnelLoopEnds(c)
      BY <2>1 DEF Take, StartTunnel, TunnelCreates, TunnelInitTasks,
                  TunnelRegisters, TunnelMoves, TunnelLoopEnds, MarksTunnels,
                  requestVars, socketVars
  <2>2. CASE TunnelFails(c) \/ TunnelReturns(c) \/ TunnelPanics(c)
      BY <2>2 DEF TunnelFails, TunnelReturns, TunnelPanics, CloseConn,
                  MarksTunnels, requestVars
  <2> QED BY <1>1, <2>1, <2>2 DEF TunnelStep
<1>2. ASSUME NEW r \in Requests, RequestStep(r) PROVE Goal
  <2>1. CASE Take(r)
      BY <2>1 DEF Take, MarksTunnels, requestVars, socketVars
  <2>2. CASE StartRequest(r) \/ GetClient(r) \/ AddTask(r)
             \/ NoTunnelPanics(r)
    <3>1. /\ UNCHANGED <<tasksCount, closing, rtun>>
          /\ rpc[r] \notin {"copy", "removeTask", "done"}
          /\ \E step \in RequestSteps \ {"copy"} :
                rpc' = [rpc EXCEPT ![r] = step]
      <4>1. StartRequest(r) => rpc[r] = "none"
          BY DEF StartRequest, CountAccepted, CountedOnce
      <4> QED BY <2>2, <4>1 DEF StartRequest, GetClient, AddTask,
                    NoTunnelPanics, RGoto, RequestSteps, socketVars
    <3> QED BY <3>1 DEF KeepsTasks, Copying, Begun
  <2>3. CASE GetTunnel(r)
    <3>1. /\ UNCHANGED <<tasksCount, closing>>
          /\ rpc[r] = "getTunnel" /\ rpc' = [rpc EXCEPT ![r] = "count"]
          /\ \E c \in tunnels[rcli[r]] : rtun' = [rtun EXCEPT ![r] = c]
        BY <2>3 DEF GetTunnel, RGoto, socketVars
    <3> QED BY <3>1 DEF KeepsTasks, Copying, Begun
  <2>4. CASE RequestRefused(r) \/ AddTaskPanics(r) \/ RemoveTask(r)
             \/ Unwind(r)
    <3>1. /\ UNCHANGED <<tasksCount, closing>>
          /\ rpc[r] # "copy" /\ rpc' = [rpc EXCEPT ![r] = "done"]
          /\ rtun' = [rtun EXCEPT ![r] = NoTunnel]
        BY <2>4 DEF RequestRefused, AddTaskPanics, RemoveTask, Unwind,
                    PanicReturns, Served, RGoto, socketVars
    <3> QED BY <3>1 DEF KeepsTasks, Copying, Begun
  <2> QED BY <1>2, <2>1, <2>2, <2>3, <2>4 DEF RequestStep
<1>3. CASE StopStep
    BY <1>3 DEF StopStep, BeginShutdown, BeginClose, ReadCounter, Compare,
                CompareAgain, ShutdownTasks, CloseTasks, ShutdownTunnels,
                CloseTunnels, NextRound, Stopped, MarksTunnels, requestVars,
                socketVars
<1>4. CASE UNCHANGED serverVars
    BY <1>4 DEF serverVars, MarksTunnels, requestVars, socketVars
<1> QED BY <1>1, <1>2, <1>3, <1>4 DEF ServerNext

\* TasksCountExact says so of Copying.
LEMMA ExactCopying ==
    TasksCountExact <=>
        \A c \in Conns :
            /\ tasksCount[c] >= Cardinality(Copying(c))
            /\ c \notin closing => tasksCount[c] = Cardinality(Copying(c))
    BY DEF TasksCountExact, Copying

LEMMA TaskCountsStep ==
    PlainInv /\ TaskCounts /\ [ServerNext]_serverVars => TaskCounts'
<1> DEFINE Exact(c) ==
              /\ tasksCount[c] >= Cardinality(Copying(c))
              /\ c \notin closing => tasksCount[c] = Cardinality(Copying(c))
              /\ tasksCount[c] <= Cardinality(Begun)
<1> SUFFICES ASSUME PlainInv, TaskCounts, [ServerNext]_serverVars
             PROVE  tasksCount' \in [Conns -> Nat] /\ \A c \in Conns : Exact(c)'
    BY DEF TaskCounts, TasksCountExact, Copying
<1>1. tasksCount \in [Conns -> Nat] /\ \A c \in Conns : Exact(c)
    BY DEF TaskCounts, TasksCountExact, Copying
<1>2. CASE KeepsTasks
  <2>1. Cardinality(Begun) <= Cardinality(Begun')
      BY <1>2, CopyingSizes, FS_Subset DEF KeepsTasks
  <2> QED BY <1>1, <1>2, <2>1, CopyingSizes DEF KeepsTasks
<1>3. CASE MarksTunnels
  <2>1. Begun' = Begun /\ \A c \in Conns : Copying(c)' = Copying(c)
      BY <1>3 DEF MarksTunnels, Begun, Copying
  <2> QED BY <1>1, <1>3, <2>1 DEF MarksTunnels
<1>4. ASSUME NEW r \in Requests, StartTask(r)
      PROVE  tasksCount' \in [Conns -> Nat] /\ \A c \in Conns : Exact(c)'
  <2>1. /\ rpc[r] = "count" /\ rpc' = [rpc EXCEPT ![r] = "copy"]
        /\ rtun[r] \in Conns /\ UNCHANGED <<rtun, closing>>
        /\ tasksCount' = [tasksCount EXCEPT ![rtun[r]] = @ + 1]
      BY <1>4 DEF StartTask, RGoto, PlainInv, RequestKnows, socketVars
  <2>2. r \notin Begun /\ Begun' = Begun \cup {r}
      BY <2>1 DEF Begun, PlainInv, PlainTypes
  <2>3. /\ r \notin Copying(rtun[r])
        /\ Copying(rtun[r])' = Copying(rtun[r]) \cup {r}
      BY <2>1 DEF Copying, PlainInv, PlainTypes
  <2>4. \A c \in Conns \ {rtun[r]} : Copying(c)' = Copying(c)
      BY <2>1 DEF Copying, PlainInv, PlainTypes
  <2>5. Cardinality(Begun') = Cardinality(Begun) + 1
      BY <2>2, CopyingSizes, FS_AddElement
  <2>6. Cardinality(Copying(rtun[r])') = Cardinality(Copying(rtun[r])) + 1
      BY <2>3, CopyingSizes, FS_AddElement
  <2>7. Exact(rtun[r])'
      BY <1>1, <2>1, <2>5, <2>6, CopyingSizes
  <2>8. \A c \in Conns \ {rtun[r]} : Exact(c)'
      BY <1>1, <2>1, <2>4, <2>5, CopyingSizes
  <2> QED BY <1>1, <2>1, <2>7, <2>8
<1>5. ASSUME NEW r \in Requests, TaskEnds(r)
      PROVE  tasksCount' \in [Conns -> Nat] /\ \A c \in Conns : Exact(c)'
  <2>1. /\ rpc[r] = "copy" /\ rpc' = [rpc EXCEPT ![r] = "removeTask"]
        /\ rtun[r] \in Conns /\ UNCHANGED <<rtun, closing>>
        /\ tasksCount' = [tasksCount EXCEPT ![rtun[r]] = @ - 1]
      BY <1>5 DEF TaskEnds, RGoto, PlainInv, RequestKnows
  <2>2. Begun' = Begun
      BY <2>1 DEF Begun, PlainInv, PlainTypes
  <2>3. /\ r \in Copying(rtun[r])
        /\ Copying(rtun[r])' = Copying(rtun[r]) \ {r}
      BY <2>1 DEF Copying, PlainInv, PlainTypes
  <2>4. \A c \in Conns \ {rtun[r]} : Copying(c)' = Copying(c)
      BY <2>1 DEF Copying, PlainInv, PlainTypes
  <2>5. Cardinality(Copying(rtun[r])') = Cardinality(Copying(rtun[r])) - 1
      BY <2>3, CopyingSizes, FS_RemoveElement
  <2>6. tasksCount[rtun[r]] - 1 \in Nat /\ Exact(rtun[r])'
      BY <1>1, <2>1, <2>2, <2>5, CopyingSizes
  <2>7. \A c \in Conns \ {rtun[r]} : Exact(c)'
      BY <1>1, <2>1, <2>2, <2>4
  <2> QED BY <1>1, <2>1, <2>6, <2>7
<1>6. ASSUME NEW r \in Requests, TunnelWriteFails(r)
      PROVE  tasksCount' \in [Conns -> Nat] /\ \A c \in Conns : Exact(c)'
  <2>1. /\ rpc[r] = "copy" /\ rpc' = [rpc EXCEPT ![r] = "removeTask"]
        /\ rtun[r] \in Conns /\ UNCHANGED <<rtun, tasksCount>>
        /\ closing' = closing \cup {rtun[r]}
      BY <1>6 DEF TunnelWriteFails, CloseConn, RGoto, PlainInv, RequestKnows
  <2>2. Begun' = Begun
      BY <2>1 DEF Begun, PlainInv, PlainTypes
  <2>3. /\ r \in Copying(rtun[r])
        /\ Copying(rtun[r])' = Copying(rtun[r]) \ {r}
      BY <2>1 DEF Copying, PlainInv, PlainTypes
  <2>4. \A c \in Conns \ {rtun[r]} : Copying(c)' = Copying(c)
      BY <2>1 DEF Copying, PlainInv, PlainTypes
  <2>5. Cardinality(Copying(rtun[r])') = Cardinality(Copying(rtun[r])) - 1
      BY <2>3, CopyingSizes, FS_RemoveElement
  <2>6. Exact(rtun[r])'
      BY <1>1, <2>1, <2>2, <2>5, CopyingSizes
  <2>7. \A c \in Conns \ {rtun[r]} : Exact(c)'
      BY <1>1, <2>1, <2>2, <2>4
  <2> QED BY <1>1, <2>1, <2>6, <2>7
<1> QED BY TaskSteps, <1>2, <1>3, <1>4, <1>5, <1>6

LEMMA TaskCountsInductive == ServerSpec => []TaskCounts
<1>1. ServerInit => TaskCounts
  <2> SUFFICES ASSUME ServerInit PROVE TaskCounts
      OBVIOUS
  <2>1. /\ tasksCount = [c \in Conns |-> 0]
        /\ Begun = {} /\ \A c \in Conns : Copying(c) = {}
      BY DEF ServerInit, Begun, Copying
  <2>2. TasksCountExact
      BY <2>1, FS_EmptySet, ExactCopying
  <2> QED BY <2>1, <2>2, FS_EmptySet DEF TaskCounts
<1> QED BY <1>1, PlainInductive, TaskCountsStep, PTL DEF ServerSpec

\* TasksCount is the number of requests being copied into the tunnel until
\* the tunnel is closed or marked by a shutdown, and never less
\* (server/client.go:67-83, server/conn.go:416-440).
THEOREM TasksCounted == ServerSpec => []TasksCountExact
<1>1. TaskCounts => TasksCountExact
    BY DEF TaskCounts
<1> QED BY <1>1, TaskCountsInductive, PTL

-----------------------------------------------------------------------------
(* What Shutdown reads.                                                     *)

\* The counters stay within the bounds of ServerTypeOK.
LEMMA CountersBounded ==
    ASSUME Accounts
    PROVE  {served, failed, tunneling, panics} \subseteq Limit
<1> DEFINE All == Conns \cup Requests
           C   == Cardinality(Conns)
           R   == Cardinality(Requests)
<1>1. /\ IsFiniteSet(Conns) /\ C \in Nat
      /\ IsFiniteSet(Requests) /\ R \in Nat
    BY FS_CardinalityType, FiniteAssumption
<1>2. Cardinality(All) = C + R
  <2>1. Cardinality(Conns \cap Requests) = 0
      BY DisjointAssumption, FS_EmptySet
  <2>2. Cardinality(All) = C + R - Cardinality(Conns \cap Requests)
      BY <1>1, FS_Union
  <2> QED BY <1>1, <2>1, <2>2
<1>3. /\ Cardinality(DoneRequests) <= R
      /\ Cardinality(SettledTunnels) <= C
      /\ Cardinality(IdleTunnels) <= C
  <2>1. /\ DoneRequests \in SUBSET Requests
        /\ SettledTunnels \in SUBSET Conns /\ IdleTunnels \in SUBSET Conns
      BY DEF DoneRequests, SettledTunnels, IdleTunnels
  <2> QED BY <1>1, <2>1, FS_Subset
<1>4. {served, failed, tunneling, panics} \subseteq 0 .. 2 * (C + R)
    BY <1>1, <1>3, CountedSizes DEF Accounts
<1> QED BY <1>2, <1>4 DEF Limit

\* Nothing read yet is within the bounds.
LEMMA ZeroInLimit == 0 \in Limit
<1>1. IsFiniteSet(Conns \cup Requests)
    BY FiniteAssumption, FS_Union
<1> QED BY <1>1, FS_CardinalityType DEF Limit

\* No counter of Shutdown's comparison ever falls.
LEMMA CountersGrow ==
    ASSUME TypeOK, PlainInv, Accounts, [ServerNext]_serverVars
    PROVE  /\ served <= served' /\ failed <= failed' /\ tunneling <= tunneling'
           /\ counted \subseteq counted'
<1>1. {served, failed, tunneling, panics} \subseteq Nat
    BY DEF Accounts
<1>2. served <= served' /\ failed <= failed' /\ tunneling <= tunneling'
    BY <1>1, EveryStepCounts DEF CountsNothing, TunnelSettles, TunnelLeaves,
       RequestLeaves
<1>3. counted \subseteq counted'
  <2>1. ASSUME NEW c \in Conns, TunnelStep(c) PROVE counted \subseteq counted'
      BY <2>1 DEF TunnelStep, Take, StartTunnel, CountAccepted, TunnelFails,
                  TunnelCreates, TunnelInitTasks, TunnelRegisters,
                  TunnelMoves, TunnelLoopEnds, TunnelReturns, TunnelPanics,
                  countVars
  <2>2. ASSUME NEW r \in Requests, RequestStep(r)
        PROVE counted \subseteq counted'
      BY <2>2 DEF RequestStep, Take, StartRequest, CountAccepted,
                  RequestRefused, GetClient, AddTask, AddTaskPanics,
                  GetTunnel, NoTunnelPanics, StartTask, TaskEnds,
                  TunnelWriteFails, RemoveTask, Unwind, countVars
  <2>3. CASE StopStep
      BY <2>3 DEF StopStep, BeginShutdown, BeginClose, ReadCounter, Compare,
                  CompareAgain, ShutdownTasks, CloseTasks, ShutdownTunnels,
                  CloseTunnels, NextRound, Stopped, countVars
  <2>4. CASE UNCHANGED serverVars
      BY <2>4 DEF serverVars, countVars
  <2> QED BY <2>1, <2>2, <2>3, <2>4 DEF ServerNext
<1> QED BY <1>2, <1>3

\* A step of a connection leaves Shutdown where it is, and once the listeners
\* are closed nothing is taken any more.
LEMMA ConnectionSteps ==
    ASSUME PlainInv,
           \/ \E c \in Conns : TunnelStep(c)
           \/ \E r \in Requests : RequestStep(r)
    PROVE  /\ UNCHANGED <<spc, read, late>>
           /\ spc # "running" => taken' \subseteq taken
           /\ spc # "running" /\ taken = {} => counted' = counted
<1>1. ASSUME NEW x, Take(x)
      PROVE  UNCHANGED <<spc, read, late>> /\ spc = "running"
    BY <1>1 DEF Take, stopVars
<1>2. ASSUME NEW c \in Conns, TunnelStep(c), ~Take(c)
      PROVE  /\ UNCHANGED <<spc, read, late>> /\ taken' \subseteq taken
             /\ taken = {} => counted' = counted
    BY <1>2 DEF TunnelStep, StartTunnel, CountAccepted, TunnelFails,
                TunnelCreates, TunnelInitTasks, TunnelRegisters, TunnelMoves,
                TunnelLoopEnds, TunnelReturns, TunnelPanics, countVars,
                stopVars
<1>3. ASSUME NEW r \in Requests, RequestStep(r), ~Take(r)
      PROVE  /\ UNCHANGED <<spc, read, late>> /\ taken' \subseteq taken
             /\ taken = {} => counted' = counted
    BY <1>3 DEF RequestStep, StartRequest, CountAccepted, RequestRefused,
                GetClient, AddTask, AddTaskPanics, GetTunnel, NoTunnelPanics,
                StartTask, TaskEnds, TunnelWriteFails, RemoveTask, Unwind,
                countVars, stopVars
<1> QED BY <1>1, <1>2, <1>3

LEMMA ReadStep ==
    TypeOK /\ PlainInv /\ Accounts /\ ReadKnows /\ [ServerNext]_serverVars
        => ReadKnows'
<1> SUFFICES ASSUME TypeOK, PlainInv, Accounts, ReadKnows,
                    [ServerNext]_serverVars
             PROVE ReadKnows'
    OBVIOUS
<1>1. /\ {served, failed, tunneling, panics} \subseteq Nat
      /\ {served, failed} \subseteq Limit
    BY CountersBounded DEF Accounts
<1>2. served <= served' /\ failed <= failed' /\ served' \in Nat /\ failed' \in Nat
    BY CountersGrow, AccountsStep DEF Accounts
<1>3. Limit \subseteq Nat
    BY DEF Limit
<1>4. ASSUME \/ \E c \in Conns : TunnelStep(c)
             \/ \E r \in Requests : RequestStep(r)
      PROVE ReadKnows'
  <2>1. /\ UNCHANGED <<spc, read, late>>
        /\ spc # "running" => taken' \subseteq taken
        /\ spc # "running" /\ taken = {} => counted' = counted
      BY <1>4, ConnectionSteps
  <2>2. read.served \in Nat /\ read.failed \in Nat
      BY <1>3 DEF ReadKnows
  <2> QED BY <1>1, <1>2, <2>1, <2>2 DEF ReadKnows
<1>5. CASE UNCHANGED serverVars
    BY <1>5 DEF serverVars, countVars, stopVars, ReadKnows
<1>6. CASE StopStep
  <2> USE DEF ReadKnows, countVars, SGoto
  <2>1. CASE BeginShutdown \/ BeginClose
      BY <2>1 DEF BeginShutdown, BeginClose
  <2>2. CASE ReadCounter
    <3>1. Cardinality(counted) \in Limit
      <4>1. IsFiniteSet(Conns \cup Requests)
          BY FiniteAssumption, FS_Union
      <4>2. /\ Cardinality(counted) \in Nat
            /\ Cardinality(Conns \cup Requests) \in Nat
            /\ Cardinality(counted) <= Cardinality(Conns \cup Requests)
          BY <4>1, FS_Subset, FS_CardinalityType DEF PlainInv, PlainTypes
      <4> QED BY <4>2 DEF Limit
    <3>2. UNCHANGED <<served, failed, taken, counted, late>>
        BY <2>2 DEF ReadCounter
    <3>3. CASE spc = "readAccepted"
      <4>1. /\ read' = [accepted |-> Cardinality(counted),
                        served |-> read.served, failed |-> read.failed]
            /\ spc' = "readServed"
          BY <2>2, <3>3 DEF ReadCounter
      <4> QED BY <3>1, <3>2, <3>3, <4>1
    <3>4. CASE spc = "readServed"
      <4>1. /\ read' = [accepted |-> read.accepted, served |-> served,
                        failed |-> read.failed]
            /\ spc' = "readFailed"
          BY <2>2, <3>4 DEF ReadCounter
      <4> QED BY <1>1, <3>2, <3>4, <4>1
    <3>5. CASE spc = "readFailed"
      <4>1. /\ read' = [accepted |-> read.accepted, served |-> read.served,
                        failed |-> failed]
            /\ spc' = "readTunneling"
          BY <2>2, <3>5 DEF ReadCounter
      <4> QED BY <1>1, <3>2, <3>5, <4>1
    <3> QED BY <2>2, <3>3, <3>4, <3>5 DEF ReadCounter
  <2>3. CASE Compare \/ CompareAgain
    <3>1. NothingRead \in [accepted : Limit, served : Limit, failed : Limit]
        BY ZeroInLimit DEF NothingRead
    <3> QED BY <2>3, <3>1 DEF Compare, CompareAgain
  <2>4. CASE \/ ShutdownTunnels \/ CloseTunnels \/ NextRound \/ Stopped
             \/ \E i \in Ids : ShutdownTasks(i) \/ CloseTasks(i)
      BY <2>4 DEF ShutdownTunnels, CloseTunnels, NextRound, Stopped,
                  ShutdownTasks, CloseTasks
  <2> QED BY <1>6, <2>1, <2>2, <2>3, <2>4 DEF StopStep
<1> QED BY <1>4, <1>5, <1>6 DEF ServerNext

LEMMA ReadInductive == ServerSpec => []ReadKnows
<1>1. ServerInit => ReadKnows
    BY ZeroInLimit DEF ServerInit, NothingRead, ReadKnows
<1> QED BY <1>1, AccountsInductive, ReadStep, PTL DEF ServerSpec

\* When Shutdown's loop ends by its count and neither a panic nor a
\* connection taken but not counted when the listeners closed disturbed the
\* counters, no request is in flight (server/server.go:484-490).
THEOREM ShutdownCountsRight == ServerSpec => []CountTestSound
<1>1. PlainInv /\ Accounts /\ ReadKnows => CountTestSound
  <2> SUFFICES ASSUME PlainInv, Accounts, ReadKnows,
                      spc = "readTunneling", panics = 0, late = {},
                      read.accepted = read.served + read.failed + tunneling
               PROVE counted = Settled
      BY DEF CountTestSound
  <2>1. /\ read.accepted = Cardinality(counted)
        /\ read.served <= served /\ read.failed <= failed
        /\ read.served \in Nat /\ read.failed \in Nat
      BY DEF ReadKnows, Limit
  <2>2. served + failed + tunneling = Cardinality(Settled)
      BY SettledSize, CountedSizes DEF Accounts
  <2>3. Settled \in SUBSET counted
    <3>1. {r \in Requests : rpc[r] = "done"} \subseteq counted
        BY DEF PlainInv, CountedOnce
    <3> QED BY <3>1 DEF Settled
  <2>4. IsFiniteSet(counted)
    <3>1. IsFiniteSet(Conns \cup Requests)
        BY FiniteAssumption, FS_Union
    <3> QED BY <3>1, FS_Subset DEF PlainInv, PlainTypes
  <2>5. /\ Cardinality(Settled) <= Cardinality(counted)
        /\ Cardinality(counted) = Cardinality(Settled) => counted = Settled
        /\ Cardinality(counted) \in Nat /\ Cardinality(Settled) \in Nat
      BY <2>3, <2>4, FS_Subset, FS_CardinalityType
  <2>6. {served, failed, tunneling} \subseteq Nat
      BY DEF Accounts
  <2> QED BY <2>1, <2>2, <2>5, <2>6
<1> QED BY <1>1, AccountsInductive, ReadInductive, PTL

\* The state of the server stays well typed, with every counter below twice
\* the number of connections (server/server.go:389-456).
THEOREM ServerTypeCorrect == ServerSpec => []ServerTypeOK
<1>1. TypeOK /\ PlainInv /\ Accounts /\ ReadKnows /\ TaskCounts
        => ServerTypeOK
  <2> SUFFICES ASSUME TypeOK, PlainInv, Accounts, ReadKnows, TaskCounts
               PROVE ServerTypeOK
      OBVIOUS
  <2>1. {served, failed, tunneling, panics} \subseteq Limit
      BY CountersBounded
  <2>2. tasksCount \in [Conns -> 0 .. Cardinality(Requests)]
    <3>1. Begun \in SUBSET Requests
        BY DEF Begun
    <3>2. /\ Cardinality(Begun) <= Cardinality(Requests)
          /\ Cardinality(Begun) \in Nat /\ Cardinality(Requests) \in Nat
        BY <3>1, FS_Subset, FS_CardinalityType, FiniteAssumption
    <3> QED BY <3>2 DEF TaskCounts
  <2> QED BY <2>1, <2>2 DEF ServerTypeOK, PlainInv, PlainTypes, ReadKnows
<1> QED BY <1>1, AccountsInductive, ReadInductive, TaskCountsInductive, PTL
=============================================================================
