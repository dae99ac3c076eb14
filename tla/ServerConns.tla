---------------------------- MODULE ServerConns ----------------------------
(***************************************************************************)
(* All the connections of the server: the tunnel handlers of AgentRegistry *)
(* together with the public connections (handleHTTP, handleSNI) that look  *)
(* an agent up, put themselves into its task map, choose one of its        *)
(* tunnels and copy requests into it; and Server.Shutdown or Server.Close, *)
(* which run against all of them.                                          *)
(*                                                                         *)
(* A connection is used once, so that the four counters Shutdown compares  *)
(* stay bounded.  The task id of a public connection is the connection:    *)
(* ids do not wrap in one run.  This is the release build: a panic in a    *)
(* handler is recovered by conn.handle.  The closing of public connections *)
(* is not kept: a request ends by its peer or its read deadline, with or   *)
(* without it.                                                             *)
(***************************************************************************)
EXTENDS AgentRegistry

CONSTANTS
    Requests,     \* public connections
    MaxAccepted,  \* bound: connections taken from the listeners in one run
    NoTunnel

ASSUME DisjointAssumption == Requests \cap Conns = {}
ASSUME NoTunnelAssumption == NoTunnel \notin Conns
\* One run of the server accepts finitely many connections.
ASSUME FiniteAssumption == IsFiniteSet(Conns) /\ IsFiniteSet(Requests)

VARIABLES
    taken,       \* Accept returned them, accepted is not yet incremented
    counted,     \* connections counted in Server.accepted
    served, failed, tunneling,   \* Server's counters
    panics,      \* recovered panics (history)
    rpc,         \* where the handler of a public connection is
    rcli,        \* the client object it found
    rtun,        \* the tunnel getTunnel chose for it
    tasks,       \* tasks[k]: client.tasks
    tasksLocked, \* tasksLocked[k]: tasksRWMtx is never released again
    tasksCount,  \* Connection.TasksCount of a tunnel
    closing,     \* tunnels with Connection.Closing set
    closed,      \* tunnels whose socket the server closed
    told,        \* tunnels sent a close signal
    spc,         \* where Shutdown or Close is
    read,        \* the counters Shutdown has read in this round
    todo,        \* ids its Range has still to visit
    visit,       \* the client object it is at
    late         \* taken when the listeners closed (history)

countVars   == <<taken, counted, served, failed, tunneling, panics>>
requestVars == <<rpc, rcli, rtun, tasks, tasksLocked, tasksCount>>
socketVars  == <<closing, closed, told>>
stopVars    == <<spc, read, todo, visit, late>>
serverVars  == <<registryVars, countVars, requestVars, socketVars, stopVars>>

RequestSteps == {"none", "parse", "found", "getTunnel", "count", "copy",
                 "removeTask", "unwind", "done"}
StopSteps == {"running", "readAccepted", "readServed", "readFailed",
              "readTunneling", "range", "rangeTunnels", "closeAll",
              "closeTunnels", "stopped"}
Limit == 0 .. 2 * Cardinality(Conns \cup Requests)

ServerTypeOK ==
    /\ TypeOK
    /\ taken \in SUBSET (Conns \cup Requests)
    /\ counted \in SUBSET (Conns \cup Requests)
    /\ {served, failed, tunneling, panics} \subseteq Limit
    /\ rpc \in [Requests -> RequestSteps]
    /\ rcli \in [Requests -> Clients \cup {NoClient}]
    /\ rtun \in [Requests -> Conns \cup {NoTunnel}]
    /\ tasks \in [Clients -> SUBSET Requests]
    /\ tasksLocked \in [Clients -> BOOLEAN]
    /\ tasksCount \in [Conns -> 0 .. Cardinality(Requests)]
    /\ {closing, closed} \subseteq SUBSET Conns
    /\ told \in SUBSET Conns
    /\ spc \in StopSteps
    /\ read \in [accepted : Limit, served : Limit, failed : Limit]
    /\ todo \in SUBSET Ids
    /\ visit \in Clients \cup {NoClient}
    /\ late \in SUBSET (Conns \cup Requests)

NothingRead == [accepted |-> 0, served |-> 0, failed |-> 0]

ServerInit ==
    /\ RegistryInit
    /\ taken = {} /\ counted = {}
    /\ served = 0 /\ failed = 0 /\ tunneling = 0 /\ panics = 0
    /\ rpc = [r \in Requests |-> "none"]
    /\ rcli = [r \in Requests |-> NoClient]
    /\ rtun = [r \in Requests |-> NoTunnel]
    /\ tasks = [k \in Clients |-> {}]
    /\ tasksLocked = [k \in Clients |-> FALSE]
    /\ tasksCount = [c \in Conns |-> 0]
    /\ closing = {} /\ closed = {} /\ told = {}
    /\ spc = "running"
    /\ read = NothingRead
    /\ todo = {} /\ visit = NoClient /\ late = {}

(* Connection.Close: only the first of Close and Shutdown has an effect, so  *)
(* a connection that Shutdown marked is never closed by the server.          *)
CloseConn(x) ==
    /\ closing' = closing \cup {x}
    /\ closed' = IF x \in closing THEN closed ELSE closed \cup {x}

(***************************************************************************)
(* acceptLoop: the listener hands a connection over, then it is counted    *)
(* and its handler starts.  Closing the listeners stops the first of these *)
(* steps, not the second.                                                  *)
(***************************************************************************)
Take(x) ==
    /\ spc = "running"
    /\ x \notin taken \cup counted
    /\ Cardinality(taken \cup counted) < MaxAccepted
    /\ taken' = taken \cup {x}
    /\ UNCHANGED <<registryVars, counted, served, failed, tunneling, panics,
                   requestVars, socketVars, stopVars>>

CountAccepted(x) ==
    /\ x \in taken
    /\ taken' = taken \ {x}
    /\ counted' = counted \cup {x}
    /\ UNCHANGED <<served, failed, tunneling, panics>>

StartTunnel(c) ==
    /\ CountAccepted(c)
    /\ Accept(c)
    /\ UNCHANGED <<requestVars, socketVars, stopVars>>

StartRequest(r) ==
    /\ CountAccepted(r)
    /\ rpc' = [rpc EXCEPT ![r] = "parse"]
    /\ UNCHANGED <<registryVars, rcli, rtun, tasks, tasksLocked, tasksCount,
                   socketVars, stopVars>>

(***************************************************************************)
(* The tunnel handlers, with the counters and sockets conn.handle keeps.   *)
(***************************************************************************)
\* Mutation: the failure is not counted.
TunnelFailsUncounted(c) ==
    /\ HandshakeFails(c) \/ GiveUp(c)
    /\ CloseConn(c)
    /\ UNCHANGED <<countVars, requestVars, told, stopVars>>

\* conn.handle's deferred function after handleTunnel returned false.
TunnelFails(c) ==
    /\ HandshakeFails(c) \/ GiveUp(c)
    /\ CloseConn(c)
    /\ failed' = failed + 1
    /\ UNCHANGED <<taken, counted, served, tunneling, panics,
                   requestVars, told, stopVars>>

TunnelCreates(c) ==
    /\ LookupCreate(c)
    /\ cli'[c] # visit /\ \A r \in Requests : rcli[r] # cli'[c]
    /\ tasks' = [tasks EXCEPT ![cli'[c]] = {}]
    /\ tasksLocked' = [tasksLocked EXCEPT ![cli'[c]] = FALSE]
    /\ UNCHANGED <<countVars, rpc, rcli, rtun, tasksCount, socketVars,
                   stopVars>>

TunnelInitTasks(c) ==
    /\ InitTasks(c)
    /\ ~tasksLocked[cli[c]]
    /\ UNCHANGED <<countVars, requestVars, socketVars, stopVars>>

TunnelRegisters(c) ==
    /\ AddTunnel(c)
    /\ tunneling' = tunneling + 1
    /\ UNCHANGED <<taken, counted, served, failed, panics,
                   requestVars, socketVars, stopVars>>

TunnelMoves(c) ==
    /\ \/ Authenticate(c) \/ ReadOption(c) \/ LookupExisting(c)
       \/ InitTunnels(c) \/ AddRefused(c)
       \/ RemoveLastTunnel(c) \/ RemoveClientThenUser(c)
    /\ UNCHANGED <<countVars, requestVars, socketVars, stopVars>>

\* readLoop returns because the peer or the server closed the connection.
TunnelLoopEnds(c) ==
    /\ LoopEnds(c)
    /\ UNCHANGED <<countVars, requestVars, socketVars, stopVars>>

\* Mutation: handled is still false.
TunnelReturnsUnhandled(c) ==
    /\ RemoveTunnel(c) \/ RemoveClientOnly(c) \/ RemoveUser(c)
    /\ CloseConn(c)
    /\ failed' = failed + 1
    /\ UNCHANGED <<taken, counted, served, tunneling, panics, requestVars,
                   told, stopVars>>

TunnelReturns(c) ==
    /\ RemoveTunnel(c) \/ RemoveClientOnly(c) \/ RemoveUser(c)
    /\ CloseConn(c)
    /\ UNCHANGED <<countVars, requestVars, told, stopVars>>

\* handled was not assigned when the deferred removeTunnel panics.
TunnelPanics(c) ==
    /\ RemoveClientPanics(c)
    /\ CloseConn(c)
    /\ failed' = failed + 1
    /\ panics' = panics + 1
    /\ UNCHANGED <<taken, counted, served, tunneling,
                   requestVars, told, stopVars>>

(***************************************************************************)
(* The handler of a public connection.                                     *)
(***************************************************************************)
RGoto(r, step) == rpc' = [rpc EXCEPT ![r] = step]

\* handleHTTP's and handleSNI's deferred function counts every return as
\* served.
Served(r) ==
    /\ RGoto(r, "done")
    /\ rcli' = [rcli EXCEPT ![r] = NoClient]
    /\ rtun' = [rtun EXCEPT ![r] = NoTunnel]
    /\ served' = served + 1

\* A panic is counted as served by the handler's deferred function and as
\* failed by conn.handle's, to which no result was assigned.
PanicReturns(r) ==
    /\ Served(r)
    /\ failed' = failed + 1
    /\ panics' = panics + 1

\* Mutation: a refused request is counted twice.
RequestRefusedTwice(r) ==
    /\ rpc[r] = "parse"
    /\ Served(r)
    /\ failed' = failed + 1
    /\ UNCHANGED <<registryVars, taken, counted, tunneling, panics,
                   tasks, tasksLocked, tasksCount, socketVars, stopVars>>

\* The host or header cannot be read or parsed, or no agent has the id.
RequestRefused(r) ==
    /\ rpc[r] = "parse"
    /\ Served(r)
    /\ UNCHANGED <<registryVars, taken, counted, failed, tunneling, panics,
                   tasks, tasksLocked, tasksCount, socketVars, stopVars>>

GetClient(r) ==
    /\ rpc[r] = "parse"
    /\ \E i \in Ids :
          /\ id2Agent[i] # NoClient
          /\ rcli' = [rcli EXCEPT ![r] = id2Agent[i]]
    /\ RGoto(r, "found")
    /\ UNCHANGED <<registryVars, countVars, rtun, tasks, tasksLocked,
                   tasksCount, socketVars, stopVars>>

AddTask(r) ==
    /\ rpc[r] = "found" /\ ~tasksLocked[rcli[r]] /\ tasksMade[rcli[r]]
    /\ tasks' = [tasks EXCEPT ![rcli[r]] = @ \cup {r}]
    /\ RGoto(r, "getTunnel")
    /\ UNCHANGED <<registryVars, countVars, rcli, rtun, tasksLocked,
                   tasksCount, socketVars, stopVars>>

\* The object is published before client.init made its task map: the write
\* to the nil map panics while tasksRWMtx is held.
AddTaskPanics(r) ==
    /\ rpc[r] = "found" /\ ~tasksLocked[rcli[r]] /\ ~tasksMade[rcli[r]]
    /\ tasksLocked' = [tasksLocked EXCEPT ![rcli[r]] = TRUE]
    /\ PanicReturns(r)
    /\ UNCHANGED <<registryVars, taken, counted, tunneling,
                   tasks, tasksCount, socketVars, stopVars>>

\* A tunnel with the fewest tasks, under tunnelsRWMtx.
GetTunnel(r) ==
    /\ rpc[r] = "getTunnel" /\ ~locked[rcli[r]]
    /\ \E c \in tunnels[rcli[r]] :
          /\ \A d \in tunnels[rcli[r]] : tasksCount[c] <= tasksCount[d]
          /\ rtun' = [rtun EXCEPT ![r] = c]
    /\ RGoto(r, "count")
    /\ UNCHANGED <<registryVars, countVars, rcli, tasks, tasksLocked,
                   tasksCount, socketVars, stopVars>>

\* The last tunnel left meanwhile: getTunnel returns nil, which process
\* dereferences; the deferred removeTask still runs.
NoTunnelPanics(r) ==
    /\ rpc[r] = "getTunnel" /\ ~locked[rcli[r]]
    /\ tunnels[rcli[r]] = {}
    /\ RGoto(r, "unwind")
    /\ UNCHANGED <<registryVars, countVars, rcli, rtun, tasks, tasksLocked,
                   tasksCount, socketVars, stopVars>>

\* Mutation: the task is not counted.
StartTaskUncounted(r) ==
    /\ rpc[r] = "count"
    /\ RGoto(r, "copy")
    /\ UNCHANGED <<registryVars, countVars, rcli, rtun, tasks, tasksLocked,
                   tasksCount, socketVars, stopVars>>

StartTask(r) ==
    /\ rpc[r] = "count"
    /\ tasksCount' = [tasksCount EXCEPT ![rtun[r]] = @ + 1]
    /\ RGoto(r, "copy")
    /\ UNCHANGED <<registryVars, countVars, rcli, rtun, tasks, tasksLocked,
                   socketVars, stopVars>>

\* Mutation: the count of the tunnel is kept.
TaskEndsStillCounted(r) ==
    /\ rpc[r] = "copy" /\ rtun[r] \notin closed
    /\ RGoto(r, "removeTask")
    /\ UNCHANGED <<registryVars, countVars, rcli, rtun, tasks, tasksLocked,
                   tasksCount, socketVars, stopVars>>

\* The public side ended and the close frame was written.  The tunnel that
\* loses its last task while it shuts down is told to close; the Close that
\* follows is one of a connection already marked, so it does nothing.
TaskEnds(r) ==
    /\ rpc[r] = "copy" /\ rtun[r] \notin closed
    /\ tasksCount' = [tasksCount EXCEPT ![rtun[r]] = @ - 1]
    /\ told' = IF tasksCount[rtun[r]] = 1 /\ rtun[r] \in closing
               THEN told \cup {rtun[r]} ELSE told
    /\ RGoto(r, "removeTask")
    /\ UNCHANGED <<registryVars, countVars, rcli, rtun, tasks, tasksLocked,
                   closing, closed, stopVars>>

\* A write to the tunnel failed: the tunnel is closed, its count stays.
TunnelWriteFails(r) ==
    /\ rpc[r] = "copy"
    /\ CloseConn(rtun[r])
    /\ RGoto(r, "removeTask")
    /\ UNCHANGED <<registryVars, countVars, rcli, rtun, tasks, tasksLocked,
                   tasksCount, told, stopVars>>

RemoveTask(r) ==
    /\ rpc[r] = "removeTask" /\ ~tasksLocked[rcli[r]]
    /\ tasks' = [tasks EXCEPT ![rcli[r]] = @ \ {r}]
    /\ Served(r)
    /\ UNCHANGED <<registryVars, taken, counted, failed, tunneling, panics,
                   tasksLocked, tasksCount, socketVars, stopVars>>

Unwind(r) ==
    /\ rpc[r] = "unwind" /\ ~tasksLocked[rcli[r]]
    /\ tasks' = [tasks EXCEPT ![rcli[r]] = @ \ {r}]
    /\ PanicReturns(r)
    /\ UNCHANGED <<registryVars, taken, counted, tunneling,
                   tasksLocked, tasksCount, socketVars, stopVars>>

(***************************************************************************)
(* Shutdown and Close.  Either may win the flag; the listeners close.      *)
(***************************************************************************)
SGoto(step) == spc' = step

Visit(i) == visit' = id2Agent[i] /\ todo' = todo \ {i}

RegisteredIds == {i \in Ids : id2Agent[i] # NoClient}

BeginShutdown ==
    /\ spc = "running"
    /\ SGoto("readAccepted")
    /\ late' = taken
    /\ UNCHANGED <<registryVars, countVars, requestVars, socketVars,
                   read, todo, visit>>

BeginClose ==
    /\ spc = "running"
    /\ SGoto("closeAll")
    /\ late' = taken
    /\ todo' = RegisteredIds
    /\ UNCHANGED <<registryVars, countVars, requestVars, socketVars,
                   read, visit>>

\* The four counters are loaded one after the other.
ReadCounter ==
    /\ \/ /\ spc = "readAccepted" /\ SGoto("readServed")
          /\ read' = [read EXCEPT !.accepted = Cardinality(counted)]
       \/ /\ spc = "readServed" /\ SGoto("readFailed")
          /\ read' = [read EXCEPT !.served = served]
       \/ /\ spc = "readFailed" /\ SGoto("readTunneling")
          /\ read' = [read EXCEPT !.failed = failed]
    /\ UNCHANGED <<registryVars, countVars, requestVars, socketVars,
                   todo, visit, late>>

\* Equal counts, or no registered agent at all, end the loop.
Compare ==
    /\ spc = "readTunneling"
    /\ \/ read.accepted = read.served + read.failed + tunneling
       \/ RegisteredIds = {}
    /\ SGoto("closeAll")
    /\ todo' = RegisteredIds
    /\ read' = NothingRead
    /\ UNCHANGED <<registryVars, countVars, requestVars, socketVars,
                   visit, late>>

CompareAgain ==
    /\ spc = "readTunneling"
    /\ read.accepted # read.served + read.failed + tunneling
    /\ RegisteredIds # {}
    /\ SGoto("range")
    /\ todo' = RegisteredIds
    /\ read' = NothingRead
    /\ UNCHANGED <<registryVars, countVars, requestVars, socketVars,
                   visit, late>>

\* client.shutdown marks its tasks, then its tunnels, under their locks; of
\* the tasks only that their lock has to be free is kept.
\* Range passes over an entry that is gone when it gets there.
ShutdownTasks(i) ==
    /\ spc = "range" /\ i \in todo
    /\ id2Agent[i] # NoClient
    /\ ~tasksLocked[id2Agent[i]]
    /\ Visit(i)
    /\ SGoto("rangeTunnels")
    /\ UNCHANGED <<registryVars, countVars, requestVars, socketVars,
                   read, late>>

ShutdownTunnels ==
    /\ spc = "rangeTunnels" /\ ~locked[visit]
    /\ closing' = closing \cup tunnels[visit]
    /\ visit' = NoClient
    /\ SGoto("range")
    /\ UNCHANGED <<registryVars, countVars, requestVars, closed, told,
                   read, todo, late>>

\* The round is over; Shutdown sleeps and counts again.
NextRound ==
    /\ spc = "range" /\ todo \cap RegisteredIds = {}
    /\ todo' = {}
    /\ SGoto("readAccepted")
    /\ UNCHANGED <<registryVars, countVars, requestVars, socketVars,
                   read, visit, late>>

\* client.close closes its tasks, then tells and closes its tunnels; of the
\* tasks only that their lock has to be free is kept.
CloseTasks(i) ==
    /\ spc = "closeAll" /\ i \in todo
    /\ id2Agent[i] # NoClient
    /\ ~tasksLocked[id2Agent[i]]
    /\ Visit(i)
    /\ SGoto("closeTunnels")
    /\ UNCHANGED <<registryVars, countVars, requestVars, socketVars,
                   read, late>>

CloseTunnels ==
    /\ spc = "closeTunnels" /\ ~locked[visit]
    /\ told' = told \cup tunnels[visit]
    /\ closing' = closing \cup tunnels[visit]
    /\ closed' = closed \cup (tunnels[visit] \ closing)
    /\ visit' = NoClient
    /\ SGoto("closeAll")
    /\ UNCHANGED <<registryVars, countVars, requestVars, read, todo, late>>

Stopped ==
    /\ spc = "closeAll" /\ todo \cap RegisteredIds = {}
    /\ todo' = {}
    /\ SGoto("stopped")
    /\ UNCHANGED <<registryVars, countVars, requestVars, socketVars,
                   read, visit, late>>

TunnelStep(c) ==
    \/ Take(c) \/ StartTunnel(c)
    \/ TunnelFails(c) \/ TunnelCreates(c) \/ TunnelInitTasks(c)
    \/ TunnelRegisters(c) \/ TunnelMoves(c) \/ TunnelLoopEnds(c)
    \/ TunnelReturns(c) \/ TunnelPanics(c)

RequestStep(r) ==
    \/ Take(r) \/ StartRequest(r)
    \/ RequestRefused(r) \/ GetClient(r)
    \/ AddTask(r) \/ AddTaskPanics(r)
    \/ GetTunnel(r) \/ NoTunnelPanics(r)
    \/ StartTask(r) \/ TaskEnds(r) \/ TunnelWriteFails(r)
    \/ RemoveTask(r) \/ Unwind(r)

StopStep ==
    \/ BeginShutdown \/ BeginClose
    \/ ReadCounter \/ Compare \/ CompareAgain
    \/ \E i \in Ids : ShutdownTasks(i) \/ CloseTasks(i)
    \/ ShutdownTunnels \/ CloseTunnels
    \/ NextRound \/ Stopped

ServerNext ==
    \/ \E c \in Conns : TunnelStep(c)
    \/ \E r \in Requests : RequestStep(r)
    \/ StopStep

ServerSpec == ServerInit /\ [][ServerNext]_serverVars

\* Goroutines that can run do.  A handshake ends because its reads have a
\* deadline; a tunnel's readLoop must end only once its socket is closed (an
\* agent keeps an idle tunnel open with pings); the public side of a request
\* ends at the latest when its read deadline passes.
TunnelProgress(c) ==
    \/ StartTunnel(c) \/ TunnelFails(c) \/ TunnelCreates(c)
    \/ TunnelInitTasks(c) \/ TunnelRegisters(c) \/ TunnelMoves(c)
    \/ c \in closed /\ TunnelLoopEnds(c)
    \/ TunnelReturns(c) \/ TunnelPanics(c)

RequestProgress(r) == rpc[r] # "none" /\ RequestStep(r)

ShutdownProgress == spc # "running" /\ StopStep

ServerFairness ==
    /\ \A c \in Conns : WF_serverVars(TunnelProgress(c))
    /\ \A r \in Requests :
          /\ WF_serverVars(StartRequest(r))
          /\ WF_serverVars(RequestProgress(r))
    /\ WF_serverVars(ShutdownProgress)

ServerFairSpec == ServerSpec /\ ServerFairness

-----------------------------------------------------------------------------
(* Properties *)

\* TasksCount is the number of requests being copied into the tunnel until
\* the tunnel is closed or marked by a shutdown, and never less: getTunnel's
\* choice and the close signal of a tunnel that shuts down rely on it.  A
\* marked tunnel keeps the count of a request whose write failed, because the
\* Close that should then end it does nothing (server/client.go:67-83,
\* server/conn.go:416-440).
TasksCountExact ==
    \A c \in Conns :
        LET copying == {r \in Requests : rpc[r] = "copy" /\ rtun[r] = c}
        IN  /\ tasksCount[c] >= Cardinality(copying)
            /\ c \notin closing => tasksCount[c] = Cardinality(copying)

\* Connections whose handling the counters should show: public connections
\* that are done, tunnels that failed or registered.
Settled ==
    {r \in Requests : rpc[r] = "done"}
    \cup {c \in counted \cap Conns : pc[c] \notin
              {"auth", "option", "lookup", "init", "initTasks", "add"}}

\* Every accepted connection is accounted for once in served, failed and
\* tunneling, and once more for each recovered panic, so without panics
\* Shutdown's comparison is a comparison with the connections in flight
\* (server/server.go:484-488).
AccountsBalance ==
    served + failed + tunneling = Cardinality(Settled) + panics

\* When Shutdown's loop ends by its count and neither a panic nor a
\* connection taken but not counted when the listeners closed disturbed the
\* counters, no request is in flight: nothing is cut off
\* (server/server.go:484-490).
CountTestSound ==
    spc = "readTunneling" /\ panics = 0 /\ late = {}
    /\ read.accepted = read.served + read.failed + tunneling
        => counted = Settled

\* A lock that a panic left held for ever.
LostLock == \E k \in Clients : tasksLocked[k]

\* Every request that started ends, unless the lock of the task map of some
\* client object was lost in a panic (server/conn.go:416-473,
\* server/client.go:33-44).
RequestsEnd ==
    \A r \in Requests : rpc[r] = "parse" ~> rpc[r] = "done" \/ LostLock

\* A tunnel handler whose user was accepted comes to serve or gives up; the
\* retries and the locks stop it only if a lock was lost
\* (server/conn.go:244-260).
HandshakeSettles ==
    \A c \in Conns :
        pc[c] = "lookup" ~> pc[c] \in {"loop", "idle"} \/ LostLock

\* Shutdown and Close come to an end unless a handler panicked.
StopsWithoutPanics == spc # "running" ~> spc = "stopped" \/ panics > 0

\* "Shutdown stops the server gracefully." (server/server.go:461)
ShutdownEnds == spc # "running" ~> spc = "stopped"
=============================================================================
