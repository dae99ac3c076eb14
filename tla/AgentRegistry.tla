--------------------------- MODULE AgentRegistry ---------------------------
(***************************************************************************)
(* The server's registry of agents.  Every tunnel connection accepted by   *)
(* the server runs conn.handleTunnel in its own goroutine: it reads an id  *)
(* and a secret, authenticates them, finds or creates the client object of *)
(* the id in Server.id2Agent, registers itself in that object's tunnel     *)
(* map, serves, and unregisters.  The last tunnel to leave takes the       *)
(* client object out of the registry.                                      *)
(*                                                                         *)
(* Shared state: the two concurrent maps id2Agent and users (each call on  *)
(* them is one atomic step), and in every client object the tunnel map     *)
(* under tunnelsRWMtx.  A critical section that touches nothing shared     *)
(* beside what its lock protects is one step; the one that calls           *)
(* removeClient while it holds the lock is several.                        *)
(*                                                                         *)
(* Which authUser and removeClient run is chosen once, in Server.Start.    *)
(***************************************************************************)
EXTENDS Naturals, FiniteSets

CONSTANTS
    Conns,        \* tunnel connections; one is reused when its handler ended
    Ids,          \* agent ids
    Secrets,
    Clients,      \* client objects; one is reused when nothing refers to it
    MaxAttempts,  \* rounds of the get-or-create loop (5 in the code)
    NoClient, NoId, NoSecret, NoUser

ASSUME MaxAttemptsAssumption == MaxAttempts \in Nat \ {0}
ASSUME NoClientAssumption == NoClient \notin Clients
ASSUME NoIdAssumption == NoId \notin Ids
ASSUME NoUserAssumption ==
    NoUser \notin [secret : Secrets, temp : BOOLEAN]

VARIABLES
    mode,       \* the authUser / removeClient pair chosen by Start
    apiServer,  \* is the API server configured?
    apiCred,    \* the id and secret of the running API self check, or {}
    users,      \* Server.users: id -> user
    id2Agent,   \* Server.id2Agent: id -> client object
    cid,        \* cid[k]: client.ID
    live,       \* live[k]: client.tunnels # nil
    tunnels,    \* tunnels[k]: the keys of client.tunnels
    tasksMade,  \* tasksMade[k]: client.tasks # nil
    locked,     \* locked[k]: tunnelsRWMtx is held across steps
    pc,         \* where the handler of a connection is
    reqId,      \* the id its handshake presented
    reqSecret,  \* the secret its handshake presented
    cli,        \* the client object its handler holds
    tries       \* rounds of the get-or-create loop begun

config     == <<mode, apiServer>>
objectVars == <<cid, live, tunnels, tasksMade, locked>>
handler    == <<pc, reqId, reqSecret, cli, tries>>
registryVars == <<config, apiCred, users, id2Agent, objectVars, handler>>

Modes == {"authAPI", "anyClient", "config", "anyClientWithUsers"}
User  == [secret : Secrets, temp : BOOLEAN]
Steps == {"idle", "auth", "option", "lookup", "init", "initTasks", "add",
          "loop", "remove", "rmClient", "rmUser"}

TypeOK ==
    /\ mode \in Modes
    /\ apiServer \in BOOLEAN
    /\ apiCred \in SUBSET (Ids \X Secrets)
    /\ users \in [Ids -> User \cup {NoUser}]
    /\ id2Agent \in [Ids -> Clients \cup {NoClient}]
    /\ cid \in [Clients -> Ids \cup {NoId}]
    /\ live \in [Clients -> BOOLEAN]
    /\ tunnels \in [Clients -> SUBSET Conns]
    /\ tasksMade \in [Clients -> BOOLEAN]
    /\ locked \in [Clients -> BOOLEAN]
    /\ pc \in [Conns -> Steps]
    /\ reqId \in [Conns -> Ids \cup {NoId}]
    /\ reqSecret \in [Conns -> Secrets \cup {NoSecret}]
    /\ cli \in [Conns -> Clients \cup {NoClient}]
    /\ tries \in [Conns -> 0 .. MaxAttempts]

(***************************************************************************)
(* Start: merge the configured users, then choose the mode.  Without an    *)
(* auth API and without users the server runs in allow-any-client mode.    *)
(***************************************************************************)
ConfiguredUsers == [Ids -> [secret : Secrets, temp : {FALSE}] \cup {NoUser}]

ChooseMode(u, m) ==
    \/ m = "authAPI"
    \/ m = "anyClient" /\ \A i \in Ids : u[i] = NoUser
    \/ m \in {"config", "anyClientWithUsers"} /\ \E i \in Ids : u[i] # NoUser

RegistryInit ==
    /\ users \in ConfiguredUsers
    /\ mode \in {m \in Modes : ChooseMode(users, m)}
    /\ apiServer \in BOOLEAN
    /\ apiCred = {}
    /\ id2Agent = [i \in Ids |-> NoClient]
    /\ cid = [k \in Clients |-> NoId]
    /\ live = [k \in Clients |-> FALSE]
    /\ tunnels = [k \in Clients |-> {}]
    /\ tasksMade = [k \in Clients |-> FALSE]
    /\ locked = [k \in Clients |-> FALSE]
    /\ pc = [c \in Conns |-> "idle"]
    /\ reqId = [c \in Conns |-> NoId]
    /\ reqSecret = [c \in Conns |-> NoSecret]
    /\ cli = [c \in Conns |-> NoClient]
    /\ tries = [c \in Conns |-> 0]

(***************************************************************************)
(* The API server's self check publishes a fresh id and secret while it    *)
(* runs; the id does not conflict with a known user.                       *)
(***************************************************************************)
APICheckBegin ==
    /\ apiServer /\ apiCred = {}
    /\ \E i \in Ids, s \in Secrets :
          users[i] = NoUser /\ apiCred' = {<<i, s>>}
    /\ UNCHANGED <<config, users, id2Agent, objectVars, handler>>

APICheckEnd ==
    /\ apiCred # {}
    /\ apiCred' = {}
    /\ UNCHANGED <<config, users, id2Agent, objectVars, handler>>

APIAuth(i, s) == apiServer /\ <<i, s>> \in apiCred

(***************************************************************************)
(* The handler of a connection.                                            *)
(***************************************************************************)
Goto(c, step) == pc' = [pc EXCEPT ![c] = step]

\* The handler returns; its connection is closed and nothing of it remains.
HandlerReturns(c) ==
    /\ Goto(c, "idle")
    /\ reqId' = [reqId EXCEPT ![c] = NoId]
    /\ reqSecret' = [reqSecret EXCEPT ![c] = NoSecret]
    /\ cli' = [cli EXCEPT ![c] = NoClient]
    /\ tries' = [tries EXCEPT ![c] = 0]

\* A connection with the tunnel version field arrived, its id and secret
\* are read.
Accept(c) ==
    /\ pc[c] = "idle"
    /\ \E i \in Ids, s \in Secrets :
          /\ reqId' = [reqId EXCEPT ![c] = i]
          /\ reqSecret' = [reqSecret EXCEPT ![c] = s]
    /\ Goto(c, "auth")
    /\ UNCHANGED <<config, apiCred, users, id2Agent, objectVars, cli, tries>>

\* users.auth: its named result stays true once the id is loaded, whatever
\* the secret is.
UsersAuth(i) == users[i] # NoUser

\* authUserWithConfig and authUserWithAPI refuse only when an API server is
\* there and refuses as well.
AuthOrAPIServer(ok, i, s) == ok \/ ~apiServer \/ APIAuth(i, s)

\* authUserOrCreateUser: the first secret seen for an id is stored.
AuthOrCreate(i, s) ==
    \/ /\ APIAuth(i, s)
       /\ UNCHANGED users
    \/ /\ ~APIAuth(i, s) /\ users[i] = NoUser
       /\ users' = [users EXCEPT ![i] = [secret |-> s, temp |-> TRUE]]
    \/ /\ ~APIAuth(i, s) /\ users[i] # NoUser /\ users[i].secret = s
       /\ UNCHANGED users

AuthUser(i, s) ==
    \/ /\ mode = "authAPI"   \* the auth service may answer either way
       /\ \E ok \in BOOLEAN : AuthOrAPIServer(ok, i, s)
       /\ UNCHANGED users
    \/ /\ mode = "config"
       /\ AuthOrAPIServer(UsersAuth(i), i, s)
       /\ UNCHANGED users
    \/ /\ mode \in {"anyClient", "anyClientWithUsers"}
       /\ AuthOrCreate(i, s)

Authenticate(c) ==
    /\ pc[c] = "auth"
    /\ AuthUser(reqId[c], reqSecret[c])
    /\ Goto(c, "option")
    /\ UNCHANGED <<config, apiCred, id2Agent, objectVars,
                   reqId, reqSecret, cli, tries>>

\* The user is refused, or the peer fails or is silent until the deadline
\* while the handshake is read.
HandshakeFails(c) ==
    /\ pc[c] \in {"auth", "option"}
    /\ HandlerReturns(c)
    /\ UNCHANGED <<config, apiCred, users, id2Agent, objectVars>>

ReadOption(c) ==
    /\ pc[c] = "option"
    /\ Goto(c, "lookup")
    /\ UNCHANGED <<config, apiCred, users, id2Agent, objectVars,
                   reqId, reqSecret, cli, tries>>

NextTry(c) == tries' = [tries EXCEPT ![c] = @ + 1]

\* Mutation: the loop has no bound.
LookupExistingUnbounded(c) ==
    /\ pc[c] = "lookup"
    /\ id2Agent[reqId[c]] # NoClient
    /\ cli' = [cli EXCEPT ![c] = id2Agent[reqId[c]]]
    /\ NextTry(c)
    /\ Goto(c, "add")
    /\ UNCHANGED <<config, apiCred, users, id2Agent, objectVars,
                   reqId, reqSecret>>

\* getOrCreateClient finds the object some handler published.
LookupExisting(c) ==
    /\ pc[c] = "lookup" /\ tries[c] < MaxAttempts
    /\ id2Agent[reqId[c]] # NoClient
    /\ cli' = [cli EXCEPT ![c] = id2Agent[reqId[c]]]
    /\ NextTry(c)
    /\ Goto(c, "add")
    /\ UNCHANGED <<config, apiCred, users, id2Agent, objectVars,
                   reqId, reqSecret>>

Unreferenced(k) ==
    /\ \A i \in Ids : id2Agent[i] # k
    /\ \A c \in Conns : cli[c] # k

\* getOrCreateClient publishes a new object before it is initialised.
LookupCreate(c) ==
    /\ pc[c] = "lookup" /\ tries[c] < MaxAttempts
    /\ id2Agent[reqId[c]] = NoClient
    /\ \E k \in Clients :
          /\ Unreferenced(k)
          /\ id2Agent' = [id2Agent EXCEPT ![reqId[c]] = k]
          /\ cli' = [cli EXCEPT ![c] = k]
          /\ cid' = [cid EXCEPT ![k] = NoId]
          /\ live' = [live EXCEPT ![k] = FALSE]
          /\ tunnels' = [tunnels EXCEPT ![k] = {}]
          /\ tasksMade' = [tasksMade EXCEPT ![k] = FALSE]
          /\ locked' = [locked EXCEPT ![k] = FALSE]
    /\ NextTry(c)
    /\ Goto(c, "init")
    /\ UNCHANGED <<config, apiCred, users, reqId, reqSecret>>

\* client.init, under tunnelsRWMtx.
InitTunnels(c) ==
    /\ pc[c] = "init" /\ ~locked[cli[c]]
    /\ cid' = [cid EXCEPT ![cli[c]] = reqId[c]]
    /\ live' = [live EXCEPT ![cli[c]] = TRUE]
    /\ tunnels' = [tunnels EXCEPT ![cli[c]] = {}]
    /\ Goto(c, "initTasks")
    /\ UNCHANGED <<config, apiCred, users, id2Agent, tasksMade, locked,
                   reqId, reqSecret, cli, tries>>

\* client.init, under tasksRWMtx.
InitTasks(c) ==
    /\ pc[c] = "initTasks"
    /\ tasksMade' = [tasksMade EXCEPT ![cli[c]] = TRUE]
    /\ Goto(c, "add")
    /\ UNCHANGED <<config, apiCred, users, id2Agent, cid, live, tunnels,
                   locked, reqId, reqSecret, cli, tries>>

\* client.addTunnel: not for an object whose tunnel map is nil.
AddTunnel(c) ==
    /\ pc[c] = "add" /\ ~locked[cli[c]] /\ live[cli[c]]
    /\ tunnels' = [tunnels EXCEPT ![cli[c]] = @ \cup {c}]
    /\ Goto(c, "loop")
    /\ UNCHANGED <<config, apiCred, users, id2Agent, cid, live, tasksMade,
                   locked, reqId, reqSecret, cli, tries>>

AddRefused(c) ==
    /\ pc[c] = "add" /\ ~locked[cli[c]] /\ ~live[cli[c]]
    /\ cli' = [cli EXCEPT ![c] = NoClient]
    /\ Goto(c, "lookup")
    /\ UNCHANGED <<config, apiCred, users, id2Agent, objectVars,
                   reqId, reqSecret, tries>>

\* Mutation: one attempt too many is waited for.
GiveUpLate(c) ==
    /\ pc[c] = "lookup" /\ tries[c] > MaxAttempts
    /\ HandlerReturns(c)
    /\ UNCHANGED <<config, apiCred, users, id2Agent, objectVars>>

\* "failed to create client"
GiveUp(c) ==
    /\ pc[c] = "lookup" /\ tries[c] = MaxAttempts
    /\ HandlerReturns(c)
    /\ UNCHANGED <<config, apiCred, users, id2Agent, objectVars>>

\* readLoop returns: the peer closed, a read or write failed, a deadline
\* passed.
LoopEnds(c) ==
    /\ pc[c] = "loop"
    /\ Goto(c, "remove")
    /\ UNCHANGED <<config, apiCred, users, id2Agent, objectVars,
                   reqId, reqSecret, cli, tries>>

\* Mutation: the length of the tunnel map is not looked at.
RemoveTunnelUnchecked(c) ==
    /\ pc[c] = "remove" /\ ~locked[cli[c]]
    /\ tunnels' = [tunnels EXCEPT ![cli[c]] = @ \ {c}]
    /\ HandlerReturns(c)
    /\ UNCHANGED <<config, apiCred, users, id2Agent,
                   cid, live, tasksMade, locked>>

\* client.removeTunnel while other tunnels stay.
RemoveTunnel(c) ==
    /\ pc[c] = "remove" /\ ~locked[cli[c]]
    /\ tunnels[cli[c]] \ {c} # {}
    /\ tunnels' = [tunnels EXCEPT ![cli[c]] = @ \ {c}]
    /\ HandlerReturns(c)
    /\ UNCHANGED <<config, apiCred, users, id2Agent,
                   cid, live, tasksMade, locked>>

\* Mutation: the empty tunnel map is not set to nil.
RemoveLastTunnelKeepsMap(c) ==
    /\ pc[c] = "remove" /\ ~locked[cli[c]]
    /\ tunnels[cli[c]] \ {c} = {}
    /\ tunnels' = [tunnels EXCEPT ![cli[c]] = {}]
    /\ locked' = [locked EXCEPT ![cli[c]] = TRUE]
    /\ Goto(c, "rmClient")
    /\ UNCHANGED <<config, apiCred, users, id2Agent, cid, live, tasksMade,
                   reqId, reqSecret, cli, tries>>

\* client.removeTunnel of the last one: the tunnel map becomes nil, and the
\* lock is kept while removeClient runs.
RemoveLastTunnel(c) ==
    /\ pc[c] = "remove" /\ ~locked[cli[c]]
    /\ tunnels[cli[c]] \ {c} = {}
    /\ tunnels' = [tunnels EXCEPT ![cli[c]] = {}]
    /\ live' = [live EXCEPT ![cli[c]] = FALSE]
    /\ locked' = [locked EXCEPT ![cli[c]] = TRUE]
    /\ Goto(c, "rmClient")
    /\ UNCHANGED <<config, apiCred, users, id2Agent, cid, tasksMade,
                   reqId, reqSecret, cli, tries>>

DeleteEntry(c) ==
    /\ pc[c] = "rmClient"
    /\ id2Agent' = [id2Agent EXCEPT ![cid[cli[c]]] = NoClient]

\* Mutation: the unlock is missing.
UnlockMissing(c) == locked' = locked

Unlock(c) == locked' = [locked EXCEPT ![cli[c]] = FALSE]

RemoveClientOnly(c) ==
    /\ mode \in {"authAPI", "config"}
    /\ DeleteEntry(c)
    /\ Unlock(c)
    /\ HandlerReturns(c)
    /\ UNCHANGED <<config, apiCred, users, cid, live, tunnels, tasksMade>>

\* Mutation: chosen where users are configured as well.
RemoveClientThenAnyUser(c) ==
    /\ mode \in {"anyClient", "anyClientWithUsers"}
    /\ DeleteEntry(c)
    /\ Goto(c, "rmUser")
    /\ UNCHANGED <<config, apiCred, users, objectVars,
                   reqId, reqSecret, cli, tries>>

\* removeClientAndUser deletes from the two maps in two calls.
RemoveClientThenUser(c) ==
    /\ mode = "anyClient"
    /\ DeleteEntry(c)
    /\ Goto(c, "rmUser")
    /\ UNCHANGED <<config, apiCred, users, objectVars,
                   reqId, reqSecret, cli, tries>>

RemoveUser(c) ==
    /\ pc[c] = "rmUser"
    /\ users' = [users EXCEPT ![cid[cli[c]]] = NoUser]
    /\ Unlock(c)
    /\ HandlerReturns(c)
    /\ UNCHANGED <<config, apiCred, id2Agent, cid, live, tunnels, tasksMade>>

\* removeClientAndTempUser asserts that the value it took out of id2Agent is
\* a user; it is a *client, so the call panics before the user is deleted and
\* before removeTunnel unlocks.  conn.handle recovers (release build).
RemoveClientPanics(c) ==
    /\ mode = "anyClientWithUsers"
    /\ DeleteEntry(c)
    /\ HandlerReturns(c)
    /\ UNCHANGED <<config, apiCred, users, objectVars>>

RemoveClient(c) ==
    \/ RemoveClientOnly(c)
    \/ RemoveClientThenUser(c)
    \/ RemoveUser(c)
    \/ RemoveClientPanics(c)

\* Steps a handler takes by itself; the others wait for the peer.
HandlerStep(c) ==
    \/ LookupExisting(c)
    \/ LookupCreate(c)
    \/ InitTunnels(c)
    \/ InitTasks(c)
    \/ AddTunnel(c)
    \/ AddRefused(c)
    \/ GiveUp(c)
    \/ RemoveTunnel(c)
    \/ RemoveLastTunnel(c)
    \/ RemoveClient(c)

PeerStep(c) ==
    \/ Accept(c)
    \/ Authenticate(c)
    \/ HandshakeFails(c)
    \/ ReadOption(c)
    \/ LoopEnds(c)

RegistryNext ==
    \/ APICheckBegin
    \/ APICheckEnd
    \/ \E c \in Conns : PeerStep(c) \/ HandlerStep(c)

RegistrySpec == RegistryInit /\ [][RegistryNext]_registryVars

-----------------------------------------------------------------------------
(* Properties *)

\* A client object with registered tunnels is the one id2Agent gives for its
\* id: removeTunnel, which deletes the entry by id and not by object, never
\* takes out an object that another handler registered meanwhile, so no
\* serving tunnel is out of reach of getClient (server/client.go:57-65,
\* server/conn.go:244-256).
RegisteredIsMapped ==
    \A k \in Clients :
        live[k] => cid[k] \in Ids /\ id2Agent[cid[k]] = k

\* Every entry of id2Agent has a handler that will register with it or take
\* it out: no entry is left behind whose addTunnel refuses for ever, after
\* which no agent of that id could connect (server/conn.go:244-260).
EntryHasOwner ==
    \A i \in Ids : id2Agent[i] # NoClient =>
        \E c \in Conns :
            /\ cli[c] = id2Agent[i]
            /\ \/ pc[c] \in {"init", "rmClient"}
               \/ pc[c] \in {"initTasks", "add", "loop", "remove"}
                  /\ live[cli[c]]

\* The users configured at start outlive every agent of theirs: only a user
\* that a connection created may be deleted (server/server.go:609-623).
ConfiguredUsersStay ==
    [][\A i \in Ids : users[i] # NoUser /\ ~users[i].temp
                        => users'[i] = users[i]]_registryVars

\* Tunnels of one client object presented the same secret: what the manual
\* promises for allow-any-client mode without API server (doc/English.md:301).
OneSecretPerId ==
    mode = "anyClient" /\ ~apiServer =>
        \A k \in Clients : \A c, d \in tunnels[k] :
            reqSecret[c] = reqSecret[d]
=============================================================================
