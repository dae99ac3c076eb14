----------------------------- MODULE StatusCheck -----------------------------
(***************************************************************************)
(* The status request of the server's API, src/server/api/server.go: the   *)
(* server makes an agent of its own, with credentials that only this check *)
(* knows, waits until it is ready and asks itself over it; the answer is   *)
(* cached. Checks go one at a time, under checkTunnelMtx.                  *)
(*                                                                         *)
(* The agent is the Agent module. Without a status check (checks is FALSE) *)
(* the module is that agent in the hands of any caller. With them, the     *)
(* checks are its only caller, and each has a new agent of one connection; *)
(* what an earlier one leaves behind (a connection that was being made     *)
(* when Close ran) is forgotten then: its credentials are gone.            *)
(***************************************************************************)
EXTENDS Agent

CONSTANTS
    Handlers,   \* handlers of /status requests
    NoHandler,
    CheckLoop,  \* the connectLoop of the agent of a check
    CheckWaiter \* its call of WaitUntilReady

ASSUME CheckAssumption ==
    CheckLoop \in Loops /\ CheckWaiter \in Waiters /\ NoHandler \notin Handlers

VARIABLES
    checks,   \* the API server is on and has status requests
    check,    \* per handler: where check is
    outcome,  \* per handler: what was written
    checkMtx, \* who holds checkTunnelMtx
    idOf,     \* whose id and secret Auth knows
    agentOf,  \* who started the agent
    cached    \* there is an answer not older than three minutes

apiVars == <<checks, check, outcome, checkMtx, idOf, agentOf, cached>>
allVars == <<vars, apiVars>>

CheckSteps == {"none", "lock", "id", "new", "wait", "waiting", "get", "close",
               "clear", "unlock", "done"}

StatusTypeOK ==
    /\ TypeOK
    /\ checks \in BOOLEAN /\ cached \in BOOLEAN
    /\ check \in [Handlers -> CheckSteps]
    /\ outcome \in [Handlers -> {"none", "ok", "failed"}]
    /\ {checkMtx, idOf, agentOf} \subseteq Handlers \cup {NoHandler}

\* Before the first check there is no agent.
StatusInit ==
    /\ checks \in BOOLEAN
    /\ IF checks
       THEN /\ closing = TRUE /\ tunnels = {} /\ initMtx = NoLoop
            /\ loop = [l \in Loops |-> "exit"]
            /\ open = [l \in Loops |-> FALSE] /\ closed = open
            /\ server = [l \in Loops |-> "new"]
            /\ inbox = [l \in Loops |-> <<>>]
            /\ pinged = [l \in Loops |-> 0] /\ pings = pinged
            /\ wait = [w \in Waiters |-> "idle"]
            /\ fired = [w \in Waiters |-> FALSE]
            /\ connected = FALSE /\ missed = {}
       ELSE Init
    /\ check = [h \in Handlers |-> "none"]
    /\ outcome = [h \in Handlers |-> "none"]
    /\ checkMtx = NoHandler /\ idOf = NoHandler /\ agentOf = NoHandler
    /\ cached = FALSE

To(h, step) == check' = Set(check, h, step)
Ends(h, what, step) == outcome' = Set(outcome, h, what) /\ To(h, step)

-----------------------------------------------------------------------------
(* check                                                                   *)

Ask(h) ==
    /\ checks /\ check[h] = "none" /\ To(h, "lock")
    /\ UNCHANGED <<vars, checks, outcome, checkMtx, idOf, agentOf, cached>>

LockCheck(h) ==
    /\ check[h] = "lock" /\ checkMtx = NoHandler
    /\ checkMtx' = h /\ To(h, "id")
    /\ UNCHANGED <<vars, checks, outcome, idOf, agentOf, cached>>

\* Ten ids are all in use: nothing is to be cleared.
RandomIDFails(h) ==
    /\ check[h] = "id" /\ Ends(h, "failed", "unlock")
    /\ UNCHANGED <<vars, checks, checkMtx, idOf, agentOf, cached>>

\* randomIDSecret, and the answer of the cache if there is one.
RandomID(h) ==
    /\ check[h] = "id" /\ idOf' = h
    /\ IF cached THEN Ends(h, "ok", "clear")
       ELSE To(h, "new") /\ UNCHANGED outcome
    /\ UNCHANGED <<vars, checks, checkMtx, agentOf, cached>>

\* client.New or Start refuses its arguments.
NewFails(h) ==
    /\ check[h] = "new" /\ Ends(h, "failed", "clear")
    /\ UNCHANGED <<vars, checks, checkMtx, idOf, agentOf, cached>>

\* client.New and Start.
StartAgent(h) ==
    /\ check[h] = "new" /\ To(h, "wait") /\ agentOf' = h
    /\ closing' = FALSE /\ tunnels' = {} /\ initMtx' = NoLoop
    /\ loop' = [l \in Loops |-> IF l = CheckLoop THEN "top" ELSE "exit"]
    /\ open' = [l \in Loops |-> FALSE] /\ closed' = open'
    /\ server' = [l \in Loops |-> "new"]
    /\ inbox' = [l \in Loops |-> <<>>]
    /\ pinged' = [l \in Loops |-> 0] /\ pings' = pinged'
    /\ wait' = [w \in Waiters |-> "idle"]
    /\ fired' = [w \in Waiters |-> FALSE]
    /\ connected' = FALSE /\ missed' = {}
    /\ UNCHANGED <<checks, outcome, checkMtx, idOf, cached>>

CallWait(h) ==
    /\ check[h] = "wait" /\ To(h, "waiting")
    /\ WaitCheck(CheckWaiter)
    /\ UNCHANGED <<checks, outcome, checkMtx, idOf, agentOf, cached>>

\* Mutation: the error of WaitUntilReady is not looked at.
WaitedAnyhow(h) ==
    /\ check[h] = "waiting"
    /\ wait[CheckWaiter] \in {"ready", "timeout"} /\ To(h, "get")
    /\ UNCHANGED <<vars, checks, outcome, checkMtx, idOf, agentOf, cached>>

Waited(h) ==
    /\ check[h] = "waiting"
    /\ \/ wait[CheckWaiter] = "ready" /\ To(h, "get") /\ UNCHANGED outcome
       \/ wait[CheckWaiter] = "timeout" /\ Ends(h, "failed", "close")
    /\ UNCHANGED <<vars, checks, checkMtx, idOf, agentOf, cached>>

\* The request goes through a public listener and the tunnel to /statusResp.
GetAnswered(h) ==
    /\ check[h] = "get" /\ Ends(h, "ok", "close")
    /\ \E l \in Loops : loop[l] = "read" /\ open[l] /\ server[l] = "ready"
    /\ cached' = TRUE
    /\ UNCHANGED <<vars, checks, checkMtx, idOf, agentOf>>

\* The server ends the connection: at once without a tunnel, or after its
\* timeout.
GetFails(h) ==
    /\ check[h] = "get" /\ Ends(h, "failed", "close")
    /\ UNCHANGED <<vars, checks, checkMtx, idOf, agentOf, cached>>

\* The deferred functions: Close, the credentials, the lock.
CloseAgent(h) ==
    /\ check[h] = "close" /\ To(h, "clear")
    /\ Close
    /\ UNCHANGED <<checks, outcome, checkMtx, idOf, agentOf, cached>>

ClearID(h) ==
    /\ check[h] = "clear" /\ To(h, "unlock") /\ idOf' = NoHandler
    /\ UNCHANGED <<vars, checks, outcome, checkMtx, agentOf, cached>>

\* Mutation: the lock is kept where the check failed.
UnlockCheckOK(h) ==
    /\ check[h] = "unlock" /\ To(h, "done")
    /\ checkMtx' = IF outcome[h] = "ok" THEN NoHandler ELSE checkMtx
    /\ UNCHANGED <<vars, checks, outcome, idOf, agentOf, cached>>

UnlockCheck(h) ==
    /\ check[h] = "unlock" /\ To(h, "done") /\ checkMtx' = NoHandler
    /\ UNCHANGED <<vars, checks, outcome, idOf, agentOf, cached>>

CacheExpires ==
    /\ cached /\ cached' = FALSE
    /\ UNCHANGED <<vars, checks, check, outcome, checkMtx, idOf, agentOf>>

\* Of the server: it lets an agent in that has the credentials of the moment.
Authenticated(l) == server'[l] = "ready" /\ server[l] # "ready" => idOf = agentOf

AgentSteps ==
    /\ IF checks THEN Step /\ \A l \in Loops : Authenticated(l) ELSE Next
    /\ UNCHANGED apiVars

HandlerSteps(h) ==
    \/ LockCheck(h) \/ RandomIDFails(h) \/ RandomID(h) \/ NewFails(h)
    \/ StartAgent(h) \/ CallWait(h) \/ Waited(h) \/ GetAnswered(h)
    \/ GetFails(h) \/ CloseAgent(h) \/ ClearID(h) \/ UnlockCheck(h)

StatusNext ==
    \/ AgentSteps \/ CacheExpires
    \/ \E h \in Handlers : Ask(h) \/ HandlerSteps(h)

\* Agent's Fairness, and the handlers run. A request of the check to the
\* server is answered or fails: the server times its connections out.
StatusFairness ==
    /\ \A l \in Loops :
          /\ WF_allVars(LoopTop(l) /\ UNCHANGED apiVars)
          /\ SF_allVars(LockInit(l) /\ UNCHANGED apiVars)
          /\ WF_allVars((InitConn(l) \/ InitConnFails(l)) /\ UNCHANGED apiVars)
          /\ WF_allVars((Leave(l) \/ Reconnect(l) \/ RemoteAPIFails(l))
                        /\ UNCHANGED apiVars)
          /\ WF_allVars((ReadSignal(l) \/ ReadFails(l)) /\ UNCHANGED apiVars)
    /\ \A w \in Waiters :
          /\ WF_allVars(WaitBegin(w) /\ UNCHANGED apiVars)
          /\ WF_allVars(WaitTimer(w) /\ UNCHANGED apiVars)
          /\ WF_allVars(WaitReturn(w) /\ UNCHANGED apiVars)
    /\ \A h \in Handlers : SF_allVars(HandlerSteps(h))

StatusSpec == StatusInit /\ [][StatusNext]_allVars /\ StatusFairness

-----------------------------------------------------------------------------
\* A caller of WaitUntilReady whose timer fired before it was on the list, and
\* who has no tunnel: only a later tunnel wakes it (client.go 340-346).
Overslept == \E w \in Waiters : wait[w] = "waiting" /\ fired[w]

\* Every status request ends (api/server.go 113-202), whatever the check's
\* agent, the server and the other checks do, and none keeps checkTunnelMtx
\* from the others; unless a check has overslept.
ChecksEnd ==
    \A h \in Handlers : check[h] # "none" ~> check[h] = "done" \/ Overslept

\* A check asks over a tunnel: WaitUntilReady (client.go 333-357) does not
\* return nil to it before there was one. Its agent has no other caller, whose
\* timer could wake it.
ReadyMeansConnected ==
    \A h \in Handlers : check[h] = "get" => connected
=============================================================================
