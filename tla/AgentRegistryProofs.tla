------------------------ MODULE AgentRegistryProofs ------------------------
(* That the state stays well typed, that a client object with registered    *)
(* tunnels is always the one id2Agent maps its id to, that no entry of       *)
(* id2Agent is left without an owner and that configured users stay, for any *)
(* number of connections, ids and client objects and any number of attempts. *)
EXTENDS AgentRegistry, TLAPS

HoldsObject ==
    {"init", "initTasks", "add", "loop", "remove", "rmClient", "rmUser"}

\* What a handler knows by where it is.
HandlerKnows ==
    \A c \in Conns :
        /\ pc[c] # "idle" => reqId[c] \in Ids /\ reqSecret[c] \in Secrets
        /\ pc[c] \in HoldsObject => cli[c] \in Clients

\* A tunnel that serves or is about to leave is in its object's tunnel map,
\* hence that map is not nil.
ServingIsRegistered ==
    \A c \in Conns : pc[c] \in {"loop", "remove"} =>
        live[cli[c]] /\ c \in tunnels[cli[c]]

\* A creator that has not initialised its object is alone in that, and the
\* object is mapped and blank.
CreatorOwns ==
    /\ \A c \in Conns : pc[c] = "init" =>
          /\ id2Agent[reqId[c]] = cli[c]
          /\ ~live[cli[c]]
          /\ cid[cli[c]] = NoId
    /\ \A c, d \in Conns :
          pc[c] = "init" /\ pc[d] = "init" /\ cli[c] = cli[d] => c = d

\* The handler that emptied an object is alone in that, and the object is
\* still the one mapped.
RemoverOwns ==
    /\ \A c \in Conns : pc[c] = "rmClient" =>
          /\ ~live[cli[c]]
          /\ cid[cli[c]] \in Ids
          /\ id2Agent[cid[cli[c]]] = cli[c]
    /\ \A c, d \in Conns :
          pc[c] = "rmClient" /\ pc[d] = "rmClient" /\ cli[c] = cli[d] => c = d

IInv ==
    /\ TypeOK
    /\ HandlerKnows
    /\ RegisteredIsMapped
    /\ ServingIsRegistered
    /\ CreatorOwns
    /\ RemoverOwns

-----------------------------------------------------------------------------
\* A handler that returns leaves its own variables well typed.
LEMMA ReturnsType ==
    ASSUME TypeOK, NEW c \in Conns, HandlerReturns(c)
    PROVE  /\ pc' \in [Conns -> Steps]
           /\ reqId' \in [Conns -> Ids \cup {NoId}]
           /\ reqSecret' \in [Conns -> Secrets \cup {NoSecret}]
           /\ cli' \in [Conns -> Clients \cup {NoClient}]
           /\ tries' \in [Conns -> 0 .. MaxAttempts]
<1>1. 0 \in 0 .. MaxAttempts
    BY MaxAttemptsAssumption
<1> QED BY <1>1 DEF TypeOK, HandlerReturns, Goto, Steps

\* Every step leaves the state well typed.
LEMMA TypeStep ==
    IInv /\ [RegistryNext]_registryVars => TypeOK'
<1> SUFFICES ASSUME IInv, [RegistryNext]_registryVars PROVE TypeOK'
    OBVIOUS
<1> USE MaxAttemptsAssumption DEF IInv, TypeOK, Steps, HandlerKnows, config, objectVars, handler
<1>1. CASE APICheckBegin
    BY <1>1 DEF APICheckBegin
<1>2. CASE APICheckEnd
    BY <1>2 DEF APICheckEnd
<1>3. ASSUME NEW c \in Conns, PeerStep(c) PROVE TypeOK'
  <2>1. CASE Accept(c)
      BY <2>1 DEF Accept, Goto
  <2>2. CASE Authenticate(c)
    <3>1. users' \in [Ids -> User \cup {NoUser}]
      <4>1. CASE mode \in {"authAPI", "config"}
          BY <2>2, <4>1 DEF Authenticate, AuthUser
      <4>2. CASE mode \in {"anyClient", "anyClientWithUsers"}
        <5>1. AuthOrCreate(reqId[c], reqSecret[c])
            BY <2>2, <4>2 DEF Authenticate, AuthUser
        <5>2. [secret |-> reqSecret[c], temp |-> TRUE] \in User
            BY <2>2 DEF Authenticate, User
        <5> QED BY <5>1, <5>2 DEF AuthOrCreate
      <4> QED BY <4>1, <4>2 DEF Modes
    <3> QED BY <2>2, <3>1 DEF Authenticate, Goto
  <2>3. CASE HandshakeFails(c)
      BY <2>3 DEF HandshakeFails, HandlerReturns, Goto
  <2>4. CASE ReadOption(c)
      BY <2>4 DEF ReadOption, Goto
  <2>5. CASE LoopEnds(c)
      BY <2>5 DEF LoopEnds, Goto
  <2> QED BY <1>3, <2>1, <2>2, <2>3, <2>4, <2>5 DEF PeerStep
<1>4. ASSUME NEW c \in Conns, HandlerStep(c) PROVE TypeOK'
  <2>1. CASE LookupExisting(c)
      BY <2>1 DEF LookupExisting, NextTry, Goto
  <2>2. CASE LookupCreate(c)
      BY <2>2 DEF LookupCreate, Unreferenced, NextTry, Goto
  <2>3. CASE InitTunnels(c)
      BY <2>3 DEF InitTunnels, Goto
  <2>4. CASE InitTasks(c)
      BY <2>4 DEF InitTasks, Goto
  <2>5. CASE AddTunnel(c)
      BY <2>5 DEF AddTunnel, Goto
  <2>6. CASE AddRefused(c)
      BY <2>6 DEF AddRefused, Goto
  <2>7. CASE GiveUp(c)
      BY <2>7 DEF GiveUp, HandlerReturns, Goto
  <2>8. CASE RemoveTunnel(c)
    <3>1. HandlerReturns(c)
        BY <2>8 DEF RemoveTunnel
    <3> QED BY <2>8, <3>1, ReturnsType DEF RemoveTunnel
  <2>9. CASE RemoveLastTunnel(c)
      BY <2>9 DEF RemoveLastTunnel, Goto
  <2>10. CASE RemoveClientOnly(c)
    <3>1. HandlerReturns(c)
        BY <2>10 DEF RemoveClientOnly
    <3> QED BY <2>10, <3>1, ReturnsType DEF RemoveClientOnly, DeleteEntry, Unlock
  <2>11. CASE RemoveClientThenUser(c)
      BY <2>11 DEF RemoveClientThenUser, DeleteEntry, Goto
  <2>12. CASE RemoveUser(c)
    <3>1. HandlerReturns(c)
        BY <2>12 DEF RemoveUser
    <3> QED BY <2>12, <3>1, ReturnsType DEF RemoveUser, Unlock
  <2>13. CASE RemoveClientPanics(c)
    <3>1. HandlerReturns(c)
        BY <2>13 DEF RemoveClientPanics
    <3> QED BY <2>13, <3>1, ReturnsType DEF RemoveClientPanics, DeleteEntry
  <2> QED
    BY <1>4, <2>1, <2>2, <2>3, <2>4, <2>5, <2>6, <2>7,
       <2>8, <2>9, <2>10, <2>11, <2>12, <2>13
    DEF HandlerStep, RemoveClient
<1>5. CASE UNCHANGED registryVars
    BY <1>5 DEF registryVars
<1> QED BY <1>1, <1>2, <1>3, <1>4, <1>5 DEF RegistryNext

\* A handler past the handshake has an id, one past the lookup an object.
LEMMA KnowsStep ==
    IInv /\ [RegistryNext]_registryVars => HandlerKnows'
<1> SUFFICES ASSUME IInv, [RegistryNext]_registryVars PROVE HandlerKnows'
    OBVIOUS
<1> USE DEF IInv, TypeOK, HandlerKnows, HoldsObject, Steps, config, objectVars, handler
<1>1. CASE APICheckBegin
    BY <1>1 DEF APICheckBegin
<1>2. CASE APICheckEnd
    BY <1>2 DEF APICheckEnd
<1>3. ASSUME NEW c \in Conns, PeerStep(c) PROVE HandlerKnows'
  <2>1. CASE Accept(c)
      BY <2>1 DEF Accept, Goto
  <2>2. CASE Authenticate(c)
      BY <2>2 DEF Authenticate, Goto, AuthUser, AuthOrCreate, User
  <2>3. CASE HandshakeFails(c)
      BY <2>3 DEF HandshakeFails, HandlerReturns, Goto
  <2>4. CASE ReadOption(c)
      BY <2>4 DEF ReadOption, Goto
  <2>5. CASE LoopEnds(c)
      BY <2>5 DEF LoopEnds, Goto
  <2> QED BY <1>3, <2>1, <2>2, <2>3, <2>4, <2>5 DEF PeerStep
<1>4. ASSUME NEW c \in Conns, HandlerStep(c) PROVE HandlerKnows'
  <2>1. CASE LookupExisting(c)
      BY <2>1 DEF LookupExisting, NextTry, Goto
  <2>2. CASE LookupCreate(c)
      BY <2>2 DEF LookupCreate, Unreferenced, NextTry, Goto
  <2>3. CASE InitTunnels(c)
      BY <2>3 DEF InitTunnels, Goto
  <2>4. CASE InitTasks(c)
      BY <2>4 DEF InitTasks, Goto
  <2>5. CASE AddTunnel(c)
      BY <2>5 DEF AddTunnel, Goto
  <2>6. CASE AddRefused(c)
      BY <2>6 DEF AddRefused, Goto
  <2>7. CASE GiveUp(c)
      BY <2>7 DEF GiveUp, HandlerReturns, Goto
  <2>8. CASE RemoveTunnel(c)
      BY <2>8 DEF RemoveTunnel, HandlerReturns, Goto
  <2>9. CASE RemoveLastTunnel(c)
      BY <2>9 DEF RemoveLastTunnel, Goto
  <2>10. CASE RemoveClientOnly(c)
      BY <2>10 DEF RemoveClientOnly, DeleteEntry, Unlock, HandlerReturns, Goto
  <2>11. CASE RemoveClientThenUser(c)
      BY <2>11 DEF RemoveClientThenUser, DeleteEntry, Goto
  <2>12. CASE RemoveUser(c)
      BY <2>12 DEF RemoveUser, Unlock, HandlerReturns, Goto
  <2>13. CASE RemoveClientPanics(c)
      BY <2>13 DEF RemoveClientPanics, DeleteEntry, HandlerReturns, Goto
  <2> QED
    BY <1>4, <2>1, <2>2, <2>3, <2>4, <2>5, <2>6, <2>7,
       <2>8, <2>9, <2>10, <2>11, <2>12, <2>13
    DEF HandlerStep, RemoveClient
<1>5. CASE UNCHANGED registryVars
    BY <1>5 DEF registryVars
<1> QED BY <1>1, <1>2, <1>3, <1>4, <1>5 DEF RegistryNext

\* RegisteredIsMapped is preserved.
LEMMA MappedStep ==
    IInv /\ [RegistryNext]_registryVars => RegisteredIsMapped'
<1> SUFFICES ASSUME IInv, [RegistryNext]_registryVars PROVE RegisteredIsMapped'
    OBVIOUS
<1> USE NoClientAssumption, NoIdAssumption DEF IInv, TypeOK, HandlerKnows,
        HoldsObject, RegisteredIsMapped, CreatorOwns, RemoverOwns, config, objectVars, handler
<1>1. CASE APICheckBegin
    BY <1>1 DEF APICheckBegin
<1>2. CASE APICheckEnd
    BY <1>2 DEF APICheckEnd
<1>3. ASSUME NEW c \in Conns, PeerStep(c) PROVE RegisteredIsMapped'
  <2>1. CASE Accept(c)
      BY <2>1 DEF Accept, Goto
  <2>2. CASE Authenticate(c)
      BY <2>2 DEF Authenticate, Goto, AuthUser, AuthOrCreate, User
  <2>3. CASE HandshakeFails(c)
      BY <2>3 DEF HandshakeFails, HandlerReturns, Goto
  <2>4. CASE ReadOption(c)
      BY <2>4 DEF ReadOption, Goto
  <2>5. CASE LoopEnds(c)
      BY <2>5 DEF LoopEnds, Goto
  <2> QED BY <1>3, <2>1, <2>2, <2>3, <2>4, <2>5 DEF PeerStep
<1>4. ASSUME NEW c \in Conns, HandlerStep(c) PROVE RegisteredIsMapped'
  <2>1. CASE LookupExisting(c)
      BY <2>1 DEF LookupExisting, NextTry, Goto
  <2>2. CASE LookupCreate(c)
      BY <2>2 DEF LookupCreate, Unreferenced, NextTry, Goto
  <2>3. CASE InitTunnels(c)
      BY <2>3 DEF InitTunnels, Goto
  <2>4. CASE InitTasks(c)
      BY <2>4 DEF InitTasks, Goto
  <2>5. CASE AddTunnel(c)
      BY <2>5 DEF AddTunnel, Goto
  <2>6. CASE AddRefused(c)
      BY <2>6 DEF AddRefused, Goto
  <2>7. CASE GiveUp(c)
      BY <2>7 DEF GiveUp, HandlerReturns, Goto
  <2>8. CASE RemoveTunnel(c)
      BY <2>8 DEF RemoveTunnel, HandlerReturns, Goto
  <2>9. CASE RemoveLastTunnel(c)
      BY <2>9 DEF RemoveLastTunnel, Goto
  <2>10. CASE RemoveClientOnly(c)
      BY <2>10 DEF RemoveClientOnly, DeleteEntry, Unlock, HandlerReturns, Goto
  <2>11. CASE RemoveClientThenUser(c)
      BY <2>11 DEF RemoveClientThenUser, DeleteEntry, Goto
  <2>12. CASE RemoveUser(c)
      BY <2>12 DEF RemoveUser, Unlock, HandlerReturns, Goto
  <2>13. CASE RemoveClientPanics(c)
      BY <2>13 DEF RemoveClientPanics, DeleteEntry, HandlerReturns, Goto
  <2> QED
    BY <1>4, <2>1, <2>2, <2>3, <2>4, <2>5, <2>6, <2>7,
       <2>8, <2>9, <2>10, <2>11, <2>12, <2>13
    DEF HandlerStep, RemoveClient
<1>5. CASE UNCHANGED registryVars
    BY <1>5 DEF registryVars
<1> QED BY <1>1, <1>2, <1>3, <1>4, <1>5 DEF RegistryNext

\* ServingIsRegistered is preserved.
LEMMA ServingStep ==
    IInv /\ [RegistryNext]_registryVars => ServingIsRegistered'
<1> SUFFICES ASSUME IInv, [RegistryNext]_registryVars PROVE ServingIsRegistered'
    OBVIOUS
<1> USE NoClientAssumption, NoIdAssumption DEF IInv, TypeOK, HandlerKnows,
        HoldsObject, ServingIsRegistered, CreatorOwns, config, objectVars, handler
<1>1. CASE APICheckBegin
    BY <1>1 DEF APICheckBegin
<1>2. CASE APICheckEnd
    BY <1>2 DEF APICheckEnd
<1>3. ASSUME NEW c \in Conns, PeerStep(c) PROVE ServingIsRegistered'
  <2>1. CASE Accept(c)
      BY <2>1 DEF Accept, Goto
  <2>2. CASE Authenticate(c)
      BY <2>2 DEF Authenticate, Goto, AuthUser, AuthOrCreate, User
  <2>3. CASE HandshakeFails(c)
      BY <2>3 DEF HandshakeFails, HandlerReturns, Goto
  <2>4. CASE ReadOption(c)
      BY <2>4 DEF ReadOption, Goto
  <2>5. CASE LoopEnds(c)
      BY <2>5 DEF LoopEnds, Goto
  <2> QED BY <1>3, <2>1, <2>2, <2>3, <2>4, <2>5 DEF PeerStep
<1>4. ASSUME NEW c \in Conns, HandlerStep(c) PROVE ServingIsRegistered'
  <2>1. CASE LookupExisting(c)
      BY <2>1 DEF LookupExisting, NextTry, Goto
  <2>2. CASE LookupCreate(c)
      BY <2>2 DEF LookupCreate, Unreferenced, NextTry, Goto
  <2>3. CASE InitTunnels(c)
      BY <2>3 DEF InitTunnels, Goto
  <2>4. CASE InitTasks(c)
      BY <2>4 DEF InitTasks, Goto
  <2>5. CASE AddTunnel(c)
      BY <2>5 DEF AddTunnel, Goto
  <2>6. CASE AddRefused(c)
      BY <2>6 DEF AddRefused, Goto
  <2>7. CASE GiveUp(c)
      BY <2>7 DEF GiveUp, HandlerReturns, Goto
  <2>8. CASE RemoveTunnel(c)
      BY <2>8 DEF RemoveTunnel, HandlerReturns, Goto
  <2>9. CASE RemoveLastTunnel(c)
      BY <2>9 DEF RemoveLastTunnel, Goto
  <2>10. CASE RemoveClientOnly(c)
      BY <2>10 DEF RemoveClientOnly, DeleteEntry, Unlock, HandlerReturns, Goto
  <2>11. CASE RemoveClientThenUser(c)
      BY <2>11 DEF RemoveClientThenUser, DeleteEntry, Goto
  <2>12. CASE RemoveUser(c)
      BY <2>12 DEF RemoveUser, Unlock, HandlerReturns, Goto
  <2>13. CASE RemoveClientPanics(c)
      BY <2>13 DEF RemoveClientPanics, DeleteEntry, HandlerReturns, Goto
  <2> QED
    BY <1>4, <2>1, <2>2, <2>3, <2>4, <2>5, <2>6, <2>7,
       <2>8, <2>9, <2>10, <2>11, <2>12, <2>13
    DEF HandlerStep, RemoveClient
<1>5. CASE UNCHANGED registryVars
    BY <1>5 DEF registryVars
<1> QED BY <1>1, <1>2, <1>3, <1>4, <1>5 DEF RegistryNext

\* CreatorOwns is preserved.
LEMMA CreatorStep ==
    IInv /\ [RegistryNext]_registryVars => CreatorOwns'
<1> SUFFICES ASSUME IInv, [RegistryNext]_registryVars PROVE CreatorOwns'
    OBVIOUS
<1> USE NoClientAssumption, NoIdAssumption DEF IInv, TypeOK, HandlerKnows,
        HoldsObject, CreatorOwns, RemoverOwns, config, objectVars, handler
<1>1. CASE APICheckBegin
    BY <1>1 DEF APICheckBegin
<1>2. CASE APICheckEnd
    BY <1>2 DEF APICheckEnd
<1>3. ASSUME NEW c \in Conns, PeerStep(c) PROVE CreatorOwns'
  <2>1. CASE Accept(c)
      BY <2>1 DEF Accept, Goto
  <2>2. CASE Authenticate(c)
      BY <2>2 DEF Authenticate, Goto, AuthUser, AuthOrCreate, User
  <2>3. CASE HandshakeFails(c)
      BY <2>3 DEF HandshakeFails, HandlerReturns, Goto
  <2>4. CASE ReadOption(c)
      BY <2>4 DEF ReadOption, Goto
  <2>5. CASE LoopEnds(c)
      BY <2>5 DEF LoopEnds, Goto
  <2> QED BY <1>3, <2>1, <2>2, <2>3, <2>4, <2>5 DEF PeerStep
<1>4. ASSUME NEW c \in Conns, HandlerStep(c) PROVE CreatorOwns'
  <2>1. CASE LookupExisting(c)
      BY <2>1 DEF LookupExisting, NextTry, Goto
  <2>2. CASE LookupCreate(c)
      BY <2>2 DEF LookupCreate, Unreferenced, NextTry, Goto
  <2>3. CASE InitTunnels(c)
      BY <2>3 DEF InitTunnels, Goto
  <2>4. CASE InitTasks(c)
      BY <2>4 DEF InitTasks, Goto
  <2>5. CASE AddTunnel(c)
      BY <2>5 DEF AddTunnel, Goto
  <2>6. CASE AddRefused(c)
      BY <2>6 DEF AddRefused, Goto
  <2>7. CASE GiveUp(c)
      BY <2>7 DEF GiveUp, HandlerReturns, Goto
  <2>8. CASE RemoveTunnel(c)
      BY <2>8 DEF RemoveTunnel, HandlerReturns, Goto
  <2>9. CASE RemoveLastTunnel(c)
      BY <2>9 DEF RemoveLastTunnel, Goto
  <2>10. CASE RemoveClientOnly(c)
      BY <2>10 DEF RemoveClientOnly, DeleteEntry, Unlock, HandlerReturns, Goto
  <2>11. CASE RemoveClientThenUser(c)
      BY <2>11 DEF RemoveClientThenUser, DeleteEntry, Goto
  <2>12. CASE RemoveUser(c)
      BY <2>12 DEF RemoveUser, Unlock, HandlerReturns, Goto
  <2>13. CASE RemoveClientPanics(c)
      BY <2>13 DEF RemoveClientPanics, DeleteEntry, HandlerReturns, Goto
  <2> QED
    BY <1>4, <2>1, <2>2, <2>3, <2>4, <2>5, <2>6, <2>7,
       <2>8, <2>9, <2>10, <2>11, <2>12, <2>13
    DEF HandlerStep, RemoveClient
<1>5. CASE UNCHANGED registryVars
    BY <1>5 DEF registryVars
<1> QED BY <1>1, <1>2, <1>3, <1>4, <1>5 DEF RegistryNext

\* RemoverOwns is preserved.
LEMMA RemoverStep ==
    IInv /\ [RegistryNext]_registryVars => RemoverOwns'
<1> SUFFICES ASSUME IInv, [RegistryNext]_registryVars PROVE RemoverOwns'
    OBVIOUS
<1> USE NoClientAssumption, NoIdAssumption DEF IInv, TypeOK, HandlerKnows,
        HoldsObject, RegisteredIsMapped, ServingIsRegistered, CreatorOwns, RemoverOwns, config, objectVars, handler
<1>1. CASE APICheckBegin
    BY <1>1 DEF APICheckBegin
<1>2. CASE APICheckEnd
    BY <1>2 DEF APICheckEnd
<1>3. ASSUME NEW c \in Conns, PeerStep(c) PROVE RemoverOwns'
  <2>1. CASE Accept(c)
      BY <2>1 DEF Accept, Goto
  <2>2. CASE Authenticate(c)
      BY <2>2 DEF Authenticate, Goto, AuthUser, AuthOrCreate, User
  <2>3. CASE HandshakeFails(c)
      BY <2>3 DEF HandshakeFails, HandlerReturns, Goto
  <2>4. CASE ReadOption(c)
      BY <2>4 DEF ReadOption, Goto
  <2>5. CASE LoopEnds(c)
      BY <2>5 DEF LoopEnds, Goto
  <2> QED BY <1>3, <2>1, <2>2, <2>3, <2>4, <2>5 DEF PeerStep
<1>4. ASSUME NEW c \in Conns, HandlerStep(c) PROVE RemoverOwns'
  <2>1. CASE LookupExisting(c)
      BY <2>1 DEF LookupExisting, NextTry, Goto
  <2>2. CASE LookupCreate(c)
      BY <2>2 DEF LookupCreate, Unreferenced, NextTry, Goto
  <2>3. CASE InitTunnels(c)
      BY <2>3 DEF InitTunnels, Goto
  <2>4. CASE InitTasks(c)
      BY <2>4 DEF InitTasks, Goto
  <2>5. CASE AddTunnel(c)
      BY <2>5 DEF AddTunnel, Goto
  <2>6. CASE AddRefused(c)
      BY <2>6 DEF AddRefused, Goto
  <2>7. CASE GiveUp(c)
      BY <2>7 DEF GiveUp, HandlerReturns, Goto
  <2>8. CASE RemoveTunnel(c)
      BY <2>8 DEF RemoveTunnel, HandlerReturns, Goto
  <2>9. CASE RemoveLastTunnel(c)
      BY <2>9 DEF RemoveLastTunnel, Goto
  <2>10. CASE RemoveClientOnly(c)
      BY <2>10 DEF RemoveClientOnly, DeleteEntry, Unlock, HandlerReturns, Goto
  <2>11. CASE RemoveClientThenUser(c)
      BY <2>11 DEF RemoveClientThenUser, DeleteEntry, Goto
  <2>12. CASE RemoveUser(c)
      BY <2>12 DEF RemoveUser, Unlock, HandlerReturns, Goto
  <2>13. CASE RemoveClientPanics(c)
      BY <2>13 DEF RemoveClientPanics, DeleteEntry, HandlerReturns, Goto
  <2> QED
    BY <1>4, <2>1, <2>2, <2>3, <2>4, <2>5, <2>6, <2>7,
       <2>8, <2>9, <2>10, <2>11, <2>12, <2>13
    DEF HandlerStep, RemoveClient
<1>5. CASE UNCHANGED registryVars
    BY <1>5 DEF registryVars
<1> QED BY <1>1, <1>2, <1>3, <1>4, <1>5 DEF RegistryNext

\* The inductive invariant holds in the initial states.
LEMMA InitIInv == RegistryInit => IInv
<1> SUFFICES ASSUME RegistryInit PROVE IInv
    OBVIOUS
<1>1. 0 \in 0 .. MaxAttempts
    BY MaxAttemptsAssumption
<1>2. users \in [Ids -> User \cup {NoUser}]
    BY DEF RegistryInit, ConfiguredUsers, User
<1>3. TypeOK
    BY <1>1, <1>2 DEF RegistryInit, TypeOK, Steps
<1>4. HandlerKnows /\ ServingIsRegistered /\ CreatorOwns /\ RemoverOwns
    BY DEF RegistryInit, HandlerKnows, HoldsObject, ServingIsRegistered,
           CreatorOwns, RemoverOwns
<1>5. RegisteredIsMapped
    BY DEF RegistryInit, RegisteredIsMapped
<1> QED BY <1>3, <1>4, <1>5 DEF IInv

\* The inductive invariant holds in every state the server reaches.
THEOREM Inductive == RegistrySpec => []IInv
<1>1. IInv /\ [RegistryNext]_registryVars => IInv'
    BY TypeStep, KnowsStep, MappedStep, ServingStep, CreatorStep, RemoverStep
    DEF IInv
<1> QED BY InitIInv, <1>1, PTL DEF RegistrySpec

\* Every variable of the registry keeps its type.
THEOREM TypeCorrect == RegistrySpec => []TypeOK
<1>1. IInv => TypeOK
    BY DEF IInv
<1> QED BY Inductive, <1>1, PTL

\* A client object with registered tunnels is the one its id is mapped to:
\* handleTunnel's retry and removeTunnel's deletion by id never lose a
\* serving agent (server/conn.go:244-260, server/client.go:57-65).
THEOREM RegistrySafe == RegistrySpec => []RegisteredIsMapped
<1>1. IInv => RegisteredIsMapped
    BY DEF IInv
<1> QED BY Inductive, <1>1, PTL

-----------------------------------------------------------------------------
(* The configured users stay.                                               *)

\* Start chose allow-any-client mode because no user was configured, so all
\* users of that mode are temporary; only that mode deletes users.
OnlyTempUsersGo ==
    /\ mode = "anyClient" => \A i \in Ids : users[i] # NoUser => users[i].temp
    /\ \A c \in Conns : pc[c] = "rmUser" => mode = "anyClient"

\* What a step may do to the users: nothing, add a temporary one where there
\* was none, or delete the one of a handler that removes its agent.
AddsTempUser ==
    \E i \in Ids, s \in Secrets :
        /\ users[i] = NoUser
        /\ users' = [users EXCEPT ![i] = [secret |-> s, temp |-> TRUE]]

RemovesUser ==
    \E c \in Conns :
        /\ pc[c] = "rmUser"
        /\ users' = [users EXCEPT ![cid[cli[c]]] = NoUser]

\* Authentication is the only step that adds a user, removeClientAndUser the
\* only one that deletes one.
LEMMA UsersStep ==
    IInv /\ [RegistryNext]_registryVars =>
        UNCHANGED users \/ AddsTempUser \/ RemovesUser
<1> SUFFICES ASSUME IInv, [RegistryNext]_registryVars
             PROVE UNCHANGED users \/ AddsTempUser \/ RemovesUser
    OBVIOUS
<1>1. CASE APICheckBegin
    BY <1>1 DEF APICheckBegin
<1>2. CASE APICheckEnd
    BY <1>2 DEF APICheckEnd
<1>3. ASSUME NEW c \in Conns, PeerStep(c)
      PROVE UNCHANGED users \/ AddsTempUser
  <2>1. CASE Authenticate(c)
    <3>1. reqId[c] \in Ids /\ reqSecret[c] \in Secrets
        BY <2>1 DEF Authenticate, IInv, HandlerKnows
    <3>2. UNCHANGED users \/ AuthOrCreate(reqId[c], reqSecret[c])
        BY <2>1 DEF Authenticate, AuthUser
    <3> QED BY <3>1, <3>2 DEF AuthOrCreate, AddsTempUser
  <2>2. CASE Accept(c) \/ HandshakeFails(c) \/ ReadOption(c) \/ LoopEnds(c)
      BY <2>2 DEF Accept, HandshakeFails, ReadOption, LoopEnds
  <2> QED BY <1>3, <2>1, <2>2 DEF PeerStep
<1>4. ASSUME NEW c \in Conns, HandlerStep(c)
      PROVE UNCHANGED users \/ RemovesUser
  <2>1. CASE RemoveUser(c)
      BY <2>1 DEF RemoveUser, RemovesUser
  <2>2. CASE \/ LookupExisting(c) \/ LookupCreate(c) \/ InitTunnels(c)
             \/ InitTasks(c) \/ AddTunnel(c) \/ AddRefused(c) \/ GiveUp(c)
      BY <2>2 DEF LookupExisting, LookupCreate, InitTunnels, InitTasks,
                  AddTunnel, AddRefused, GiveUp
  <2>3. CASE \/ RemoveTunnel(c) \/ RemoveLastTunnel(c) \/ RemoveClientOnly(c)
             \/ RemoveClientThenUser(c) \/ RemoveClientPanics(c)
      BY <2>3 DEF RemoveTunnel, RemoveLastTunnel, RemoveClientOnly,
                  RemoveClientThenUser, RemoveClientPanics
  <2> QED BY <1>4, <2>1, <2>2, <2>3 DEF HandlerStep, RemoveClient
<1>5. CASE UNCHANGED registryVars
    BY <1>5 DEF registryVars
<1> QED BY <1>1, <1>2, <1>3, <1>4, <1>5 DEF RegistryNext

\* The mode never changes, and only removeClientAndUser leads to a deletion.
LEMMA RemoverMode ==
    IInv /\ OnlyTempUsersGo /\ [RegistryNext]_registryVars =>
        /\ mode' = mode
        /\ \A d \in Conns : pc'[d] = "rmUser" => mode = "anyClient"
<1> SUFFICES ASSUME IInv, OnlyTempUsersGo, [RegistryNext]_registryVars
             PROVE /\ mode' = mode
                   /\ \A d \in Conns : pc'[d] = "rmUser" => mode = "anyClient"
    OBVIOUS
<1> USE DEF IInv, TypeOK, OnlyTempUsersGo, config, objectVars, handler
<1>1. CASE APICheckBegin
    BY <1>1 DEF APICheckBegin
<1>2. CASE APICheckEnd
    BY <1>2 DEF APICheckEnd
<1>3. ASSUME NEW c \in Conns, PeerStep(c)
      PROVE /\ mode' = mode
            /\ \A d \in Conns : pc'[d] = "rmUser" => mode = "anyClient"
  <2>1. CASE Accept(c)
      BY <2>1 DEF Accept, Goto
  <2>2. CASE Authenticate(c)
      BY <2>2 DEF Authenticate, Goto
  <2>3. CASE HandshakeFails(c)
      BY <2>3 DEF HandshakeFails, HandlerReturns, Goto
  <2>4. CASE ReadOption(c)
      BY <2>4 DEF ReadOption, Goto
  <2>5. CASE LoopEnds(c)
      BY <2>5 DEF LoopEnds, Goto
  <2> QED BY <1>3, <2>1, <2>2, <2>3, <2>4, <2>5 DEF PeerStep
<1>4. ASSUME NEW c \in Conns, HandlerStep(c)
      PROVE /\ mode' = mode
            /\ \A d \in Conns : pc'[d] = "rmUser" => mode = "anyClient"
  <2>1. CASE LookupExisting(c)
      BY <2>1 DEF LookupExisting, NextTry, Goto
  <2>2. CASE LookupCreate(c)
      BY <2>2 DEF LookupCreate, NextTry, Goto
  <2>3. CASE InitTunnels(c)
      BY <2>3 DEF InitTunnels, Goto
  <2>4. CASE InitTasks(c)
      BY <2>4 DEF InitTasks, Goto
  <2>5. CASE AddTunnel(c)
      BY <2>5 DEF AddTunnel, Goto
  <2>6. CASE AddRefused(c)
      BY <2>6 DEF AddRefused, Goto
  <2>7. CASE GiveUp(c)
      BY <2>7 DEF GiveUp, HandlerReturns, Goto
  <2>8. CASE RemoveTunnel(c)
      BY <2>8 DEF RemoveTunnel, HandlerReturns, Goto
  <2>9. CASE RemoveLastTunnel(c)
      BY <2>9 DEF RemoveLastTunnel, Goto
  <2>10. CASE RemoveClientOnly(c)
      BY <2>10 DEF RemoveClientOnly, HandlerReturns, Goto
  <2>11. CASE RemoveClientThenUser(c)
      BY <2>11 DEF RemoveClientThenUser, Goto
  <2>12. CASE RemoveUser(c)
      BY <2>12 DEF RemoveUser, HandlerReturns, Goto
  <2>13. CASE RemoveClientPanics(c)
      BY <2>13 DEF RemoveClientPanics, HandlerReturns, Goto
  <2> QED
    BY <1>4, <2>1, <2>2, <2>3, <2>4, <2>5, <2>6, <2>7,
       <2>8, <2>9, <2>10, <2>11, <2>12, <2>13
    DEF HandlerStep, RemoveClient
<1>5. CASE UNCHANGED registryVars
    BY <1>5 DEF registryVars
<1> QED BY <1>1, <1>2, <1>3, <1>4, <1>5 DEF RegistryNext

\* OnlyTempUsersGo is kept by every step.
LEMMA TempUsersStep ==
    IInv /\ OnlyTempUsersGo /\ [RegistryNext]_registryVars => OnlyTempUsersGo'
<1> SUFFICES ASSUME IInv, OnlyTempUsersGo, [RegistryNext]_registryVars
             PROVE OnlyTempUsersGo'
    OBVIOUS
<1>1. mode' = mode /\ \A c \in Conns : pc'[c] = "rmUser" => mode = "anyClient"
    BY RemoverMode
<1>2. ASSUME mode = "anyClient", NEW i \in Ids, users'[i] # NoUser
      PROVE users'[i].temp
  <2>1. users[i] # NoUser => users[i].temp
      BY <1>2 DEF OnlyTempUsersGo
  <2>2. CASE UNCHANGED users
      BY <1>2, <2>1, <2>2
  <2>3. CASE AddsTempUser
      BY <1>2, <2>1, <2>3 DEF AddsTempUser, IInv, TypeOK
  <2>4. CASE RemovesUser
      BY <1>2, <2>1, <2>4 DEF RemovesUser, IInv, TypeOK
  <2> QED BY <2>2, <2>3, <2>4, UsersStep
<1> QED BY <1>1, <1>2 DEF OnlyTempUsersGo

\* The users configured at start outlive every agent of theirs
\* (server/server.go:609-623, server/config.go:97-128).
THEOREM ConfiguredUsersKept == RegistrySpec => ConfiguredUsersStay
<1>1. RegistryInit => OnlyTempUsersGo
  <2> SUFFICES ASSUME RegistryInit PROVE OnlyTempUsersGo
      OBVIOUS
  <2>1. mode = "anyClient" => \A i \in Ids : users[i] = NoUser
      BY DEF RegistryInit, ChooseMode
  <2> QED BY <2>1 DEF RegistryInit, OnlyTempUsersGo
<1>2. IInv /\ OnlyTempUsersGo /\ [RegistryNext]_registryVars
        => [\A i \in Ids : users[i] # NoUser /\ ~users[i].temp
                             => users'[i] = users[i]]_registryVars
  <2> SUFFICES ASSUME IInv, OnlyTempUsersGo, [RegistryNext]_registryVars,
                      NEW i \in Ids, users[i] # NoUser, ~users[i].temp
               PROVE users'[i] = users[i]
      OBVIOUS
  <2>1. CASE UNCHANGED users
      BY <2>1
  <2>2. CASE AddsTempUser
      BY <2>2 DEF AddsTempUser, IInv, TypeOK
  <2>3. CASE RemovesUser
      BY <2>3 DEF RemovesUser, OnlyTempUsersGo
  <2> QED BY <2>1, <2>2, <2>3, UsersStep
<1>3. RegistrySpec => [](IInv /\ OnlyTempUsersGo)
    BY Inductive, <1>1, TempUsersStep, PTL DEF RegistrySpec
<1> QED BY <1>2, <1>3, PTL DEF RegistrySpec, ConfiguredUsersStay


-----------------------------------------------------------------------------
(* No entry of the registry is left without an owner.                       *)

\* The keys of a tunnel map are handlers that serve or leave with that object.
RegisteredServes ==
    \A k \in Clients : \A d \in tunnels[k] :
        pc[d] \in {"loop", "remove"} /\ cli[d] = k

\* An object is mapped by one id only.
MappedOnce ==
    \A i, j \in Ids :
        id2Agent[i] # NoClient /\ id2Agent[i] = id2Agent[j] => i = j

OwnInv == RegisteredServes /\ MappedOnce /\ EntryHasOwner

\* A tunnel is in the map of the object it serves, and in no other.
LEMMA ServesStep ==
    IInv /\ OwnInv /\ [RegistryNext]_registryVars => RegisteredServes'
<1> SUFFICES ASSUME IInv, OwnInv, [RegistryNext]_registryVars
             PROVE RegisteredServes'
    OBVIOUS
<1> USE NoClientAssumption, NoIdAssumption DEF IInv, OwnInv, TypeOK, HandlerKnows,
        HoldsObject, RegisteredServes, config, objectVars, handler
<1>1. CASE APICheckBegin
    BY <1>1 DEF APICheckBegin
<1>2. CASE APICheckEnd
    BY <1>2 DEF APICheckEnd
<1>3. ASSUME NEW c \in Conns, PeerStep(c) PROVE RegisteredServes'
  <2>1. CASE Accept(c)
      BY <2>1 DEF Accept, Goto
  <2>2. CASE Authenticate(c)
      BY <2>2 DEF Authenticate, Goto
  <2>3. CASE HandshakeFails(c)
      BY <2>3 DEF HandshakeFails, HandlerReturns, Goto
  <2>4. CASE ReadOption(c)
      BY <2>4 DEF ReadOption, Goto
  <2>5. CASE LoopEnds(c)
      BY <2>5 DEF LoopEnds, Goto
  <2> QED BY <1>3, <2>1, <2>2, <2>3, <2>4, <2>5 DEF PeerStep
<1>4. ASSUME NEW c \in Conns, HandlerStep(c) PROVE RegisteredServes'
  <2>1. CASE LookupExisting(c)
      BY <2>1 DEF LookupExisting, NextTry, Goto
  <2>2. CASE LookupCreate(c)
      BY <2>2 DEF LookupCreate, Unreferenced, NextTry, Goto
  <2>3. CASE InitTunnels(c)
      BY <2>3 DEF InitTunnels, Goto
  <2>4. CASE InitTasks(c)
      BY <2>4 DEF InitTasks, Goto
  <2>5. CASE AddTunnel(c)
      BY <2>5 DEF AddTunnel, Goto
  <2>6. CASE AddRefused(c)
      BY <2>6 DEF AddRefused, Goto
  <2>7. CASE GiveUp(c)
      BY <2>7 DEF GiveUp, HandlerReturns, Goto
  <2>8. CASE RemoveTunnel(c)
      BY <2>8 DEF RemoveTunnel, HandlerReturns, Goto
  <2>9. CASE RemoveLastTunnel(c)
      BY <2>9 DEF RemoveLastTunnel, Goto
  <2>10. CASE RemoveClientOnly(c)
      BY <2>10 DEF RemoveClientOnly, DeleteEntry, Unlock, HandlerReturns, Goto
  <2>11. CASE RemoveClientThenUser(c)
      BY <2>11 DEF RemoveClientThenUser, DeleteEntry, Goto
  <2>12. CASE RemoveUser(c)
      BY <2>12 DEF RemoveUser, Unlock, HandlerReturns, Goto
  <2>13. CASE RemoveClientPanics(c)
      BY <2>13 DEF RemoveClientPanics, DeleteEntry, HandlerReturns, Goto
  <2> QED
    BY <1>4, <2>1, <2>2, <2>3, <2>4, <2>5, <2>6, <2>7,
       <2>8, <2>9, <2>10, <2>11, <2>12, <2>13
    DEF HandlerStep, RemoveClient
<1>5. CASE UNCHANGED registryVars
    BY <1>5 DEF registryVars
<1> QED BY <1>1, <1>2, <1>3, <1>4, <1>5 DEF RegistryNext

\* getOrCreateClient publishes new objects only.
LEMMA MappedOnceStep ==
    IInv /\ OwnInv /\ [RegistryNext]_registryVars => MappedOnce'
<1> SUFFICES ASSUME IInv, OwnInv, [RegistryNext]_registryVars
             PROVE MappedOnce'
    OBVIOUS
<1> USE NoClientAssumption, NoIdAssumption DEF IInv, OwnInv, TypeOK, HandlerKnows,
        HoldsObject, MappedOnce, config, objectVars, handler
<1>1. CASE APICheckBegin
    BY <1>1 DEF APICheckBegin
<1>2. CASE APICheckEnd
    BY <1>2 DEF APICheckEnd
<1>3. ASSUME NEW c \in Conns, PeerStep(c) PROVE MappedOnce'
  <2>1. CASE Accept(c)
      BY <2>1 DEF Accept, Goto
  <2>2. CASE Authenticate(c)
      BY <2>2 DEF Authenticate, Goto
  <2>3. CASE HandshakeFails(c)
      BY <2>3 DEF HandshakeFails, HandlerReturns, Goto
  <2>4. CASE ReadOption(c)
      BY <2>4 DEF ReadOption, Goto
  <2>5. CASE LoopEnds(c)
      BY <2>5 DEF LoopEnds, Goto
  <2> QED BY <1>3, <2>1, <2>2, <2>3, <2>4, <2>5 DEF PeerStep
<1>4. ASSUME NEW c \in Conns, HandlerStep(c) PROVE MappedOnce'
  <2>1. CASE LookupExisting(c)
      BY <2>1 DEF LookupExisting, NextTry, Goto
  <2>2. CASE LookupCreate(c)
      BY <2>2 DEF LookupCreate, Unreferenced, NextTry, Goto
  <2>3. CASE InitTunnels(c)
      BY <2>3 DEF InitTunnels, Goto
  <2>4. CASE InitTasks(c)
      BY <2>4 DEF InitTasks, Goto
  <2>5. CASE AddTunnel(c)
      BY <2>5 DEF AddTunnel, Goto
  <2>6. CASE AddRefused(c)
      BY <2>6 DEF AddRefused, Goto
  <2>7. CASE GiveUp(c)
      BY <2>7 DEF GiveUp, HandlerReturns, Goto
  <2>8. CASE RemoveTunnel(c)
      BY <2>8 DEF RemoveTunnel, HandlerReturns, Goto
  <2>9. CASE RemoveLastTunnel(c)
      BY <2>9 DEF RemoveLastTunnel, Goto
  <2>10. CASE RemoveClientOnly(c)
      BY <2>10 DEF RemoveClientOnly, DeleteEntry, Unlock, HandlerReturns, Goto
  <2>11. CASE RemoveClientThenUser(c)
      BY <2>11 DEF RemoveClientThenUser, DeleteEntry, Goto
  <2>12. CASE RemoveUser(c)
      BY <2>12 DEF RemoveUser, Unlock, HandlerReturns, Goto
  <2>13. CASE RemoveClientPanics(c)
      BY <2>13 DEF RemoveClientPanics, DeleteEntry, HandlerReturns, Goto
  <2> QED
    BY <1>4, <2>1, <2>2, <2>3, <2>4, <2>5, <2>6, <2>7,
       <2>8, <2>9, <2>10, <2>11, <2>12, <2>13
    DEF HandlerStep, RemoveClient
<1>5. CASE UNCHANGED registryVars
    BY <1>5 DEF registryVars
<1> QED BY <1>1, <1>2, <1>3, <1>4, <1>5 DEF RegistryNext

\* Whoever leaves an entry's owners takes the entry out or leaves another owner.
LEMMA OwnerStep ==
    IInv /\ OwnInv /\ [RegistryNext]_registryVars => EntryHasOwner'
<1> SUFFICES ASSUME IInv, OwnInv, [RegistryNext]_registryVars
             PROVE EntryHasOwner'
    OBVIOUS
<1> USE NoClientAssumption, NoIdAssumption DEF IInv, OwnInv, TypeOK, HandlerKnows,
        HoldsObject, MappedOnce, RemoverOwns, CreatorOwns,
        EntryHasOwner, config, objectVars, handler
<1>1. CASE APICheckBegin
    BY <1>1 DEF APICheckBegin
<1>2. CASE APICheckEnd
    BY <1>2 DEF APICheckEnd
<1>3. ASSUME NEW c \in Conns, PeerStep(c) PROVE EntryHasOwner'
  <2>1. CASE Accept(c)
      BY <2>1 DEF Accept, Goto
  <2>2. CASE Authenticate(c)
      BY <2>2 DEF Authenticate, Goto
  <2>3. CASE HandshakeFails(c)
      BY <2>3 DEF HandshakeFails, HandlerReturns, Goto
  <2>4. CASE ReadOption(c)
      BY <2>4 DEF ReadOption, Goto
  <2>5. CASE LoopEnds(c)
      BY <2>5 DEF LoopEnds, Goto
  <2> QED BY <1>3, <2>1, <2>2, <2>3, <2>4, <2>5 DEF PeerStep
<1>4. ASSUME NEW c \in Conns, HandlerStep(c) PROVE EntryHasOwner'
  <2>1. CASE LookupExisting(c)
      BY <2>1 DEF LookupExisting, NextTry, Goto
  <2>2. CASE LookupCreate(c)
      BY <2>2 DEF LookupCreate, Unreferenced, NextTry, Goto
  <2>3. CASE InitTunnels(c)
      BY <2>3 DEF InitTunnels, Goto
  <2>4. CASE InitTasks(c)
      BY <2>4 DEF InitTasks, Goto
  <2>5. CASE AddTunnel(c)
      BY <2>5 DEF AddTunnel, Goto
  <2>6. CASE AddRefused(c)
      BY <2>6 DEF AddRefused, Goto
  <2>7. CASE GiveUp(c)
      BY <2>7 DEF GiveUp, HandlerReturns, Goto
  <2>8. CASE RemoveTunnel(c)
    <3>1. PICK d \in Conns : d \in tunnels[cli[c]] /\ d # c
        BY <2>8 DEF RemoveTunnel
    <3>2. /\ pc[d] \in {"loop", "remove"} /\ cli[d] = cli[c]
          /\ live[cli[d]]
        BY <2>8, <3>1 DEF RemoveTunnel, RegisteredServes, ServingIsRegistered
    <3>3. pc'[d] = pc[d] /\ cli'[d] = cli[d] /\ UNCHANGED <<live, id2Agent>>
        BY <2>8, <3>1 DEF RemoveTunnel, HandlerReturns, Goto
    <3> QED BY <2>8, <3>2, <3>3 DEF RemoveTunnel, HandlerReturns, Goto
  <2>9. CASE RemoveLastTunnel(c)
      BY <2>9 DEF RemoveLastTunnel, Goto
  <2>10. CASE RemoveClientOnly(c)
      BY <2>10 DEF RemoveClientOnly, DeleteEntry, Unlock, HandlerReturns, Goto
  <2>11. CASE RemoveClientThenUser(c)
      BY <2>11 DEF RemoveClientThenUser, DeleteEntry, Goto
  <2>12. CASE RemoveUser(c)
      BY <2>12 DEF RemoveUser, Unlock, HandlerReturns, Goto
  <2>13. CASE RemoveClientPanics(c)
      BY <2>13 DEF RemoveClientPanics, DeleteEntry, HandlerReturns, Goto
  <2> QED
    BY <1>4, <2>1, <2>2, <2>3, <2>4, <2>5, <2>6, <2>7,
       <2>8, <2>9, <2>10, <2>11, <2>12, <2>13
    DEF HandlerStep, RemoveClient
<1>5. CASE UNCHANGED registryVars
    BY <1>5 DEF registryVars
<1> QED BY <1>1, <1>2, <1>3, <1>4, <1>5 DEF RegistryNext

\* No entry is left behind whose addTunnel refuses for ever, after which no
\* agent of that id could connect (server/conn.go:244-260).
THEOREM EntriesAreOwned == RegistrySpec => []EntryHasOwner
<1>1. RegistryInit => OwnInv
    BY DEF RegistryInit, OwnInv, RegisteredServes, MappedOnce, EntryHasOwner
<1>2. IInv /\ OwnInv /\ [RegistryNext]_registryVars => OwnInv'
    BY ServesStep, MappedOnceStep, OwnerStep DEF OwnInv
<1>3. OwnInv => EntryHasOwner
    BY DEF OwnInv
<1> QED BY Inductive, <1>1, <1>2, <1>3, PTL DEF RegistrySpec
=============================================================================
