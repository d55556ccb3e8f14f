---------------------------- MODULE BridgeProofs ----------------------------
(***************************************************************************)
(* The safety of the IDE bridge: the server, for any number of clients,    *)
(* connections and restarts, and its sessions, for any clients and         *)
(* sessions.  ServerInv ties together where the two threads are: what      *)
(* stop() has done so far, which of the accept thread's states a WebSocket *)
(* is registered in, and which client a request in progress points at.     *)
(***************************************************************************)
EXTENDS BridgeServer, SessionManager, TLAPS

\* The states of the accept thread in which its own WebSocket is registered.
WsStates == {"wsTop", "wsRecv", "wsLookup", "wsHandler", "wsCleanup"}

\* Where the owner is in stop(), in terms of what both threads see.
OwnerInv ==
    /\ running => owner = "idle"
    /\ mutex = "stop" <=> owner = "join"
    /\ owner = "join" => clients = {}
    /\ owner = "idle" /\ ~running => acc = "none" /\ clients = {}

\* At most the WebSocket being served is registered with a descriptor.
SocketInv == sockets \subseteq (IF acc \in WsStates THEN {me} ELSE {})

\* The client a request in progress uses is registered while running_ is set.
UseInv ==
    running => /\ acc = "handler" => target \in clients
               /\ acc \in WsStates => me \in clients

\* Ids are handed out in order; a request that will register a client has
\* one left.
IdInv ==
    /\ nextId \in 1..(MaxClients + 1)
    /\ acc \in {"body", "recvBody", "route", "lock"} /\ route \in {"connect", "ws"}
          => nextId <= MaxClients
    /\ acc \in {"respond", "upgrade", "register"} /\ route = "ws"
          => nextId <= MaxClients
    /\ acc \in {"upgrade", "register"} => route = "ws"
    /\ acc \in {"handler"} => route = "message"
    /\ backlog <= conns /\ conns \in 0..MaxConns

ServerInv == TypeOK /\ OwnerInv /\ SocketInv /\ UseInv /\ IdInv

\* Nothing runs and nobody is registered when the server is built.
LEMMA InitServerInv == Init => ServerInv
  <1> SUFFICES ASSUME Init PROVE ServerInv
    OBVIOUS
  <1>1. TypeOK
    <2>1. running \in BOOLEAN /\ listening \in BOOLEAN /\ whole \in BOOLEAN
      BY DEF Init
    <2> QED BY <2>1, BoundsAssumption DEF Init, TypeOK, Routes
  <1>2. OwnerInv /\ SocketInv /\ UseInv
    BY DEF Init, OwnerInv, SocketInv, UseInv, WsStates
  <1>3. IdInv
    BY BoundsAssumption DEF Init, IdInv
  <1> QED BY <1>1, <1>2, <1>3 DEF ServerInv

\* start(): the state it begins in is the one stop() leaves.
LEMMA StartInv == ServerInv /\ Start => ServerInv'
  <1> SUFFICES ASSUME ServerInv, Start PROVE ServerInv'
    OBVIOUS
  <1> USE BoundsAssumption
      DEF ServerInv, TypeOK, OwnerInv, SocketInv, UseInv, IdInv, WsStates, Routes,
          Shared, ownerVars, connVars, peerVars
  <1> QED BY DEF Start

\* stop(): clients_ is emptied under the lock, and the lock is kept until
\* the accept thread has been joined.
LEMMA StopInv == ServerInv /\ Stop => ServerInv'
  <1> SUFFICES ASSUME ServerInv, Stop PROVE ServerInv'
    OBVIOUS
  <1> USE BoundsAssumption
      DEF ServerInv, TypeOK, OwnerInv, SocketInv, UseInv, IdInv, WsStates, Routes,
          Shared, ownerVars, connVars, peerVars
  <1>1. CASE StopFlag
    <2>1. running' \in BOOLEAN /\ ~running'
      BY <1>1 DEF StopFlag
    <2>2. TypeOK'
      BY <1>1, <2>1 DEF StopFlag
    <2>3. OwnerInv' /\ SocketInv' /\ UseInv' /\ IdInv'
      BY <1>1, <2>1 DEF StopFlag
    <2> QED BY <2>2, <2>3
  <1>2. CASE StopClose
    <2>1. listening' \in BOOLEAN
      BY <1>2 DEF StopClose
    <2>2. UNCHANGED <<running, mutex, clients, sockets, acc, route, target, whole, me,
                      nextId, conns>>
      BY <1>2 DEF StopClose
    <2>3. TypeOK'
      BY <1>2, <2>1, <2>2 DEF StopClose
    <2>4. OwnerInv' /\ SocketInv' /\ UseInv' /\ IdInv'
      BY <1>2, <2>2 DEF StopClose
    <2> QED BY <2>3, <2>4
  <1>3. CASE StopClear
    BY <1>3 DEF StopClear
  <1>4. CASE StopJoin
    BY <1>4 DEF StopJoin
  <1> QED BY <1>1, <1>2, <1>3, <1>4 DEF Stop

\* The accept thread's own steps.
LEMMA ServeInv == ServerInv /\ Serve => ServerInv'
  <1> SUFFICES ASSUME ServerInv, Serve PROVE ServerInv'
    OBVIOUS
  <1> USE BoundsAssumption
      DEF ServerInv, TypeOK, OwnerInv, SocketInv, UseInv, IdInv, WsStates, Routes,
          Shared, ownerVars, connVars, peerVars
  <1>1. CASE AcceptTop
    BY <1>1 DEF AcceptTop
  <1>2. CASE PollNothing
    BY <1>2 DEF PollNothing
  <1>3. CASE Accept
    BY <1>3 DEF Accept
  <1>4. CASE HeadTest
    BY <1>4 DEF HeadTest
  <1>5. CASE BodyTest
    BY <1>5 DEF BodyTest
  <1>6. CASE Route
    BY <1>6 DEF Route
  <1>7. CASE Connect
    BY <1>7 DEF Connect
  <1>8. CASE Disconnect
    BY <1>8 DEF Disconnect
  <1>9. CASE FindClient
    BY <1>9 DEF FindClient
  <1>10. CASE HandlerDone
    BY <1>10 DEF HandlerDone
  <1>11. CASE Respond
    BY <1>11 DEF Respond
  <1>12. CASE Upgrade
    BY <1>12 DEF Upgrade
  <1>13. CASE Register
    BY <1>13 DEF Register
  <1>14. CASE WsTop
    BY <1>14 DEF WsTop
  <1>15. CASE WsLookup
    BY <1>15 DEF WsLookup
  <1>16. CASE WsHandlerDone
    BY <1>16 DEF WsHandlerDone
  <1>17. CASE WsCleanup
    BY <1>17 DEF WsCleanup
  <1> QED BY <1>1, <1>2, <1>3, <1>4, <1>5, <1>6, <1>7, <1>8, <1>9, <1>10,
             <1>11, <1>12, <1>13, <1>14, <1>15, <1>16, <1>17 DEF Serve

\* What a peer sends.
LEMMA PeerSendsInv == ServerInv /\ PeerSends => ServerInv'
  <1> SUFFICES ASSUME ServerInv, PeerSends PROVE ServerInv'
    OBVIOUS
  <1> USE BoundsAssumption
      DEF ServerInv, TypeOK, OwnerInv, SocketInv, UseInv, IdInv, WsStates, Routes,
          Shared, ownerVars, connVars, peerVars
  <1>1. CASE RecvHead
    BY <1>1 DEF RecvHead
  <1>2. CASE RecvBody
    BY <1>2 DEF RecvBody
  <1>3. CASE WsFrame
    BY <1>3 DEF WsFrame
  <1> QED BY <1>1, <1>2, <1>3 DEF PeerSends

\* Peers that close, and peers that connect.
LEMMA PeerInv == ServerInv /\ (PeerCloses \/ PeerConnect) => ServerInv'
  <1> SUFFICES ASSUME ServerInv, PeerCloses \/ PeerConnect PROVE ServerInv'
    OBVIOUS
  <1> USE BoundsAssumption
      DEF ServerInv, TypeOK, OwnerInv, SocketInv, UseInv, IdInv, WsStates, Routes,
          Shared, ownerVars, connVars, peerVars
  <1>1. CASE RecvHeadClosed
    BY <1>1 DEF RecvHeadClosed
  <1>2. CASE RecvBodyClosed
    BY <1>2 DEF RecvBodyClosed
  <1>3. CASE WsClosed
    BY <1>3 DEF WsClosed
  <1>4. CASE PeerConnect
    BY <1>4 DEF PeerConnect
  <1> QED BY <1>1, <1>2, <1>3, <1>4 DEF PeerCloses

\* Every step of either thread and of the peers keeps ServerInv.
LEMMA NextServerInv == ServerInv /\ [Next]_vars => ServerInv'
  <1> SUFFICES ASSUME ServerInv, [Next]_vars PROVE ServerInv'
    OBVIOUS
  <1>1. CASE UNCHANGED vars
    BY <1>1 DEF ServerInv, TypeOK, OwnerInv, SocketInv, UseInv, IdInv, vars
  <1> QED BY <1>1, StartInv, StopInv, ServeInv, PeerSendsInv, PeerInv DEF Next

\* ServerInv holds throughout.
THEOREM ServerInvariant == Spec => []ServerInv
  BY InitServerInv, NextServerInv, PTL DEF Spec

\* The variables of the two threads keep their types.
THEOREM TypeSafe == Spec => []TypeOK
  BY ServerInvariant, PTL DEF ServerInv

\* When stop() has returned no thread and no client of that run is left,
\* however the peers' requests were interleaved with it.
THEOREM StopSafe == Spec => []StoppedEmpty
  <1>1. ServerInv => StoppedEmpty
    BY DEF ServerInv, OwnerInv, StoppedEmpty
  <1> QED BY <1>1, ServerInvariant, PTL

\* The client that a handler was given stays registered while running_ is
\* set: only stop() empties clients_ under a request.
THEOREM ServedSafe == Spec => []ServedClientKnown
  <1>1. ServerInv => ServedClientKnown
    BY DEF ServerInv, UseInv, ServedClientKnown, WsStates
  <1> QED BY <1>1, ServerInvariant, PTL

\* No descriptor stays registered after its connection was closed.
THEOREM SocketSafe == Spec => []NoStaleSocket
  <1>1. ServerInv => NoStaleSocket
    BY DEF ServerInv, SocketInv, NoStaleSocket, WsStates
  <1> QED BY <1>1, ServerInvariant, PTL

\* stop() joins the accept thread, which waits for the mutex stop() holds.
JoinStuck == owner = "join" /\ acc \in {"lock", "register", "wsLookup", "wsCleanup"}

\* When stop() has taken the mutex while the accept thread is about to take it,
\* neither gets any further: not the join, not the request, not a later start().
THEOREM JoinStuckForEver ==
    Spec => [][JoinStuck => UNCHANGED <<owner, acc, mutex, running, clients>>]_vars
  <1>1. ASSUME ServerInv, [Next]_vars, JoinStuck
        PROVE  UNCHANGED <<owner, acc, mutex, running, clients>>
    <2>1. mutex = "stop" /\ owner = "join"
      BY <1>1 DEF ServerInv, OwnerInv, JoinStuck
    <2>2. CASE UNCHANGED vars
      BY <2>2 DEF vars, ownerVars, connVars, peerVars
    <2>3. ~Start /\ ~Stop
      BY <1>1, <2>1 DEF JoinStuck, Start, Stop, StopFlag, StopClose, StopClear, StopJoin
    <2>4. ~Serve /\ ~PeerSends /\ ~PeerCloses
      BY <1>1, <2>1 DEF JoinStuck, Serve, AcceptTop, PollNothing, Accept, HeadTest, BodyTest,
         Route, Connect, Disconnect, FindClient, HandlerDone, Respond, Upgrade, Register,
         WsTop, WsLookup, WsHandlerDone, WsCleanup, PeerSends, RecvHead, RecvBody, WsFrame,
         PeerCloses, RecvHeadClosed, RecvBodyClosed, WsClosed
    <2>5. CASE PeerConnect
      BY <2>5 DEF PeerConnect, ownerVars
    <2> QED BY <1>1, <2>2, <2>3, <2>4, <2>5 DEF Next
  <1> QED BY <1>1, ServerInvariant, PTL DEF Spec


-----------------------------------------------------------------------------
(* The sessions: MappingBacked is inductive together with the types; that  *)
(* a new uuid is fresh enters through SessionTypeOK (no live session has   *)
(* the new id).                                                            *)

SessionInv == SessionTypeOK /\ MappingBacked

\* No client is mapped when the manager is built.
LEMMA InitSessionInv == SessionInit => SessionInv
  BY ImplsAssumption DEF SessionInit, SessionInv, SessionTypeOK, MappingBacked

\* create_session maps its client to the session that lists it, and touches
\* no other client's session, since the id is new.
LEMMA CreateSessionInv ==
  ASSUME SessionInv, NEW c \in Client \cup {None}, CreateSession(c)
  PROVE  SessionInv'
  <1>1. PICK s \in Session \ used :
          /\ used' = used \cup {s}
          /\ sessions' = sessions \cup {s}
          /\ IF c = None THEN UNCHANGED <<members, where>>
             ELSE /\ members' = [members EXCEPT ![s] = {c}]
                  /\ where' = [where EXCEPT ![c] = s]
          /\ UNCHANGED impl
    BY DEF CreateSession
  <1>2. SessionTypeOK'
    BY <1>1 DEF SessionInv, SessionTypeOK
  <1>3. s \notin sessions /\ s # None
    BY <1>1, NoneAssumption DEF SessionInv, SessionTypeOK
  <1>4. MappingBacked'
    <2>1. CASE c = None
      BY <1>1, <2>1 DEF SessionInv, SessionTypeOK, MappingBacked
    <2>2. CASE c # None
      <3>1. SUFFICES ASSUME NEW d \in Client, where'[d] # None
                     PROVE  where'[d] \in sessions' /\ d \in members'[where'[d]]
        BY DEF MappingBacked
      <3>2. CASE d = c
        BY <1>1, <2>2, <3>2 DEF SessionInv, SessionTypeOK
      <3>3. CASE d # c
        BY <1>1, <1>3, <2>2, <3>1, <3>3 DEF SessionInv, SessionTypeOK, MappingBacked
      <3> QED BY <3>2, <3>3
    <2> QED BY <2>1, <2>2
  <1> QED BY <1>2, <1>4 DEF SessionInv

\* attach lists the client before it maps it; other clients are untouched.
LEMMA AttachInv ==
  ASSUME SessionInv, NEW s \in Session, NEW c \in Client, Attach(s, c)
  PROVE  SessionInv'
  <1>1. SessionTypeOK'
    BY DEF SessionInv, SessionTypeOK, Attach
  <1>2. MappingBacked'
    BY DEF SessionInv, SessionTypeOK, MappingBacked, Attach
  <1> QED BY <1>1, <1>2 DEF SessionInv

\* detach unlists only the client whose mapping it removes, so a session it
\* destroys is one no other client is mapped to.
LEMMA DetachInv ==
  ASSUME SessionInv, NEW c \in Client, Detach(c)
  PROVE  SessionInv'
  <1>1. SessionTypeOK'
    BY DEF SessionInv, SessionTypeOK, Detach
  <1>2. ASSUME NEW d \in Client, where'[d] # None
        PROVE  where'[d] \in sessions' /\ d \in members'[where'[d]]
    <2>1. d # c /\ where'[d] = where[d]
      BY <1>2 DEF SessionInv, SessionTypeOK, Detach
    <2>2. where[d] \in sessions /\ d \in members[where[d]]
      BY <1>2, <2>1 DEF SessionInv, MappingBacked
    <2>3. d \in members'[where[d]]
      BY <2>1, <2>2 DEF SessionInv, SessionTypeOK, Detach
    <2>4. where[d] \in sessions'
      BY <2>1, <2>2 DEF SessionInv, SessionTypeOK, Detach
    <2> QED BY <2>1, <2>3, <2>4
  <1> QED BY <1>1, <1>2 DEF SessionInv, MappingBacked

\* destroy_session unmaps every client the session lists, and only they can
\* be mapped to it.
LEMMA DestroySessionInv ==
  ASSUME SessionInv, NEW s \in Session, DestroySession(s)
  PROVE  SessionInv'
  <1>1. SessionTypeOK'
    BY DEF SessionInv, SessionTypeOK, DestroySession
  <1>2. MappingBacked'
    BY DEF SessionInv, SessionTypeOK, MappingBacked, DestroySession
  <1> QED BY <1>1, <1>2 DEF SessionInv

\* Every operation of the manager keeps the types and the mapping.
LEMMA NextSessionInv == SessionInv /\ [SessionNext]_sessionVars => SessionInv'
  <1> SUFFICES ASSUME SessionInv, [SessionNext]_sessionVars PROVE SessionInv'
    OBVIOUS
  <1>1. CASE UNCHANGED sessionVars
    BY <1>1 DEF SessionInv, SessionTypeOK, MappingBacked, sessionVars
  <1>2. CASE \E c \in Client \cup {None} : CreateSession(c)
    BY <1>2, CreateSessionInv
  <1>3. CASE \E s \in Session, c \in Client : Attach(s, c)
    BY <1>3, AttachInv
  <1>4. CASE \E c \in Client : Detach(c)
    BY <1>4, DetachInv
  <1>5. CASE \E s \in Session : DestroySession(s)
    BY <1>5, DestroySessionInv
  <1> QED BY <1>1, <1>2, <1>3, <1>4, <1>5 DEF SessionNext

\* In both implementations, for any clients and any number of sessions, a
\* client is only ever mapped to a live session that lists it.
THEOREM MappingSafe == SessionSpec => []MappingBacked
  BY InitSessionInv, NextSessionInv, PTL DEF SessionSpec, SessionInv

\* The maps of both implementations keep their types, and no session exists
\* under an id that was never handed out.
THEOREM SessionTypeSafe == SessionSpec => []SessionTypeOK
  BY InitSessionInv, NextSessionInv, PTL DEF SessionSpec, SessionInv
=============================================================================
