---------------------------- MODULE BridgeServer ----------------------------
(***************************************************************************)
(* src/bridge/bridge_server.cpp: the owner of the server calls start() and *)
(* stop(); one accept thread takes connections and serves each of them to  *)
(* its end, as a single HTTP request or as a WebSocket.  The two threads   *)
(* share running_, the listening socket, clients_ and mutex_.              *)
(*                                                                         *)
(* The peers and the kernel are external: a peer may connect, send its     *)
(* request or its frames in pieces, fall silent, or close.  A request is   *)
(* abstracted to its route and the client id it names.                     *)
(***************************************************************************)
EXTENDS Integers, Sequences

CONSTANTS
    MaxClients,     \* bound: client ids (uuids) handed out
    MaxConns,       \* bound: connections made
    MaxStarts       \* bound: calls of start() that succeed

ASSUME BoundsAssumption ==
    MaxClients \in Nat /\ MaxConns \in Nat /\ MaxStarts \in Nat

Routes == {"plain", "connect", "disconnect", "message", "ws"}
\* "plain" stands for /health, /sessions and every unknown path.

VARIABLES
    running,    \* running_
    listening,  \* listen_fd_ is open
    mutex,      \* the holder of mutex_: "free" or "stop"; other sections are atomic
    clients,    \* keys of clients_
    sockets,    \* those of them with websocket = true
    owner,      \* the owner thread: "idle", or where it is in stop()
    acc,        \* the accept thread
    route,      \* of the request being served
    target,     \* the client_id in its body; then the client it points at
    whole,      \* its body arrived complete
    me,         \* the id of the WebSocket being served
    backlog,    \* connections waiting to be accepted
    nextId, conns, starts       \* counters of the bounds

ownerVars == <<running, listening, mutex, owner, starts>>
connVars == <<route, target, whole, me>>
peerVars == <<backlog, conns>>
vars == <<running, listening, mutex, clients, sockets, owner, acc, route, target,
          whole, me, backlog, nextId, conns, starts>>

Init ==
    /\ running = FALSE /\ listening = FALSE /\ mutex = "free"
    /\ clients = {} /\ sockets = {}
    /\ owner = "idle" /\ acc = "none"
    /\ route = "plain" /\ target = 0 /\ whole = TRUE /\ me = 0
    /\ backlog = 0 /\ nextId = 1 /\ conns = 0 /\ starts = 0

-----------------------------------------------------------------------------
(* The owner.                                                              *)

\* start(): nothing to do while running; a socket that cannot be opened or
\* bound leaves everything as it was.
Start ==
    /\ owner = "idle" /\ ~running /\ starts < MaxStarts
    /\ running' = TRUE /\ listening' = TRUE
    /\ acc' = "loop"
    /\ starts' = starts + 1
    /\ UNCHANGED <<mutex, clients, sockets, owner, connVars, peerVars, nextId>>

\* Slip: the flag is left alone.
StopKeepsRunning ==
    /\ owner = "idle" /\ running
    /\ owner' = "close"
    /\ UNCHANGED <<running, listening, mutex, starts, clients, sockets, acc, connVars,
                   peerVars, nextId>>

StopFlag ==
    /\ owner = "idle" /\ running
    /\ running' = FALSE
    /\ owner' = "close"
    /\ UNCHANGED <<listening, mutex, starts, clients, sockets, acc, connVars, peerVars,
                   nextId>>

\* The listening socket is shut down and closed; connections it held go.
StopClose ==
    /\ owner = "close"
    /\ listening' = FALSE
    /\ backlog' = 0
    /\ owner' = "lock"
    /\ UNCHANGED <<running, mutex, starts, clients, sockets, acc, connVars, conns, nextId>>

\* Slip: the lock is released before the accept thread is joined.
StopClearUnlocked ==
    /\ owner = "lock" /\ mutex = "free"
    /\ clients' = {} /\ sockets' = {}
    /\ owner' = "join"
    /\ UNCHANGED <<running, listening, mutex, starts, acc, connVars, peerVars, nextId>>

\* stop() takes mutex_ and empties clients_ ...
StopClear ==
    /\ owner = "lock" /\ mutex = "free"
    /\ mutex' = "stop"
    /\ clients' = {} /\ sockets' = {}
    /\ owner' = "join"
    /\ UNCHANGED <<running, listening, starts, acc, connVars, peerVars, nextId>>

\* ... and still holds it while it joins the accept thread.
StopJoin ==
    /\ owner = "join" /\ acc = "ended"
    /\ acc' = "none"
    /\ mutex' = "free"
    /\ owner' = "idle"
    /\ UNCHANGED <<running, listening, starts, clients, sockets, connVars, peerVars, nextId>>

-----------------------------------------------------------------------------
(* accept_loop.                                                            *)

Shared == <<ownerVars, clients, sockets, nextId, peerVars>>

AcceptTop ==
    /\ acc = "loop"
    /\ acc' = IF running THEN "poll" ELSE "ended"
    /\ UNCHANGED <<Shared, connVars>>

\* poll() times out, or accept() fails; a socket closed under it makes
\* poll() report an error, which ends the loop.
PollNothing ==
    /\ acc = "poll"
    /\ \/ acc' = "loop"
       \/ ~listening /\ acc' = "ended"
    /\ UNCHANGED <<Shared, connVars>>

\* Slip: accept() whatever poll() reported.
AcceptUnchecked ==
    /\ acc = "poll" /\ listening
    /\ backlog' = backlog - 1
    /\ acc' = "head"
    /\ route' = "plain" /\ target' = 0 /\ whole' = TRUE /\ me' = 0
    /\ UNCHANGED <<ownerVars, clients, sockets, nextId, conns>>

Accept ==
    /\ acc = "poll" /\ listening /\ backlog > 0
    /\ backlog' = backlog - 1
    /\ acc' = "head"
    /\ route' = "plain" /\ target' = 0 /\ whole' = TRUE /\ me' = 0
    /\ UNCHANGED <<ownerVars, clients, sockets, nextId, conns>>

-----------------------------------------------------------------------------
(* handle_client.                                                          *)

\* The loop that reads the header looks at running_ before each recv().
HeadTest ==
    /\ acc = "head"
    /\ acc' = IF running THEN "recv" ELSE "loop"
    /\ UNCHANGED <<Shared, connVars>>

\* recv() blocks until the peer sends or closes; a header cut short closes
\* the connection.
RecvHead ==
    /\ acc = "recv"
    /\ \/ acc' = "head" /\ UNCHANGED <<route, target, whole>>
       \/ /\ acc' = "body"
          /\ route' \in Routes
          /\ nextId <= MaxClients \/ route' \notin {"connect", "ws"}
          /\ target' \in 0..MaxClients
          /\ whole' \in BOOLEAN
    /\ UNCHANGED <<Shared, me>>

RecvHeadClosed ==
    /\ acc = "recv"
    /\ acc' = "loop"
    /\ UNCHANGED <<Shared, connVars>>

BodyTest ==
    /\ acc = "body"
    /\ acc' = IF running /\ ~whole THEN "recvBody" ELSE "route"
    /\ UNCHANGED <<Shared, connVars>>

RecvBody ==
    /\ acc = "recvBody"
    /\ acc' = "body"
    /\ whole' \in BOOLEAN
    /\ UNCHANGED <<Shared, route, target, me>>

RecvBodyClosed ==
    /\ acc = "recvBody"
    /\ acc' = "route"
    /\ UNCHANGED <<Shared, connVars>>

\* A body that does not parse is answered with 400, a path that is not
\* routed ("/ws" among them) with 404.
Route ==
    /\ acc = "route"
    /\ acc' = IF route \in {"connect", "disconnect", "message"} /\ whole
                THEN "lock" ELSE "respond"
    /\ UNCHANGED <<Shared, connVars>>

Connect ==
    /\ acc = "lock" /\ route = "connect" /\ mutex = "free"
    /\ clients' = clients \cup {nextId}
    /\ nextId' = nextId + 1
    /\ acc' = "respond"
    /\ UNCHANGED <<ownerVars, sockets, connVars, peerVars>>

Disconnect ==
    /\ acc = "lock" /\ route = "disconnect" /\ mutex = "free"
    /\ clients' = clients \ {target}
    /\ sockets' = sockets \ {target}
    /\ acc' = "respond"
    /\ UNCHANGED <<ownerVars, connVars, nextId, peerVars>>

\* The client is looked up under the lock, and used after it.
FindClient ==
    /\ acc = "lock" /\ route = "message" /\ mutex = "free"
    /\ acc' = IF target \in clients THEN "handler" ELSE "respond"
    /\ UNCHANGED <<Shared, connVars>>

\* message_handler_ returns, or throws.
HandlerDone ==
    /\ acc = "handler"
    /\ acc' = "respond"
    /\ UNCHANGED <<Shared, connVars>>

\* The response has been sent.  A "/ws" request with the upgrade headers
\* goes on as a WebSocket, everything else is closed.
Respond ==
    /\ acc = "respond"
    /\ \/ acc' = "loop"
       \/ route = "ws" /\ acc' = "upgrade"
    /\ UNCHANGED <<Shared, connVars>>

-----------------------------------------------------------------------------
(* handle_websocket.                                                       *)

\* The upgrade response; a failed send closes the connection.
Upgrade ==
    /\ acc = "upgrade"
    /\ acc' \in {"register", "loop"}
    /\ UNCHANGED <<Shared, connVars>>

Register ==
    /\ acc = "register" /\ mutex = "free"
    /\ clients' = clients \cup {nextId}
    /\ sockets' = sockets \cup {nextId}
    /\ me' = nextId
    /\ nextId' = nextId + 1
    /\ acc' = "wsTop"
    /\ UNCHANGED <<ownerVars, route, target, whole, peerVars>>

WsTop ==
    /\ acc = "wsTop"
    /\ acc' = IF running THEN "wsRecv" ELSE "wsCleanup"
    /\ UNCHANGED <<Shared, connVars>>

\* A frame arrives: a message for the handler, or one that is answered or
\* dropped here (a ping, text that is not JSON).
WsFrame ==
    /\ acc = "wsRecv"
    /\ acc' \in {"wsLookup", "wsTop"}
    /\ UNCHANGED <<Shared, connVars>>

\* Slip: an empty frame does not end the loop.
WsClosedIgnored ==
    /\ acc = "wsRecv"
    /\ acc' = "wsTop"
    /\ UNCHANGED <<Shared, connVars>>

\* A close frame, an empty frame or the end of the stream.
WsClosed ==
    /\ acc = "wsRecv"
    /\ acc' = "wsCleanup"
    /\ UNCHANGED <<Shared, connVars>>

\* The client's record is copied under the lock for the handler.
WsLookup ==
    /\ acc = "wsLookup" /\ mutex = "free"
    /\ acc' = "wsHandler"
    /\ UNCHANGED <<Shared, connVars>>

WsHandlerDone ==
    /\ acc = "wsHandler"
    /\ acc' = "wsTop"
    /\ UNCHANGED <<Shared, connVars>>

\* Slip: the entry is left in clients_.
WsCleanupForgets ==
    /\ acc = "wsCleanup" /\ mutex = "free"
    /\ acc' = "loop"
    /\ UNCHANGED <<Shared, connVars>>

WsCleanup ==
    /\ acc = "wsCleanup" /\ mutex = "free"
    /\ clients' = clients \ {me}
    /\ sockets' = sockets \ {me}
    /\ acc' = "loop"
    /\ UNCHANGED <<ownerVars, nextId, connVars, peerVars>>

-----------------------------------------------------------------------------
\* A peer connects.
PeerConnect ==
    /\ listening /\ conns < MaxConns
    /\ backlog' = backlog + 1
    /\ conns' = conns + 1
    /\ UNCHANGED <<ownerVars, clients, sockets, acc, connVars, nextId>>

Stop == StopFlag \/ StopClose \/ StopClear \/ StopJoin

\* The steps of the accept thread that wait for no peer.
Serve == AcceptTop \/ PollNothing \/ Accept \/ HeadTest \/ BodyTest \/ Route
            \/ Connect \/ Disconnect \/ FindClient \/ HandlerDone \/ Respond
            \/ Upgrade \/ Register \/ WsTop \/ WsLookup \/ WsHandlerDone \/ WsCleanup

\* What a peer sends, and its closing.
PeerSends == RecvHead \/ RecvBody \/ WsFrame
PeerCloses == RecvHeadClosed \/ RecvBodyClosed \/ WsClosed

Next == Start \/ Stop \/ Serve \/ PeerSends \/ PeerCloses \/ PeerConnect

Spec == Init /\ [][Next]_vars

\* Both threads run, and peers behave: whoever is waited for closes in the
\* end (the strong fairness of PeerCloses is an assumption on peers, not on
\* the server; a silent peer holds the server for ever).
FairSpec ==
    /\ Spec
    /\ WF_vars(StopClose) /\ WF_vars(StopClear) /\ WF_vars(StopJoin)
    /\ WF_vars(Serve) /\ SF_vars(PeerCloses)

-----------------------------------------------------------------------------
(* Properties.                                                             *)

\* The types of the variables.
TypeOK ==
    /\ running \in BOOLEAN /\ listening \in BOOLEAN /\ whole \in BOOLEAN
    /\ mutex \in {"free", "stop"}
    /\ clients \subseteq 1..MaxClients /\ sockets \subseteq clients
    /\ owner \in {"idle", "close", "lock", "join"}
    /\ acc \in {"none", "loop", "poll", "ended", "head", "recv", "body", "recvBody",
                "route", "lock", "handler", "respond", "upgrade", "register", "wsTop",
                "wsRecv", "wsLookup", "wsHandler", "wsCleanup"}
    /\ route \in Routes
    /\ target \in 0..MaxClients /\ me \in 0..MaxClients
    /\ backlog \in 0..MaxConns

\* When stop() has returned the accept thread is gone and nobody is
\* registered: a client that was connecting meanwhile cannot slip in behind
\* the clear() and be found again after the next start().
StoppedEmpty == owner = "idle" /\ ~running => acc = "none" /\ clients = {}

\* The client a message or a frame is being handled for stays registered
\* until the handler is done, unless the server is being stopped: the
\* reference kept across the unlock is good as long as running_ is set.
ServedClientKnown ==
    running => /\ acc = "handler" => target \in clients
               /\ acc \in {"wsTop", "wsRecv", "wsLookup", "wsHandler"} => me \in clients

\* No entry with a descriptor outlives its connection: while the accept
\* thread is between connections no WebSocket is registered.
NoStaleSocket == acc \in {"none", "loop", "poll", "ended", "head"} => sockets = {}

\* Unless stop() is called, a connection that was accepted is served to its
\* end by the one thread there is, so that the next one gets its turn.
ConnectionEnds ==
    (acc = "recv") ~> (acc \in {"loop", "ended"} \/ owner # "idle")
=============================================================================
