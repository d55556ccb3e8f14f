--------------------------- MODULE SessionManager ---------------------------
(***************************************************************************)
(* The bridge's SessionManager: sessions, the clients each one lists, and  *)
(* the map from a client to its session.  Every operation holds the mutex  *)
(* from its first to its last statement, so each is one action.            *)
(*                                                                         *)
(* The class has two implementations, in src/bridge/session_manager.cpp    *)
(* ("manager") and at the end of src/bridge/bridge_server.cpp ("server");  *)
(* both are in the library, and the linker takes one of them.  The id      *)
(* create_session returns is left out; client_ids is abstracted to the set *)
(* of its elements.                                                        *)
(***************************************************************************)
CONSTANTS
    Client,     \* client ids
    Session,    \* the uuids that may be generated
    Impls,      \* the implementations considered
    None        \* no client, no session

ASSUME NoneAssumption == None \notin Session \cup Client
ASSUME ImplsAssumption == Impls \subseteq {"manager", "server"}

VARIABLES
    impl,       \* the implementation the linker took
    used,       \* uuids generated so far
    sessions,   \* keys of sessions_
    members,    \* client_ids of each session
    where       \* client_to_session_

sessionVars == <<impl, used, sessions, members, where>>

SessionInit ==
    /\ impl \in Impls
    /\ used = {}
    /\ sessions = {}
    /\ members = [s \in Session |-> {}]
    /\ where = [c \in Client |-> None]

\* A session for client c, or for no client (c = None).  The client's former
\* session keeps listing it.
CreateSession(c) ==
    \E s \in Session \ used :
        /\ used' = used \cup {s}
        /\ sessions' = sessions \cup {s}
        /\ IF c = None
             THEN UNCHANGED <<members, where>>
             ELSE /\ members' = [members EXCEPT ![s] = {c}]
                  /\ where' = [where EXCEPT ![c] = s]
        /\ UNCHANGED impl

\* Slip: the session is looked up with operator[], which inserts it.
AttachInserts(s, c) ==
    /\ sessions' = sessions \cup {s}
    /\ members' = [members EXCEPT ![s] = @ \cup {c}]
    /\ where' = [where EXCEPT ![c] = s]
    /\ UNCHANGED <<impl, used>>

\* Nothing happens when the session does not exist; the client's former
\* session keeps listing it.
Attach(s, c) ==
    /\ s \in sessions
    /\ members' = [members EXCEPT ![s] = @ \cup {c}]
    /\ where' = [where EXCEPT ![c] = s]
    /\ UNCHANGED <<impl, used, sessions>>

\* The client leaves the session it is mapped to; "manager" also destroys a
\* session whose last client left.
Detach(c) ==
    LET s == where[c]
    IN  /\ s # None
        /\ where' = [where EXCEPT ![c] = None]
        /\ IF s \in sessions
             THEN members' = [members EXCEPT ![s] = @ \ {c}]
             ELSE UNCHANGED members
        /\ sessions' = IF impl = "manager" /\ s \in sessions /\ members[s] \subseteq {c}
                         THEN sessions \ {s} ELSE sessions
        /\ UNCHANGED <<impl, used>>

\* Slip: the mappings of the session's clients stay.
DestroyKeepsMappings(s) ==
    /\ s \in sessions
    /\ sessions' = sessions \ {s}
    /\ members' = [members EXCEPT ![s] = {}]
    /\ UNCHANGED <<impl, used, where>>

\* Every client the session lists loses its mapping, whatever session the
\* mapping names.
DestroySession(s) ==
    /\ s \in sessions
    /\ sessions' = sessions \ {s}
    /\ members' = [members EXCEPT ![s] = {}]
    /\ where' = [c \in Client |-> IF c \in members[s] THEN None ELSE where[c]]
    /\ UNCHANGED <<impl, used>>

SessionNext ==
    \/ \E c \in Client \cup {None} : CreateSession(c)
    \/ \E s \in Session, c \in Client : Attach(s, c)
    \/ \E c \in Client : Detach(c)
    \/ \E s \in Session : DestroySession(s)

SessionSpec == SessionInit /\ [][SessionNext]_sessionVars

-----------------------------------------------------------------------------
(* Properties.                                                             *)

\* The types of the variables; only sessions that were created exist.
SessionTypeOK ==
    /\ impl \in {"manager", "server"}
    /\ used \subseteq Session
    /\ sessions \subseteq used
    /\ members \in [Session -> SUBSET Client]
    /\ where \in [Client -> Session \cup {None}]

\* A client is mapped only to a session that exists and lists it, however
\* clients move between sessions and sessions are destroyed: detach never
\* meets a dangling mapping, in either implementation.
MappingBacked ==
    \A c \in Client :
        where[c] # None => where[c] \in sessions /\ c \in members[where[c]]
=============================================================================
