------------------------------ MODULE McpTools ------------------------------
(***************************************************************************)
(* The MCP servers a program knows and the tools it offers from them:      *)
(* McpManager and the SSE half of McpClient                                *)
(* (src/protocol/mcp/mcp_client.cpp), McpSseTransport                      *)
(* (src/protocol/mcp/mcp_transport.cpp), McpTool and McpToolManager        *)
(* (src/tools/mcp_tool.cpp) and the ToolRegistry they register with.       *)
(*                                                                         *)
(* A McpClient object is a number, given when it is made.  The manager     *)
(* owns the clients; each McpTool in the registry keeps a raw pointer to   *)
(* one.  Operations of the manager hold its mutex throughout, so each is   *)
(* one action.  A sync holds the tool manager's mutex, but takes the       *)
(* manager's for each question it asks: other threads connect and          *)
(* disconnect servers in between.  The exchange with a stdio server is     *)
(* module StdioRpc; here connecting works or not, and a stdio server lists *)
(* any set of tools.  HTTP servers are external.                           *)
(***************************************************************************)
EXTENDS Integers, Sequences, FiniteSetsExt, SequencesExt

CONSTANTS
    Server,     \* server names, in the order of the map
    Tool,       \* tool names
    Config,     \* what add_server may be given
    MaxClients, \* bound: clients made
    MaxLines    \* bound: lines of the answer to the SSE GET

\* The configurations there are; path: the URL has a path.
Configurations ==
    [transport : {"stdio"}, enabled : BOOLEAN, path : {FALSE}]
        \cup [transport : {"sse"}, enabled : BOOLEAN, path : BOOLEAN]

ASSUME ConfigAssumption == Config \subseteq Configurations
ASSUME ServerAssumption == Server \subseteq Nat \ {0}
ASSUME BoundsAssumption == MaxClients \in Nat /\ MaxLines \in Nat

VARIABLES
    configs,    \* configs_: each server's configuration, or NoConfig
    made,       \* clients made so far
    alive,      \* clients not yet destroyed
    clients,    \* clients_: each server's client, 0 for none
    serverTools,\* server_tools_; no entry and an empty one are the same
    post,       \* post_endpoint_ of each client
    registry,   \* the client that the tool registered for a server and a tool
                \* of it points to and calls, 0 when there is no such tool
    named,      \* tool_to_server_: the registered tools the manager counts
    synced,     \* server_to_tools_
    queue,      \* the servers the sync in progress has still to do
    at,         \* its next question: "idle", "list", "client" or "register"
    found, client,  \* its tools and its client
    syncedWith  \* history: what get_client said at each server's last sync

manager == <<configs, made, alive, clients, serverTools, post>>
sync == <<queue, at, found, client>>
tools == <<registry, named, synced, sync, syncedWith>>
vars == <<manager, tools>>

NoConfig == [transport |-> "none", enabled |-> FALSE, path |-> FALSE]
Keys == Server \X Tool

Init ==
    /\ configs = [s \in Server |-> NoConfig]
    /\ made = 0 /\ alive = {}
    /\ clients = [s \in Server |-> 0]
    /\ serverTools = [s \in Server |-> {}]
    /\ post = [c \in 1..MaxClients |-> "none"]
    /\ registry = [k \in Keys |-> 0]
    /\ named = {}
    /\ synced = [s \in Server |-> {}]
    /\ queue = {} /\ at = "idle" /\ found = {} /\ client = 0
    /\ syncedWith = [s \in Server |-> 0]

-----------------------------------------------------------------------------
(* The SSE handshake.  A line of the answer is "data: " with a relative or *)
(* an absolute endpoint or something else, the same after "data:" without  *)
(* the space, an empty line, or any other line.                            *)

Lines == {"rel", "abs", "junk", "bareRel", "bareAbs", "empty", "other"}

\* Slip: a relative endpoint is taken as it is.
KeepRelative(ep, line, path) ==
    CASE line \in {"rel", "bareRel"} -> "relative"
      [] line \in {"abs", "bareAbs"} -> "announced"
      [] OTHER -> ep

\* A relative endpoint is joined to the URL up to its path; a URL without a
\* path leaves post_endpoint_ as it was.
ParseSseLine(ep, line, path) ==
    CASE line \in {"rel", "bareRel"} -> IF path THEN "announced" ELSE ep
      [] line \in {"abs", "bareAbs"} -> "announced"
      [] OTHER -> ep

\* Data lines wait for the empty line that ends their event; a later one
\* replaces an earlier one, and an event the answer does not end is dropped.
SseLine(st, line, path) ==
    CASE line \in {"rel", "abs", "junk"} -> [st EXCEPT !.data = line]
      [] line = "empty" /\ st.data # "none" ->
           [data |-> "none", ep |-> ParseSseLine(st.ep, st.data, path)]
      [] OTHER -> [st EXCEPT !.ep = ParseSseLine(st.ep, line, path)]

\* Line by line.  Without any endpoint the URL itself is used.
HttpGetSse(lines, path) ==
    LET after[i \in 0..Len(lines)] ==
            IF i = 0 THEN [data |-> "none", ep |-> "none"]
            ELSE SseLine(after[i - 1], lines[i], path)
        ep == after[Len(lines)].ep
    IN  IF ep = "none" THEN "url" ELSE ep

\* The endpoints the answers can lead to.
Endpoints ==
    [path \in BOOLEAN |-> { HttpGetSse(lines, path) : lines \in SeqOf(Lines, MaxLines) }]

\* connect_sse would derive an endpoint from the URL when the transport has
\* none.
PostUrl(ep) == IF ep = "none" THEN "message" ELSE ep

\* What connecting server s may end with: the client's endpoint, its tools, and
\* whether list_tools threw, which leaves the tools of the client before it: an
\* answer whose id is not a string is not expected.  An SSE client sends
\* tools/list over the pipes it does not have, and gets none.
ConnectStdio(s) ==
    { [ep |-> "none", tools |-> ts, threw |-> FALSE] : ts \in SUBSET Tool }
        \cup {[ep |-> "none", tools |-> serverTools[s], threw |-> TRUE]}
ConnectSse(s) ==
    { [ep |-> PostUrl(ep), tools |-> {}, threw |-> FALSE] : ep \in Endpoints[configs[s].path] }
Connect(s) == IF configs[s].transport = "sse" THEN ConnectSse(s) ELSE ConnectStdio(s)

-----------------------------------------------------------------------------
(* McpManager.                                                             *)

\* The configuration is replaced; a client made from the old one stays.
AddServer(s) ==
    /\ \E c \in Config : configs' = [configs EXCEPT ![s] = c]
    /\ UNCHANGED <<made, alive, clients, serverTools, post, tools>>

\* The clients and the tools of the servers in ss go.
Drop(ss) ==
    /\ alive' = alive \ { clients[s] : s \in ss }
    /\ clients' = [s \in Server |-> IF s \in ss THEN 0 ELSE clients[s]]
    /\ serverTools' = [s \in Server |-> IF s \in ss THEN {} ELSE serverTools[s]]
    /\ UNCHANGED <<made, post, tools>>

\* Slip: the tools stay listed.
DisconnectKeepsTools(s) ==
    /\ alive' = alive \ {clients[s]}
    /\ clients' = [clients EXCEPT ![s] = 0]
    /\ UNCHANGED <<configs, made, post, serverTools, tools>>

DisconnectServer(s) == Drop({s}) /\ UNCHANGED configs

DisconnectAll == Drop(Server) /\ UNCHANGED configs

RemoveServer(s) ==
    /\ configs' = [configs EXCEPT ![s] = NoConfig]
    /\ Drop({s})

\* A new client replaces the old one, which is destroyed, once it is connected
\* and before it has listed its tools.  When it cannot connect, it is the new
\* one that goes, and everything stays.
ConnectServer(s) ==
    /\ configs[s] # NoConfig /\ made < MaxClients
    /\ made' = made + 1
    /\ \/ UNCHANGED <<alive, clients, serverTools, post>>
       \/ \E c \in Connect(s) :
            /\ alive' = (alive \ {clients[s]}) \cup {made'}
            /\ clients' = [clients EXCEPT ![s] = made']
            /\ serverTools' = [serverTools EXCEPT ![s] = c.tools]
            /\ post' = [post EXCEPT ![made'] = c.ep]
    /\ UNCHANGED <<configs, tools>>

\* Every enabled server in the order of the names, up to one whose list_tools
\* throws; those in ok can be reached.  A client that was connected before is
\* replaced all the same.
ConnectAll ==
    LET todo == { s \in Server : configs[s].enabled }
        id(s) == made + Cardinality({ r \in todo : r <= s })
    IN  /\ todo # {} /\ made + Cardinality(todo) <= MaxClients
        /\ \E stop \in todo : \E ok \in SUBSET { s \in todo : s <= stop } :
           \E c \in [ok -> UNION { Connect(s) : s \in ok }] :
             /\ \A s \in ok : c[s] \in Connect(s) /\ (c[s].threw => s = stop)
             /\ stop = Max(todo) \/ (stop \in ok /\ c[stop].threw)
             /\ made' = id(stop)
             /\ alive' = (alive \ { clients[s] : s \in ok }) \cup { id(s) : s \in ok }
             /\ clients' = [s \in Server |-> IF s \in ok THEN id(s) ELSE clients[s]]
             /\ serverTools' = [s \in Server |-> IF s \in ok THEN c[s].tools ELSE serverTools[s]]
             /\ post' = [i \in 1..MaxClients |->
                           IF \E s \in ok : id(s) = i
                             THEN c[CHOOSE s \in ok : id(s) = i].ep ELSE post[i]]
        /\ UNCHANGED <<configs, tools>>

\* tool_server, and the server call_tool asks: the first that lists the tool.
ToolServer(t) ==
    LET ss == { s \in Server : t \in serverTools[s] }
    IN  IF ss = {} THEN 0 ELSE Min(ss)

-----------------------------------------------------------------------------
(* McpToolManager and ToolRegistry.                                        *)

\* sync_server_tools, and sync_tools for every configured server, in the order of
\* the names.
SyncServerTools(s) ==
    /\ at = "idle"
    /\ queue' = {s} /\ at' = "list"
    /\ UNCHANGED <<manager, registry, named, synced, found, client, syncedWith>>

SyncTools ==
    /\ at = "idle"
    /\ queue' = { s \in Server : configs[s] # NoConfig }
    /\ at' = IF queue' = {} THEN "idle" ELSE "list"
    /\ UNCHANGED <<manager, registry, named, synced, found, client, syncedWith>>

Syncing(s, place) == at = place /\ s \in queue /\ \A r \in queue : s <= r

\* On to the next server.
SyncNextServer(s) ==
    /\ queue' = queue \ {s}
    /\ at' = IF queue' = {} THEN "idle" ELSE "list"
    /\ found' = {} /\ client' = 0

\* The server's names are forgotten; then its tools are asked for.
SyncList(s) ==
    /\ Syncing(s, "list")
    /\ synced' = [synced EXCEPT ![s] = {}]
    /\ named' = named \ ({s} \X synced[s])
    /\ IF serverTools[s] = {}
         THEN SyncNextServer(s)
         ELSE found' = serverTools[s] /\ at' = "client" /\ UNCHANGED <<queue, client>>
    /\ UNCHANGED <<manager, registry, syncedWith>>

\* Then its client, which may be another one by now, or gone.
SyncClient(s) ==
    /\ Syncing(s, "client")
    /\ syncedWith' = [syncedWith EXCEPT ![s] = clients[s]]
    /\ IF clients[s] = 0
         THEN SyncNextServer(s)
         ELSE client' = clients[s] /\ at' = "register" /\ UNCHANGED <<queue, found>>
    /\ UNCHANGED <<manager, registry, named, synced>>

\* ToolRegistry: has_tool, and register_tool for tools of one client each, given
\* by the server and the tool; there is no way to take one out.
HasTool(k) == registry[k] # 0
RegisterTools(ks) ==
    registry' = [k \in Keys |-> IF k \in ks THEN client ELSE registry[k]]

\* Slip: a tool that is in the registry already is listed again.
SyncListsConflicts(s) ==
    LET new == { t \in found : ~HasTool(<<s, t>>) }
    IN  /\ Syncing(s, "register")
        /\ RegisterTools({s} \X new)
        /\ synced' = [synced EXCEPT ![s] = found]
        /\ named' = named \cup ({s} \X found)
        /\ SyncNextServer(s)
        /\ UNCHANGED <<manager, syncedWith>>

\* Each tool is registered with the pointer to the client, unless the registry
\* has one of that name: there is no unregister, so that includes the tools an
\* earlier sync registered.
SyncRegister(s) ==
    LET new == { t \in found : ~HasTool(<<s, t>>) }
    IN  /\ Syncing(s, "register")
        /\ RegisterTools({s} \X new)
        /\ synced' = [synced EXCEPT ![s] = new]
        /\ named' = named \cup ({s} \X new)
        /\ SyncNextServer(s)
        /\ UNCHANGED <<manager, syncedWith>>

\* The names go; the tools stay in the registry.
RemoveServerTools(s) ==
    /\ at = "idle"
    /\ synced' = [synced EXCEPT ![s] = {}]
    /\ named' = named \ ({s} \X synced[s])
    /\ UNCHANGED <<manager, registry, sync, syncedWith>>

-----------------------------------------------------------------------------
Next ==
    \/ \E s \in Server :
         \/ AddServer(s) \/ RemoveServer(s)
         \/ ConnectServer(s) \/ DisconnectServer(s)
         \/ SyncServerTools(s) \/ RemoveServerTools(s)
         \/ SyncList(s) \/ SyncClient(s) \/ SyncRegister(s)
    \/ ConnectAll \/ DisconnectAll \/ SyncTools

Spec == Init /\ [][Next]_vars

-----------------------------------------------------------------------------
(* Properties.                                                             *)

\* A call the manager routes by a tool's name reaches the server's present
\* client, through failed connections, replaced clients and removed servers:
\* server_tools_ never outlives the entry of clients_ it was filled from.
RoutedToLive ==
    \A t \in Tool : ToolServer(t) # 0 => clients[ToolServer(t)] \in alive

\* is_mcp_tool and the list of a server's tools agree, and every tool they name
\* calls the server's present client, whatever reconnections and syncs came
\* before, unless that client was replaced or dropped since the last sync of the
\* server had it from get_client: tools of earlier clients, which stay in the
\* registry, are not counted.  When it was, be it before the sync had registered
\* anything with it, the tools point to a client that is gone.
SyncNamesLive ==
    /\ named = { k \in Keys : k[2] \in synced[k[1]] }
    /\ \A s \in Server : \A t \in synced[s] :
         \/ registry[<<s, t>>] = clients[s] /\ clients[s] \in alive
         \/ registry[<<s, t>>] = syncedWith[s] /\ clients[s] # syncedWith[s]

\* Every SSE client that is connected posts to an endpoint the server announced
\* or to its own URL, whatever lines came: the address that connect_sse derives
\* for a transport without an endpoint is never used.
EndpointKnown == \A c \in 1..made : post[c] \in {"none", "announced", "url"}
=============================================================================
