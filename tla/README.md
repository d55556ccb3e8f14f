# Verification of claude-code-cpp

TLA+ models, TLC checks and TLAPS proofs for the C++ command-line agent in
`src/`. Paths below are relative to `src/` of the repository root
(`api/anthropic_client.cpp` is `src/api/anthropic_client.cpp` there).

1. [The system](#1-the-system)
2. [Modules](#2-modules-and-the-code-they-model)
3. [Runs](#3-runs)
4. [Fairness](#4-fairness)
5. [Proofs](#5-proofs)
6. [Where code and text disagree](#6-where-code-and-text-disagree)
7. [What is not modelled, and the plan](#7-what-is-not-modelled-and-the-plan)

## 1. The system

A user's prompt goes to the **query engine**, which sends the conversation to
the Anthropic API through the **API client**, runs the tools the reply asks
for, appends their results and repeats. Tools run commands through **process
execution** (**Bash**, **Grep**, the git helpers), change files (**Edit**,
**Write**), or ask a server that runs as a child process (**MCP**, **LSP**). A
**bridge server** lets an IDE connect over HTTP and WebSocket; a **session
manager** groups its clients. **Agents** exchange messages over a bus and form
teams; a **memory store** and the **application state** keep entries and sessions
in files; **plugins** are shared libraries. Around them: permissions, a cost
tracker, a todo list and the prompt loop.

| component | state | operations | talks to | what is hard | what makes it correct |
|---|---|---|---|---|---|
| Query engine (`engine/query_engine.cpp`) | history, abort flag, loop locals | `execute`, `execute_stream`, `execute_with_options`, `abort`, `compact`, `clear_history` | calls the client and the tools | `abort()` from a signal or UI thread at any point of a batch of tools; compaction between queries; exceptions | results stay with their calls; no half-answered batch is sent; a query returns |
| API client (`api/anthropic_client.cpp`, `api/sse_parser.cpp`) | busy and abort flags, response under assembly, retry counter | `create_message`, `create_message_stream`, `abort` | libcurl; write callbacks during a transfer | a stream that breaks in the middle of a block and is retried; error events between deltas; abort during backoff | a reply is exactly one attempt's stream; retries are bounded; the call ends |
| Process execution (`util/process_utils.cpp`) | pipes, poll set, deadline, child | `exec_command`, `exec_program`, `kill_process_tree` | the kernel, a process group | full pipes, a child that outlives its leader, deadlines during blocking reads | all output up to the limit; no zombie; the call ends |
| Bridge server (`bridge/bridge_server.cpp`) | `running_`, listening socket, `clients_`, `mutex_` | `start`, `stop`, accept loop, HTTP routes, WebSocket loop | peers; a message handler | `stop()` against a connection in service; a reference kept after an unlock | nothing registered after `stop()`; no entry outlives its socket; connections end |
| Session manager (`bridge/session_manager.cpp`, and again at the end of `bridge/bridge_server.cpp`) | sessions, client-to-session map | create, attach, detach, destroy | bridge | long sequences of moves between sessions | a mapping points at a live session that lists the client |
| Edit and Write tools (`tools/file_edit_tool.cpp`, `tools/file_write_tool.cpp`) | one file and a temporary file | single edit, list of edits, write | the file system, other programs | foreign changes between read and rename, crash, full disk | the file is never torn; a stale edit is refused; no litter |
| Bash and Grep tools, git helpers (`tools/bash_tool.cpp`, `tools/grep_tool.cpp`, `util/git_utils.cpp`) | the Bash tool's directory | a command and its report | process execution, the engine | output limits, timeouts and exit codes passing through three conversions | it is known what each answer allows to conclude about the command |
| MCP and LSP clients (`protocol/mcp/`, `protocol/lsp/`, `tools/lsp_tool.cpp`) | child process, pipes, buffer, request ids, connected flags | connect, initialize, request, notification, disconnect | a server process | reads that end inside a frame; late answers after a timeout; failed initialization; a silent server | frames are neither passed over nor repeated; an answer goes to its request; children are collected; calls end |
| MCP manager and tools (`protocol/mcp/mcp_client.cpp`, `mcp_transport.cpp`, `tools/mcp_tool.cpp`) | configurations, clients, tool lists, raw pointers in the tool registry | add, remove, connect, disconnect, sync | clients, tool registry | a client replaced while tools point to it; a connection that fails half way | a call is routed to a live client |
| Agents, teams, bus (`agent/`, `tools/agent_tool.cpp`) | subscriptions, pending messages, teams, task results, cancel flag | publish, subscribe, assign, broadcast, execute, cancel | callbacks of the subscribers | callbacks under a lock; cancel against execute without one | one order of messages; a publish ends; only members have tasks; a cancel counts |
| Memory store, application state (`memory/`, `state/`) | entries and a dirty flag; messages, session id, directory | store, touch, erase, save, load; push, new, save, restore | files | a save without the lock; a crash around it; a full disk | a file is whole; what was saved is read; a session's file is its own |
| Plugins (`plugins/`) | names, handles | load, scan, unload | `dlopen` | reload of a loaded one; a scan beside an unload | every handle closed once |
| Permissions (`permissions/`) | mode, rules | check, set mode, grant | tools | order of rules, leaving a mode | a denied tool never runs |
| Cost tracker (`engine/cost_tracker.cpp`) | counters under a mutex | record, format | engine | re-entrant locking | no call is lost |
| Todo list, registries, prompt loop, read/glob/web tools, authentication, terminal, utilities | small or none | | | | |

`PROJECT.json` lists every component with its status, and every hazard at its
source line.

## 2. Modules and the code they model

Each component, or group of components that share their mechanism, has one
module. An `MC...` module gives constants their values for TLC, a `...Proofs`
module holds the theorems about one or two of them; where it is about two, the
second one's specification has a prefixed name (`SessionSpec`, `EditSpec`,
`PluginSpec`). Operators introduced by a comment
that begins with *Slip* are deliberately wrong variants of the definition that
follows them; no specification uses them. Substituting one for that definition
breaks the property it is meant for, which shows that the property can fail.

**QueryEngine.** `pc` is the position in `run_tool_call_loop`; `messages`,
`aborted`, `clientAborted` are the members of the same names (the last one the
client's), `iteration`, `request`, `batch`, `results`, `final` the loop's
locals. A message is its role, whether its first block is text, the ids it calls
and the ids it answers. `abort()` is two actions since it stores two flags
without a lock. The role of a reply is whatever `Message::role` happens to
contain, because no code assigns it (`ReplyRoles`).

**StreamClient** and **MessageApi.** `StreamClient` is
`create_message_stream`/`create_message` with the retry loop, the streaming
write callback and the assembly of the reply event by event. A delta's text is
abstracted to a count. Appending a block while another one is open may move the
vector under `current_block`; the model chooses whether it does, and then loses
the writes. `starts`, `lateStarts` and `served` are history variables.
`MessageApi` is the promise to the engine: a call makes between zero and
`MaxTries` requests and ends with one outcome; tools are asked for only by a
call that made a request. `ImplementsApi` is the refinement, with
`tries <- starts` and `phase` from `pc`.

**ProcessExec.** The calling thread from `exec_command` to its return, a leader
and a descendant in one process group, pipes of a finite capacity, a deadline.
A process enters `write()` and leaves it in two actions, so that it can be
blocked between them. Output is counted in buffers.

**CommandTools** extends it with the callers: the variable `caller` fixes the
options of the call (`Callers`) and what is made of its result (`BashOutput`,
`GrepOutput`, `GitAnswer`, `IsGitRepo`, `CommandExists`), `ToolResult` is the
engine's conversion of a tool's output, `answer` what the model or the program is
told in the end. The caller "any" has any options and reads no result, so that
the properties of `ProcessExec` are checked for all options. A text is
represented by how much it has of each stream.

**BridgeServer.** `owner` is the thread in `start()`/`stop()`, `acc` the accept
thread. Critical sections of the accept thread are single actions with the guard
`mutex = "free"`; `stop()` holds the mutex over several actions, as the code
does. A handler runs between two actions of the accept thread, outside the lock.

**SessionManager.** Each method holds the mutex from start to end and is one
action. `impl` says which of the class's two definitions is in force; they
differ in whether `detach` destroys an empty session.

**FileEdit.** One file, a sequence of tokens with a modification time, and one
call of a tool at a time (one edit, an array of edits, a write), interrupted
anywhere by other programs and by a crash. `fine` says whether modification times
tell any two writes apart, `fills` whether the disk may fill up. `intended`
collects what anybody meant to write: what other programs write, the text of a
Write call, and, as soon as an Edit call has read the file, what all of its edits
make of it (`Edited`), which the loop of `Apply` reaches step by step or not at
all. `Cleanup` removes the temporary file of a failed write, or throws; the
result "threw" is an exception that `execute` reports.

**StdioRpc.** JSON-RPC over the pipes of a child process, for the three clients
the code has (`impl`): `McpClient`, `McpConnection`, and `LspClient` behind its
manager. The server's output is the sequence of frames it began; each is two
units of the pipe, so a read may end inside a frame or bring several, and of the
byte stream only three positions are kept. The server is free to answer in any
order, late or never, to speak unasked, to exit, and to stop reading: a write may
then block (`Blocked`) until it reads again (`WriteReturns`) or exits
(`WriteBreaks`). A write to a dead server ends the program (`pc = "killed"`),
because SIGPIPE is not handled. The stderr of an LSP server goes into the same
pipe: text in front of a frame is skipped with the header, a body with text in it
does not parse and counts as an error, and text with an empty line of its own
hides every frame from there on (`hidden`). `ReadAgain` is a turn of the loop of
`read_response` that finds the deadline not passed and goes back into a blocking
`read()`. `mixed`,
`timedOut`, `abandoned`, `given`, `last` and `told` are history variables.

**McpTools.** The manager of MCP servers, the SSE handshake of its HTTP clients,
the tools it registers and the registry. Clients are numbered objects; a tool in
the registry holds the number of the client it points to, which may have been
destroyed. A sync holds the tool manager's own mutex but asks the MCP manager twice,
under separate locks: per server it is the actions `SyncList`, `SyncClient` and
`SyncRegister`, between which other threads connect and disconnect servers
(`queue`, `at`, `found` and `client` are its locals). The handshake reads the
server's answer line by line (`SseLine`).
Connecting ends in any of the ways `StdioRpc` shows.

**Agents.** Three parts that share no state, one of which a behaviour exercises:
the bus, with one thread per agent and callbacks that return, throw or use the
bus (`Erase` is `erase(remove_if(...))` on its two vectors); the teams; the
coordinator with one instance, whose `execute` and `cancel`
are taken apart because no lock covers them. A message has the number of the
turn in which `publish` took it up (a history variable, `published`) and an id,
which the bus gives (`Number`) unless the publisher has set one. The delegating
tool looks the type up (`agent_types()` takes no lock) and then runs the task, which
looks it up again: two steps. An empty task and a denied permission end it before.
What is registered, submitted and told there (`types`, `submitted`, `told`) is
modelled for completeness; no property speaks of it.

**Plugins.** `PluginLoader` and `PluginManager` over a counter of references per
library. A load ends in "loaded", "refused" or "threw": a function of the library
throws or returns a null name after `dlopen`. `lost` counts handles that a reload
replaced, `thrown` those that an exception dropped.

**Stores.** The memory store or the application state (`part`); both write a
temporary file and rename it, which is modelled once. `MemoryStore::save`
collects the entries without a lock, one per action. `Crash` may come anywhere,
and `Restart` runs the constructors; a file that is there may not open
(`Unopened`), which `load()` passes over in silence (`unread`). One save runs at a
time: two that overlap, which no lock prevents, would write the same temporary
file, and the properties are not claimed for them.

## 3. Runs

| run | checks | shows |
|---|---|---|
| `engine` | `TypeOK`, `HistoryPaired`, `PartialOnlyIfAborted`, `RequestAnswered`, `QueryReturns` | results follow the calls they answer through aborts, compactions, clears, exceptions and both kinds of query; a half-answered batch exists only after an abort and is never sent; every query returns |
| `client` | `TypeOK`, `Assembled`, `ToolReplyComplete`, `AbortStopsRetries`, `CallReturns`, `ImplementsApi` | the reply is this attempt's stream; tool calls are complete; an abort lets at most one more transfer begin; calls end; `MessageApi` is implemented |
| `exec` | `OutputComplete`, `NoZombie`, `AnswerWarranted`, `ExecReturns` | output of the whole group is returned, up to the limit, even if the leader dies first; the leader is always reaped; what may be concluded from an answer of Bash, Grep and the git helpers: output passed on is complete or cut at a known limit, success is reported exactly for a command that succeeded, "no matches" only for a search that wrote nothing and failed, and a "no" of `is_git_repo` means nothing; with one pipe and no stdin the call returns |
| `bridge` | `TypeOK`, `StoppedEmpty`, `ServedClientKnown`, `NoStaleSocket`, `ConnectionEnds` | a client cannot slip in behind `stop()`'s `clear()`; the reference kept after the unlock is good while `running_` is set; sockets are unregistered; connections are finished |
| `sessions` | `SessionTypeOK`, `MappingBacked` | no dangling mapping in either implementation |
| `file_edit` | `FileWhole`, `StaleEditCaught`, `NoTempLeft` | unless the disk fills up the file holds what somebody wrote or what all the edits of a call make of what it read, never a part; a change before the check is caught if times tell writes apart; a call that returns leaves its temporary file only where removing it threw |
| `stdio_rpc` | `FramesOnce`, `AnswersMatch`, `ChildrenCollected`, `CallEnds` | no frame is handed out twice or out of order, and the clients that keep their buffer pass over none, up to stderr text that hides the rest from `LspClient`; another call's answer is taken only after a timeout or an unasked message, and nothing but a result is shown as found; children and pipes are collected except those the code abandons; every call ends but a write to a server that never reads and a `read()` of `McpClient` to which nothing more is sent |
| `mcp_tools` | `RoutedToLive`, `EndpointKnown`, `SyncNamesLive` | the manager routes to live clients; an SSE client always has an endpoint; the tools the tool manager counts call the server's present client, unless that was replaced after the last sync had asked for it, be it before the sync was through |
| `agents` | `SameOrder`, `TasksOfMembers`, `CancelHonoured`, `PublishEnds` | callbacks and `poll` get messages in the order in which `publish` took them up, in which the ids the bus gives ascend; only members hold tasks; a cancel that does not overlap an execution decides its result; a publish ends unless a callback used the bus |
| `plugins` | `HandlesAccounted` | every reference to a library belongs to one name, to a replaced handle, or to a load that the library's exception ended |
| `stores` | `SavedWhole`, `SavedIsRead`, `SessionFileOwn` | files are whole unless the disk filled up; an undisturbed save is what is read next, and a skipped one loses no entry unless the start could not open the file; a session's file has its own messages unless its id was adopted with another's in memory |

`wire_paired` is expected to find a violation; see section 6.

**Bounds.**

- `engine`: batches of no and two calls, two iterations, histories of up to
  seven messages. A batch of two is the smallest that can be cut in two; two
  iterations let a cut batch meet the next request; seven messages hold one full
  query and what is left of another after `compact`. `Keeps = {1, 3}` makes
  `compact` start its search at a tool result and at a plain message.
  `ReplyRoles` has a role that could be mistaken for a boundary ("User") and one
  that could not.
- `client`: the source's three retries, two blocks of up to two deltas. Two
  blocks show the leak of one into the next, two deltas a double or a lost one.
- `exec`: pipes of one buffer, a limit of two, up to two writes per process and
  two processes: enough to fill a pipe, to reach the limit exactly, and to exceed
  it. Options and stdin take all their values.
- `bridge`: two client ids, three connections, two starts, so that what one run
  of the server leaves is met by the next.
- `sessions`: two clients, three sessions: a client can leave one session
  behind and return to it while the other is elsewhere.
- `file_edit`: texts of two tokens in which an edit has no, one or two matches;
  lists whose second edit fails, succeeds or meets the first; two calls, two
  foreign changes, all four kinds of file system.
- `stdio_rpc`: all three clients; two servers, so that one started after a failed
  initialization meets what that left behind; an initialization and two calls
  to the first server, the fewest in which a late answer finds another call, and
  one call less to the second (`MayCall`); one notification.
- `mcp_tools`: two servers that may offer the same tool, two tools, three
  clients, so that one server's client is replaced after a sync while the other
  has one; answers of up to three lines, which is an event, its end, and one line
  before, between or after. Whether a server is enabled matters to `connect_all`
  alone, so stdio servers take both values and SSE servers are enabled.
- `agents`: two agents that publish two messages with two subscriptions: both
  wait for the lock while a callback runs, one with an id of its own; two teams of
  one name after another;
  two runs of an instance, so that a cancel of the first meets the second.
- `plugins`: two libraries with all combinations of exports, a manifest, two
  names that may clash, three references: one in use, one replaced or dropped, one
  tried.
- `stores`: two entries, so that one changes behind and one before the point the
  save has reached; three sessions and two directories, one message more than a
  save keeps. Directories and sessions are symmetric: no definition tells them
  apart.

`CHECK_DEADLOCK FALSE` is set where a behaviour may end: a command that has
returned, a bridge whose starts and connections are used up (and the deadlock in
`stop()` of section 6), the calls of the file tools, session ids, a program that
SIGPIPE has ended, clients and messages that are used up, a bus whose lock a
callback holds for ever, a store that cannot start a session of a new id.

## 4. Fairness

- `QueryEngine!FairSpec`: the querying thread is scheduled. The API call returns
  since libcurl's timeout bounds each transfer and retries are counted
  (`CallReturns`). That a tool returns is an assumption on tools; `ProcessExec`
  examines it for commands.
- `StreamClient!FairSpec`: the thread runs, a callback returns, and
  `CURLOPT_TIMEOUT` ends a transfer however many chunks still arrive: hence
  strong fairness, because each chunk disables the end for a while.
- `CommandTools!ToolSpec`: the caller runs and time passes; a process that can
  write does, and one outside `write()` ends. The last two are assumptions on the
  command. Without them `ExecReturns` fails: the deadline is looked at by
  `poll()` only, and a child that writes part of its output and hangs is waited
  for in `read()`.
- `BridgeServer!FairSpec`: both threads run; a peer that is waited for closes in
  the end. The last part is an assumption on peers. Without it `ConnectionEnds`
  fails, since `recv()` has no timeout.
- `StdioRpc!Spec`: the calling thread runs and the clock advances, so a deadline
  that the code looks at passes. Nothing is assumed of the server: that it reads
  what blocks a write (`WriteReturns`) is outside the fairness, and a loop of
  `read_response` that has read part of a frame may give up or go back into
  `read()` (`ReadAgain`), either of which counts as progress.
- `Agents!Spec`: a thread in `publish` goes on, and a thread that waits for the
  mutex gets it if it is free again and again (strong fairness, since others take
  it in between; `std::mutex` promises no more than progress, and starvation by
  endless publishing of others is excluded by this assumption).

## 5. Proofs

`tlapm` checks each proof; no step is assumed.

Each component below has one inductive invariant, checked by TLC on the instance of
its run before it was proved; the theorems about the properties of section 3 are
consequences of it. They hold for every value of the constants that satisfies the
module's named assumptions. Bounds that limit the model only (`MaxMessages`,
`MaxKids`, `MaxChanges`, ...) enter the proofs as numbers and nothing more.

**QueryEngineProofs** (histories of any length, every set of batches, reply roles
and option lists, every `MaxIterations`): `TypeCorrect`, `HistorySafe`
(`HistoryPaired`), `PartialSafe` (`PartialOnlyIfAborted`), `RequestSafe`
(`RequestAnswered`), from `LoopInvariant`. `HistoryPaired` is not inductive by
itself: to append a tool-result message one must know that the last message is
the reply that holds the batch and that the results so far are a first part of
it; and `RequestAnswered` needs that a request is a complete conversation as long
as nobody has aborted. So the invariant adds, for each position in the loop, what
`batch` and `results` are relative to the last message, and that from the loop's
test to the call the request is complete or the query is on its way out. The one
fact about sequences that does the work for `compact` is that a suffix which
begins with a message that answers nothing is again paired. The only assumption
with content is `OptionsAssumption`: a caller of `execute_with_options` passes a
conversation with no result torn from its call.

**StreamClientProofs** (any number of retries, blocks and deltas): `TypeSafe`,
`AssembledSafe`, `ToolReplySafe`, `AbortSafe`, and the refinement `RefinesApi`,
that every behaviour of the client satisfies `ApiSafe`, the safety part of
`MessageApi`. `ClientInv` says how many transfers have begun at each place of the
retry loop (`CountInv`), that the response is empty when one is about to begin
(`FreshInv`), and that the accumulator follows the server (`Synced`): the blocks
agree, only the last can be open, it is the one `current_block` points at, and
the buffer holds its partial input. Without the part about the pointer and the
buffer, closing a block could not be shown to store the right input. One lemma
per operator of the assembly (`OnBlockStart`, `OnDelta`, `OnBlockStop`, ...)
shows that it keeps `Synced`; the refinement needs `CountInv`, because a step
that begins a transfer must find room for one more request.

**CommandToolsProofs** (all options, limits, pipe sizes, amounts of output):
`OutputSafe`, `ReapSafe` of `ProcessExec`; `ToolsUseExec`, that a step of a tool
is a step of `ProcessExec` or leaves it alone; `AnswersSafe` (`AnswerWarranted`).
`ExecInv` is a balance, written = returned + in the pipe for every stream that was
not cut off, and the reason why the pipe is empty at the end: a read end closed
before the deadline belongs to a stream that was cut off or that nobody is left
to write (`EofInv`). The rest ties descriptors and the child's life to the
position in the call.

**BridgeProofs**, about the server (any number of clients, connections, restarts):
`TypeSafe`, `StopSafe`, `ServedSafe`, `SocketSafe`. `ServerInv` ties the two
threads together: from the clearing of the table to the end of the join `stop()`
has the mutex and the table is empty, so the accept thread cannot register
anybody, although it may be about to; and a WebSocket is registered exactly in
the states of its own loop.
About the sessions (every set of clients and sessions): `MappingSafe`,
`SessionTypeSafe`. Creation rests on the new id being fresh, detachment on the
fact that the session destroyed listed no other client, destruction on the fact
that only listed clients can be mapped.

**FilesProofs**, about the Edit and Write tools (all texts and lists of edits, any
number of calls and foreign changes): `WholeSafe`, `StaleSafe`, `TempSafe`.
`StaleEditCaught` needs that no time is ahead of the clock, so that a foreign
write after the reading has a later time than the one noted; `FileWhole` that in the
loop of edits `current` is what the first `k` of them make of the text read, so
that what leaves the loop is what the whole list makes of it, and that what is
about to be renamed is whole.
About the stores (any number of ids, directories, sessions and changes):
`SavedWholeSafe`, `ReadSafe` (`SavedIsRead`), `OwnSafe` (`SessionFileOwn`).
`SavedIsRead` holds because what a save has collected so far is what is in memory
as long as nothing changed, and because a save runs only while `dirty_` is set (its
exception, a file that could not be opened, lasts while memory is empty and
`dirty_` unset);
`SessionFileOwn` because the session cannot change between the collecting and the
rename, though its directory can.

**StdioRpcProofs** (any number of servers, requests and notifications, output cut
into reads in any way): `FramesSafe`, `AnswersSafe`, `ChildrenSafe`. For
`FramesOnce` the positions in the stream must be in order, and the first complete
frame of the buffer must exist and be the one after the last (`FirstFrame`,
`TakeFacts`), also where hidden text ends the buffer. For the pairing of answers,
since ids are not compared, `AskedInv` says that without timeouts and notifications nothing is under way between two
calls to a live server, and during a call exactly its request or its answer. For
the children `PhaseInv` fixes which flags of which client go with which phase,
and `KidInv` that an uncollected child is the client's own or abandoned.

**AgentsProofs** (any number of agents, subscriptions, messages, teams and
executions): `OrderSafe` (`SameOrder`), `TasksSafe` (`TasksOfMembers`),
`CancelSafe` (`CancelHonoured`), from `AgentsInv`, which has one part for each of
the three parts of the module; a step of one leaves the variables of the others
alone (`OnePart`). For the order of the bus the invariant (`BusInv`) says that
every turn seen or pending has been given out, and that the message being
delivered has the newest one and, if the bus numbered it, the newest id: so whatever the holder of
the mutex appends comes last. For
the tasks (`TeamInv`) the members must be known for teams that no name has any
more as well. For a cancel (`InstanceInv`), what each step of an undisturbed
`execute()` has established.

**ExtensionsProofs**, about the MCP manager (any number of servers, tools, clients
and lines of an answer): `RoutedSafe` (`RoutedToLive`), `SyncNamesSafe`
(`SyncNamesLive`), `EndpointSafe` (`EndpointKnown`). `RoutedToLive` needs that no
two servers share a client, since destroying one's would take away the other's;
that `connect_all` makes as many clients as it has servers to connect needs the
configured servers to be finitely many, which the invariant says
(`ManagerTypes`), because they are added one at a time. `SyncNamesLive` needs that
the client a sync in progress holds is the one `syncedWith` notes, whether it is
still the server's or not.
About plugins (any number of libraries, names, loads): `HandlesSafe`
(`HandlesAccounted`). `PluginInv` adds that finitely many names hold a library,
so that `unload_all` gives back a number of references, and that no count of
references falls below zero, that is, no handle is closed twice.

**Recursion over a sequence.** What `erase(remove_if(...))` leaves of a vector and
what a walk over the lines of an answer ends with are recursive functions over
positions (`Erase`, `HttpGetSse`). Induction is not applied as a rule; the proofs
take the least position at which the claim fails, which exists because `<` is
well-founded on the naturals (`LeastNat`, `Upto`). So the order of `pending`
after a `clear`, and the endpoint after an answer of any length, are proved.

**Waiting that never ends.** Three places where the liveness properties make an
exception are shown to be traps and not delays; TLC reaches each of them on the
instance of its run. `StuckForEver`: once a callback has used the bus, the mutex
stays with its thread, and nothing is delivered, stored, subscribed or cleared any
more. `JoinStuckForEver`: when `stop()` has taken the mutex and the accept thread
is about to take it, neither moves again. `PipesStuckForEver`: a caller that reads
stdout while the child waits for room in the stderr pipe stays in that `read()`,
also past the deadline.

**Only model-checked**, on the instances of section 3: liveness under fairness,
that is `QueryReturns`, `CallReturns`, `ExecReturns`, `ConnectionEnds`,
`CallEnds`, `PublishEnds`, and the fairness part of `ImplementsApi`. The proof
system does not handle fairness (`ENABLED`). Every other property of a passing
run is also a theorem.

## 6. Where code and text disagree

Stated by a run that finds the violation:

| run | text | code |
|---|---|---|
| `wire_paired` | "Add assistant message to history" (`engine/query_engine.cpp:146`) | the reply's role is never set, and a message without one of three roles is left out of the request body: the next request carries results without their calls |

Visible in the models, without a run of their own. The properties say exactly how
far the promise does hold.

*Engine and API client*

- An exception from building the body, or from the body of a plain reply, leaves
  `busy_` set (`api/anthropic_client.h:42` has it tell whether a request runs).
- `abort()` between the engine's test and the client's entry is wiped out by the
  client (`api/anthropic_client.cpp:375`); the engine's flag still ends the loop.
- The engine's abort flag is never cleared, so every query after an abort ends at
  once. `RequestAnswered` depends on this: a flag cleared at the start of a query
  would let a half-answered batch be sent.
- After the first round of tools `execute_with_options` sends the engine's
  history in place of the caller's messages (`engine/query_engine.cpp:176`).
- The stream's input tokens are put where the cost tracker does not read them
  (`api/anthropic_client.cpp:51`).
- `check_tool_permission` allows everything (`engine/query_engine.cpp:234`), so
  the Bash tool's check for dangerous commands never denies one.
- Ctrl+C only sets a flag that the prompt loop reads between two lines of input
  (`app/lifecycle.cpp:32`, `:183`): it neither aborts a query nor, a second time,
  ends the program, as the message it leads to promises.

*Commands*

- The deadline is looked at by `poll()` only; a child that writes and hangs is
  waited for in `read()` for ever (`util/process_utils.cpp:152` speaks of reading
  with a timeout).
- stdout is read to its end before stderr, and stdin is written before either: a
  child that fills the other pipe deadlocks with its reader
  (`util/process_utils.cpp:147`, `:211`). `ExecReturns` is claimed only where
  this cannot happen.
- A descendant that ignores SIGTERM survives if the leader obeys it
  (`util/process_utils.cpp:39`), and descriptors closed by the poll loop are
  closed a second time (`:229`).
- Of a command that fails or times out the model sees no output: the Bash tool
  puts it into `content` and leaves `error_message` empty or "Timeout"
  (`tools/bash_tool.cpp:159`, `:165`), and the engine passes on `error_message`
  alone (`engine/query_engine.cpp:227`).
- A command that writes more than `max_output_bytes` is killed by SIGPIPE when
  the pipe is closed, and so reported as failed.
- `is_git_repo` looks for "true" in an output it asked not to capture, and is
  always false (`util/git_utils.cpp:24`); the context builder therefore never
  adds a git status.
- A search that cannot be run at all says "No matches found"
  (`tools/grep_tool.cpp:127`). `AnswerWarranted` states of both answers only what
  does follow from them.
- The Bash tool's prompt promises 50,000 characters per stream
  (`tools/bash_tool.cpp:34`); stderr is cut at 10000 (`:154`).

*Bridge*

- `stop()` joins the accept thread while holding the mutex that thread needs
  (`bridge/bridge_server.cpp:88`).
- Exceptions on the accept thread end the process, and none of the model's steps
  does: the payload of a WebSocket frame is allocated by the length the peer
  announced (`bridge/bridge_server.cpp:524`), and `dump()` of a response that is
  not UTF-8 throws (`:310`). The `send()` at `:322` may raise SIGPIPE.
- An upgrade request to `/ws` is answered with 404 before the 101
  (`bridge/bridge_server.cpp:322`).
- A client that moved to another session stays listed in its former one, and
  `create_session` in `session_manager.cpp:28` returns the greatest id instead of
  the new one.

*Files and stores*

- A change between the Edit tool's check and its rename is overwritten, although
  `tools/file_edit_tool.cpp:45` says it is detected.
- Edits of a list are matched against what the earlier ones made, not against the
  original (`tools/file_edit_tool.cpp:36` and `:239`).
- On a full disk the Edit tool (`:183`), the memory store
  (`memory/memory_store.cpp:195`) and `save_session` (`state/app_state.cpp:98`)
  rename a truncated file over the good one. `FileWhole` and `SavedWhole` exclude
  full disks.
- `fs::remove` of the temporary file throws where it fails
  (`tools/file_edit_tool.cpp:189`, `:283`, `tools/file_write_tool.cpp:83`, `:92`);
  the call then reports the exception and the file stays (`NoTempLeft`).
- `load()` returns in silence when the memory file is there and cannot be opened
  (`memory/memory_store.cpp:202`); the first save after a change replaces its
  entries. Saves take no lock and share one temporary file (`:180`).
- `dirty_` is never reset by a save, and `MemoryStore::save` reads the entries
  without the lock.
- Restoring a session that has no file keeps the messages in memory and takes the
  new id (`state/app_state.cpp:116`): a later save writes one session's messages
  under another's name.

*MCP, LSP and their tools*

- SIGPIPE is not handled: a write to a server that has exited ends the program
  (`mcp_client.cpp:312`, `lsp_client.cpp:173`; the bridge's `send()` alike).
- A write to a server that does not read blocks for ever once the pipe is full
  (`mcp_client.cpp:312`, `mcp_transport.cpp:351`, `lsp_client.cpp:173`), with the
  client's mutex held; no timeout covers it.
- The stderr of an LSP server is sent into the pipe that is parsed
  (`lsp_client.cpp:65`): a line logged inside a body spoils the answer, and one with
  an empty line hides all later frames, so that every later request times out.
- `McpClient` takes no answer, or end of file, for a successful initialization;
  when it does fail, `connected_` is still false, `disconnect()` returns early
  (`:64`), and the child and its pipes stay. `McpConnection` has no destructor.
- Ids are not compared (`:370`): a late answer, or a notification such as
  `publishDiagnostics`, is taken for the answer to the call that waits. A numeric
  id makes `JsonRpcMessage::parse` throw.
- `read()` blocks in `read_response`, so a silent server holds the caller and the
  mutex (`:326`). `McpConnection::receive` does not look at a frame it already
  has before a new read.
- No message of an LSP server fills `diagnostics_`: `lsp_diagnostics` always says
  "No diagnostics". An error, a timeout and an empty result all read "No
  definition found".
- An SSE client never lists a tool; the address ending in `/message` it would
  derive is never used (`EndpointKnown`).
- The registry has no unregister: tools synced before a reconnection keep
  pointers to a destroyed client (`tools/mcp_tool.cpp:168`). A reconnection between
  `get_client` (`:158`) and the registration gives new tools such a pointer.

*Agents and plugins*

- A callback that uses the bus deadlocks, and with it every later user
  (`agent/message_bus.cpp:12`).
- An id supplied by the publisher is kept (`agent/message_bus.cpp:15`), so ids need
  be neither unique nor in the order of the messages. `agent_types()` reads the
  map of types without the lock (`agent/coordinator.cpp:86`).
- `cancel()` is never undone: an instance cancelled once returns "cancelled" for
  ever. `submit_task` queues tasks nobody runs. `clear(agent)` also deletes
  messages that the agent sent to others.
- A library whose functions throw, or whose name is null, keeps its handle open with
  nobody to close it (`plugins/plugin_loader.cpp:152`, `plugin_api.cpp:103`); in
  the manager's scan the exception ends the scan. A cleanup function that throws
  while everything is unloaded does so in a destructor, which ends the process.
- Reloading a plugin overwrites its handle without `dlclose`
  (`plugins/plugin_loader.cpp:115`, `:176`, `plugin_api.cpp:111`), and a scan
  inserts an empty entry, without the lock, for a plugin whose name differs from
  its file's (`plugin_loader.cpp:52`).

## 7. What is not modelled, and the plan

Left out inside the modelled components: display and logging; the JSON text of
requests and replies; the exact bytes of output, diffs, base64 and SHA-1;
`broadcast` and `send` of the bridge, which send nothing; the Windows branch of
process execution; positions, ranges and edits of LSP results; schemas of MCP
tools; times and search scores of memory entries; counters and observers of the
application state; data races on single fields where the model's interleaving of
whole assignments shows the same outcomes.

Left out altogether: `engine/stream_parser.cpp` (a second assembly of the events
that nobody reads), the context builder, commands, MCP authentication,
read/glob/web tools, authentication, terminal output and utilities: stateless,
unused or pure I/O. `PermissionManager` is used by nothing in the repository.

Could be added, in this order: the prompt loop with its signals, composed with
the engine; `CostTracker` (whose `format_cost` locks its mutex twice) together
with the counters of the application state; `TodoWrite`, which loses the old list
when an item of the new one is bad; `SseLines`, that cutting a byte stream into
chunks does not change its events; `PermissionManager`; a composition of
`QueryEngine` with `MessageApi`.
