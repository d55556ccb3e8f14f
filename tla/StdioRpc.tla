------------------------------ MODULE StdioRpc ------------------------------
(***************************************************************************)
(* JSON-RPC with a server that runs as a child process and is spoken to    *)
(* over two pipes.  The code has three clients for it:                     *)
(*   "mcp"   McpClient, stdio part    (src/protocol/mcp/mcp_client.cpp)    *)
(*   "conn"  McpConnection, stdio part (src/protocol/mcp/mcp_transport.cpp)*)
(*   "lsp"   LspClient behind LspToolManager                               *)
(*           (src/protocol/lsp/lsp_client.cpp, src/tools/lsp_tool.cpp)     *)
(* A request holds the client's (or its manager's) mutex from the write to *)
(* the answer, so there is one call at a time; what runs beside it are the *)
(* server and the clock.                                                   *)
(*                                                                         *)
(* The server's output is the sequence of the frames it began to write.    *)
(* A frame is two units of the pipe, its header and its body, so that one  *)
(* read may end inside a frame or bring several.  Of the byte stream only  *)
(* positions are kept: units 1..base are consumed or thrown away,          *)
(* base+1..inp are in the client's buffer, inp+1..out are in the pipe.     *)
(* The stderr of an LSP server goes into the same pipe.  Its text is       *)
(* skipped in front of a header, spoils a body it falls into, and hides    *)
(* all that follows when it holds an empty line, which is then taken for   *)
(* the end of a header.  (Text that holds a header itself is left out.)    *)
(* The server is external: it answers in any order, late or never, speaks  *)
(* unasked, may leave its input unread until the pipe is full, ignores     *)
(* SIGTERM and exits when it likes.                                        *)
(***************************************************************************)
EXTENDS Integers, Sequences, FiniteSetsExt

CONSTANTS
    Impls,      \* the clients considered
    MaxKids,    \* bound: servers started
    MaxCalls,   \* bound: requests to the first server, one less to each later one
    MaxNotes    \* bound: notifications per server

ASSUME ImplsAssumption == Impls \subseteq {"mcp", "conn", "lsp"}
ASSUME BoundsAssumption == MaxKids \in Nat /\ MaxCalls \in Nat /\ MaxNotes \in Nat

VARIABLES
    impl,       \* the client
    pc,         \* the caller: "idle", "spawned", "read", "grace", "killed", or
                \*   what it is blocked in writing (see Blocked)
    kids,       \* each child: "none", "running", "dead" (a zombie) or "reaped"
    gen,        \* the number of children started
    fds,        \* children whose pipes are open on the client's side
    pid,        \* child_pid_; 0 stands for -1
    connected,  \* connected_, running_; for "conn" what is_connected() says
    initialized,\* LspClient::initialized_
    listed,     \* LspToolManager::servers_ holds the client
    call,       \* the request being waited for
    fresh,      \* the current receive has read something; for "mcp": and has not
                \*   looked at the clock since
    nextId,     \* next_id_, counted from 1 for each child; for "conn" its calls
    inbox,      \* requests the server has yet to answer
    said,       \* the frames of the server
    hidden,     \* the first of them that stderr text with an empty line hides, or 0
    out, inp, base,  \* units written, read, consumed
    last,       \* history: the last frame handed to a call
    given,      \* history: the number of frames handed to calls
    mixed,      \* history: a call was given the answer to another one
    timedOut,   \* history: a call to this child gave up waiting
    abandoned,  \* history: children the client lost sight of alive
    told        \* history: what the tool said of the last call: "found",
                \*   "nothing", "failed", or "none"

stream == <<inbox, said, hidden, out>>
buffer == <<inp, base, last, given>>
status == <<kids, gen, fds, pid, connected, initialized, listed>>
history == <<mixed, timedOut, abandoned, told>>
vars == <<impl, pc, status, call, fresh, nextId, stream, buffer, history>>

NoCall == [id |-> 0, what |-> "none"]

\* The pipe to the server is full and the server does not read.
Blocked == {"writeRequest", "writeInitialized", "writeExit", "writeMessage"}
MayCall == nextId + gen <= MaxCalls + 1
Alive == kids[pid] = "running"

Init ==
    /\ impl \in Impls
    /\ pc = "idle"
    /\ kids = [k \in 1..MaxKids |-> "none"]
    /\ gen = 0 /\ fds = {} /\ pid = 0
    /\ connected = FALSE /\ initialized = FALSE /\ listed = FALSE
    /\ call = NoCall /\ fresh = FALSE /\ nextId = 1
    /\ inbox = {} /\ said = <<>> /\ hidden = 0 /\ out = 0
    /\ inp = 0 /\ base = 0 /\ last = 0 /\ given = 0
    /\ mixed = FALSE /\ timedOut = FALSE /\ abandoned = {} /\ told = "none"

-----------------------------------------------------------------------------
(* Starting the server.                                                    *)

\* The pipes and the buffer of a child go with it.
Forget ==
    /\ nextId' = 1 /\ inbox' = {} /\ said' = <<>> /\ hidden' = 0 /\ out' = 0
    /\ inp' = 0 /\ base' = 0 /\ last' = 0 /\ given' = 0
    /\ mixed' = FALSE /\ timedOut' = FALSE /\ told' = "none"

\* Two pipes, fork, exec.  child_pid_ and the descriptors are overwritten,
\* whatever they held.  A command that cannot be executed is a child that
\* exits before it reads anything.
Spawn ==
    /\ pc = "idle" /\ gen < MaxKids
    /\ gen' = gen + 1
    /\ kids' = [kids EXCEPT ![gen + 1] = "running"]
    /\ fds' = fds \cup {gen + 1}
    /\ pid' = gen + 1
    /\ Forget
    /\ UNCHANGED <<impl, call, fresh, initialized, listed, abandoned>>

ConnectStdio ==
    /\ impl = "mcp" /\ ~connected
    /\ Spawn
    /\ pc' = "spawned"
    /\ UNCHANGED connected

CreateStdio ==
    /\ impl = "conn" /\ pid = 0
    /\ Spawn
    /\ connected' = TRUE
    /\ pc' = "idle"

\* LspToolManager::start_server does nothing when the language has a server.
LspUnserved == impl = "lsp" /\ ~listed

\* LspClient::start.
Start ==
    /\ LspUnserved /\ ~connected
    /\ Spawn
    /\ connected' = TRUE
    /\ pc' = "spawned"

\* The second pipe() or fork() fails: no child, and the descriptors opened so
\* far may stay open ("lsp" and "conn" close them when it was fork()).
SpawnFails ==
    /\ pc = "idle" /\ gen < MaxKids
    /\ ~connected /\ ~listed
    /\ gen' = gen + 1
    /\ fds' \in {fds, fds \cup {gen + 1}}
    /\ UNCHANGED <<impl, pc, kids, pid, connected, initialized, listed, call, fresh,
                   nextId, stream, buffer, history>>

-----------------------------------------------------------------------------
(* What the tools make of the end of a call: the kind of the frame they    *)
(* were given, or "none".                                                  *)

\* McpTool::execute on top of call_tool.  A result may itself report an error;
\* without a result the access to it throws, and that is a failure too.
McpTells(r) == IF r = "result" THEN {"found", "failed"} ELSE {"failed"}

\* lsp_definition and lsp_references: an error, no answer and an empty result all
\* read "No definition found"; a malformed result throws.
LspLocates(r) == IF r = "result" THEN {"found", "nothing", "failed"} ELSE {"nothing"}

\* lsp_hover does the same; lsp_rename fails without a result.
LspHovers(r) == LspLocates(r)
LspRenames(r) == IF r = "result" THEN {"found", "failed"} ELSE {"failed"}

LspTells(r) == LspLocates(r) \cup LspHovers(r) \cup LspRenames(r)

-----------------------------------------------------------------------------
(* Requests.                                                               *)

\* A request is written and its answer awaited.  The write may block.  SIGPIPE
\* is not handled: a write to a server that has exited ends the program.
\* read_response of "mcp" begins with an empty buffer, the others keep theirs.
Request(what) ==
    IF Alive
      THEN /\ \/ pc' = "read" /\ inbox' = inbox \cup {nextId}
              \/ pc' = "writeRequest" /\ UNCHANGED inbox
           /\ call' = [id |-> nextId, what |-> what]
           /\ nextId' = nextId + 1
           /\ fresh' = FALSE
           /\ base' = IF impl = "mcp" THEN inp ELSE base
           /\ told' = "none"
           /\ UNCHANGED <<impl, status, said, hidden, out, inp, last, given, mixed, timedOut,
                          abandoned>>
      ELSE /\ pc' = "killed"
           /\ UNCHANGED <<impl, status, call, fresh, nextId, stream, buffer, history>>

\* "initialize": "mcp" after half a second, "lsp" at once.
SendInitialize == pc = "spawned" /\ Request("initialize")

\* list_tools, call_tool, list_resources, read_resource, list_prompts, get_prompt.
McpCall ==
    /\ impl = "mcp" /\ pc = "idle" /\ connected /\ MayCall
    /\ Request("call")

\* LspToolManager has a server for the language.
LspServed == impl = "lsp" /\ pc = "idle" /\ listed

\* go_to_definition, find_references, hover and rename, of a server that has the
\* capability.
LspCall == LspServed /\ MayCall /\ Request("call")

\* A tool that asks nobody: there is no server for the language or it lacks the
\* capability, and lsp_diagnostics reads what no message of a server fills.
LspUnasked ==
    /\ impl = "lsp" /\ pc = "idle"
    /\ told' \in LspTells("none")
    /\ UNCHANGED <<impl, pc, status, call, fresh, nextId, stream, buffer, mixed, timedOut,
                   abandoned>>

\* did_open, did_change and did_close: nothing is awaited.
LspNotify ==
    /\ LspServed
    /\ pc' \in IF Alive THEN {"idle", "writeMessage"} ELSE {"killed"}
    /\ UNCHANGED <<impl, status, call, fresh, nextId, stream, buffer, history>>

\* McpConnection: send and receive are separate calls.
ConnSend ==
    /\ impl = "conn" /\ pc = "idle" /\ connected /\ MayCall
    /\ IF Alive
         THEN /\ nextId' = nextId + 1
              /\ \/ pc' = "idle" /\ inbox' = inbox \cup {nextId}
                 \/ pc' = "writeMessage" /\ UNCHANGED inbox
         ELSE /\ pc' = "killed"
              /\ UNCHANGED <<nextId, inbox>>
    /\ UNCHANGED <<impl, status, call, fresh, said, hidden, out, buffer, history>>

ConnReceive ==
    /\ impl = "conn" /\ pc = "idle" /\ connected
    /\ MayCall
    /\ nextId' = nextId + 1
    /\ pc' = "read"
    /\ call' = [id |-> nextId, what |-> "receive"]
    /\ fresh' = FALSE
    /\ UNCHANGED <<impl, status, stream, buffer, history>>

\* The server reads and the blocked write returns; or it exits, and SIGPIPE ends
\* the program.
WriteReturns ==
    /\ pc \in Blocked /\ Alive
    /\ \/ /\ pc = "writeRequest" /\ pc' = "read"
          /\ inbox' = inbox \cup {call.id}
          /\ UNCHANGED <<connected, initialized, listed>>
       \/ /\ pc = "writeInitialized" /\ pc' = "idle"
          /\ connected' = TRUE /\ listed' = (impl = "lsp")
          /\ UNCHANGED <<inbox, initialized>>
       \/ /\ pc = "writeExit" /\ pc' = "grace"
          /\ connected' = FALSE /\ initialized' = FALSE
          /\ UNCHANGED <<inbox, listed>>
       \/ /\ pc = "writeMessage" /\ pc' = "idle"
          /\ inbox' = IF impl = "conn" THEN inbox \cup {nextId - 1} ELSE inbox
          /\ UNCHANGED <<connected, initialized, listed>>
    /\ UNCHANGED <<impl, kids, gen, fds, pid, call, fresh, nextId, said, hidden, out,
                   buffer, history>>

WriteBreaks ==
    /\ pc \in Blocked /\ ~Alive
    /\ pc' = "killed"
    /\ UNCHANGED <<impl, status, call, fresh, nextId, stream, buffer, history>>

-----------------------------------------------------------------------------
(* The end of a call, given what receive returned: the kind of the frame,  *)
(* or "none".                                                              *)

\* McpClient fails only on an error without a result: no answer at all is
\* taken for success.  When it fails connected_ is still false, so
\* disconnect() does nothing and the child stays.
McpInitialized(r) ==
    /\ IF r = "error"
         THEN /\ pc' = "idle"
              /\ abandoned' = abandoned \cup {pid}
              /\ UNCHANGED connected
         ELSE /\ pc' \in IF Alive THEN {"idle", "writeInitialized"} ELSE {"killed"}
              /\ connected' = (pc' = "idle")
              /\ UNCHANGED abandoned
    /\ UNCHANGED <<initialized, listed, mixed, told>>

\* LspClient wants a result; otherwise it cleans up.  A result whose capabilities
\* have another form throws, and the destructor cleans up.
LspInitialized(r) ==
    /\ \/ /\ r = "result"
          /\ pc' \in IF Alive THEN {"idle", "writeInitialized"} ELSE {"killed"}
          /\ initialized' = TRUE
          /\ listed' = (pc' = "idle")
          /\ UNCHANGED connected
       \/ /\ pc' = "grace"
          /\ connected' = FALSE
          /\ UNCHANGED <<initialized, listed>>
    /\ UNCHANGED <<mixed, abandoned, told>>

\* LspClient::shutdown and the start of cleanup(): the answer is not looked
\* at, "exit" is written, the flags are cleared, SIGTERM is sent.
ShutdownReturns ==
    /\ \/ /\ Alive /\ pc' = "grace"
          /\ connected' = FALSE /\ initialized' = FALSE
       \/ /\ pc' = IF Alive THEN "writeExit" ELSE "killed"
          /\ UNCHANGED <<connected, initialized>>
    /\ UNCHANGED <<listed, mixed, abandoned, told>>

\* The frame goes to the call that waits; ids are not compared.  What receive of
\* "conn" returns is left to its caller.
CallReturns(r, i) ==
    /\ told' \in CASE impl = "mcp" -> McpTells(r)
                   [] impl = "lsp" -> LspTells(r)
                   [] impl = "conn" -> {"none"}
    /\ mixed' = (mixed \/ (i # 0 /\ said[i].to # call.id))
    /\ pc' = "idle"
    /\ UNCHANGED <<connected, initialized, listed, abandoned>>

Return(r, i) ==
    /\ CASE call.what = "initialize" /\ impl = "mcp" -> McpInitialized(r)
         [] call.what = "initialize" /\ impl = "lsp" -> LspInitialized(r)
         [] call.what = "shutdown" -> ShutdownReturns
         [] OTHER -> CallReturns(r, i)
    /\ call' = NoCall /\ fresh' = FALSE
    /\ UNCHANGED <<impl, kids, gen, fds, pid, nextId, stream>>

-----------------------------------------------------------------------------
(* receive.                                                                *)

\* Complete frames in the buffer, up to text that hides the rest.  What precedes
\* the first header, the tail of a frame cut in two or a line of text, is skipped.
Buffered ==
    { i \in 1..Len(said) : /\ base < 2 * i - 1 /\ 2 * i <= inp
                           /\ hidden = 0 \/ i < hidden }

\* McpClient::read_response: the buffer is the call's own.  read() blocks, so
\* the deadline is looked at only when a read has brought part of a frame; if it
\* has not passed, the next read() blocks again.
McpReady == Buffered # {}
McpGivesUp == fresh /\ Buffered = {}

\* McpConnection::receive looks into its buffer only after a read.
ConnReady == fresh /\ Buffered # {}
ConnGivesUp == ~ConnReady

\* Slip: the read blocks, as in McpClient.
LspBlocks == fresh /\ Buffered = {}

\* LspClient::receive_message looks first, and looks at the clock before that.
LspReady == Buffered # {}
LspGivesUp == TRUE

Ready == CASE impl = "mcp" -> McpReady [] impl = "conn" -> ConnReady [] impl = "lsp" -> LspReady
GivesUp ==
    CASE impl = "mcp" -> McpGivesUp [] impl = "conn" -> ConnGivesUp [] impl = "lsp" -> LspGivesUp

\* The caller is in read(), or in poll().
Reading == pc = "read" /\ ~Ready /\ ~(impl = "mcp" /\ fresh)

ReadAgain ==
    /\ pc = "read" /\ impl = "mcp" /\ McpGivesUp
    /\ fresh' = FALSE
    /\ UNCHANGED <<impl, pc, status, call, nextId, stream, buffer, history>>

Read ==
    /\ Reading /\ inp < out
    /\ inp' \in inp + 1 .. out
    /\ fresh' = TRUE
    /\ UNCHANGED <<impl, pc, status, call, nextId, stream, base, last, given, history>>

\* Slip: the frame is copied out of the buffer and stays in it.
TakeKeepsBuffer ==
    LET i == Min(Buffered)
    IN  /\ pc = "read" /\ Ready
        /\ base' = IF impl = "mcp" THEN inp ELSE base
        /\ last' = i /\ given' = given + 1
        /\ Return(said[i].kind, i)
        /\ UNCHANGED <<inp, timedOut>>

\* The first complete frame, whatever it answers; "mcp" throws away what came
\* with it.
Take ==
    LET i == Min(Buffered)
    IN  /\ pc = "read" /\ Ready
        /\ base' = IF impl = "mcp" THEN inp ELSE 2 * i
        /\ last' = i /\ given' = given + 1
        /\ Return(said[i].kind, i)
        /\ UNCHANGED <<inp, timedOut>>

\* The deadline.  "mcp" hands on the part it has, which does not parse.
Timeout ==
    /\ pc = "read" /\ GivesUp
    /\ timedOut' = TRUE
    /\ Return("none", 0)
    /\ UNCHANGED buffer

\* End of file.
Eof ==
    /\ Reading /\ inp = out /\ ~Alive
    /\ Return("none", 0)
    /\ UNCHANGED <<buffer, timedOut>>

-----------------------------------------------------------------------------
(* Ending the server.                                                      *)

\* disconnect(): SIGTERM, then up to three seconds of grace.
McpDisconnect ==
    /\ impl = "mcp" /\ pc = "idle" /\ connected
    /\ pc' = "grace"
    /\ UNCHANGED <<impl, status, call, fresh, nextId, stream, buffer, history>>

ConnDisconnect ==
    /\ impl = "conn" /\ pc = "idle" /\ pid # 0
    /\ pc' = "grace"
    /\ UNCHANGED <<impl, status, call, fresh, nextId, stream, buffer, history>>

\* McpConnection has no destructor: one that is dropped without disconnect()
\* leaves its child and its descriptors.
ConnDrop ==
    /\ impl = "conn" /\ pc = "idle" /\ pid # 0
    /\ pid' = 0 /\ connected' = FALSE
    /\ abandoned' = abandoned \cup {pid}
    /\ UNCHANGED <<impl, pc, kids, gen, fds, initialized, listed, call, fresh, nextId,
                   stream, buffer, mixed, timedOut, told>>

\* LspToolManager::stop_server and LspClient::stop.
LspStop == LspServed /\ Request("shutdown")

\* After the grace period, or once the child has been collected.
Closed ==
    /\ pc' = "idle"
    /\ fds' = fds \ {pid}
    /\ pid' = 0
    /\ connected' = FALSE /\ listed' = FALSE
    /\ Forget
    /\ UNCHANGED <<impl, gen, initialized, call, fresh, abandoned>>

\* waitpid(WNOHANG) collects a child that has exited.
Reap ==
    /\ pc = "grace" /\ ~Alive
    /\ kids' = [kids EXCEPT ![pid] = "reaped"]
    /\ Closed

\* Slip: the second waitpid is missing.
KillOnly ==
    /\ pc = "grace" /\ Alive
    /\ kids' = [kids EXCEPT ![pid] = "dead"]
    /\ Closed

\* SIGKILL and a waitpid that waits.
KillAndWait ==
    /\ pc = "grace" /\ Alive
    /\ kids' = [kids EXCEPT ![pid] = "reaped"]
    /\ Closed

-----------------------------------------------------------------------------
(* The server.                                                             *)

Listening == pid # 0 /\ pc # "killed" /\ Alive

\* It begins a frame: an answer to any request it holds, or a notification.  For
\* LspClient a body with text of stderr in it, which does not parse, is as good as
\* an "error"; and the server may have logged text with an empty line before.
ServerBegins ==
    /\ Listening /\ out = 2 * Len(said)
    /\ \/ \E id \in inbox, kind \in {"result", "error"} :
             /\ said' = Append(said, [kind |-> kind, to |-> id])
             /\ inbox' = inbox \ {id}
       \/ /\ Len(SelectSeq(said, LAMBDA f : f.kind = "note")) < MaxNotes
          /\ said' = Append(said, [kind |-> "note", to |-> 0])
          /\ UNCHANGED inbox
    /\ hidden' \in IF impl = "lsp" /\ hidden = 0 THEN {0, Len(said) + 1} ELSE {hidden}
    /\ out' = out + 1
    /\ UNCHANGED <<impl, pc, status, call, fresh, nextId, buffer, history>>

ServerEnds ==
    /\ Listening /\ out < 2 * Len(said)
    /\ out' = out + 1
    /\ UNCHANGED <<impl, pc, status, call, fresh, nextId, inbox, said, hidden, buffer,
                   history>>

ServerExits ==
    /\ Listening
    /\ kids' = [kids EXCEPT ![pid] = "dead"]
    /\ UNCHANGED <<impl, pc, gen, fds, pid, connected, initialized, listed, call, fresh,
                   nextId, stream, buffer, history>>

-----------------------------------------------------------------------------
\* What the calling thread does on its own once a call has begun.
Progress ==
    \/ SendInitialize \/ WriteBreaks
    \/ Read \/ ReadAgain \/ Take \/ Timeout \/ Eof
    \/ Reap \/ KillAndWait

Next ==
    \/ ConnectStdio \/ CreateStdio \/ Start \/ SpawnFails
    \/ McpCall \/ LspCall \/ LspUnasked \/ LspNotify \/ ConnSend \/ ConnReceive
    \/ McpDisconnect \/ ConnDisconnect \/ ConnDrop \/ LspStop
    \/ Progress
    \/ WriteReturns \/ ServerBegins \/ ServerEnds \/ ServerExits

\* The calling thread runs and the clock advances; nothing is asked of the server.
Spec == Init /\ [][Next]_vars /\ WF_vars(Progress)

-----------------------------------------------------------------------------
(* Properties.                                                             *)

\* However the server's output is cut into reads, no frame is handed out twice
\* and none overtakes another.  The clients that keep their buffer pass over none
\* and what they handed out is the beginning of the stream, up to where text of the
\* server's stderr may hide the rest from LspClient.
FramesOnce ==
    /\ given <= last /\ 2 * last <= base
    /\ impl # "mcp" => given = last /\ base = 2 * last

\* Ids are not compared, and yet a call gets another one's answer only after a
\* call to the same server gave up waiting, or when the server speaks unasked.
\* Even then no error, notification or silence is shown to the model as found.
AnswersMatch ==
    /\ mixed => \/ impl = "conn" \/ timedOut
                \/ \E i \in 1..Len(said) : said[i].kind = "note"
    /\ told = "found" => given > 0 /\ said[last].kind = "result"

\* Between calls every child is collected and its pipes are closed, except the
\* connected one and those the client abandoned; LspClient abandons none, and
\* its manager lists it exactly while it runs.
ChildrenCollected ==
    pc = "idle" =>
        /\ { k \in 1..gen : kids[k] \in {"running", "dead"} }
             \subseteq abandoned \cup (IF connected THEN {pid} ELSE {})
        /\ \A k \in fds : kids[k] \in {"running", "dead", "none"}
        /\ impl = "lsp" => abandoned = {} /\ (listed <=> connected)

\* Every call ends whatever the server does, with two exceptions.  A write to a
\* server that never reads blocks for ever, and so does a read_response of
\* McpClient to which the server sends nothing more: there the deadline is looked
\* at only after a read.
CallEnds ==
    pc \in {"spawned", "read", "grace"} \cup Blocked
        ~> \/ pc \in {"idle", "killed"}
           \/ [](pc \in Blocked)
           \/ [](impl = "mcp" /\ pc = "read" /\ ~fresh /\ inp = out)
=============================================================================
