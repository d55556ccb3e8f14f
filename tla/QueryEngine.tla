---------------------------- MODULE QueryEngine ----------------------------
(***************************************************************************)
(* The tool-call loop of src/engine/query_engine.cpp: a query appends to   *)
(* the conversation, calls the API, runs the tools the reply asks for,     *)
(* feeds their results back and repeats, while another thread may call     *)
(* abort().  The API client is abstracted to one call that returns some    *)
(* reply; StreamClient models how that reply is put together.              *)
(*                                                                         *)
(* A Message is abstracted to its role, whether content[0] is a text       *)
(* block, the ids of its ToolUse blocks in order (Message::tool_calls) and *)
(* the ids its ToolResult blocks answer.                                   *)
(***************************************************************************)
EXTENDS Integers, Sequences

CONSTANTS
    CallId,         \* ids of tool calls
    Batches,        \* the sequences of tool calls a reply may carry
    ReplyRoles,     \* what Message::role may hold in a reply (never assigned)
    OptionLists,    \* the message lists given to execute_with_options
    Keeps,          \* the keep_recent arguments given to compact
    MaxIterations,  \* max_iterations_
    MaxMessages     \* bound: queries start only while the history is short

Roles == {"System", "User", "Assistant", "Tool", "Garbage"}
\* "max_tokens", the empty string and the like take the branches of "end_turn".
StopReasons == {"end_turn", "tool_use", "error"}

\* Tool results never share a message with a leading text block.
Message ==
    { m \in [role : Roles, text : BOOLEAN, calls : Seq(CallId), results : Seq(CallId)] :
        m.text => m.results = <<>> }

\* Message::user: one text block.
UserMessage ==
    [role |-> "User", text |-> TRUE, calls |-> <<>>, results |-> <<>>]

\* QueryPipeline::create_tool_result_message: one ToolResult block per result.
ToolResultMessage(ids) ==
    [role |-> "User", text |-> FALSE, calls |-> <<>>, results |-> ids]

\* The messages a reply may hold: any text, thinking and tool_use blocks.
ReplyMessages ==
    [role : ReplyRoles, text : BOOLEAN, calls : Batches, results : {<<>>}]

\* Every tool-result message answers the calls of the message before it, in
\* order: all of them (Full), or a first part of them (Paired).
Answers(ids, calls) ==
    Len(ids) <= Len(calls) /\ \A k \in 1..Len(ids) : ids[k] = calls[k]
Paired(ms) ==
    \A i \in 1..Len(ms) :
        ms[i].results # <<>> =>
            i > 1 /\ Answers(ms[i].results, ms[i-1].calls)
Full(ms) ==
    \A i \in 1..Len(ms) :
        ms[i].results # <<>> => i > 1 /\ ms[i].results = ms[i-1].calls

ASSUME BatchesAssumption == Batches \subseteq Seq(CallId)
ASSUME RolesAssumption == ReplyRoles \subseteq Roles
ASSUME IterationsAssumption == MaxIterations \in Nat
ASSUME KeepsAssumption == Keeps \subseteq Nat
ASSUME BoundAssumption == MaxMessages \in Nat
\* A caller of execute_with_options passes a conversation with no tool result
\* torn from its call.
ASSUME OptionsAssumption ==
    OptionLists \subseteq Seq(Message) /\ \A ms \in OptionLists : Full(ms)

VARIABLES
    messages,       \* messages_: the conversation
    aborted,        \* aborted_ (atomic): set by abort(), never cleared
    clientAborted,  \* AnthropicClient::aborted_
    abortPc,        \* "idle", or "client" between the two stores of abort()
    pc,             \* where the querying thread is in run_tool_call_loop
    iteration,      \* the loop counter
    request,        \* current_options.messages
    batch,          \* tool_calls of the reply being served
    results,        \* the ids answered so far
    final           \* final_response.stop_reason ("none" when empty)

vars == <<messages, aborted, clientAborted, abortPc, pc, iteration, request,
          batch, results, final>>
loopVars == <<iteration, request, batch, results, final>>

Init ==
    /\ messages = <<>>
    /\ aborted = FALSE
    /\ clientAborted = FALSE
    /\ abortPc = "idle"
    /\ pc = "idle"
    /\ iteration = 0
    /\ request = <<>>
    /\ batch = <<>>
    /\ results = <<>>
    /\ final = "none"

-----------------------------------------------------------------------------
(* Starting a query.                                                       *)

\* Room for everything one query may append (bounds the model only).
Room == Len(messages) + 2 * MaxIterations + 1 <= MaxMessages

\* run_tool_call_loop's locals: final_response and current_options.
EnterLoop(ms) ==
    /\ pc' = "check"
    /\ iteration' = 0
    /\ request' = ms
    /\ batch' = <<>>
    /\ results' = <<>>
    /\ final' = "none"

\* Slip: the abort flag is cleared when a query starts.
ExecuteClearsAbort ==
    /\ pc = "idle"
    /\ Room
    /\ messages' = Append(messages, UserMessage)
    /\ EnterLoop(messages')
    /\ aborted' = FALSE
    /\ UNCHANGED <<clientAborted, abortPc>>

\* execute / execute_stream: build_query_options appends the user message to
\* the history and copies the history into the request.
Execute ==
    /\ pc = "idle"
    /\ Room
    /\ messages' = Append(messages, UserMessage)
    /\ EnterLoop(messages')
    /\ UNCHANGED <<aborted, clientAborted, abortPc>>

\* execute_with_options: the caller's messages, the history is not touched.
ExecuteWithOptions ==
    /\ pc = "idle"
    /\ Room
    /\ \E ms \in OptionLists : EnterLoop(ms)
    /\ UNCHANGED <<messages, aborted, clientAborted, abortPc>>

-----------------------------------------------------------------------------
(* The loop.                                                               *)

\* Slip: one iteration too many.
LoopCheckOneMore ==
    /\ pc = "check"
    /\ IF iteration <= MaxIterations /\ ~aborted
         THEN pc' = "send" /\ UNCHANGED final
         ELSE /\ pc' = "exit"
              /\ final' = IF iteration <= MaxIterations THEN "abort" ELSE final
    /\ UNCHANGED <<messages, aborted, clientAborted, abortPc, iteration,
                   request, batch, results>>

\* The loop condition and the abort test at its top.
LoopCheck ==
    /\ pc = "check"
    /\ IF iteration < MaxIterations /\ ~aborted
         THEN pc' = "send" /\ UNCHANGED final
         ELSE /\ pc' = "exit"
              /\ final' = IF iteration < MaxIterations THEN "abort" ELSE final
    /\ UNCHANGED <<messages, aborted, clientAborted, abortPc, iteration,
                   request, batch, results>>

\* create_message_stream is entered: it clears the client's own abort flag.
SendRequest ==
    /\ pc = "send"
    /\ pc' = "call"
    /\ clientAborted' = FALSE
    /\ UNCHANGED <<messages, aborted, abortPc, loopVars>>

\* The locals of run_tool_call_loop go out of scope.
LeaveLoop ==
    /\ pc' = "idle"
    /\ iteration' = 0
    /\ request' = <<>>
    /\ batch' = <<>>
    /\ results' = <<>>

\* build_request_body throws (the JSON library rejects bytes that are not
\* UTF-8, say from a tool's output) and the exception leaves the query.
RequestThrows ==
    /\ pc = "call"
    /\ LeaveLoop
    /\ UNCHANGED <<messages, aborted, clientAborted, abortPc, final>>

\* The client returns a reply, which is appended to the history whatever it
\* is; tools follow only when it stopped by tool use.
ApiReturn ==
    /\ pc = "call"
    /\ Len(messages) < MaxMessages
    /\ \E m \in ReplyMessages, stop \in StopReasons :
        /\ messages' = Append(messages, m)
        /\ final' = stop
        /\ IF stop = "tool_use"
             THEN pc' = "tools" /\ batch' = m.calls
             ELSE pc' = "exit" /\ batch' = <<>>
    /\ results' = <<>>
    /\ UNCHANGED <<aborted, clientAborted, abortPc, iteration, request>>

\* The tool loop tests the abort flag, then starts the next call.
StartTool ==
    /\ pc = "tools"
    /\ ~aborted
    /\ Len(results) < Len(batch)
    /\ pc' = "tool"
    /\ UNCHANGED <<messages, aborted, clientAborted, abortPc, loopVars>>

\* Slip: no result is kept for a call that fails early.
FinishToolDropsErrors ==
    /\ pc = "tool"
    /\ pc' = "tools"
    /\ \/ results' = Append(results, batch[Len(results) + 1])
          /\ UNCHANGED batch
       \/ batch' = Tail(batch) /\ UNCHANGED results
    /\ UNCHANGED <<messages, aborted, clientAborted, abortPc, iteration,
                   request, final>>

\* execute_tool_call returns: an unknown tool, a denied tool, a failing tool
\* and a successful one all yield one result that carries the id of the call.
FinishTool ==
    /\ pc = "tool"
    /\ pc' = "tools"
    /\ results' = Append(results, batch[Len(results) + 1])
    /\ UNCHANGED <<messages, aborted, clientAborted, abortPc, iteration,
                   request, batch, final>>

\* Slip: an abort stops the calls, but the loop over them goes on.
ToolsDoneOnlyWhenAll ==
    /\ pc = "tools"
    /\ Len(results) = Len(batch)
    /\ IF results = <<>>
         THEN pc' = "exit" /\ UNCHANGED <<messages, request, iteration>>
         ELSE /\ pc' = "check"
              /\ messages' = Append(messages, ToolResultMessage(results))
              /\ request' = messages'
              /\ iteration' = iteration + 1
    /\ UNCHANGED <<aborted, clientAborted, abortPc, batch, results,
                   final>>

\* The calls are all served, or an abort cut them short: their results, if
\* any, go into the history, and the next request is the whole history.
ToolsDone ==
    /\ pc = "tools"
    /\ aborted \/ Len(results) = Len(batch)
    /\ IF results = <<>>
         THEN pc' = "exit" /\ UNCHANGED <<messages, request, iteration>>
         ELSE /\ pc' = "check"
              /\ messages' = Append(messages, ToolResultMessage(results))
              /\ request' = messages'
              /\ iteration' = iteration + 1
    /\ UNCHANGED <<aborted, clientAborted, abortPc, batch, results,
                   final>>

\* The last test of the abort flag, and the return to the caller.
Finish ==
    /\ pc = "exit"
    /\ LeaveLoop
    /\ final' = IF aborted THEN "abort" ELSE final
    /\ UNCHANGED <<messages, aborted, clientAborted, abortPc>>

-----------------------------------------------------------------------------
(* abort(), from any thread: two stores with no lock around them.          *)

AbortEngine ==
    /\ abortPc = "idle"
    /\ aborted' = TRUE
    /\ abortPc' = "client"
    /\ UNCHANGED <<messages, clientAborted, pc, loopVars>>

AbortClient ==
    /\ abortPc = "client"
    /\ clientAborted' = TRUE
    /\ abortPc' = "idle"
    /\ UNCHANGED <<messages, aborted, pc, loopVars>>

-----------------------------------------------------------------------------
(* Between queries.                                                        *)

\* Slip: any user message, a tool result included, is taken for a boundary.
BoundaryAnyUser(m) == m.role = "User"

\* compact's clean boundary: a plain user message, not a tool result.
CleanBoundary(m) == m.role = "User" /\ m.text

\* compact(keep): drop everything before the first clean boundary that leaves
\* at most keep messages; keep everything when there is none.
Compact ==
    /\ pc = "idle"
    /\ \E keep \in Keeps :
        LET boundaries == { i \in 1..Len(messages) :
                              i > Len(messages) - keep /\ CleanBoundary(messages[i]) }
        IN  /\ keep < Len(messages)
            /\ \E i \in boundaries :
                /\ \A j \in boundaries : i <= j
                /\ messages' = SubSeq(messages, i, Len(messages))
    /\ UNCHANGED <<aborted, clientAborted, abortPc, pc, loopVars>>

ClearHistory ==
    /\ pc = "idle"
    /\ messages' = <<>>
    /\ UNCHANGED <<aborted, clientAborted, abortPc, pc, loopVars>>

Engine == LoopCheck \/ SendRequest \/ RequestThrows \/ ApiReturn \/ StartTool
            \/ FinishTool \/ ToolsDone \/ Finish

Next == \/ Execute \/ ExecuteWithOptions
        \/ Engine
        \/ AbortEngine \/ AbortClient
        \/ Compact \/ ClearHistory

Spec == Init /\ [][Next]_vars

\* The querying thread keeps running.  The API call returns because
\* CURLOPT_TIMEOUT bounds every transfer and the retries are counted; that a
\* tool returns is an assumption on the tools (ProcessExec examines it).
FairSpec == Spec /\ WF_vars(Engine) /\ WF_vars(AbortClient)

-----------------------------------------------------------------------------
(* Properties.                                                             *)

\* The types of the variables.
TypeOK ==
    /\ messages \in Seq(Message)
    /\ aborted \in BOOLEAN
    /\ clientAborted \in BOOLEAN
    /\ abortPc \in {"idle", "client"}
    /\ pc \in {"idle", "check", "send", "call", "tools", "tool", "exit"}
    /\ iteration \in 0..MaxIterations
    /\ request \in Seq(Message)
    /\ batch \in Seq(CallId)
    /\ results \in Seq(CallId)
    /\ final \in StopReasons \cup {"none", "abort"}

\* The history never holds a tool result torn from its call: every
\* tool-result message directly follows the reply whose calls it answers, in
\* the order of the calls, through aborts, compactions, clears, exceptions
\* and queries of both kinds.
HistoryPaired == Paired(messages)

\* Calls of a reply are left unanswered inside an answered batch only if
\* abort() was called.
PartialOnlyIfAborted == ~aborted => Full(messages)

\* No request that reaches the API carries a half-answered batch of calls
\* (the API refuses such a request): an abort that cuts a batch short also
\* keeps every later request from being sent.
RequestAnswered == pc = "call" => Full(request)

\* AnthropicClient::build_request_body: messages whose role is neither User,
\* Assistant nor Tool are left out of the body.
WireMessages(ms) ==
    SelectSeq(ms, LAMBDA m : m.role \in {"User", "Assistant", "Tool"})

\* Expected of a history to which "the assistant message" was added: the body
\* that reaches the API still holds the call of every result it carries.
WirePaired == pc = "call" => Paired(WireMessages(request))

\* A query that was started returns, whatever the API answers and whenever
\* abort() is called.
QueryReturns == (pc # "idle") ~> (pc = "idle")
=============================================================================
