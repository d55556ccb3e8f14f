---------------------------- MODULE StreamClient ----------------------------
(***************************************************************************)
(* AnthropicClient::create_message_stream and create_message               *)
(* (src/api/anthropic_client.cpp): the retry loop around one HTTP request, *)
(* the assembly of the reply from the server's events while they arrive,   *)
(* and abort() from another thread.                                        *)
(*                                                                         *)
(* The text of a delta is abstracted to its count: a block holds how many  *)
(* deltas it received.  libcurl and the server are external: a transfer    *)
(* delivers a prefix of a well-formed event stream, cut into chunks        *)
(* anywhere, mixed with error events, and ends in any way libcurl reports. *)
(***************************************************************************)
EXTENDS Integers, Sequences

CONSTANTS
    MaxRetries,     \* max_retries
    MaxBlocks,      \* bound: content blocks in one stream
    MaxDeltas       \* bound: deltas in one block

ASSUME RetriesAssumption == MaxRetries \in Nat
ASSUME StreamBoundsAssumption == MaxBlocks \in Nat /\ MaxDeltas \in Nat

BlockTypes == {"text", "tool_use"}      \* thinking blocks behave like text

VARIABLES
    curl,       \* did curl_easy_init succeed when the client was built
    pc,         \* where the calling thread is
    mode,       \* "stream" (callback given) or "plain" (create_message)
    busy,       \* busy_
    aborted,    \* aborted_
    attempt,    \* the retry counter
    res,        \* the CURLcode: "ok", "transient", "fatal", "write"
    code,       \* the HTTP status: "none", "200", "retry", "other"
    inChunk,    \* a write callback is running
    resp,       \* the QueryResponse and the StreamingContext that fills it
    result,     \* how the last call ended
    phase,      \* server: "none", "started", "stopped" (message_delta sent)
    served,     \* server: the blocks it has sent in this attempt
    errs,       \* an error event has arrived in this attempt
    starts,     \* transfers begun by this call
    lateStarts  \* transfers begun by this call after abort()

callVars == <<curl, mode, busy, aborted, attempt>>
netVars == <<res, code, inChunk>>
srvVars == <<phase, served, errs>>
ghostVars == <<starts, lateStarts>>
vars == <<curl, pc, mode, busy, aborted, attempt, res, code, inChunk, resp,
          result, phase, served, errs, starts, lateStarts>>

-----------------------------------------------------------------------------
(* Assembling a message from events.  An accumulator holds the content     *)
(* blocks, the block being filled (cur, 0 for nullptr), the tool input     *)
(* buffer and the stop reason.                                             *)

Accumulator ==
    [blocks : Seq([type : BlockTypes, text : Nat, input : Nat]), cur : Nat,
     stale : BOOLEAN, buf : Nat, stop : {"none", "end_turn", "tool_use", "error"}]

EmptyAcc == [blocks |-> <<>>, cur |-> 0, stale |-> FALSE, buf |-> 0,
             stop |-> "none"]

Block(t) == [type |-> t, text |-> 0, input |-> 0]

OnBlockStart(acc, t) ==
    [acc EXCEPT !.blocks = Append(@, Block(t)),
                !.cur = Len(acc.blocks) + 1,
                !.stale = FALSE,
                !.buf = IF t = "tool_use" THEN 0 ELSE @]

\* A write through a pointer the vector has moved away from is lost.
OnDelta(acc) ==
    IF acc.cur = 0 THEN acc
    ELSE IF acc.blocks[acc.cur].type = "tool_use" THEN [acc EXCEPT !.buf = @ + 1]
    ELSE IF acc.stale THEN acc
    ELSE [acc EXCEPT !.blocks[acc.cur].text = @ + 1]

\* Slip: the buffer is cleared before it is stored.
OnBlockStopClearFirst(acc) ==
    IF acc.cur = 0 \/ acc.blocks[acc.cur].type # "tool_use"
      THEN [acc EXCEPT !.cur = 0, !.stale = FALSE]
      ELSE [acc EXCEPT !.blocks[acc.cur].input = 0,
                       !.buf = 0, !.cur = 0, !.stale = FALSE]

OnBlockStop(acc) ==
    IF acc.cur = 0 \/ acc.blocks[acc.cur].type # "tool_use"
      THEN [acc EXCEPT !.cur = 0, !.stale = FALSE]
      ELSE [acc EXCEPT !.blocks[acc.cur].input = IF acc.stale THEN @ ELSE acc.buf,
                       !.buf = 0, !.cur = 0, !.stale = FALSE]

OnMessageDelta(acc, stop) == [acc EXCEPT !.stop = stop]

\* The response gains a text block; growing the vector may move the blocks
\* and leave current_block dangling (moved).
OnError(acc, moved) ==
    [acc EXCEPT !.stop = "error",
                !.blocks = Append(@, Block("text")),
                !.stale = @ \/ (moved /\ acc.cur # 0)]

-----------------------------------------------------------------------------
Init ==
    /\ curl \in BOOLEAN
    /\ pc = "idle"
    /\ mode = "stream"
    /\ busy = FALSE
    /\ aborted = FALSE
    /\ attempt = 0
    /\ res = "ok"
    /\ code = "none"
    /\ inChunk = FALSE
    /\ resp = EmptyAcc
    /\ result = "none"
    /\ phase = "none"
    /\ served = <<>>
    /\ errs = FALSE
    /\ starts = 0
    /\ lateStarts = 0

\* The head of create_message_stream: busy_ and aborted_ are set, the locals
\* are fresh; without a curl handle the call ends with an error at once.
Begin(m) ==
    /\ pc = "idle"
    /\ mode' = m
    /\ aborted' = FALSE
    /\ attempt' = 0
    /\ res' = "ok"
    /\ code' = "none"
    /\ phase' = "none"
    /\ served' = <<>>
    /\ errs' = FALSE
    /\ starts' = 0
    /\ lateStarts' = 0
    /\ pc' = "build"
    /\ busy' = TRUE
    /\ resp' = EmptyAcc
    /\ result' = "none"
    /\ UNCHANGED <<curl, inChunk>>

CreateMessageStream == Begin("stream")

\* create_message turns the caller away while busy_ is set.
CreateMessage ==
    \/ ~busy /\ Begin("plain")
    \/ /\ busy
       /\ pc = "idle"
       /\ resp' = OnError(EmptyAcc, FALSE)
       /\ result' = "error"
       /\ UNCHANGED <<pc, callVars, netVars, srvVars, ghostVars>>

\* Every ordinary return clears busy_.
ReturnAs(outcome) ==
    /\ pc' = "idle"
    /\ busy' = FALSE
    /\ result' = outcome

\* The request body is built and the handle configured.
Build ==
    /\ pc = "build"
    /\ IF curl
         THEN pc' = "top" /\ UNCHANGED <<busy, result, resp>>
         ELSE ReturnAs("error") /\ resp' = OnError(resp, FALSE)
    /\ UNCHANGED <<curl, mode, aborted, attempt, netVars, srvVars, ghostVars>>

\* build_request_body throws: the exception leaves busy_ set.
BuildThrows ==
    /\ pc = "build"
    /\ curl
    /\ pc' = "idle"
    /\ result' = "thrown"
    /\ UNCHANGED <<callVars, netVars, resp, srvVars, ghostVars>>

-----------------------------------------------------------------------------
(* The retry loop.                                                         *)

\* Slip: the flag is not looked at.
NeverAborted == FALSE

\* The tests of aborted_ at the top and after the transfer.
AbortSeen == aborted

LoopTop ==
    /\ pc = "top"
    /\ pc' = IF AbortSeen THEN "transport"
             ELSE IF attempt > 0 THEN "backoff" ELSE "perform"
    /\ UNCHANGED <<callVars, netVars, resp, result, srvVars, ghostVars>>

\* Slip: the response of the failed attempt is kept.
BackoffKeepsResponse ==
    /\ pc = "backoff"
    /\ pc' = "perform"
    /\ UNCHANGED <<callVars, netVars, resp, result, srvVars, ghostVars>>

\* After the sleep the response and the streaming context start afresh.
Backoff ==
    /\ pc = "backoff"
    /\ pc' = "perform"
    /\ resp' = EmptyAcc
    /\ UNCHANGED <<callVars, netVars, result, srvVars, ghostVars>>

\* The history counters stop one past the transfers a call may begin.
Count(n) == IF n <= MaxRetries + 1 THEN n + 1 ELSE n

\* curl_easy_perform begins; the status the server will answer with, if any.
StartTransfer ==
    /\ pc = "perform"
    /\ pc' = "transfer"
    /\ code' \in {"none", "200", "retry", "other"}
    /\ phase' = "none"
    /\ served' = <<>>
    /\ errs' = FALSE
    /\ starts' = Count(starts)
    /\ lateStarts' = IF aborted THEN Count(lateStarts) ELSE lateStarts
    /\ UNCHANGED <<callVars, res, inChunk, resp, result>>

\* A write callback begins; only here, and only when streaming, is aborted_
\* polled during a transfer.
ChunkStart ==
    /\ pc = "transfer"
    /\ mode = "stream"
    /\ code # "none"
    /\ ~inChunk
    /\ IF aborted THEN pc' = "judge" /\ res' = "write" /\ UNCHANGED inChunk
                  ELSE inChunk' = TRUE /\ UNCHANGED <<pc, res>>
    /\ UNCHANGED <<callVars, code, resp, result, srvVars, ghostVars>>

ChunkEnd ==
    /\ inChunk
    /\ inChunk' = FALSE
    /\ UNCHANGED <<callVars, pc, res, code, resp, result, srvVars, ghostVars>>

EndTransfer ==
    /\ pc = "transfer"
    /\ ~inChunk
    /\ pc' = "judge"
    /\ res' \in IF code = "none" THEN {"transient", "fatal"}
                                 ELSE {"ok", "transient", "fatal"}
    /\ UNCHANGED <<callVars, code, inChunk, resp, result, srvVars, ghostVars>>

ShouldRetry == res = "transient" \/ (res = "ok" /\ code = "retry")

\* Slip: the attempt is noted, not counted.
JudgeNotCounted ==
    /\ pc = "judge"
    /\ IF ~AbortSeen /\ ShouldRetry /\ attempt < MaxRetries
         THEN pc' = "top" /\ attempt' = 1
         ELSE pc' = "transport" /\ UNCHANGED attempt
    /\ UNCHANGED <<curl, mode, busy, aborted, netVars, resp, result,
                   srvVars, ghostVars>>

\* Slip: one retry too many.
JudgeOneMore ==
    /\ pc = "judge"
    /\ IF ~AbortSeen /\ ShouldRetry /\ attempt <= MaxRetries
         THEN pc' = "top" /\ attempt' = attempt + 1
         ELSE pc' = "transport" /\ UNCHANGED attempt
    /\ UNCHANGED <<curl, mode, busy, aborted, netVars, resp, result,
                   srvVars, ghostVars>>

\* Transient failures are retried while attempts remain.
Judge ==
    /\ pc = "judge"
    /\ IF ~AbortSeen /\ ShouldRetry /\ attempt < MaxRetries
         THEN pc' = "top" /\ attempt' = attempt + 1
         ELSE pc' = "transport" /\ UNCHANGED attempt
    /\ UNCHANGED <<curl, mode, busy, aborted, netVars, resp, result,
                   srvVars, ghostVars>>

-----------------------------------------------------------------------------
(* The events of one stream, each handled inside a write callback: first   *)
(* the caller's callback (display), then the response.                     *)

Receiving == pc = "transfer" /\ inChunk /\ code = "200"
BlockOpen == served # <<>> /\ ~served[Len(served)].closed

Feed(newResp) ==
    /\ resp' = newResp
    /\ UNCHANGED <<callVars, pc, netVars, result, ghostVars>>

MessageStart ==
    /\ Receiving /\ phase = "none"
    /\ phase' = "started"
    /\ Feed(resp)
    /\ UNCHANGED <<served, errs>>

ContentBlockStart ==
    /\ Receiving /\ phase = "started" /\ ~BlockOpen /\ Len(served) < MaxBlocks
    /\ \E t \in BlockTypes :
        /\ served' = Append(served, [type |-> t, deltas |-> 0, closed |-> FALSE])
        /\ Feed(OnBlockStart(resp, t))
    /\ UNCHANGED <<phase, errs>>

ContentBlockDelta ==
    /\ Receiving /\ BlockOpen /\ served[Len(served)].deltas < MaxDeltas
    /\ served' = [served EXCEPT ![Len(served)].deltas = @ + 1]
    /\ Feed(OnDelta(resp))
    /\ UNCHANGED <<phase, errs>>

ContentBlockStop ==
    /\ Receiving /\ BlockOpen
    /\ served' = [served EXCEPT ![Len(served)].closed = TRUE]
    /\ Feed(OnBlockStop(resp))
    /\ UNCHANGED <<phase, errs>>

MessageDelta ==
    /\ Receiving /\ phase = "started" /\ ~BlockOpen
    /\ phase' = "stopped"
    /\ LET stop == IF \E i \in 1..Len(served) : served[i].type = "tool_use"
                     THEN "tool_use" ELSE "end_turn"
       IN  Feed(OnMessageDelta(resp, stop))
    /\ UNCHANGED <<served, errs>>

\* An "error" event of the API, or a data line that is not JSON.
ErrorEvent ==
    /\ Receiving /\ ~errs
    /\ errs' = TRUE
    /\ \E moved \in BOOLEAN : Feed(OnError(resp, moved))
    /\ UNCHANGED <<phase, served>>

-----------------------------------------------------------------------------
(* After the loop.  aborted_ is read again at each test.                   *)

\* A failed transfer that was not aborted is reported as an error.
Transport ==
    /\ pc = "transport"
    /\ IF res # "ok" /\ ~aborted
         THEN ReturnAs("error") /\ resp' = OnError(resp, FALSE)
         ELSE pc' = "http" /\ UNCHANGED <<busy, result, resp>>
    /\ UNCHANGED <<curl, mode, aborted, attempt, netVars, srvVars, ghostVars>>

\* So is a status other than 200.
HttpStatus ==
    /\ pc = "http"
    /\ IF code # "200" /\ ~aborted
         THEN ReturnAs("error") /\ resp' = OnError(resp, FALSE)
         ELSE pc' = "body" /\ UNCHANGED <<busy, result, resp>>
    /\ UNCHANGED <<curl, mode, aborted, attempt, netVars, srvVars, ghostVars>>

Outcome(stop) == IF stop = "tool_use" THEN "tools"
                 ELSE IF stop = "error" THEN "error" ELSE "reply"

\* A streamed response is complete as it stands.
ReturnStream ==
    /\ pc = "body" /\ mode = "stream"
    /\ ReturnAs(Outcome(resp.stop))
    /\ UNCHANGED <<curl, mode, aborted, attempt, netVars, resp, srvVars,
                   ghostVars>>

\* process_json_response on the collected body: a message with its usage, or
\* an error (an error object, or a body that does not parse).
ReturnPlain ==
    /\ pc = "body" /\ mode = "plain"
    /\ \E stop \in {"end_turn", "tool_use", "error"} :
        /\ stop # "error" => code # "none"
        /\ resp' = IF stop = "error" THEN OnError(EmptyAcc, FALSE)
                   ELSE [EmptyAcc EXCEPT !.stop = stop]
        /\ ReturnAs(Outcome(stop))
    /\ UNCHANGED <<curl, mode, aborted, attempt, netVars, srvVars, ghostVars>>

\* A JSON body without a "message" object: the type error is not caught, and
\* busy_ stays set.
PlainThrows ==
    /\ pc = "body" /\ mode = "plain" /\ code # "none"
    /\ pc' = "idle"
    /\ result' = "thrown"
    /\ UNCHANGED <<callVars, netVars, resp, srvVars, ghostVars>>

\* abort(), from another thread.
Abort ==
    /\ curl
    /\ aborted' = TRUE
    /\ UNCHANGED <<curl, pc, mode, busy, attempt, netVars, resp, result,
                   srvVars, ghostVars>>

Event == MessageStart \/ ContentBlockStart \/ ContentBlockDelta
            \/ ContentBlockStop \/ MessageDelta \/ ErrorEvent

Step == Build \/ BuildThrows \/ LoopTop \/ Backoff \/ StartTransfer \/ Judge
            \/ Transport \/ HttpStatus \/ ReturnStream \/ ReturnPlain \/ PlainThrows

Next == CreateMessageStream \/ CreateMessage \/ Step \/ ChunkStart \/ ChunkEnd
            \/ Event \/ EndTransfer \/ Abort

Spec == Init /\ [][Next]_vars

\* The calling thread runs; a write callback returns; CURLOPT_TIMEOUT ends a
\* transfer however often the server sends another chunk.
FairSpec == Spec /\ WF_vars(Step) /\ WF_vars(ChunkEnd) /\ SF_vars(EndTransfer)

-----------------------------------------------------------------------------
(* Properties.                                                             *)

\* The types of the variables.
TypeOK ==
    /\ curl \in BOOLEAN /\ busy \in BOOLEAN /\ aborted \in BOOLEAN
    /\ inChunk \in BOOLEAN /\ errs \in BOOLEAN
    /\ pc \in {"idle", "build", "top", "backoff", "perform", "transfer", "judge",
               "transport", "http", "body"}
    /\ mode \in {"stream", "plain"}
    /\ attempt \in 0..MaxRetries
    /\ res \in {"ok", "transient", "fatal", "write"}
    /\ code \in {"none", "200", "retry", "other"}
    /\ resp \in Accumulator
    /\ result \in {"none", "reply", "tools", "error", "thrown"}
    /\ phase \in {"none", "started", "stopped"}
    /\ served \in Seq([type : BlockTypes, deltas : Nat, closed : BOOLEAN])
    /\ starts \in 0..MaxRetries + 1
    /\ lateStarts \in Nat

\* The response's blocks are the server's, each with exactly its deltas.
Matches(blocks) ==
    /\ Len(blocks) = Len(served)
    /\ \A i \in 1..Len(blocks) :
        /\ blocks[i].type = served[i].type
        /\ IF blocks[i].type = "text" THEN blocks[i].text = served[i].deltas
           ELSE served[i].closed => blocks[i].input = served[i].deltas

\* At every moment of a streamed transfer without error events the response
\* holds exactly what the server has sent in this attempt: nothing of an
\* earlier attempt, of another block, or twice.
Assembled ==
    pc \in {"transfer", "judge"} /\ mode = "stream" /\ ~errs => Matches(resp.blocks)

\* A call that ends by asking for tools, even if it was retried or aborted on
\* the way, carries every tool call with its whole input.
ToolReplyComplete ==
    pc = "idle" /\ result = "tools" /\ mode = "stream" /\ ~errs =>
        /\ Matches(resp.blocks)
        /\ \A i \in 1..Len(served) : served[i].closed

\* After abort() at most one more transfer begins, the one whose backoff
\* sleep or start the abort fell into.
AbortStopsRetries == lateStarts <= 1

\* Every call ends, whatever the server and the network do.
CallReturns == (pc # "idle") ~> (pc = "idle")

\* The abstract call interface, implemented.
Api == INSTANCE MessageApi WITH
          MaxTries <- MaxRetries + 1,
          phase <- IF pc = "idle" THEN "idle" ELSE "calling",
          tries <- starts,
          outcome <- result

\* The client implements MessageApi: a bounded number of requests, one
\* outcome per call, tools only from a call that reached the server.
ImplementsApi == Api!ApiSpec
=============================================================================
