------------------------- MODULE QueryEngineProofs -------------------------
(***************************************************************************)
(* The safety of the tool-call loop for every number of iterations, every  *)
(* set of tool calls, every reply and every point at which abort() lands.  *)
(* HistoryPaired and RequestAnswered are not inductive: LoopInv adds what  *)
(* the querying thread knows at each point of the loop.                    *)
(***************************************************************************)
EXTENDS QueryEngine, SequenceTheorems, TLAPS

\* While tools run, the last message of the history is the reply they serve,
\* and the results so far answer a first part of its calls.
ToolsInv ==
    pc \in {"tools", "tool"} =>
        /\ messages # <<>>
        /\ batch = messages[Len(messages)].calls
        /\ Answers(results, batch)
        /\ pc = "tool" => Len(results) < Len(batch)

\* The request is whole as soon as the loop's abort test lets it through.
RequestInv ==
    /\ pc = "check" /\ ~aborted => Full(request)
    /\ pc \in {"send", "call"} => Full(request)

\* Past the test of the loop condition the counter is below its limit.
IterationInv ==
    pc \in {"send", "call", "tools", "tool"} => iteration < MaxIterations

LoopInv ==
    /\ TypeOK
    /\ HistoryPaired
    /\ PartialOnlyIfAborted
    /\ ToolsInv
    /\ RequestInv
    /\ IterationInv

-----------------------------------------------------------------------------
(* Facts about the history.                                                *)

\* Appending a message without results, as a query and a reply do, keeps the
\* pairing of the history.
LEMMA AppendPlain ==
    ASSUME NEW ms \in Seq(Message), NEW m \in Message, m.results = <<>>
    PROVE  /\ Paired(ms) => Paired(Append(ms, m))
           /\ Full(ms) => Full(Append(ms, m))
<1>. DEFINE new == Append(ms, m)
<1>1. /\ Len(new) = Len(ms) + 1
      /\ \A i \in 1..Len(ms) : new[i] = ms[i]
      /\ new[Len(ms) + 1] = m
  BY AppendProperties
<1>2. Len(ms) \in Nat
  BY LenProperties
<1>3. ASSUME NEW i \in 1..Len(new), new[i].results # <<>>
      PROVE  /\ i \in 1..Len(ms)
             /\ new[i] = ms[i]
             /\ i > 1 => new[i-1] = ms[i-1]
  BY <1>1, <1>2, <1>3
<1>4. Paired(ms) => Paired(new)
  BY <1>3 DEF Paired
<1>5. Full(ms) => Full(new)
  BY <1>3 DEF Full
<1>. QED  BY <1>4, <1>5

\* Appending the results of a batch after the reply that asked for it keeps
\* the pairing, and the history stays full when the batch was finished.
LEMMA AppendResults ==
    ASSUME NEW ms \in Seq(Message), ms # <<>>,
           NEW ids \in Seq(CallId), ids # <<>>,
           Answers(ids, ms[Len(ms)].calls)
    PROVE  /\ Paired(ms) => Paired(Append(ms, ToolResultMessage(ids)))
           /\ Full(ms) /\ ids = ms[Len(ms)].calls
                => Full(Append(ms, ToolResultMessage(ids)))
<1>. DEFINE m == ToolResultMessage(ids)
            new == Append(ms, m)
<1>1. m \in Message /\ m.results = ids
  BY EmptySeq DEF ToolResultMessage, Message, Roles
<1>. HIDE DEF m
<1>2. /\ Len(new) = Len(ms) + 1
      /\ \A i \in 1..Len(ms) : new[i] = ms[i]
      /\ new[Len(ms) + 1] = m
  BY <1>1, AppendProperties
<1>3. Len(ms) \in Nat \ {0}
  BY EmptySeq
<1>4. ASSUME NEW i \in 1..Len(new)
      PROVE  \/ i \in 1..Len(ms) /\ new[i] = ms[i] /\ (i > 1 => new[i-1] = ms[i-1])
             \/ i = Len(ms) + 1 /\ i > 1 /\ new[i] = m /\ new[i-1] = ms[Len(ms)]
  BY <1>2, <1>3
<1>5. Paired(ms) => Paired(new)
  BY <1>1, <1>4 DEF Paired
<1>6. Full(ms) /\ ids = ms[Len(ms)].calls => Full(new)
  BY <1>1, <1>4 DEF Full
<1>. QED  BY <1>5, <1>6 DEF m

\* Dropping everything before a message without results keeps the pairing:
\* what compact does, since its boundary is never a tool result.
LEMMA DropBefore ==
    ASSUME NEW ms \in Seq(Message), NEW i \in 1..Len(ms), ms[i].results = <<>>
    PROVE  /\ SubSeq(ms, i, Len(ms)) \in Seq(Message)
           /\ Paired(ms) => Paired(SubSeq(ms, i, Len(ms)))
           /\ Full(ms) => Full(SubSeq(ms, i, Len(ms)))
<1>. DEFINE new == SubSeq(ms, i, Len(ms))
<1>1. Len(ms) \in Nat
  BY LenProperties
<1>2. \A k \in i..Len(ms) : ms[k] \in Message
  BY <1>1, ElementOfSeq
<1>3. /\ new \in Seq(Message)
      /\ Len(new) = Len(ms) - i + 1
      /\ \A k \in 1..(Len(ms) - i + 1) : new[k] = ms[i + k - 1]
  BY <1>1, <1>2, SubSeqProperties
<1>. HIDE DEF new
<1>4. ASSUME NEW k \in 1..Len(new), new[k].results # <<>>
      PROVE  /\ i + k - 1 \in 1..Len(ms)
             /\ new[k] = ms[i + k - 1]
             /\ k > 1
             /\ new[k-1] = ms[(i + k - 1) - 1]
  <2>1. new[k] = ms[i + k - 1] /\ i + k - 1 \in 1..Len(ms)
    BY <1>1, <1>3
  <2>2. k # 1
    BY <2>1, <1>4
  <2>3. k - 1 \in 1..(Len(ms) - i + 1) /\ i + (k - 1) - 1 = (i + k - 1) - 1
    BY <1>1, <1>3, <2>2
  <2>. QED  BY <1>3, <2>1, <2>2, <2>3
<1>5. Paired(ms) => Paired(new)
  BY <1>4 DEF Paired
<1>6. Full(ms) => Full(new)
  BY <1>4 DEF Full
<1>. QED  BY <1>3, <1>5, <1>6 DEF new

\* A user message and every reply are messages without results.
LEMMA PlainMessages ==
    /\ UserMessage \in Message /\ UserMessage.results = <<>>
    /\ \A m \in ReplyMessages : m \in Message /\ m.results = <<>>
BY EmptySeq, BatchesAssumption, RolesAssumption
   DEF UserMessage, ReplyMessages, Message, Roles
-----------------------------------------------------------------------------
(* The invariant.                                                          *)

LEMMA InitLoopInv == Init => LoopInv
<1>. SUFFICES ASSUME Init PROVE LoopInv
  OBVIOUS
<1>1. TypeOK
  <2>1. aborted \in BOOLEAN /\ clientAborted \in BOOLEAN
    BY DEF Init
  <2>2. final \in StopReasons \cup {"none", "abort"}
    BY DEF Init
  <2>. QED  BY <2>1, <2>2, IterationsAssumption DEF Init, TypeOK
<1>2. HistoryPaired /\ PartialOnlyIfAborted
  BY DEF Init, HistoryPaired, PartialOnlyIfAborted, Paired, Full
<1>3. ToolsInv /\ RequestInv /\ IterationInv
  BY DEF Init, ToolsInv, RequestInv, IterationInv
<1>. QED  BY <1>1, <1>2, <1>3 DEF LoopInv

\* One step per action; under each, the parts of LoopInv it can disturb.
LEMMA NextLoopInv == LoopInv /\ [Next]_vars => LoopInv'
<1>. SUFFICES ASSUME LoopInv, [Next]_vars
              PROVE  LoopInv'
  OBVIOUS
<1>. USE DEF LoopInv
<1>0. CASE UNCHANGED vars
  BY <1>0 DEF vars, TypeOK, HistoryPaired, PartialOnlyIfAborted, ToolsInv,
     RequestInv, IterationInv
<1>1. CASE Execute
  <2>1. messages' \in Seq(Message) /\ request' = messages'
    BY <1>1, PlainMessages, AppendProperties DEF Execute, EnterLoop, TypeOK
  <2>2. TypeOK'
    BY <1>1, <2>1, IterationsAssumption
       DEF Execute, EnterLoop, TypeOK, StopReasons
  <2>3. HistoryPaired' /\ PartialOnlyIfAborted'
    BY <1>1, PlainMessages, AppendPlain
       DEF Execute, TypeOK, HistoryPaired, PartialOnlyIfAborted
  <2>4. ToolsInv' /\ RequestInv' /\ IterationInv'
    BY <1>1, <2>1, <2>3
       DEF Execute, EnterLoop, ToolsInv, RequestInv, IterationInv,
           PartialOnlyIfAborted
  <2>. QED  BY <2>2, <2>3, <2>4
<1>2. CASE ExecuteWithOptions
  <2>1. PICK ms \in OptionLists : EnterLoop(ms)
    BY <1>2 DEF ExecuteWithOptions
  <2>2. ms \in Seq(Message) /\ Full(ms)
    BY OptionsAssumption
  <2>3. TypeOK'
    BY <1>2, <2>1, <2>2, IterationsAssumption
       DEF ExecuteWithOptions, EnterLoop, TypeOK, StopReasons
  <2>4. HistoryPaired' /\ PartialOnlyIfAborted' /\ ToolsInv' /\ RequestInv'
        /\ IterationInv'
    BY <1>2, <2>1, <2>2
       DEF ExecuteWithOptions, EnterLoop, HistoryPaired, PartialOnlyIfAborted,
           ToolsInv, RequestInv, IterationInv
  <2>. QED  BY <2>3, <2>4
<1>3. CASE LoopCheck
  BY <1>3, IterationsAssumption
     DEF LoopCheck, TypeOK, HistoryPaired, PartialOnlyIfAborted, ToolsInv,
         RequestInv, IterationInv, StopReasons
<1>4. CASE SendRequest
  BY <1>4
     DEF SendRequest, loopVars, TypeOK, HistoryPaired, PartialOnlyIfAborted,
         ToolsInv, RequestInv, IterationInv
<1>5. CASE RequestThrows
  BY <1>5, IterationsAssumption
     DEF RequestThrows, LeaveLoop, TypeOK, HistoryPaired, PartialOnlyIfAborted,
         ToolsInv, RequestInv, IterationInv
<1>6. CASE ApiReturn
  <2>1. PICK m \in ReplyMessages, stop \in StopReasons :
            /\ messages' = Append(messages, m)
            /\ final' = stop
            /\ IF stop = "tool_use"
                 THEN pc' = "tools" /\ batch' = m.calls
                 ELSE pc' = "exit" /\ batch' = <<>>
    BY <1>6 DEF ApiReturn
  <2>2. m \in Message /\ m.results = <<>> /\ m.calls \in Seq(CallId)
    BY PlainMessages DEF Message
  <2>3. /\ messages' \in Seq(Message)
        /\ messages' # <<>>
        /\ messages'[Len(messages')] = m
    <3>1. messages \in Seq(Message) /\ messages' = Append(messages, m)
      BY <2>1 DEF TypeOK
    <3>2. /\ Append(messages, m) \in Seq(Message)
          /\ Append(messages, m) # <<>>
          /\ Len(Append(messages, m)) = Len(messages) + 1
          /\ Append(messages, m)[Len(messages) + 1] = m
      BY <2>2, <3>1, AppendProperties
    <3>. QED  BY <3>1, <3>2
  <2>4. TypeOK'
    <3>1. pc' \in {"tools", "exit"} /\ batch' \in {m.calls, <<>>}
      BY <2>1
    <3>3. batch' \in Seq(CallId)
      <4>1. <<>> \in Seq(CallId)
        OBVIOUS
      <4>. QED  BY <2>2, <3>1, <4>1, Zenon
    <3>2. final' \in StopReasons
      BY <2>1
    <3>. QED  BY <1>6, <2>3, <3>1, <3>2, <3>3 DEF ApiReturn, TypeOK
  <2>5. HistoryPaired' /\ PartialOnlyIfAborted'
    BY <1>6, <2>1, <2>2, AppendPlain
       DEF ApiReturn, TypeOK, HistoryPaired, PartialOnlyIfAborted
  <2>6. Answers(<<>>, m.calls)
    BY <2>2, LenProperties DEF Answers
  <2>7. ToolsInv' /\ RequestInv' /\ IterationInv'
    BY <1>6, <2>1, <2>3, <2>6
       DEF ApiReturn, ToolsInv, RequestInv, IterationInv
  <2>. QED  BY <2>4, <2>5, <2>7
<1>7. CASE StartTool
  BY <1>7
     DEF StartTool, loopVars, TypeOK, HistoryPaired, PartialOnlyIfAborted,
         ToolsInv, RequestInv, IterationInv
<1>8. CASE FinishTool
  <2>. DEFINE id == batch[Len(results) + 1]
  <2>1. Len(results) + 1 \in 1..Len(batch)
    BY <1>8, LenProperties DEF FinishTool, TypeOK, ToolsInv
  <2>2. id \in CallId
    BY <2>1, ElementOfSeq DEF TypeOK
  <2>. HIDE DEF id
  <2>3. /\ results' = Append(results, id)
        /\ results' \in Seq(CallId)
        /\ Len(results') = Len(results) + 1
        /\ \A k \in 1..Len(results) : results'[k] = results[k]
        /\ results'[Len(results) + 1] = id
    BY <1>8, <2>2, AppendProperties DEF FinishTool, TypeOK, id
  <2>4. Answers(results', batch)
    BY <1>8, <2>1, <2>3, LenProperties
       DEF FinishTool, ToolsInv, Answers, TypeOK, id
  <2>5. TypeOK'
    BY <1>8, <2>3 DEF FinishTool, TypeOK
  <2>6. ToolsInv'
    BY <1>8, <2>4 DEF FinishTool, ToolsInv
  <2>7. HistoryPaired' /\ PartialOnlyIfAborted' /\ RequestInv' /\ IterationInv'
    BY <1>8 DEF FinishTool, HistoryPaired, PartialOnlyIfAborted, RequestInv,
       IterationInv
  <2>. QED  BY <2>5, <2>6, <2>7
<1>9. CASE ToolsDone /\ results = <<>>
  BY <1>9
     DEF ToolsDone, TypeOK, HistoryPaired, PartialOnlyIfAborted, ToolsInv,
         RequestInv, IterationInv
<1>10. CASE ToolsDone /\ results # <<>>
  <2>1. /\ messages' = Append(messages, ToolResultMessage(results))
        /\ request' = messages'
        /\ pc' = "check"
        /\ iteration' = iteration + 1
        /\ UNCHANGED <<aborted, clientAborted, abortPc, batch, results, final>>
    BY <1>10 DEF ToolsDone
  <2>2. ToolResultMessage(results) \in Message
    BY DEF ToolResultMessage, Message, Roles, TypeOK
  <2>3. messages' \in Seq(Message)
    BY <2>1, <2>2, AppendProperties DEF TypeOK
  <2>4. TypeOK'
    BY <1>10, <2>1, <2>3, IterationsAssumption
       DEF ToolsDone, TypeOK, IterationInv
  <2>5. messages # <<>> /\ Answers(results, messages[Len(messages)].calls)
        /\ batch = messages[Len(messages)].calls
    BY <1>10 DEF ToolsDone, ToolsInv
  <2>6. HistoryPaired'
    BY <1>10, <2>1, <2>5, AppendResults DEF TypeOK, HistoryPaired
  <2>7. ~aborted => results = batch
    <3>1. ~aborted => Len(results) = Len(batch)
      BY <1>10 DEF ToolsDone
    <3>2. ~aborted => \A k \in 1..Len(results) : results[k] = batch[k]
      BY <1>10 DEF ToolsDone, ToolsInv, Answers
    <3>. QED  BY <3>1, <3>2, SeqEqual DEF TypeOK
  <2>8. PartialOnlyIfAborted'
    BY <1>10, <2>1, <2>5, <2>7, AppendResults DEF TypeOK, PartialOnlyIfAborted
  <2>9. ToolsInv' /\ RequestInv' /\ IterationInv'
    BY <2>1, <2>8 DEF ToolsInv, RequestInv, IterationInv, PartialOnlyIfAborted
  <2>. QED  BY <2>4, <2>6, <2>8, <2>9
<1>11. CASE Finish
  BY <1>11, IterationsAssumption
     DEF Finish, LeaveLoop, TypeOK, HistoryPaired, PartialOnlyIfAborted,
         ToolsInv, RequestInv, IterationInv
<1>12. CASE AbortEngine \/ AbortClient
  BY <1>12
     DEF AbortEngine, AbortClient, loopVars, TypeOK, HistoryPaired,
         PartialOnlyIfAborted, ToolsInv, RequestInv, IterationInv
<1>13. CASE Compact
  <2>1. PICK i \in 1..Len(messages) :
            /\ CleanBoundary(messages[i])
            /\ messages' = SubSeq(messages, i, Len(messages))
    BY <1>13 DEF Compact
  <2>2. messages[i] \in Message /\ messages[i].results = <<>>
    BY <2>1, ElementOfSeq DEF TypeOK, CleanBoundary, Message
  <2>. QED
    BY <1>13, <2>1, <2>2, DropBefore
       DEF Compact, loopVars, TypeOK, HistoryPaired, PartialOnlyIfAborted,
           ToolsInv, RequestInv, IterationInv
<1>14. CASE ClearHistory
  BY <1>14
     DEF ClearHistory, loopVars, TypeOK, HistoryPaired, PartialOnlyIfAborted,
         ToolsInv, RequestInv, IterationInv, Paired, Full
<1>. QED
  BY <1>0, <1>1, <1>2, <1>3, <1>4, <1>5, <1>6, <1>7, <1>8, <1>9, <1>10, <1>11,
     <1>12, <1>13, <1>14 DEF Next, Engine

-----------------------------------------------------------------------------
(* The theorems.                                                           *)

\* Every reachable state satisfies the inductive invariant.
THEOREM LoopInvariant == Spec => []LoopInv
BY InitLoopInv, NextLoopInv, PTL DEF Spec

\* The variables of the tool-call loop keep their types.
THEOREM TypeCorrect == Spec => []TypeOK
BY LoopInvariant, PTL DEF LoopInv

\* No tool result in the history is ever torn from its call, whatever
\* compaction drops and wherever the turn is cut.
THEOREM HistorySafe == Spec => []HistoryPaired
BY LoopInvariant, PTL DEF LoopInv

\* A batch of tool calls is left half answered only by an abort.
THEOREM PartialSafe == Spec => []PartialOnlyIfAborted
BY LoopInvariant, PTL DEF LoopInv

\* No request sent to the API carries a half-answered batch.
THEOREM RequestSafe == Spec => []RequestAnswered
<1>1. LoopInv => RequestAnswered
  BY DEF LoopInv, RequestInv, RequestAnswered
<1>. QED  BY <1>1, LoopInvariant, PTL
=============================================================================
