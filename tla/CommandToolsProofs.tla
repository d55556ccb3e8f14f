------------------------- MODULE CommandToolsProofs -------------------------
(* Process execution and its callers for all options, limits, pipe sizes   *)
(* and amounts of output.  ExecInv is proved of ProcessExec on its own; a  *)
(* step of a tool is a step of ProcessExec or leaves it alone, so that it  *)
(* holds of the tools as well, and what they answer follows from it.       *)
EXTENDS CommandTools, TLAPS

\* The types of process execution.
ExecType ==
    /\ merge \in BOOLEAN /\ capture \in BOOLEAN /\ timedOut \in BOOLEAN
    /\ input \in Nat
    /\ pipe \in [Streams \cup {"in"} -> Nat]
    /\ rdOpen \subseteq Streams /\ polled \subseteq Streams
    /\ pending \subseteq Streams /\ truncated \subseteq Streams
    /\ got \in [Streams -> Nat] /\ wrote \in [Streams -> Nat]
    /\ live \in [Procs -> {"none", "run", "dead"}]
    /\ want \in [Procs -> Streams \cup {"none"}]
    /\ writes \in [Procs -> Nat]

\* What was written is in the result or still in the pipe, unless the stream
\* was cut off, and then the result is full.
FlowInv ==
    /\ \A s \in Streams : got[s] <= MaxOutput
    /\ \A s \in truncated : got[s] = MaxOutput
    /\ \A s \in Streams \ truncated : wrote[s] = got[s] + pipe[s]
    /\ live["leader"] = "none" => \A s \in Streams : wrote[s] = 0
    /\ capture /\ ~timedOut /\ truncated = {} =>
         writes["leader"] + writes["worker"] = wrote["out"] + wrote["err"]

\* Which read ends are open at each place of the call.
OpenInv ==
    /\ rdOpen \subseteq Captured
    /\ pc = "stdin" => rdOpen = Captured
    /\ pc \in {"poll", "read"} => polled = rdOpen
    /\ pc = "read" => pending # {} /\ pending \subseteq polled
    /\ pc = "close" => timedOut \/ rdOpen = {}
    /\ pc \in {"idle", "start", "wait", "done", "returned"} => rdOpen = {}
    /\ capture => \A p \in Procs : want[p] \in Captured \cup {"none"}

\* A stream that was closed before the deadline and not cut off was read to
\* its end: nobody is left to write, and nothing is left in the pipe.
EofInv ==
    live["leader"] # "none" /\ ~timedOut =>
        \A s \in Captured \ (rdOpen \cup truncated) : Running = {} /\ pipe[s] = 0

\* The child's life as the caller sees it.
LifeInv ==
    /\ pc \in {"idle", "start"} => live["leader"] = "none"
    /\ live["leader"] = "none" => live["worker"] = "none"
    /\ pc \in {"stdin", "poll", "read", "term", "grace", "close", "wait", "killed"}
          => live["leader"] # "none"
    /\ pc \in {"term", "grace"} => timedOut
    /\ pc \in {"done", "returned"} /\ live["leader"] # "none"
          => reaped /\ live["leader"] = "dead"
    /\ code # -1 => live["leader"] = "dead"

ExecInv == ExecType /\ FlowInv /\ OpenInv /\ EofInv /\ LifeInv

\* The callers' options are their own.
ToolInv ==
    /\ caller \in DOMAIN Callers \cup {"any"}
    /\ caller = "any" => answer = None
    /\ caller # "any" => /\ merge = Callers[caller].merge
                         /\ capture = Callers[caller].capture
    /\ ~capture => got["out"] = 0

-----------------------------------------------------------------------------
(* Process execution.                                                      *)

\* Before the call there is no child, no output and no open descriptor.
LEMMA InitExecInv == Init => ExecInv
  <1> SUFFICES ASSUME Init PROVE ExecInv
    OBVIOUS
  <1>1. ExecType
    <2>1. merge \in BOOLEAN /\ capture \in BOOLEAN /\ timedOut \in BOOLEAN
      BY OptionsAssumption DEF Init
    <2> QED BY <2>1, OptionsAssumption DEF Init, ExecType, Streams, Procs
  <1>2. FlowInv
    BY PipeAssumption DEF Init, FlowInv, Streams, Procs
  <1>3. OpenInv
    BY DEF Init, OpenInv, Streams, Procs
  <1>4. EofInv /\ LifeInv
    BY DEF Init, EofInv, LifeInv, Procs
  <1> QED BY <1>1, <1>2, <1>3, <1>4 DEF ExecInv

\* The calling thread: pipes, poll loop, kill and wait.
LEMMA CallerExecInv == ExecInv /\ Caller => ExecInv'
  <1> SUFFICES ASSUME ExecInv, Caller PROVE ExecInv'
    OBVIOUS
  <1> USE PipeAssumption
      DEF ExecInv, ExecType, FlowInv, OpenInv, EofInv, LifeInv, Captured, Running, Procs,
          Streams, options, childVars, readVars
  <1>1. CASE Enter
    <2>1. ExecType'
      BY <1>1 DEF Enter
    <2>2. FlowInv'
      BY <1>1 DEF Enter
    <2>3. OpenInv'
      BY <1>1 DEF Enter
    <2>4. EofInv'
      BY <1>1 DEF Enter
    <2>5. LifeInv'
      BY <1>1 DEF Enter
    <2> QED BY <2>1, <2>2, <2>3, <2>4, <2>5
  <1>2. CASE SpawnFails
    <2>1. ExecType'
      BY <1>2 DEF SpawnFails
    <2>2. FlowInv'
      BY <1>2 DEF SpawnFails
    <2>3. OpenInv'
      BY <1>2 DEF SpawnFails
    <2>4. EofInv'
      BY <1>2 DEF SpawnFails
    <2>5. LifeInv'
      BY <1>2 DEF SpawnFails
    <2> QED BY <2>1, <2>2, <2>3, <2>4, <2>5
  <1>3. CASE Spawn
    <2>1. ExecType'
      BY <1>3 DEF Spawn
    <2>2. FlowInv'
      BY <1>3 DEF Spawn
    <2>3. OpenInv'
      BY <1>3 DEF Spawn
    <2>4. EofInv'
      BY <1>3 DEF Spawn
    <2>5. LifeInv'
      BY <1>3 DEF Spawn
    <2> QED BY <2>1, <2>2, <2>3, <2>4, <2>5
  <1>4. CASE FeedStdin
    <2>1. ExecType'
      <3>1. pipe' \in [Streams \cup {"in"} -> Nat] /\ input' \in Nat
        BY <1>4 DEF FeedStdin
      <3>2. polled' \subseteq Streams
        BY <1>4 DEF FeedStdin
      <3> QED BY <1>4, <3>1, <3>2 DEF FeedStdin
    <2>2. FlowInv'
      BY <1>4 DEF FeedStdin
    <2>3. OpenInv'
      BY <1>4 DEF FeedStdin
    <2>4. EofInv'
      BY <1>4 DEF FeedStdin
    <2>5. LifeInv'
      BY <1>4 DEF FeedStdin
    <2> QED BY <2>1, <2>2, <2>3, <2>4, <2>5
  <1>5. CASE PollTimeout
    <2>1. ExecType'
      BY <1>5 DEF PollTimeout
    <2>2. FlowInv'
      BY <1>5 DEF PollTimeout
    <2>3. OpenInv'
      BY <1>5 DEF PollTimeout
    <2>4. EofInv'
      BY <1>5 DEF PollTimeout
    <2>5. LifeInv'
      BY <1>5 DEF PollTimeout
    <2> QED BY <2>1, <2>2, <2>3, <2>4, <2>5
  <1>6. CASE PollReady
    <2>1. ExecType'
      BY <1>6 DEF PollReady
    <2>2. FlowInv'
      BY <1>6 DEF PollReady
    <2>3. OpenInv'
      BY <1>6 DEF PollReady
    <2>4. EofInv'
      BY <1>6 DEF PollReady
    <2>5. LifeInv'
      BY <1>6 DEF PollReady
    <2> QED BY <2>1, <2>2, <2>3, <2>4, <2>5
  <1>7. CASE PollDone
    <2>1. ExecType'
      BY <1>7 DEF PollDone
    <2>2. FlowInv'
      BY <1>7 DEF PollDone
    <2>3. OpenInv'
      BY <1>7 DEF PollDone
    <2>4. EofInv'
      BY <1>7 DEF PollDone
    <2>5. LifeInv'
      BY <1>7 DEF PollDone
    <2> QED BY <2>1, <2>2, <2>3, <2>4, <2>5
  <1>8. CASE ReadSome
    <2> DEFINE s == Serving
    <2>1. s \in Streams /\ s \in pending /\ s \in rdOpen /\ pipe[s] \in Nat /\ got[s] \in Nat
      <3>1. pc = "read"
        BY <1>8 DEF ReadSome
      <3>2. s \in pending /\ s \in Streams
        <4>1. PICK x \in pending : x \in {"out", "err"}
          BY <3>1
        <4> QED BY <4>1 DEF Serving
      <3> QED BY <3>1, <3>2
    <2>2. /\ pipe' = [pipe EXCEPT ![s] = 0]
          /\ UNCHANGED <<options, input, expired, timedOut, childVars>>
      BY <1>8 DEF ReadSome
    <2>3. CASE got[s] + pipe[s] > MaxOutput
      <3>1. /\ got' = [got EXCEPT ![s] = MaxOutput]
            /\ truncated' = truncated \cup {s}
            /\ rdOpen' = rdOpen \ {s} /\ polled' = polled \ {s} /\ pending' = pending \ {s}
            /\ pc' = IF pending' = {} THEN "poll" ELSE "read"
        BY <1>8, <2>3 DEF ReadSome, CloseServed
      <3> HIDE DEF s
      <3>2. ExecType' /\ FlowInv'
        BY <2>1, <2>2, <3>1
      <3>3. OpenInv'
        BY <1>8, <2>1, <2>2, <3>1 DEF ReadSome
      <3>4. EofInv' /\ LifeInv'
        BY <1>8, <2>1, <2>2, <3>1 DEF ReadSome
      <3> QED BY <3>2, <3>3, <3>4
    <2>4. CASE ~(got[s] + pipe[s] > MaxOutput)
      <3>1. /\ got' = [got EXCEPT ![s] = @ + pipe[s]]
            /\ UNCHANGED <<pc, truncated, rdOpen, polled, pending>>
        BY <1>8, <2>4 DEF ReadSome
      <3> HIDE DEF s
      <3>2. ExecType'
        BY <2>1, <2>2, <3>1
      <3>3. FlowInv'
        BY <2>1, <2>2, <2>4, <3>1
      <3>4. OpenInv' /\ EofInv' /\ LifeInv'
        BY <2>1, <2>2, <3>1
      <3> QED BY <3>2, <3>3, <3>4
    <2> QED BY <2>3, <2>4
  <1>9. CASE ReadEof
    <2>1. ExecType'
      BY <1>9 DEF ReadEof, Serving, CloseServed, Eof
    <2>2. FlowInv'
      BY <1>9 DEF ReadEof, Serving, CloseServed, Eof
    <2>3. OpenInv'
      BY <1>9 DEF ReadEof, Serving, CloseServed, Eof
    <2>4. EofInv'
      BY <1>9 DEF ReadEof, Serving, CloseServed, Eof
    <2>5. LifeInv'
      BY <1>9 DEF ReadEof, Serving, CloseServed, Eof
    <2> QED BY <2>1, <2>2, <2>3, <2>4, <2>5
  <1>10. CASE Term
    <2>1. ExecType'
      BY <1>10 DEF Term
    <2>2. FlowInv'
      BY <1>10 DEF Term
    <2>3. OpenInv'
      BY <1>10 DEF Term
    <2>4. EofInv'
      BY <1>10 DEF Term
    <2>5. LifeInv'
      BY <1>10 DEF Term
    <2> QED BY <2>1, <2>2, <2>3, <2>4, <2>5
  <1>11. CASE GraceReap
    <2>1. ExecType'
      BY <1>11 DEF GraceReap
    <2>2. FlowInv'
      BY <1>11 DEF GraceReap
    <2>3. OpenInv'
      BY <1>11 DEF GraceReap
    <2>4. EofInv'
      BY <1>11 DEF GraceReap
    <2>5. LifeInv'
      BY <1>11 DEF GraceReap
    <2> QED BY <2>1, <2>2, <2>3, <2>4, <2>5
  <1>12. CASE GraceKill
    <2>1. ExecType'
      BY <1>12 DEF GraceKill
    <2>2. FlowInv'
      BY <1>12 DEF GraceKill
    <2>3. OpenInv'
      BY <1>12 DEF GraceKill
    <2>4. EofInv'
      BY <1>12 DEF GraceKill
    <2>5. LifeInv'
      BY <1>12 DEF GraceKill
    <2> QED BY <2>1, <2>2, <2>3, <2>4, <2>5
  <1>13. CASE CloseRemaining
    <2>1. ExecType'
      BY <1>13 DEF CloseRemaining
    <2>2. FlowInv'
      BY <1>13 DEF CloseRemaining
    <2>3. OpenInv'
      BY <1>13 DEF CloseRemaining
    <2>4. EofInv'
      BY <1>13 DEF CloseRemaining
    <2>5. LifeInv'
      BY <1>13 DEF CloseRemaining
    <2> QED BY <2>1, <2>2, <2>3, <2>4, <2>5
  <1>14. CASE Wait
    <2>1. ExecType'
      BY <1>14 DEF Wait
    <2>2. FlowInv'
      BY <1>14 DEF Wait
    <2>3. OpenInv'
      BY <1>14 DEF Wait
    <2>4. EofInv'
      BY <1>14 DEF Wait
    <2>5. LifeInv'
      BY <1>14 DEF Wait
    <2> QED BY <2>1, <2>2, <2>3, <2>4, <2>5
  <1>15. CASE Leave
    <2>1. ExecType'
      BY <1>15 DEF Leave
    <2>2. FlowInv'
      BY <1>15 DEF Leave
    <2>3. OpenInv'
      BY <1>15 DEF Leave
    <2>4. EofInv'
      BY <1>15 DEF Leave
    <2>5. LifeInv'
      BY <1>15 DEF Leave
    <2> QED BY <2>1, <2>2, <2>3, <2>4, <2>5
  <1> QED BY <1>1, <1>2, <1>3, <1>4, <1>5, <1>6, <1>7, <1>8, <1>9, <1>10, <1>11,
             <1>12, <1>13, <1>14, <1>15 DEF Caller

\* Time and the children.
LEMMA OutsideExecInv ==
    ExecInv /\ (Tick \/ StartWorker \/ \E p \in Procs : Child(p)) => ExecInv'
  <1> SUFFICES ASSUME ExecInv, (Tick \/ StartWorker \/ \E p \in Procs : Child(p))
               PROVE  ExecInv'
    OBVIOUS
  <1> USE PipeAssumption
      DEF ExecInv, ExecType, FlowInv, OpenInv, EofInv, LifeInv, Captured, Running, Procs,
          Streams, options, childVars, readVars
  <1>1. CASE Tick
    <2>1. ExecType'
      BY <1>1 DEF Tick
    <2>2. FlowInv'
      BY <1>1 DEF Tick
    <2>3. OpenInv'
      BY <1>1 DEF Tick
    <2>4. EofInv'
      BY <1>1 DEF Tick
    <2>5. LifeInv'
      BY <1>1 DEF Tick
    <2> QED BY <2>1, <2>2, <2>3, <2>4, <2>5
  <1>2. CASE StartWorker
    <2>1. ExecType'
      BY <1>2 DEF StartWorker
    <2>2. FlowInv'
      BY <1>2 DEF StartWorker
    <2>3. OpenInv'
      BY <1>2 DEF StartWorker
    <2>4. EofInv'
      BY <1>2 DEF StartWorker
    <2>5. LifeInv'
      BY <1>2 DEF StartWorker
    <2> QED BY <2>1, <2>2, <2>3, <2>4, <2>5
  <1>3. ASSUME NEW p \in Procs, Choose(p) PROVE ExecInv'
    <2>1. ExecType'
      BY <1>3 DEF Choose
    <2>2. FlowInv'
      BY <1>3 DEF Choose
    <2>3. OpenInv'
      BY <1>3 DEF Choose
    <2>4. EofInv'
      BY <1>3 DEF Choose
    <2>5. LifeInv'
      BY <1>3 DEF Choose
    <2> QED BY <2>1, <2>2, <2>3, <2>4, <2>5
  <1>4. ASSUME NEW p \in Procs, Write(p) PROVE ExecInv'
    <2>1. ExecType'
      BY <1>4 DEF Write
    <2>2. FlowInv'
      BY <1>4 DEF Write
    <2>3. OpenInv'
      BY <1>4 DEF Write
    <2>4. EofInv'
      BY <1>4 DEF Write
    <2>5. LifeInv'
      BY <1>4 DEF Write
    <2> QED BY <2>1, <2>2, <2>3, <2>4, <2>5
  <1>5. ASSUME NEW p \in Procs, ReadStdin(p) PROVE ExecInv'
    <2>1. ExecType'
      BY <1>5 DEF ReadStdin
    <2>2. FlowInv'
      BY <1>5 DEF ReadStdin
    <2>3. OpenInv'
      BY <1>5 DEF ReadStdin
    <2>4. EofInv'
      BY <1>5 DEF ReadStdin
    <2>5. LifeInv'
      BY <1>5 DEF ReadStdin
    <2> QED BY <2>1, <2>2, <2>3, <2>4, <2>5
  <1>6. ASSUME NEW p \in Procs, IgnoreTerm(p) PROVE ExecInv'
    <2>1. ExecType'
      BY <1>6 DEF IgnoreTerm
    <2>2. FlowInv'
      BY <1>6 DEF IgnoreTerm
    <2>3. OpenInv'
      BY <1>6 DEF IgnoreTerm
    <2>4. EofInv'
      BY <1>6 DEF IgnoreTerm
    <2>5. LifeInv'
      BY <1>6 DEF IgnoreTerm
    <2> QED BY <2>1, <2>2, <2>3, <2>4, <2>5
  <1>7. ASSUME NEW p \in Procs, Exit(p) PROVE ExecInv'
    <2>1. ExecType'
      BY <1>7 DEF Exit
    <2>2. FlowInv'
      BY <1>7 DEF Exit
    <2>3. OpenInv'
      BY <1>7 DEF Exit
    <2>4. EofInv'
      BY <1>7 DEF Exit
    <2>5. LifeInv'
      BY <1>7 DEF Exit
    <2> QED BY <2>1, <2>2, <2>3, <2>4, <2>5
  <1> QED BY <1>1, <1>2, <1>3, <1>4, <1>5, <1>6, <1>7 DEF Child

\* Every step of a call and of its children keeps ExecInv.
LEMMA NextExecInv == ExecInv /\ [Next]_vars => ExecInv'
  <1> SUFFICES ASSUME ExecInv, [Next]_vars PROVE ExecInv'
    OBVIOUS
  <1>1. CASE UNCHANGED vars
    BY <1>1 DEF vars, ExecInv, ExecType, FlowInv, OpenInv, EofInv, LifeInv, Captured,
       Running
  <1> QED BY <1>1, CallerExecInv, OutsideExecInv DEF Next

\* ExecInv holds throughout a call.
THEOREM ExecInvariant == Spec => []ExecInv
  BY InitExecInv, NextExecInv, PTL DEF Spec

\* A call that returns in time returns all that was written, up to the limit.
LEMMA OutputFromInv == ExecInv => OutputComplete
  <1> SUFFICES ASSUME ExecInv PROVE OutputComplete
    OBVIOUS
  <1>1. \A s \in Streams : got[s] <= MaxOutput
    BY DEF ExecInv, FlowInv
  <1>2. ASSUME pc = "returned", ~timedOut, live["leader"] # "none"
        PROVE  /\ \A s \in Captured \ truncated : got[s] = wrote[s]
               /\ capture /\ truncated = {} =>
                    writes["leader"] + writes["worker"] = wrote["out"] + wrote["err"]
    <2>1. rdOpen = {}
      BY <1>2 DEF ExecInv, OpenInv
    <2>2. ASSUME NEW s \in Captured \ truncated PROVE got[s] = wrote[s]
      <3>1. s \in Streams /\ pipe[s] = 0
        BY <1>2, <2>1 DEF ExecInv, EofInv, Captured, Streams
      <3> QED BY <3>1 DEF ExecInv, ExecType, FlowInv
    <2> QED BY <1>2, <2>2 DEF ExecInv, FlowInv
  <1> QED BY <1>1, <1>2 DEF OutputComplete

\* Nothing that the child or its descendants wrote is lost, for all options
\* and limits.
THEOREM OutputSafe == Spec => []OutputComplete
  BY OutputFromInv, ExecInvariant, PTL

\* A call that returns has collected its child.
THEOREM ReapSafe == Spec => []NoZombie
  <1>1. ExecInv => NoZombie
    BY DEF ExecInv, LifeInv, NoZombie
  <1> QED BY <1>1, ExecInvariant, PTL

\* The caller is in read() on an empty stdout, and the one process that could
\* write to it is in write() on a full stderr.
PipesStuck ==
    /\ pc = "read" /\ "out" \in pending /\ pipe["out"] = 0
    /\ live["leader"] = "run" /\ want["leader"] = "err" /\ live["worker"] # "run"
    /\ "err" \in rdOpen /\ pipe["err"] = PipeCap

\* Caller and child that wait for each other over two pipes do so for ever: the
\* deadline may pass, but nobody is left to look at it.  This is why ExecReturns
\* is claimed for one pipe only.
THEOREM PipesStuckForEver == Spec => [][PipesStuck => PipesStuck']_vars
  <1>1. ASSUME ExecInv, [Next]_vars, PipesStuck PROVE PipesStuck'
    <2>1. /\ live \in [Procs -> {"none", "run", "dead"}]
          /\ want \in [Procs -> Streams \cup {"none"}]
          /\ Captured \subseteq Streams /\ capture
      BY <1>1 DEF ExecInv, ExecType, OpenInv, PipesStuck, Captured, Streams, Procs
    <2>2. Running = {"leader"} /\ Serving = "out" /\ ~Eof("out")
      BY <1>1, <2>1 DEF PipesStuck, Running, Procs, Serving, Eof
    <2>3. ~Caller
      BY <1>1, <2>2 DEF PipesStuck, Caller, Enter, SpawnFails, Spawn, FeedStdin, PollTimeout,
         PollReady, PollDone, ReadSome, ReadEof, Term, GraceReap, GraceKill,
         CloseRemaining, Wait, Leave
    <2>4. ~StartWorker
      BY <1>1 DEF PipesStuck, StartWorker
    <2>5. CASE Tick
      BY <1>1, <2>5 DEF PipesStuck, Tick, readVars, childVars
    <2>6. ASSUME NEW p \in Procs, Child(p) PROVE PipesStuck'
      <3>1. p = "leader"
        BY <2>2, <2>6 DEF Child, Choose, Write, ReadStdin, IgnoreTerm, Exit
      <3>2. ~Choose(p) /\ ~ReadStdin(p) /\ ~Exit(p)
        BY <1>1, <3>1 DEF PipesStuck, Choose, ReadStdin, Exit
      <3>3. ~Write(p)
        BY <1>1, <2>1, <3>1, PipeAssumption DEF PipesStuck, Write
      <3>4. CASE IgnoreTerm(p)
        BY <1>1, <3>4 DEF PipesStuck, IgnoreTerm, readVars
      <3> QED BY <2>6, <3>2, <3>3, <3>4 DEF Child
    <2>7. CASE UNCHANGED vars
      BY <1>1, <2>7 DEF PipesStuck, vars
    <2> QED BY <1>1, <2>3, <2>4, <2>5, <2>6, <2>7 DEF Next
  <1> QED BY <1>1, ExecInvariant, PTL DEF Spec


-----------------------------------------------------------------------------
(* The callers.                                                            *)

\* A step of a tool is a step of process execution, or leaves it alone.
LEMMA ToolNextExec == [ToolNext]_toolVars => [Next]_vars
  <1> SUFFICES ASSUME [ToolNext]_toolVars PROVE Next \/ UNCHANGED vars
    OBVIOUS
  <1>1. CASE Call \/ Report
    BY <1>1 DEF Call, Report, Next, Caller
  <1>2. CASE Cd
    BY <1>2 DEF Cd
  <1>3. CASE Exec
    BY <1>3 DEF Exec, Next, Caller
  <1>4. CASE Outside
    BY <1>4 DEF Outside, Next
  <1>5. CASE UNCHANGED toolVars
    BY <1>5 DEF toolVars
  <1> QED BY <1>1, <1>2, <1>3, <1>4, <1>5 DEF ToolNext

\* The tools run commands by the steps of process execution only, so that
\* what is proved of it holds of every call they make.
THEOREM ToolsUseExec == ToolSpec => Spec
  <1>1. ToolInit => Init
    BY DEF ToolInit
  <1> QED BY <1>1, ToolNextExec, PTL DEF ToolSpec, Spec

\* After the return the children change nothing an answer speaks of: the
\* read ends are closed and the leader is dead or was never there.
LEMMA ReturnedQuiet ==
  ASSUME ExecInv, pc = "returned", Tick \/ StartWorker \/ \E p \in Procs : Child(p)
  PROVE  /\ UNCHANGED <<pc, wrote, code, timedOut, truncated>>
         /\ live'["leader"] = live["leader"]
  <1> USE DEF ExecInv, ExecType, OpenInv, LifeInv, Procs, Streams, Running, readVars,
              childVars, options
  <1>1. rdOpen = {} /\ live["leader"] \in {"none", "dead"}
    OBVIOUS
  <1>2. CASE Tick
    BY <1>2 DEF Tick
  <1>3. CASE StartWorker
    BY <1>1, <1>3 DEF StartWorker
  <1>4. ASSUME NEW p \in Procs, Child(p)
        PROVE  /\ UNCHANGED <<pc, wrote, code, timedOut, truncated>>
               /\ live'["leader"] = live["leader"]
    <2>1. p = "worker" \/ UNCHANGED <<live, code>>
      BY <1>1, <1>4 DEF Child, Choose, Write, ReadStdin, IgnoreTerm, Exit
    <2>2. UNCHANGED <<pc, wrote, timedOut, truncated>>
      BY <1>1, <1>4 DEF Child, Choose, Write, ReadStdin, IgnoreTerm, Exit
    <2>3. code' = code /\ live'["leader"] = live["leader"]
      BY <1>1, <1>4, <2>1 DEF Child, Choose, Write, ReadStdin, IgnoreTerm, Exit
    <2> QED BY <2>2, <2>3
  <1> QED BY <1>2, <1>3, <1>4

\* The callers keep to their options.
LEMMA NextToolInv ==
  ASSUME ExecInv, ToolInv, [ToolNext]_toolVars
  PROVE  ToolInv'
  <1>1. UNCHANGED <<caller, merge, capture>>
    <2>1. merge' = merge /\ capture' = capture
      BY ToolNextExec
         DEF Next, Caller, Enter, SpawnFails, Spawn, FeedStdin, PollTimeout, PollReady,
             PollDone, ReadSome, ReadEof, Term, GraceReap, GraceKill, CloseRemaining, Wait,
             Leave, Tick, StartWorker, Child, Choose, Write, ReadStdin, IgnoreTerm, Exit,
             options, vars
    <2>2. caller' = caller
      BY DEF ToolNext, Call, Cd, Exec, Report, Outside, tool, toolVars
    <2> QED BY <2>1, <2>2
  <1>2. caller = "any" => answer' = answer
    BY DEF ToolNext, Call, Cd, Exec, Report, Outside, tool, toolVars
  <1>3. ~capture => got'["out"] = 0
    <2> SUFFICES ASSUME ~capture PROVE got'["out"] = 0
      OBVIOUS
    <2>1. ~ReadSome
      BY DEF ReadSome, ExecInv, OpenInv, Captured
    <2>2. got' = got \/ got' = [s \in Streams |-> 0]
      BY <2>1, ToolNextExec
         DEF Next, Caller, Enter, SpawnFails, Spawn, FeedStdin, PollTimeout, PollReady,
             PollDone, ReadEof, Term, GraceReap, GraceKill, CloseRemaining, Wait,
             Leave, Tick, StartWorker, Child, Choose, Write, ReadStdin, IgnoreTerm, Exit,
             options, readVars, vars
    <2> QED BY <2>2 DEF ToolInv, Streams
  <1> QED BY <1>1, <1>2, <1>3 DEF ToolInv

\* At the end of a call that was not timed out the result has all of a
\* captured stream that was not cut off.
LEMMA DoneComplete ==
  ASSUME ExecInv, pc = "done", ~timedOut
  PROVE  \A s \in Captured \ truncated : got[s] = wrote[s]
  <1> SUFFICES ASSUME NEW s \in Captured \ truncated PROVE got[s] = wrote[s]
    OBVIOUS
  <1>1. s \in Streams /\ rdOpen = {}
    BY DEF ExecInv, OpenInv, Captured, Streams
  <1>2. CASE live["leader"] = "none"
    BY <1>1, <1>2 DEF ExecInv, ExecType, FlowInv
  <1>3. CASE live["leader"] # "none"
    BY <1>1, <1>3 DEF ExecInv, ExecType, FlowInv, EofInv
  <1> QED BY <1>2, <1>3

\* The Bash tool's three answers.
LEMMA BashAnswers ==
  LET a == ToolResult(BashOutput)
  IN  /\ timedOut => a.is_error /\ a.text.word = "Timeout"
      /\ ~timedOut /\ code # 0 => a.is_error /\ a.text.word = "empty"
      /\ ~timedOut /\ code = 0 =>
           /\ ~a.is_error /\ a.text.word = "output" /\ a.text.out = got["out"]
           /\ a.text.err = Least(got["err"], ErrLimit)
  BY DEF BashOutput, ToolResult, Both, Ok, Words, Output, ExitCode

\* The Grep tool's.
LEMMA GrepAnswers ==
  LET a == ToolResult(GrepOutput)
  IN  /\ a.text.word = "output" => ~timedOut /\ a.text.out = got["out"]
      /\ a.is_error <=> timedOut
      /\ a.text.word = "no matches" => ~timedOut /\ code # 0 /\ got["out"] = 0
  BY DEF GrepOutput, ToolResult, Err, Ok, Words, Output, ExitCode

\* The git helpers'.
LEMMA GitAnswers ==
  /\ GitAnswer.text.word # "output" => GitAnswer.text.word = "default"
  /\ GitAnswer.text.word = "output" => ~timedOut /\ GitAnswer.text.out = got["out"]
  /\ ~GitAnswer.is_error <=> ~timedOut /\ code = 0
  BY DEF GitAnswer, Success, Words, Output, ExitCode

\* What a tool reports of a call is warranted by what its process group did.
LEMMA ReportTrue ==
  ASSUME ExecInv, ToolInv, Report
  PROVE  AnswerWarranted'
  <1>1. /\ pc = "done" /\ caller # "any" /\ caller \in DOMAIN Callers
        /\ UNCHANGED <<caller, timedOut, live, code, wrote, truncated, got, merge, capture>>
    BY DEF Report, Leave, ToolInv, childVars, readVars
  <1>2. code = 0 => live["leader"] = "dead"
    BY DEF ExecInv, LifeInv
  <1>3. \A s \in Captured : ~timedOut /\ s \notin truncated => got[s] = wrote[s]
    BY <1>1, DoneComplete
  <1>4. got \in [Streams -> Nat] /\ \A s \in truncated : got[s] = MaxOutput
    BY DEF ExecInv, ExecType, FlowInv
  <1>5. CASE caller = "bash"
    <2>1. answer' = ToolResult(BashOutput) /\ Captured = Streams
      BY <1>1, <1>5 DEF Report, ToolInv, Callers, Captured
    <2>2. answer'.text.word = "output" =>
            /\ ~timedOut
            /\ answer'.text.out = wrote["out"] \/ "out" \in truncated
            /\ answer'.text.err = wrote["err"] \/ answer'.text.err = ErrLimit
      <3> SUFFICES ASSUME answer'.text.word = "output"
                   PROVE  /\ ~timedOut
                          /\ answer'.text.out = wrote["out"] \/ "out" \in truncated
                          /\ answer'.text.err = wrote["err"] \/ answer'.text.err = ErrLimit
        OBVIOUS
      <3>1. /\ ~timedOut /\ answer'.text.out = got["out"]
            /\ answer'.text.err = Least(got["err"], ErrLimit)
        BY <2>1, BashAnswers
      <3>2. got["out"] = wrote["out"] \/ "out" \in truncated
        BY <1>3, <2>1, <3>1 DEF Streams
      <3>3. got["err"] = wrote["err"] \/ got["err"] = MaxOutput
        BY <1>3, <1>4, <2>1, <3>1 DEF Streams
      <3>4. answer'.text.err = wrote["err"] \/ answer'.text.err = ErrLimit
        BY <1>4, <3>1, <3>3, LimitAssumption, PipeAssumption DEF Least, Streams
      <3> QED BY <3>1, <3>2, <3>4
    <2>3. ~answer'.is_error <=> ~timedOut /\ code = 0
      BY <2>1, BashAnswers
    <2>4. ~answer'.is_error <=> Succeeded'
      BY <1>1, <1>2, <2>3 DEF Succeeded
    <2> QED BY <1>1, <1>5, <2>2, <2>4 DEF AnswerWarranted
  <1>6. CASE caller = "grep"
    <2>1. answer' = ToolResult(GrepOutput) /\ "out" \in Captured
      BY <1>1, <1>6 DEF Report, ToolInv, Callers, Captured, Streams
    <2>2. answer'.text.word = "no matches" =>
            ~timedOut /\ code # 0 /\ (wrote["out"] = 0 \/ "out" \in truncated)
      BY <1>3, <2>1, GrepAnswers
    <2>3. answer'.text.word = "output" =>
            ~timedOut /\ (answer'.text.out = wrote["out"] \/ "out" \in truncated)
      BY <1>3, <2>1, GrepAnswers
    <2>4. answer'.is_error <=> timedOut
      BY <2>1, GrepAnswers
    <2> QED BY <1>1, <1>6, <2>2, <2>3, <2>4 DEF AnswerWarranted, Succeeded
  <1>7. CASE caller = "git"
    <2>1. answer' = GitAnswer /\ "out" \in Captured
      BY <1>1, <1>7 DEF Report, ToolInv, Callers, Captured, Streams
    <2> QED BY <1>1, <1>2, <1>3, <1>7, <2>1, GitAnswers DEF AnswerWarranted, Succeeded
  <1>8. CASE caller = "isRepo"
    <2>1. answer' = IsGitRepo /\ got["out"] = 0
      BY <1>1, <1>8 DEF Report, ToolInv, Callers
    <2>2. answer'.text.word = "no"
      BY <2>1 DEF IsGitRepo, Words
    <2> QED BY <1>1, <1>8, <2>2 DEF AnswerWarranted
  <1>9. CASE caller = "exists"
    <2>1. answer' = CommandExists
      BY <1>1, <1>9 DEF Report
    <2>2. /\ answer'.text.word \in {"yes", "no"}
          /\ answer'.text.word = "yes" <=> ~timedOut /\ code = 0
      BY <2>1 DEF CommandExists, Words, ExitCode
    <2> QED BY <1>1, <1>2, <1>9, <2>2 DEF AnswerWarranted, Succeeded
  <1> QED BY <1>1, <1>5, <1>6, <1>7, <1>8, <1>9 DEF Callers

\* No later step takes an answer's warrant away.
LEMMA NextAnswerWarranted ==
  ASSUME ExecInv, ToolInv, AnswerWarranted, [ToolNext]_toolVars
  PROVE  AnswerWarranted'
  <1>1. CASE Call
    BY <1>1 DEF Call, Enter, AnswerWarranted
  <1>2. CASE Cd
    <2>1. \/ answer' = ToolResult(Ok(Words("cd")))
          \/ answer' = ToolResult(Err(Words("no directory")))
      BY <1>2 DEF Cd
    <2>2. ToolResult(Ok(Words("cd"))).text.word = "cd"
      BY DEF ToolResult, Ok, Words
    <2>3. ToolResult(Err(Words("no directory"))).text.word = "no directory"
      BY DEF ToolResult, Err, Words
    <2>4. answer'.text.word \in {"cd", "no directory"}
      BY <2>1, <2>2, <2>3
    <2> QED BY <2>4 DEF AnswerWarranted
  <1>3. CASE Exec
    <2>1. answer' = answer /\ (pc' = "returned" => caller = "any")
      BY <1>3 DEF Exec, tool, SpawnFails, Spawn, FeedStdin, PollTimeout, PollReady,
         PollDone,
         ReadSome, ReadEof, CloseServed, Term, GraceReap, GraceKill, CloseRemaining, Wait
    <2> QED BY <2>1 DEF AnswerWarranted, ToolInv
  <1>4. CASE Report
    BY <1>4, ReportTrue
  <1>5. CASE Outside
    <2>1. pc' = pc /\ caller' = caller /\ answer' = answer
      BY <1>5 DEF Outside, tool, Tick, StartWorker, Child, Choose, Write, ReadStdin,
         IgnoreTerm, Exit
    <2>2. CASE pc = "returned"
      <3>1. /\ UNCHANGED <<pc, wrote, code, timedOut, truncated>>
            /\ live'["leader"] = live["leader"]
        BY <1>5, <2>2, ReturnedQuiet DEF Outside
      <3> QED BY <2>1, <3>1 DEF AnswerWarranted, Succeeded
    <2>3. CASE pc # "returned"
      BY <2>1, <2>3 DEF AnswerWarranted
    <2> QED BY <2>2, <2>3
  <1>6. CASE UNCHANGED toolVars
    BY <1>6 DEF toolVars, tool, vars, AnswerWarranted, Succeeded
  <1> QED BY <1>1, <1>2, <1>3, <1>4, <1>5, <1>6 DEF ToolNext

\* Each caller's answer says of the process group what AnswerWarranted allows it
\* to say, for every limit and amount of output.
THEOREM AnswersSafe == ToolSpec => []AnswerWarranted
  <1>1. ToolInit => ToolInv /\ AnswerWarranted
    BY DEF ToolInit, Init, Streams, ToolInv, AnswerWarranted
  <1>2. ToolInv /\ AnswerWarranted /\ ExecInv /\ [ToolNext]_toolVars => ToolInv' /\ AnswerWarranted'
    BY NextToolInv, NextAnswerWarranted
  <1> QED BY <1>1, <1>2, ToolsUseExec, ExecInvariant, PTL DEF ToolSpec
=============================================================================
