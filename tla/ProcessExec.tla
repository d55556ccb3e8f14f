---------------------------- MODULE ProcessExec ----------------------------
(***************************************************************************)
(* exec_fork, exec_command and kill_process_tree                           *)
(* (src/util/process_utils.cpp): a child bash, its leader's descendant,    *)
(* the pipes between them and the calling thread, the deadline and the     *)
(* two-stage kill.  Output is abstracted to its amount: a unit is one      *)
(* buffer's worth of bytes.                                                *)
(*                                                                         *)
(* The kernel and the children are external.  A child may write, read its  *)
(* stdin, start a descendant that shares its pipes and its process group,  *)
(* ignore SIGTERM, exit, or do nothing for ever.                           *)
(***************************************************************************)
EXTENDS Integers, FiniteSets

CONSTANTS
    MergeOptions,   \* the values merge_stderr may take
    CaptureOptions, \* the values capture_output may take
    Inputs,         \* sizes of stdin_input
    MaxOutput,      \* max_output_bytes
    PipeCap,        \* what a pipe holds before a writer blocks
    MaxWrites       \* bound: units one process writes

ASSUME PipeAssumption == PipeCap \in Nat \ {0} /\ MaxOutput \in Nat
ASSUME OptionsAssumption ==
    MergeOptions \subseteq BOOLEAN /\ CaptureOptions \subseteq BOOLEAN /\ Inputs \subseteq Nat

Procs == {"leader", "worker"}
Streams == {"out", "err"}

VARIABLES
    merge, capture, input,  \* the ProcessOptions; input: units still to write
    script,     \* exec_command's temporary file exists
    pc,         \* where the calling thread is
    expired,    \* the deadline has passed
    pipe,       \* units in each pipe
    rdOpen,     \* the caller's read ends that are open
    polled,     \* the streams in fds[0..nfds-1]
    pending,    \* the streams whose revents the current pass has yet to serve
    got,        \* stdout_output, stderr_output
    truncated,  \* streams cut off at max_output_bytes
    timedOut,   \* result.timed_out
    live,       \* each process: "none", "run" or "dead"
    code,       \* how the leader ended: 0, 1 for another exit status, -1 for a signal
    ignores,    \* processes that ignore SIGTERM
    reaped,     \* waitpid has collected the leader
    want,       \* the stream a process is in write() on, or "none"
    writes,     \* units each process has written
    wrote       \* units that entered each pipe

options == <<merge, capture, script>>
childVars == <<live, code, ignores, reaped, want, writes, wrote>>
readVars == <<rdOpen, polled, pending, got, truncated>>
vars == <<merge, capture, input, script, pc, expired, pipe, rdOpen, polled, pending,
          got, truncated, timedOut, live, code, ignores, reaped,
          want, writes, wrote>>

\* The streams that have a pipe of their own.
Captured == IF ~capture THEN {} ELSE IF merge THEN {"out"} ELSE Streams
Running == { p \in Procs : live[p] = "run" }

Init ==
    /\ merge \in MergeOptions /\ capture \in CaptureOptions /\ input \in Inputs
    /\ script = FALSE
    /\ pc = "idle"
    /\ expired = FALSE
    /\ pipe = [s \in Streams \cup {"in"} |-> 0]
    /\ rdOpen = {} /\ polled = {} /\ pending = {} /\ truncated = {}
    /\ got = [s \in Streams |-> 0]
    /\ timedOut = FALSE
    /\ live = [p \in Procs |-> "none"] /\ code = -1
    /\ ignores = {} /\ reaped = FALSE
    /\ want = [p \in Procs |-> "none"]
    /\ writes = [p \in Procs |-> 0]
    /\ wrote = [s \in Streams |-> 0]

-----------------------------------------------------------------------------
(* Starting the child.                                                     *)

\* exec_program goes straight to exec_fork; exec_command first writes the
\* command into a temporary script.
Enter ==
    /\ pc = "idle"
    /\ pc' = "start"
    /\ script' \in BOOLEAN
    /\ UNCHANGED <<merge, capture, input, expired, pipe, readVars, timedOut, childVars>>

\* A pipe or the fork fails: an error result, no child.
SpawnFails ==
    /\ pc = "start"
    /\ pc' = "done"
    /\ UNCHANGED <<options, input, expired, pipe, readVars, timedOut, childVars>>

\* fork: the child leads its own process group and holds the write ends.
Spawn ==
    /\ pc = "start"
    /\ pc' = "stdin"
    /\ live' = [live EXCEPT !["leader"] = "run"]
    /\ rdOpen' = Captured
    /\ UNCHANGED <<options, input, expired, pipe, polled, pending, got, truncated,
                   timedOut, code, ignores, reaped, want, writes, wrote>>

\* The blocking write of the whole stdin_input, before anything is read; it
\* raises SIGPIPE when nobody is left to read.
FeedStdin ==
    /\ pc = "stdin"
    /\ \/ /\ input = 0
          /\ pc' = "poll"
          /\ polled' = Captured
          /\ UNCHANGED <<input, pipe>>
       \/ /\ input > 0 /\ Running # {} /\ pipe["in"] < PipeCap
          /\ input' = input - 1
          /\ pipe' = [pipe EXCEPT !["in"] = @ + 1]
          /\ UNCHANGED <<pc, polled>>
       \/ /\ input > 0 /\ Running = {}
          /\ pc' = "killed"
          /\ UNCHANGED <<input, pipe, polled>>
    /\ UNCHANGED <<options, expired, rdOpen, pending, got, truncated,
                   timedOut, childVars>>

-----------------------------------------------------------------------------
(* The poll loop.                                                          *)

\* Slip: the caller keeps its own copy of the write end.
NeverEof(s) == FALSE

\* Nothing left in the pipe and no process that could write more.
Eof(s) == pipe[s] = 0 /\ Running = {}
Ready(s) == pipe[s] > 0 \/ Eof(s)

\* The deadline is looked at only here, before and by poll().
PollTimeout ==
    /\ pc = "poll" /\ polled # {}
    /\ expired
    /\ timedOut' = TRUE
    /\ pc' = "term"
    /\ UNCHANGED <<options, input, expired, pipe, readVars, childVars>>

PollReady ==
    /\ pc = "poll"
    /\ pending' = { s \in polled : Ready(s) }
    /\ pending' # {}
    /\ pc' = "read"
    /\ UNCHANGED <<options, input, expired, pipe, rdOpen, polled, got, truncated,
                   timedOut, childVars>>

PollDone ==
    /\ pc = "poll" /\ polled = {}
    /\ pc' = "close"
    /\ UNCHANGED <<options, input, expired, pipe, readVars, timedOut, childVars>>

\* The pass serves stdout before stderr.
Serving == IF "out" \in pending THEN "out" ELSE "err"

\* read_pipe has returned: the descriptor is closed and leaves fds.
CloseServed(s) ==
    /\ rdOpen' = rdOpen \ {s}
    /\ polled' = polled \ {s}
    /\ pending' = pending \ {s}
    /\ pc' = IF pending' = {} THEN "poll" ELSE "read"

\* Slip: one read() only, whatever may follow.
ReadOnce ==
    LET s == Serving
    IN  /\ pc = "read" /\ pipe[s] > 0
        /\ pipe' = [pipe EXCEPT ![s] = 0]
        /\ got' = [got EXCEPT ![s] = @ + pipe[s]]
        /\ truncated' = truncated
        /\ CloseServed(s)
        /\ UNCHANGED <<options, input, expired, timedOut, childVars>>

\* read_pipe, one read(): it blocks while the pipe is empty and a writer
\* lives, and gives up at max_output_bytes.
ReadSome ==
    LET s == Serving
    IN  /\ pc = "read" /\ pipe[s] > 0
        /\ pipe' = [pipe EXCEPT ![s] = 0]
        /\ IF got[s] + pipe[s] > MaxOutput
             THEN /\ got' = [got EXCEPT ![s] = MaxOutput]
                  /\ truncated' = truncated \cup {s}
                  /\ CloseServed(s)
             ELSE /\ got' = [got EXCEPT ![s] = @ + pipe[s]]
                  /\ UNCHANGED <<pc, truncated, rdOpen, polled, pending>>
        /\ UNCHANGED <<options, input, expired, timedOut, childVars>>

ReadEof ==
    /\ pc = "read" /\ Eof(Serving)
    /\ CloseServed(Serving)
    /\ UNCHANGED <<options, input, expired, pipe, got, truncated, timedOut, childVars>>

-----------------------------------------------------------------------------
(* kill_process_tree: SIGTERM to the group, a grace period, SIGKILL.       *)

Term ==
    /\ pc = "term"
    /\ pc' = "grace"
    /\ live' = [p \in Procs |-> IF p \in Running \ ignores THEN "dead" ELSE live[p]]
    /\ UNCHANGED <<options, input, expired, pipe, readVars, timedOut, code, ignores, reaped,
                   want, writes, wrote>>

\* The leader is gone: waitpid(WNOHANG) collects it and the kill is over.
GraceReap ==
    /\ pc = "grace" /\ live["leader"] = "dead"
    /\ reaped' = TRUE
    /\ pc' = "close"
    /\ UNCHANGED <<options, input, expired, pipe, readVars, timedOut, live, code, ignores,
                   want, writes, wrote>>

\* The grace period is over.
GraceKill ==
    /\ pc = "grace" /\ live["leader"] = "run"
    /\ live' = [p \in Procs |-> IF p \in Running THEN "dead" ELSE live[p]]
    /\ reaped' = TRUE
    /\ pc' = "close"
    /\ UNCHANGED <<options, input, expired, pipe, readVars, timedOut, code, ignores, want, writes,
                   wrote>>

-----------------------------------------------------------------------------
(* Leaving.                                                                *)

\* "Close any remaining pipe fds": what a kill left open.  (Descriptors the
\* poll loop has closed are closed again; no other thread is modelled that
\* could own the number by then.)
CloseRemaining ==
    /\ pc = "close"
    /\ pc' = "wait"
    /\ rdOpen' = {}
    /\ UNCHANGED <<options, input, expired, pipe, polled, pending, got, truncated,
                   timedOut, childVars>>

\* Slip: no wait when there was nothing to read.
WaitOnlyCaptured ==
    /\ pc = "wait"
    /\ pc' = "done"
    /\ capture => live["leader"] = "dead"
    /\ reaped' = (reaped \/ capture)
    /\ UNCHANGED <<options, input, expired, pipe, readVars, timedOut, live, code, ignores,
                   want, writes, wrote>>

\* waitpid blocks without a deadline; after a kill there is nothing to wait
\* for any more.
Wait ==
    /\ pc = "wait"
    /\ live["leader"] = "dead"
    /\ reaped' = TRUE
    /\ pc' = "done"
    /\ UNCHANGED <<options, input, expired, pipe, readVars, timedOut, live, code, ignores,
                   want, writes, wrote>>

\* exec_command removes its script.
Leave ==
    /\ pc = "done"
    /\ pc' = "returned"
    /\ script' = FALSE
    /\ UNCHANGED <<merge, capture, input, expired, pipe, readVars, timedOut, childVars>>

-----------------------------------------------------------------------------
(* The environment: time and the children.                                 *)

Tick ==
    /\ ~expired /\ pc \notin {"idle", "start", "stdin"}
    /\ expired' = TRUE
    /\ UNCHANGED <<options, input, pc, pipe, readVars, timedOut, childVars>>

\* A process enters write() on one of its streams ...
Choose(p) ==
    /\ p \in Running /\ want[p] = "none" /\ writes[p] < MaxWrites
    /\ \E s \in Streams : want' = [want EXCEPT ![p] = IF merge THEN "out" ELSE s]
    /\ UNCHANGED <<options, input, pc, expired, pipe, readVars, timedOut, live, code, ignores,
                   reaped, writes, wrote>>

\* ... and leaves it when the pipe has room; it blocks on a full pipe and
\* dies of SIGPIPE when the caller has closed the read end.
Write(p) ==
    LET s == want[p]
    IN  /\ p \in Running /\ s # "none"
        /\ \/ /\ s \in rdOpen /\ pipe[s] < PipeCap
              /\ pipe' = [pipe EXCEPT ![s] = @ + 1]
              /\ wrote' = [wrote EXCEPT ![s] = @ + 1]
              /\ UNCHANGED live
           \/ /\ s \in Captured \ rdOpen
              /\ live' = [live EXCEPT ![p] = "dead"]
              /\ UNCHANGED <<pipe, wrote>>
           \/ ~capture /\ UNCHANGED <<pipe, wrote, live>>
        /\ writes' = [writes EXCEPT ![p] = @ + 1]
        /\ want' = [want EXCEPT ![p] = "none"]
        /\ UNCHANGED <<options, input, pc, expired, readVars, timedOut, code, ignores, reaped>>

ReadStdin(p) ==
    /\ p \in Running /\ want[p] = "none" /\ pipe["in"] > 0
    /\ pipe' = [pipe EXCEPT !["in"] = @ - 1]
    /\ UNCHANGED <<options, input, pc, expired, readVars, timedOut, childVars>>

StartWorker ==
    /\ "leader" \in Running /\ want["leader"] = "none" /\ live["worker"] = "none"
    /\ live' = [live EXCEPT !["worker"] = "run"]
    /\ UNCHANGED <<options, input, pc, expired, pipe, readVars, timedOut, code, ignores,
                   reaped, want, writes, wrote>>

IgnoreTerm(p) ==
    /\ p \in Running \ ignores
    /\ ignores' = ignores \cup {p}
    /\ UNCHANGED <<options, input, pc, expired, pipe, readVars, timedOut, live, code, reaped,
                   want, writes, wrote>>

\* A process may end whenever it is not inside write().
Exit(p) ==
    /\ p \in Running /\ want[p] = "none"
    /\ live' = [live EXCEPT ![p] = "dead"]
    /\ IF p = "leader" THEN code' \in {0, 1} ELSE UNCHANGED code
    /\ UNCHANGED <<options, input, pc, expired, pipe, readVars, timedOut, ignores,
                   reaped, want, writes, wrote>>

\* result.exit_code, once the call has returned.
ExitCode == IF timedOut THEN -1 ELSE code

Caller == Enter \/ SpawnFails \/ Spawn \/ FeedStdin \/ PollTimeout \/ PollReady
            \/ PollDone \/ ReadSome \/ ReadEof \/ Term \/ GraceReap \/ GraceKill
            \/ CloseRemaining \/ Wait \/ Leave

Child(p) == Choose(p) \/ Write(p) \/ ReadStdin(p) \/ IgnoreTerm(p) \/ Exit(p)

Next == Caller \/ Tick \/ StartWorker \/ \E p \in Procs : Child(p)

Spec == Init /\ [][Next]_vars

-----------------------------------------------------------------------------
(* Properties.                                                             *)

\* A command that was not timed out returns everything the child and its
\* descendants wrote, up to the limit and never more: nothing is lost in a
\* pipe when the leader exits before its descendant, and no write meets a
\* closed pipe unless output was cut off.
OutputComplete ==
    /\ \A s \in Streams : got[s] <= MaxOutput
    /\ pc = "returned" /\ ~timedOut /\ live["leader"] # "none" =>
         /\ \A s \in Captured \ truncated : got[s] = wrote[s]
         /\ capture /\ truncated = {} =>
              writes["leader"] + writes["worker"] = wrote["out"] + wrote["err"]

\* No child is left unreaped by a call that returns, timed out or not,
\* captured or not.
NoZombie == pc = "returned" /\ live["leader"] # "none" => reaped

\* A call with at most one pipe (output merged or not captured) and without
\* stdin ends when the children's programs end, even when output is cut
\* off, the deadline passes meanwhile, or SIGTERM is ignored.
ExecReturns ==
    (input = 0 /\ (merge \/ ~capture)) => <>(pc = "returned")
=============================================================================
