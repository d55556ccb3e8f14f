---------------------------- MODULE CommandTools ----------------------------
(***************************************************************************)
(* The callers of process execution and what they make of its result: the  *)
(* Bash tool (src/tools/bash_tool.cpp), the Grep tool                      *)
(* (src/tools/grep_tool.cpp), the git helpers (src/util/git_utils.cpp) and *)
(* command_exists; and what the engine hands to the model of a tool's      *)
(* output (src/engine/query_engine.cpp).  The call itself is ProcessExec,  *)
(* which this module extends; "any" is a caller with any options, whose    *)
(* result nobody looks at.                                                 *)
(***************************************************************************)
EXTENDS ProcessExec

CONSTANTS
    Dir,        \* directories the Bash tool may change to
    ErrLimit,   \* what of stderr the Bash tool keeps (10000)
    None

ASSUME LimitAssumption == ErrLimit \in 0..MaxOutput
ASSUME DirAssumption == None \notin Dir

VARIABLES
    caller,     \* who calls: see Callers
    lastDir,    \* last_working_directory_ of the Bash tool; None when empty
    answer      \* what the caller was told, None before

tool == <<caller, lastDir, answer>>
toolVars == <<vars, tool>>

\* The options of each caller.
Callers ==
    [ bash   |-> [merge |-> FALSE, capture |-> TRUE,  script |-> TRUE],
      grep   |-> [merge |-> FALSE, capture |-> TRUE,  script |-> TRUE],
      git    |-> [merge |-> TRUE,  capture |-> TRUE,  script |-> FALSE],
      isRepo |-> [merge |-> TRUE,  capture |-> FALSE, script |-> FALSE],
      exists |-> [merge |-> TRUE,  capture |-> FALSE, script |-> FALSE] ]

ToolInit ==
    /\ Init
    /\ \/ caller = "any"
       \/ /\ caller \in DOMAIN Callers
          /\ input = 0
          /\ merge = Callers[caller].merge /\ capture = Callers[caller].capture
    /\ lastDir = None /\ answer = None

-----------------------------------------------------------------------------
(* The text of an answer is what it has of each stream, or a word.         *)

Words(w) == [out |-> 0, err |-> 0, word |-> w]
Output(o, e) == [out |-> o, err |-> e, word |-> "output"]

\* ToolOutput::ok and ToolOutput::err, and the one with both parts.
Ok(text) == [content |-> text, error |-> Words("empty"), is_error |-> FALSE]
Err(text) == [content |-> Words("empty"), error |-> text, is_error |-> TRUE]
Both(text, error) == [content |-> text, error |-> error, is_error |-> TRUE]

\* execute_tool_call: of an output with is_error the model sees the error only.
ToolResult(o) ==
    [is_error |-> o.is_error, text |-> IF o.is_error THEN o.error ELSE o.content]

Least(m, n) == IF m < n THEN m ELSE n

\* stdout was cut at the same limit before; stderr is cut shorter.
BashOutput ==
    LET text == Output(got["out"], Least(got["err"], ErrLimit))
    IN  CASE timedOut -> Both(text, Words("Timeout"))
          [] ExitCode # 0 /\ ~timedOut -> Both(text, Words("empty"))
          [] OTHER -> Ok(text)

\* Slip: a search that was timed out is reported as far as it got.
GrepIgnoresTimeout ==
    IF ExitCode # 0 /\ got["out"] = 0
    THEN Ok(Words("no matches"))
    ELSE Ok(Output(got["out"], 0))

\* A search that could not be run says the same as one without matches.
GrepOutput ==
    CASE timedOut -> Err(Words("timed out"))
      [] ~timedOut /\ ExitCode # 0 /\ got["out"] = 0 -> Ok(Words("no matches"))
      [] OTHER -> Ok(Output(got["out"], 0))

\* ProcessResult::success.
Success == ExitCode = 0 /\ ~timedOut

\* The output, or a default; success() or not is all that decides.
GitAnswer ==
    [is_error |-> ~Success, text |-> IF Success THEN Output(got["out"], 0) ELSE Words("default")]

\* is_git_repo wants "true" in the output, which it does not capture.
IsGitRepo ==
    [is_error |-> FALSE, text |-> Words(IF ExitCode = 0 /\ got["out"] > 0 THEN "yes" ELSE "no")]

CommandExists ==
    [is_error |-> FALSE, text |-> Words(IF ExitCode = 0 THEN "yes" ELSE "no")]

-----------------------------------------------------------------------------
\* check_tool_permission knows one answer.
CheckToolPermission == "Allowed"

\* The call begins.  A command without text is refused; one that looks dangerous
\* is not refused here but left to the permission check.
Call ==
    /\ caller \in {"bash", "grep"} => CheckToolPermission # "Denied"
    /\ Enter
    /\ caller # "any" => script' = Callers[caller].script
    /\ UNCHANGED tool

\* "cd" runs no process: the directory changes, or is not there.
Cd ==
    /\ caller = "bash" /\ pc \in {"idle", "returned"}
    /\ \/ \E d \in Dir : lastDir' = d /\ answer' = ToolResult(Ok(Words("cd")))
       \/ UNCHANGED lastDir /\ answer' = ToolResult(Err(Words("no directory")))
    /\ UNCHANGED <<vars, caller>>

Report ==
    /\ pc = "done" /\ caller # "any"
    /\ Leave
    /\ answer' = CASE caller = "bash" -> ToolResult(BashOutput)
                   [] caller = "grep" -> ToolResult(GrepOutput)
                   [] caller = "git" -> GitAnswer
                   [] caller = "isRepo" -> IsGitRepo
                   [] caller = "exists" -> CommandExists
    /\ UNCHANGED <<caller, lastDir>>

\* The steps of exec_fork between the two.
Exec ==
    /\ \/ SpawnFails \/ Spawn \/ FeedStdin \/ PollTimeout \/ PollReady \/ PollDone
       \/ ReadSome \/ ReadEof \/ Term \/ GraceReap \/ GraceKill \/ CloseRemaining \/ Wait
       \/ caller = "any" /\ Leave
    /\ UNCHANGED tool

Outside == (Tick \/ StartWorker \/ \E p \in Procs : Child(p)) /\ UNCHANGED tool

ToolNext == Call \/ Cd \/ Exec \/ Report \/ Outside

\* The calling thread runs and time passes; the children's programs go on and
\* end.
ToolSpec ==
    /\ ToolInit /\ [][ToolNext]_toolVars
    /\ WF_toolVars(Call \/ Exec \/ Report)
    /\ WF_toolVars(Tick /\ UNCHANGED tool)
    /\ \A p \in Procs : /\ WF_toolVars(Write(p) /\ UNCHANGED tool)
                        /\ WF_toolVars(Exit(p) /\ UNCHANGED tool)

-----------------------------------------------------------------------------
(* Properties.                                                             *)

\* The leader exited with 0, in time.
Succeeded == live["leader"] = "dead" /\ code = 0 /\ ~timedOut

\* What each caller's answer warrants of what the process group did.
\* Output that is passed on comes from a call that was not timed out and is all
\* that was written to the stream, or was cut: stdout where max_output_bytes cut
\* it, the stderr of the Bash tool at ErrLimit (10000, where the tool's prompt
\* promises 50,000 per stream).  The Bash tool and the git helpers report success,
\* and command_exists says yes, exactly when the leader exited with 0 in time; a
\* command killed for writing past the limit is no success.  The Grep tool
\* reports an error exactly when the search was timed out, and says "no matches"
\* only of one that wrote nothing and failed: that there are no matches does not
\* follow, for a search that could not be run fails the same way.  And is_git_repo
\* says no, whatever git says: it looks for an answer it does not capture.
AnswerWarranted ==
    answer # None /\ pc = "returned" /\ answer.text.word \notin {"cd", "no directory"} =>
        /\ answer.text.word = "output" =>
             /\ ~timedOut
             /\ answer.text.out = wrote["out"] \/ "out" \in truncated
             /\ caller = "bash" =>
                  \/ answer.text.err = wrote["err"]
                  \/ answer.text.err = ErrLimit
        /\ caller \in {"bash", "git"} => (~answer.is_error <=> Succeeded)
        /\ caller = "exists" => (answer.text.word = "yes" <=> Succeeded)
        /\ caller = "grep" =>
             /\ answer.is_error <=> timedOut
             /\ answer.text.word = "no matches" =>
                  ~Succeeded /\ (wrote["out"] = 0 \/ "out" \in truncated)
        /\ caller = "isRepo" => answer.text.word = "no"
=============================================================================
