------------------------------ MODULE FileEdit ------------------------------
(***************************************************************************)
(* The Edit and Write tools on one file                                    *)
(* (src/tools/file_edit_tool.cpp, src/tools/file_write_tool.cpp): read,    *)
(* replace, compare modification times, write a temporary file, rename it  *)
(* over the original; while other programs write or remove the same file,  *)
(* the disk fills up, or the tool's process dies.                          *)
(*                                                                         *)
(* Text is abstracted to a sequence of tokens; an edit replaces one token  *)
(* by another.  The file system and the other programs are external; the   *)
(* clock behind modification times has a finite resolution.                *)
(***************************************************************************)
EXTENDS Integers, Sequences, FiniteSets

CONSTANTS
    Texts,      \* contents other programs and the Write tool write
    EditLists,  \* the edits of one call, sequences of [old, new]
    Clocks,     \* BOOLEAN, or one of its values: see fine
    Disks,      \* BOOLEAN, or one of its values: see fills
    MaxForeign, \* bound: writes and removals by other programs
    MaxCalls    \* bound: calls of the tools

ASSUME FileSystemsAssumption == Clocks \subseteq BOOLEAN /\ Disks \subseteq BOOLEAN
ASSUME CallBoundsAssumption == MaxForeign \in Nat /\ MaxCalls \in Nat
ASSUME EditListsAssumption == \A es \in EditLists : Len(es) \in Nat \ {0}

NoTemp == <<"no temporary file">>

VARIABLES
    fine,       \* the file system: no two writes get the same time
    fills,      \* the file system: a write may stop short
    exists, content, mtime, \* the file
    now,        \* what the next write's modification time may be
    version,    \* how often other programs have changed the file
    temp, tempTime,     \* the temporary file's content and modification time
    pc, mode, edits,    \* the call: "single" or "multi" with its edits, or "write"
    k,          \* edits applied
    stamp,      \* mod_time
    original, current,  \* original_content, current_content
    readVersion,        \* version when the content was read
    checkVersion,       \* version at the modification check
    result,     \* "none", "ok", "unchanged", "error", or "threw": execute
                \* reports an exception of the file system library
    intended,   \* contents somebody meant the file to have (history)
    calls

fileVars == <<fine, fills, exists, content, mtime, now, version>>
tempVars == <<temp, tempTime>>
callVars == <<mode, edits, k, stamp, original, current, readVersion, checkVersion>>
editVars == <<fine, fills, exists, content, mtime, now, version, temp, tempTime, pc, mode,
              edits, k, stamp, original, current, readVersion, checkVersion, result, intended,
              calls>>

EditInit ==
    /\ fine \in Clocks /\ fills \in Disks
    /\ exists \in BOOLEAN
    /\ content \in Texts
    /\ mtime = 0 /\ now = 0 /\ version = 0
    /\ temp = NoTemp /\ tempTime = 0
    /\ pc = "idle" /\ mode = "write" /\ edits = <<>> /\ k = 0
    /\ stamp = 0 /\ original = <<>> /\ current = <<>>
    /\ readVersion = 0 /\ checkVersion = 0
    /\ result = "none"
    /\ intended = {content}
    /\ calls = 0

Return(r) == pc' = "idle" /\ result' = r

\* The clock at a write: later than at the last one, or not noticeably so.
Ticks == now' \in IF fine THEN {now + 1} ELSE {now, now + 1}

-----------------------------------------------------------------------------
(* Reading and replacing.                                                  *)

\* execute with old_string and new_string (one edit), or with edits.  The
\* call's temporary file will have a new name (a uuid): one that an earlier
\* call has left is out of the picture.
Edit ==
    /\ pc = "idle" /\ calls < MaxCalls
    /\ calls' = calls + 1
    /\ edits' \in EditLists
    /\ mode' \in IF Len(edits') = 1 THEN {"single", "multi"} ELSE {"multi"}
    /\ k' = 0
    /\ temp' = NoTemp
    /\ pc' = "stat" /\ result' = "none"
    /\ UNCHANGED <<fileVars, tempTime, stamp, original, current, readVersion, checkVersion,
                   intended>>

\* The file must exist; its modification time is noted before it is read.  If
\* it goes in between, last_write_time throws.
Stat ==
    /\ pc = "stat"
    /\ IF exists THEN pc' = "read" /\ stamp' = mtime /\ UNCHANGED result
                 ELSE (\E r \in {"error", "threw"} : Return(r)) /\ UNCHANGED stamp
    /\ UNCHANGED <<fileVars, tempVars, mode, edits, k, original, current, readVersion,
                   checkVersion, intended, calls>>

\* apply_replacement: the places where the old text is found.
Matches(text, old) == { i \in 1..Len(text) : text[i] = old }

Replaceable(text, e) ==
    \/ Cardinality(Matches(text, e.old)) = 1
    \/ Matches(text, e.old) # {} /\ e.old = e.new

Replace(text, e) == [i \in 1..Len(text) |-> IF text[i] = e.old THEN e.new ELSE text[i]]

\* What edit e makes of the texts T it can be made in.
MadeBy(e, T) == { Replace(t, e) : t \in { u \in T : Replaceable(u, e) } }

\* What the first i of the edits es make of text, for each i: one text, or none
\* if one of them finds no place or several.
Made(text, es) ==
    LET made[i \in 0..Len(es)] == IF i = 0 THEN {text} ELSE MadeBy(es[i], made[i - 1])
    IN  made

\* What the whole call is to make of text.
Edited(text, es) == Made(text, es)[Len(es)]

\* Here the call knows what it is to write, if all of its edits can be made.
Read ==
    /\ pc = "read"
    /\ IF exists
         THEN /\ pc' = "apply"
              /\ original' = content /\ current' = content /\ readVersion' = version
              /\ intended' = intended \cup Edited(content, edits)
              /\ UNCHANGED result
         ELSE Return("error") /\ UNCHANGED <<original, current, readVersion, intended>>
    /\ UNCHANGED <<fileVars, tempVars, mode, edits, k, stamp, checkVersion, calls>>

\* Slip: the modification time is noted when the replacement is done.
ApplyRestamps ==
    /\ pc = "apply" /\ k < Len(edits)
    /\ IF Replaceable(current, edits[k + 1])
         THEN /\ current' = Replace(current, edits[k + 1])
              /\ k' = k + 1
              /\ stamp' = mtime
              /\ UNCHANGED <<pc, result>>
         ELSE Return("error") /\ UNCHANGED <<current, k, stamp>>
    /\ UNCHANGED <<fileVars, tempVars, mode, edits, original, readVersion, checkVersion,
                   intended, calls>>

\* Slip: an edit that cannot be made is passed over.
ApplySkips ==
    /\ pc = "apply" /\ k < Len(edits)
    /\ current' = IF Replaceable(current, edits[k + 1]) THEN Replace(current, edits[k + 1])
                                                       ELSE current
    /\ k' = k + 1
    /\ UNCHANGED <<fileVars, tempVars, pc, mode, edits, stamp, original, readVersion,
                   checkVersion, result, intended, calls>>

\* One edit of the loop, applied to what the earlier ones have made.
Apply ==
    /\ pc = "apply" /\ k < Len(edits)
    /\ IF Replaceable(current, edits[k + 1])
         THEN /\ current' = Replace(current, edits[k + 1])
              /\ k' = k + 1
              /\ UNCHANGED <<pc, result>>
         ELSE Return("error") /\ UNCHANGED <<current, k>>
    /\ UNCHANGED <<fileVars, tempVars, mode, edits, stamp, original, readVersion, checkVersion,
                   intended, calls>>

\* The modification check; last_write_time throws when the file is gone.  A
\* single edit tests for "no changes" before it, an array of edits after it.
Check ==
    /\ pc = "apply" /\ k = Len(edits)
    /\ checkVersion' = version
    /\ IF mode = "single" /\ current = original THEN Return("unchanged")
       ELSE IF ~exists THEN Return("threw")
       ELSE IF mtime # stamp THEN Return("error")
       ELSE IF current = original THEN Return("unchanged")
       ELSE pc' = "temp" /\ UNCHANGED result
    /\ UNCHANGED <<fileVars, tempVars, mode, edits, k, stamp, original, current, readVersion,
                   intended, calls>>

-----------------------------------------------------------------------------
(* Writing.                                                                *)

\* The Write tool: no modification check.
Write ==
    /\ pc = "idle" /\ calls < MaxCalls
    /\ calls' = calls + 1
    /\ mode' = "write"
    /\ current' \in Texts /\ intended' = intended \cup {current'}
    /\ temp' = NoTemp
    /\ pc' = "temp" /\ result' = "none"
    /\ UNCHANGED <<fileVars, tempTime, edits, k, stamp, original, readVersion, checkVersion>>

\* The temporary file is written under a name of its own.
WriteTemp ==
    /\ pc = "temp"
    /\ temp' = current
    /\ Ticks /\ tempTime' = now'
    /\ pc' = "rename"
    /\ UNCHANGED <<fine, fills, exists, content, mtime, version, callVars, result, intended,
                   calls>>

\* It cannot be created.
TempFails ==
    /\ pc = "temp"
    /\ Return("error")
    /\ UNCHANGED <<fileVars, tempVars, callVars, intended, calls>>

\* The disk is full: a part is written.  The Write tool may notice (what
\* fails when the stream is closed it does not), the Edit tool never does.
WriteShort ==
    /\ fills
    /\ pc = "temp" /\ current # <<>>
    /\ \E n \in 0..(Len(current) - 1) : temp' = SubSeq(current, 1, n)
    /\ Ticks /\ tempTime' = now'
    /\ pc' \in IF mode = "write" THEN {"rename", "cleanup"} ELSE {"rename"}
    /\ UNCHANGED <<fine, fills, exists, content, mtime, version, callVars, result, intended,
                   calls>>

Rename ==
    /\ pc = "rename"
    /\ exists' = TRUE
    /\ content' = temp /\ mtime' = tempTime
    /\ temp' = NoTemp
    /\ IF mode = "write" THEN pc' = "report" /\ UNCHANGED result ELSE Return("ok")
    /\ UNCHANGED <<fine, fills, now, version, tempTime, callVars, intended, calls>>

RenameFails ==
    /\ pc = "rename"
    /\ pc' = "cleanup"
    /\ UNCHANGED <<fileVars, tempVars, callVars, result, intended, calls>>

\* Slip: the call returns without removing the temporary file.
CleanupForgets ==
    /\ pc = "cleanup"
    /\ Return("error")
    /\ UNCHANGED <<fileVars, tempVars, callVars, intended, calls>>

\* The temporary file of a failed write is removed.  fs::remove throws when it
\* cannot be, in a directory that takes no changes: then it stays.
Cleanup ==
    /\ pc = "cleanup"
    /\ \/ temp' = NoTemp /\ Return("error")
       \/ UNCHANGED temp /\ Return("threw")
    /\ UNCHANGED <<fileVars, tempTime, callVars, intended, calls>>

\* The Write tool reports the file's time, which throws if it is gone.
Report ==
    /\ pc = "report"
    /\ Return(IF exists THEN "ok" ELSE "threw")
    /\ UNCHANGED <<fileVars, tempVars, callVars, intended, calls>>

-----------------------------------------------------------------------------
(* The environment.                                                        *)

ForeignWrite ==
    /\ version < MaxForeign
    /\ exists' = TRUE
    /\ \E text \in Texts : content' = text /\ intended' = intended \cup {text}
    /\ Ticks /\ mtime' = now'
    /\ version' = version + 1
    /\ UNCHANGED <<fine, fills, tempVars, pc, callVars, result, calls>>

ForeignRemove ==
    /\ version < MaxForeign
    /\ exists
    /\ exists' = FALSE
    /\ version' = version + 1
    /\ UNCHANGED <<fine, fills, content, mtime, now, tempVars, pc, callVars, result, intended, calls>>

\* The process dies between any two steps.  Its temporary file stays, under a
\* name (a uuid) no later call will use, and so is out of the picture.
EditCrash ==
    /\ pc # "idle"
    /\ pc' = "idle"
    /\ temp' = NoTemp
    /\ result' = "none"
    /\ UNCHANGED <<fileVars, tempTime, callVars, intended, calls>>

EditNext ==
    \/ Edit \/ Stat \/ Read \/ Apply \/ Check
    \/ Write \/ WriteTemp \/ TempFails \/ WriteShort \/ Rename \/ RenameFails
    \/ Cleanup \/ Report
    \/ ForeignWrite \/ ForeignRemove \/ EditCrash

EditSpec == EditInit /\ [][EditNext]_editVars

-----------------------------------------------------------------------------
(* Properties.                                                             *)

\* Unless the disk fills up: whatever the tools, other programs, failing
\* renames and crashes do, the file never holds a part of a content, or some
\* edits of a call without the others: only what another program or a Write
\* call wrote, or what all the edits of a call make of the content it read.
FileWhole == ~fills /\ exists => content \in intended

\* A foreign change between the first look at the file and the check does
\* not get past the check, when modification times tell writes apart.
StaleEditCaught ==
    fine /\ mode # "write" /\ pc \in {"temp", "rename"} => checkVersion = readVersion

\* A call that returns leaves its temporary file only if removing it failed, and
\* then the call has reported the exception of fs::remove: no call that
\* succeeded, changed nothing or reported an error of its own leaves one.
NoTempLeft == pc = "idle" /\ temp # NoTemp => result = "threw"
=============================================================================
