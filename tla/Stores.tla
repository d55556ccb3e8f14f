------------------------------- MODULE Stores -------------------------------
(***************************************************************************)
(* What survives a restart: the memory store (src/memory/memory_store.cpp) *)
(* and the sessions of the application state (src/state/app_state.cpp).    *)
(* Both save by writing a temporary file and renaming it over the old one, *)
(* so the writing of a file is modelled once; a behaviour exercises one of *)
(* the two ("memory" or "session").                                        *)
(*                                                                         *)
(* One thread saves: that is an assumption about the callers, for          *)
(* MemoryStore::save takes no lock and all its saves share one temporary   *)
(* file.  Another thread changes entries while it collects them, one map   *)
(* node at a time;                                                         *)
(* save_session holds the mutex, but set_working_directory does not take   *)
(* it.  The process may be killed anywhere, the destructor included, and   *)
(* the disk may fill up: neither save looks at the state of the stream     *)
(* before the rename.  A version of an entry stands for its content and    *)
(* its count of accesses; its times are left out, which the file keeps to  *)
(* the second and in local time.                                           *)
(***************************************************************************)
EXTENDS Integers, Sequences

CONSTANTS
    Ids,        \* number of memory ids; the map iterates them in order
    Dir,        \* working directories
    Session,    \* session ids; a new session takes one never used before
    Keep,       \* messages of a session that are saved (200)
    None,
    MaxChanges, \* bound: stores and touches of entries, or saves of sessions
    MaxMsgs     \* bound: messages held in memory

Id == 1..Ids
NoMem == [i \in Id |-> 0]

\* A session's file is named after its directory and id; the memory file's name
\* is the storage_path of the store.
MemFile == <<None, None>>
SessFile == Dir \X Session
Path == {MemFile} \cup SessFile

\* What a file holds: "none" without the file, "torn" for a part of the data.
NoFile == [st |-> "none", mem |-> NoMem, wd |-> None, messages |-> <<>>]
Torn == [NoFile EXCEPT !.st = "torn"]

ASSUME BoundsAssumption ==
    Ids \in Nat /\ Keep \in Nat /\ MaxChanges \in Nat /\ MaxMsgs \in Nat
ASSUME NoneAssumption == None \notin Dir \cup Session

VARIABLES
    part,       \* "memory" or "session"
    up,         \* the process runs
    unread,     \* history: the memory file was there when the process started,
                \* and could not be opened
    closing,    \* the destructor of the store runs
    (* the disk *)
    file,       \* the file of each path
    tmp,        \* the temporary file of the save in progress; one left behind is
                \* truncated by the next save of its path and read by nobody
    full,       \* history: a write was cut short by a full disk
    (* a save in progress *)
    at,         \* "idle", "collect", "path", "open", "write" or "rename"
    path, data, \* where it writes, and what
    next,       \* the next id to collect
    since,      \* history: no entry changed since this save began ("saving")
                \* or since the last one ended well ("saved"); else "none"
    (* the memory store *)
    mem,        \* entries_: the version of each id, 0 when there is none
    clock,      \* changes made; each gives an entry a new version
    dirty,      \* dirty_
    (* the session *)
    session,    \* session_id
    wd,         \* working_directory
    messages,   \* messages_: for each message the session it was pushed in
    used,       \* history: ids generated or asked for
    adopted     \* history: ids taken over, without a file to restore from, while
                \* messages of another session were in memory

disk == <<file, full>>
save == <<at, path, data, next, tmp>>
memory == <<mem, clock, dirty, since>>
state == <<session, wd, messages, used, adopted>>
vars == <<part, up, unread, closing, disk, save, memory, state>>

Init ==
    /\ part \in {"memory", "session"}
    /\ up = TRUE /\ unread = FALSE /\ closing = FALSE
    /\ file = [p \in Path |-> NoFile] /\ tmp = NoFile
    /\ full = FALSE
    /\ at = "idle" /\ path = MemFile /\ data = NoFile /\ next = 1
    /\ mem = NoMem /\ clock = 0 /\ dirty = FALSE /\ since = "none"
    /\ session \in Session /\ wd \in Dir
    /\ messages = <<>> /\ used = {session} /\ adopted = {}

Running == up /\ UNCHANGED <<part, up, unread>>

-----------------------------------------------------------------------------
(* Writing a file.                                                         *)

\* The save is over.
Idle == at' = "idle" /\ path' = MemFile /\ data' = NoFile /\ next' = 1 /\ tmp' = NoFile

\* Slip: the file itself is opened and truncated.
OpenInPlace ==
    /\ Running /\ at = "open"
    /\ file' = [file EXCEPT ![path] = Torn]
    /\ tmp' = Torn
    /\ at' = "write"
    /\ UNCHANGED <<closing, full, path, data, next, memory, state>>

OpenTmp ==
    /\ Running /\ at = "open"
    /\ tmp' = Torn
    /\ at' = "write"
    /\ UNCHANGED <<closing, file, full, path, data, next, memory, state>>

OpenFails ==
    /\ Running /\ at = "open"
    /\ Idle
    /\ since' = "none"
    /\ UNCHANGED <<closing, disk, mem, clock, dirty, state>>

\* All of the data, or a part of it when the disk is full; both go on.
WriteTmp ==
    /\ Running /\ at = "write"
    /\ \/ tmp' = data /\ UNCHANGED full
       \/ full' = TRUE /\ UNCHANGED tmp
    /\ at' = "rename"
    /\ UNCHANGED <<closing, file, path, data, next, memory, state>>

\* A rename that fails is ignored or logged; the temporary file stays.
RenameTmp ==
    /\ Running /\ at = "rename"
    /\ \/ /\ file' = [file EXCEPT ![path] = tmp]
          /\ since' = IF since = "saving" /\ tmp # Torn THEN "saved" ELSE "none"
       \/ UNCHANGED file /\ since' = "none"
    /\ Idle
    /\ UNCHANGED <<closing, full, mem, clock, dirty, state>>

-----------------------------------------------------------------------------
(* The memory store.                                                       *)

Memory == part = "memory" /\ Running /\ UNCHANGED state

Store(i) ==
    /\ Memory /\ ~closing /\ clock < MaxChanges
    /\ clock' = clock + 1
    /\ mem' = [mem EXCEPT ![i] = clock + 1]
    /\ dirty' = TRUE /\ since' = "none"
    /\ UNCHANGED <<closing, disk, save>>

\* touch counts an access: the entry changes, if there is one.
Touch(i) ==
    /\ Memory /\ ~closing /\ clock < MaxChanges /\ mem[i] # 0
    /\ clock' = clock + 1
    /\ mem' = [mem EXCEPT ![i] = clock + 1]
    /\ dirty' = TRUE /\ since' = "none"
    /\ UNCHANGED <<closing, disk, save>>

\* Slip: erasing does not mark the store as changed.
EraseKeepsClean(i) ==
    /\ Memory /\ ~closing
    /\ mem' = [mem EXCEPT ![i] = 0]
    /\ since' = "none"
    /\ UNCHANGED <<dirty, closing, clock, disk, save>>

Erase(i) ==
    /\ Memory /\ ~closing
    /\ mem' = [mem EXCEPT ![i] = 0]
    /\ dirty' = TRUE /\ since' = "none"
    /\ UNCHANGED <<closing, clock, disk, save>>

Begin ==
    /\ at' = "collect" /\ data' = [NoFile EXCEPT !.st = "whole"]
    /\ since' = "saving"
    /\ UNCHANGED <<path, next, tmp>>

\* save returns at once when nothing was changed; dirty_ is never reset.
Save ==
    /\ Memory /\ at = "idle" /\ dirty /\ ~closing
    /\ Begin
    /\ UNCHANGED <<closing, disk, mem, clock, dirty>>

SaveCollects ==
    /\ Memory /\ at = "collect"
    /\ data' = [data EXCEPT !.mem[next] = mem[next]]
    /\ next' = IF next = Ids THEN 1 ELSE next + 1
    /\ at' = IF next = Ids THEN "open" ELSE "collect"
    /\ UNCHANGED <<closing, path, tmp, disk, memory>>

\* The destructor: a save, then the entries are gone.
Destroy ==
    /\ Memory /\ at = "idle" /\ ~closing
    /\ closing' = TRUE
    /\ IF dirty THEN Begin ELSE UNCHANGED <<save, since>>
    /\ UNCHANGED <<disk, mem, clock, dirty>>

Destroyed ==
    /\ part = "memory" /\ up /\ closing /\ at = "idle"
    /\ up' = FALSE /\ closing' = FALSE
    /\ mem' = NoMem /\ dirty' = FALSE /\ since' = "none"
    /\ UNCHANGED <<part, unread, clock, disk, save, state>>

\* The entries of the file replace those in memory with the same id.  A file
\* that cannot be parsed counts as empty.
Loaded ==
    LET found == file[MemFile].mem
    IN  [i \in Id |-> IF found[i] # 0 THEN found[i] ELSE mem[i]]

\* load() says nothing of a file that is there and cannot be opened.
Unopened == file[MemFile] # NoFile /\ UNCHANGED mem

\* init() called on a store in use.
Reload ==
    /\ Memory /\ ~closing
    /\ mem' = Loaded \/ Unopened
    /\ since' = IF mem' = mem THEN since ELSE "none"
    /\ UNCHANGED <<closing, clock, dirty, disk, save>>

-----------------------------------------------------------------------------
(* The session.                                                            *)

Sess == part = "session" /\ Running /\ UNCHANGED <<closing, mem, dirty, since>>
Unlocked == at = "idle"     \* save_session holds the mutex while it runs

PushMessage ==
    /\ Sess /\ Unlocked /\ Len(messages) < MaxMsgs
    /\ messages' = Append(messages, session)
    /\ UNCHANGED <<session, wd, used, adopted, clock, disk, save>>

ClearMessages ==
    /\ Sess /\ Unlocked
    /\ messages' = <<>>
    /\ UNCHANGED <<session, wd, used, adopted, clock, disk, save>>

\* Slip: the messages of the old session stay.
NewSessionKeeps ==
    /\ Sess /\ Unlocked
    /\ session' \in Session \ used
    /\ used' = used \cup {session'}
    /\ UNCHANGED <<messages, wd, adopted, clock, disk, save>>

NewSession ==
    /\ Sess /\ Unlocked
    /\ session' \in Session \ used
    /\ used' = used \cup {session'}
    /\ messages' = <<>>
    /\ UNCHANGED <<wd, adopted, clock, disk, save>>

\* Without the mutex, so also between two steps of save_session.
SetWorkingDirectory(d) ==
    /\ Sess
    /\ wd' = d
    /\ UNCHANGED <<session, messages, used, adopted, clock, disk, save>>

\* The last messages; of each the role and the text are kept.
Last(s) == IF Len(s) > Keep THEN SubSeq(s, Len(s) - Keep + 1, Len(s)) ELSE s

SaveSession ==
    /\ Sess /\ Unlocked /\ clock < MaxChanges
    /\ clock' = clock + 1
    /\ at' = "path"
    /\ data' = [st |-> "whole", mem |-> NoMem, wd |-> wd, messages |-> Last(messages)]
    /\ UNCHANGED <<path, next, tmp, disk, state>>

\* The directory is read a second time for the path.
SavePath ==
    /\ Sess /\ at = "path"
    /\ path' = <<wd, session>>
    /\ at' = "open"
    /\ UNCHANGED <<data, next, tmp, clock, disk, state>>

\* Without a file only the id changes: the messages in memory are kept.  A file
\* that cannot be opened or parsed changes nothing.
RestoreSession(s) ==
    /\ Sess /\ Unlocked
    /\ used' = used \cup {s}
    /\ LET f == file[<<wd, s>>] IN
       \/ /\ f = NoFile
          /\ session' = s
          /\ adopted' = IF \A n \in DOMAIN messages : messages[n] = s THEN adopted
                        ELSE adopted \cup {s}
          /\ UNCHANGED <<wd, messages>>
       \/ f # NoFile /\ UNCHANGED <<session, wd, messages, adopted>>
       \/ /\ f.st = "whole"
          /\ session' = s /\ wd' = f.wd /\ messages' = f.messages
          /\ UNCHANGED adopted
    /\ UNCHANGED <<clock, disk, save>>

-----------------------------------------------------------------------------
(* The process.                                                            *)

\* Killed: what was renamed is on disk, everything else is gone.
Crash ==
    /\ up
    /\ up' = FALSE /\ closing' = FALSE
    /\ Idle
    /\ mem' = NoMem /\ dirty' = FALSE /\ since' = "none"
    /\ messages' = <<>>
    /\ UNCHANGED <<part, unread, disk, clock, session, wd, used, adopted>>

\* The constructors: the memory store loads its file, if it can be opened, the
\* state starts a session of its own in the current directory.
Restart ==
    /\ ~up
    /\ up' = TRUE
    /\ IF part = "memory"
       THEN /\ \/ mem' = Loaded /\ unread' = FALSE
               \/ Unopened /\ unread' = TRUE
            /\ UNCHANGED <<session, wd, used>>
       ELSE /\ session' \in Session \ used
            /\ used' = used \cup {session'}
            /\ wd' \in Dir
            /\ UNCHANGED <<mem, unread>>
    /\ UNCHANGED <<part, closing, disk, save, clock, dirty, since, messages, adopted>>

Next ==
    \/ OpenTmp \/ OpenFails \/ WriteTmp \/ RenameTmp
    \/ \E i \in Id : Store(i) \/ Touch(i) \/ Erase(i)
    \/ Save \/ SaveCollects \/ Destroy \/ Destroyed \/ Reload
    \/ \E d \in Dir : SetWorkingDirectory(d)
    \/ \E s \in Session : RestoreSession(s)
    \/ PushMessage \/ ClearMessages \/ NewSession \/ SaveSession \/ SavePath
    \/ Crash \/ Restart

Spec == Init /\ [][Next]_vars

-----------------------------------------------------------------------------
(* Properties.                                                             *)

\* Whenever the process is killed, a file is as some save wrote it to the end,
\* unless the disk was full ("Atomic write: write to temp then rename").  For one
\* save at a time: two that overlap write to the same temporary file.
SavedWhole == \A p \in Path : file[p] = Torn => full

\* After a save that nothing disturbed, what is in memory is what the next start
\* reads; and a save that is skipped, dirty_ not being set, loses nothing: what
\* is in memory is in the file, through crashes, reloads, erasures and earlier
\* saves that failed.  The one exception is a start that could not open the
\* file: memory is then empty and dirty_ not set although the file has entries,
\* and the first save after a change replaces them.
SavedIsRead ==
    part = "memory" /\ up =>
        /\ since = "saved" => mem = file[MemFile].mem
        /\ ~dirty => mem = file[MemFile].mem \/ (unread /\ mem = NoMem)

\* A session's file has only messages of that session, the last Keep at most,
\* through restores, new sessions, crashes and a directory that changes during
\* a save; except a session whose id was taken over, for want of a file, while
\* messages of another were in memory.
SessionFileOwn ==
    \A p \in SessFile :
        /\ Len(file[p].messages) <= Keep
        /\ p[2] \notin adopted =>
             \A n \in DOMAIN file[p].messages : file[p].messages[n] = p[2]
=============================================================================
