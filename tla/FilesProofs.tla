---------------------------- MODULE FilesProofs ----------------------------
(***************************************************************************)
(* Proofs about files: what the memory store and the sessions keep over a  *)
(* restart, for any number of memory ids, directories, sessions and        *)
(* changes; and the Edit and Write tools, for all texts, all lists of      *)
(* edits, and any number of calls and of changes by other programs.        *)
(***************************************************************************)
EXTENDS Stores, FileEdit, WellFoundedInduction, TLAPS

File == [st : {"none", "torn", "whole"}, mem : [Id -> Nat], wd : Dir \cup {None},
         messages : Seq(Session)]

\* Every variable has its type.
StoreType ==
    /\ part \in {"memory", "session"}
    /\ up \in BOOLEAN /\ closing \in BOOLEAN /\ full \in BOOLEAN /\ dirty \in BOOLEAN
    /\ unread \in BOOLEAN
    /\ file \in [Path -> File] /\ tmp \in File /\ data \in File
    /\ at \in {"idle", "collect", "path", "open", "write", "rename"}
    /\ path \in Path /\ next \in Nat
    /\ since \in {"none", "saving", "saved"}
    /\ mem \in [Id -> Nat] /\ clock \in Nat
    /\ session \in Session /\ wd \in Dir /\ messages \in Seq(Session)
    /\ used \subseteq Session /\ adopted \subseteq Session

\* A save in progress: what it writes is whole, and at the rename the temporary
\* file holds all of it unless the disk was full; it writes to the memory file or
\* to a file of the current session, and names a directory there.
SaveInv ==
    /\ at = "idle" => path = MemFile /\ next = 1
    /\ at # "idle" => up /\ data.st = "whole"
    /\ at = "collect" => part = "memory"
    /\ at = "path" => part = "session"
    /\ at = "write" => tmp = Torn
    /\ at = "rename" => tmp = data \/ (tmp = Torn /\ full)
    /\ part = "memory" => path = MemFile
    /\ part = "session" /\ at \in {"open", "write", "rename"} =>
          path \in SessFile /\ path[2] = session
    /\ part = "session" /\ at # "idle" => data.wd \in Dir
    /\ \A p \in SessFile : file[p].st = "whole" => file[p].wd \in Dir

\* The memory store: a save runs only while dirty_ is set, and what a save that
\* nothing disturbed has collected so far is what is in memory.
MemInv ==
    part = "memory" =>
        /\ dirty => 1 <= Ids
        /\ at # "idle" => dirty
        /\ ~up => mem = NoMem /\ since = "none"
        /\ at = "collect" => next \in Id
        /\ since = "saving" =>
             /\ at = "collect" => \A i \in Id : i < next => data.mem[i] = mem[i]
             /\ at \in {"open", "write", "rename"} => data.mem = mem
        /\ SavedIsRead

\* ms are messages of session s, unless s was taken over.
Own(s, ms) == s \notin adopted => \A n \in DOMAIN ms : ms[n] = s

\* The session: its messages are its own, in memory, in what is being saved and
\* in its files.
SessInv ==
    /\ Own(session, messages)
    /\ ~up => messages = <<>>
    /\ part = "memory" => messages = <<>>
    /\ at # "idle" => Len(data.messages) <= Keep /\ Own(session, data.messages)
    /\ SessionFileOwn

StoreInv == StoreType /\ SaveInv /\ SavedWhole /\ MemInv /\ SessInv

\* What the two special contents of a file are.
LEMMA FileFacts ==
    /\ NoFile \in File /\ Torn \in File
    /\ NoFile.st = "none" /\ Torn.st = "torn"
    /\ NoFile.mem = NoMem /\ Torn.mem = NoMem /\ NoMem \in [Id -> Nat]
    /\ NoFile.messages = <<>> /\ Torn.messages = <<>>
    /\ MemFile \in Path /\ MemFile \notin SessFile
    /\ SessFile \subseteq Path
    /\ \A d \in Dir, s \in Session : <<d, s>> \in SessFile
<1>1. NoMem \in [Id -> Nat]
  BY DEF NoMem
<1>2. NoFile \in File /\ NoFile.st = "none" /\ NoFile.mem = NoMem /\ NoFile.messages = <<>>
  BY <1>1 DEF NoFile, File
<1>3. Torn \in File /\ Torn.st = "torn" /\ Torn.mem = NoMem /\ Torn.messages = <<>>
  BY <1>2 DEF Torn, File
<1>4. MemFile \notin SessFile
  BY NoneAssumption DEF MemFile, SessFile
<1> QED
  BY <1>1, <1>2, <1>3, <1>4 DEF Path, SessFile

\* The last messages of a sequence are at most Keep of its messages.
LEMMA LastKept ==
    ASSUME NEW ms \in Seq(Session)
    PROVE  /\ Last(ms) \in Seq(Session) /\ Len(Last(ms)) <= Keep
           /\ \A n \in DOMAIN Last(ms) : \E m \in DOMAIN ms : Last(ms)[n] = ms[m]
<1> USE BoundsAssumption
<1>1. CASE Len(ms) > Keep
  BY <1>1 DEF Last
<1>2. CASE ~(Len(ms) > Keep)
  BY <1>2 DEF Last
<1> QED
  BY <1>1, <1>2

\* What a save of the memory store begins with.
LEMMA BeginFacts ==
    ASSUME Begin
    PROVE  /\ at' = "collect" /\ since' = "saving" /\ UNCHANGED <<path, next, tmp>>
           /\ data' \in File /\ data'.st = "whole" /\ data'.messages = <<>>
BY FileFacts DEF Begin, NoFile, File

\* The entries in memory after the file was read: those of the file, when there
\* were none or the same ones before.
LEMMA LoadedFacts ==
    ASSUME StoreType
    PROVE  /\ Loaded \in [Id -> Nat]
           /\ mem = NoMem => Loaded = file[MemFile].mem
           /\ mem = file[MemFile].mem => Loaded = mem
<1>1. file[MemFile].mem \in [Id -> Nat] /\ mem \in [Id -> Nat]
  BY FileFacts DEF StoreType, File
<1> DEFINE found == file[MemFile].mem
<1> HIDE DEF found
<1>2. found \in [Id -> Nat] /\ mem \in [Id -> Nat]
  BY <1>1 DEF found
<1>3. Loaded = [i \in Id |-> IF found[i] # 0 THEN found[i] ELSE mem[i]]
  BY DEF Loaded, found
<1>4. Loaded \in [Id -> Nat]
  BY <1>2, <1>3
<1>5. mem = found => Loaded = mem
  BY <1>2, <1>3
<1>6. ASSUME mem = NoMem PROVE Loaded = found
  BY <1>2, <1>3, <1>6 DEF NoMem
<1> QED
  BY <1>4, <1>5, <1>6 DEF found

\* Init establishes the invariant.
LEMMA InitInv == Init => StoreInv
<1> SUFFICES ASSUME Init PROVE StoreInv
  OBVIOUS
<1> USE FileFacts DEF Init
<1>1. StoreType
  <2>1. file \in [Path -> File]
    OBVIOUS
  <2>2. up \in BOOLEAN /\ closing \in BOOLEAN /\ full \in BOOLEAN /\ dirty \in BOOLEAN
    OBVIOUS
  <2>3. messages \in Seq(Session) /\ used \subseteq Session /\ adopted \subseteq Session
    OBVIOUS
  <2> QED
    BY <2>1, <2>2, <2>3 DEF StoreType
<1>2. SaveInv /\ SavedWhole
  BY DEF SaveInv, SavedWhole
<1>3. MemInv
  BY DEF MemInv, SavedIsRead
<1>4. SessInv
  BY BoundsAssumption DEF SessInv, SessionFileOwn, Own, StoreType
<1> QED
  BY <1>1, <1>2, <1>3, <1>4 DEF StoreInv

\* No step leaves the types.
LEMMA TypeStep ==
    ASSUME StoreInv, Next PROVE StoreType'
<1> USE FileFacts, BoundsAssumption DEF StoreInv, StoreType, Running, disk, save,
        memory, state
<1>1. CASE OpenTmp
  BY <1>1 DEF OpenTmp
<1>2. CASE OpenFails
  BY <1>2 DEF OpenFails, Idle
<1>3. CASE WriteTmp
  BY <1>3 DEF WriteTmp
<1>4. CASE RenameTmp
  BY <1>4 DEF RenameTmp, Idle
<1>5. ASSUME NEW i \in Id, Store(i) PROVE StoreType'
  BY <1>5 DEF Store, Memory
<1>6. ASSUME NEW i \in Id, Touch(i) PROVE StoreType'
  BY <1>6 DEF Touch, Memory
<1>7. ASSUME NEW i \in Id, Erase(i) PROVE StoreType'
  BY <1>7 DEF Erase, Memory
<1>8. CASE Save
  BY <1>8, BeginFacts DEF Save, Memory
<1>9. CASE SaveCollects
  <2>1. data' \in File
    BY <1>9 DEF SaveCollects, Memory, File
  <2>2. next' \in Nat /\ at' \in {"open", "collect"}
    BY <1>9 DEF SaveCollects
  <2> QED
    BY <1>9, <2>1, <2>2 DEF SaveCollects, Memory
<1>10. CASE Destroy
  <2>1. CASE dirty
    BY <1>10, <2>1, BeginFacts DEF Destroy, Memory
  <2>2. CASE ~dirty
    BY <1>10, <2>2 DEF Destroy, Memory
  <2> QED
    BY <2>1, <2>2
<1>11. CASE Destroyed
  BY <1>11 DEF Destroyed
<1>12. CASE Reload
  BY <1>12, LoadedFacts DEF Reload, Memory, Unopened
<1>13. ASSUME NEW d \in Dir, SetWorkingDirectory(d) PROVE StoreType'
  BY <1>13 DEF SetWorkingDirectory, Sess
<1>14. ASSUME NEW s \in Session, RestoreSession(s) PROVE StoreType'
  <2> DEFINE f == file[<<wd, s>>]
  <2>1. f \in File /\ (f.st = "whole" => f.wd \in Dir)
    BY DEF SaveInv
  <2>2. session' \in Session /\ wd' \in Dir /\ messages' \in Seq(Session)
    BY <1>14, <2>1 DEF RestoreSession, File
  <2>3. used' \subseteq Session /\ adopted' \subseteq Session
    BY <1>14 DEF RestoreSession
  <2> QED
    BY <1>14, <2>2, <2>3 DEF RestoreSession, Sess
<1>15. CASE PushMessage
  BY <1>15 DEF PushMessage, Sess, Unlocked
<1>16. CASE ClearMessages
  BY <1>16 DEF ClearMessages, Sess, Unlocked
<1>17. CASE NewSession
  BY <1>17 DEF NewSession, Sess, Unlocked
<1>18. CASE SaveSession
  <2>1. data' \in File
    BY <1>18, LastKept DEF SaveSession, File
  <2> QED
    BY <1>18, <2>1 DEF SaveSession, Sess
<1>19. CASE SavePath
  BY <1>19 DEF SavePath, Sess
<1>20. CASE Crash
  <2>1. up' \in BOOLEAN /\ closing' \in BOOLEAN /\ dirty' \in BOOLEAN
    BY <1>20 DEF Crash
  <2>2. mem' \in [Id -> Nat] /\ messages' \in Seq(Session)
    BY <1>20 DEF Crash
  <2> QED
    BY <1>20, <2>1, <2>2 DEF Crash, Idle
<1>21. CASE Restart
  <2>1. mem' \in [Id -> Nat]
    BY <1>21, LoadedFacts DEF Restart, Unopened
  <2>2. session' \in Session /\ used' \subseteq Session /\ wd' \in Dir
    BY <1>21 DEF Restart
  <2>3. up' \in BOOLEAN
    BY <1>21 DEF Restart
  <2> QED
    BY <1>21, <2>1, <2>2, <2>3 DEF Restart
<1> QED
  BY <1>1, <1>2, <1>3, <1>4, <1>5, <1>6, <1>7, <1>8, <1>9, <1>10, <1>11,
     <1>12, <1>13, <1>14, <1>15, <1>16, <1>17, <1>18, <1>19, <1>20, <1>21 DEF Next

\* Every step keeps what holds of a save in progress.
LEMMA SaveStep ==
    ASSUME StoreInv, Next PROVE SaveInv'
<1> USE FileFacts, BoundsAssumption DEF StoreInv, StoreType, SaveInv, Running, disk,
        save, memory, state
<1>1. CASE OpenTmp
  BY <1>1 DEF OpenTmp
<1>2. CASE OpenFails
  BY <1>2 DEF OpenFails, Idle
<1>3. CASE WriteTmp
  BY <1>3 DEF WriteTmp
<1>4. CASE RenameTmp
  BY <1>4 DEF RenameTmp, Idle
<1>5. ASSUME NEW i \in Id, Store(i) PROVE SaveInv'
  BY <1>5 DEF Store, Memory
<1>6. ASSUME NEW i \in Id, Touch(i) PROVE SaveInv'
  BY <1>6 DEF Touch, Memory
<1>7. ASSUME NEW i \in Id, Erase(i) PROVE SaveInv'
  BY <1>7 DEF Erase, Memory
<1>8. CASE Save
  BY <1>8, BeginFacts DEF Save, Memory
<1>9. CASE SaveCollects
  BY <1>9 DEF SaveCollects, Memory
<1>10. CASE Destroy
  <2>1. CASE dirty
    BY <1>10, <2>1, BeginFacts DEF Destroy, Memory
  <2>2. CASE ~dirty
    BY <1>10, <2>2 DEF Destroy, Memory
  <2> QED
    BY <2>1, <2>2
<1>11. CASE Destroyed
  BY <1>11 DEF Destroyed
<1>12. CASE Reload
  BY <1>12 DEF Reload, Memory, Loaded, Unopened
<1>13. ASSUME NEW d \in Dir, SetWorkingDirectory(d) PROVE SaveInv'
  BY <1>13 DEF SetWorkingDirectory, Sess
<1>14. ASSUME NEW s \in Session, RestoreSession(s) PROVE SaveInv'
  BY <1>14 DEF RestoreSession, Sess, Unlocked
<1>15. CASE PushMessage
  BY <1>15 DEF PushMessage, Sess, Unlocked
<1>16. CASE ClearMessages
  BY <1>16 DEF ClearMessages, Sess, Unlocked
<1>17. CASE NewSession
  BY <1>17 DEF NewSession, Sess, Unlocked
<1>18. CASE SaveSession
  BY <1>18 DEF SaveSession, Sess, Unlocked
<1>19. CASE SavePath
  BY <1>19 DEF SavePath, Sess
<1>20. CASE Crash
  BY <1>20 DEF Crash, Idle
<1>21. CASE Restart
  BY <1>21 DEF Restart, Loaded, Unopened
<1> QED
  BY <1>1, <1>2, <1>3, <1>4, <1>5, <1>6, <1>7, <1>8, <1>9, <1>10, <1>11,
     <1>12, <1>13, <1>14, <1>15, <1>16, <1>17, <1>18, <1>19, <1>20, <1>21 DEF Next

\* Every step leaves the files whole.
LEMMA WholeStep ==
    ASSUME StoreInv, Next PROVE SavedWhole'
<1> USE FileFacts, BoundsAssumption DEF StoreInv, StoreType, SaveInv, SavedWhole,
        Running, disk, save, memory, state
<1>1. CASE OpenTmp
  BY <1>1 DEF OpenTmp
<1>2. CASE OpenFails
  BY <1>2 DEF OpenFails, Idle
<1>3. CASE WriteTmp
  BY <1>3 DEF WriteTmp
<1>4. CASE RenameTmp
  BY <1>4 DEF RenameTmp, Idle
<1>5. ASSUME NEW i \in Id, Store(i) PROVE SavedWhole'
  BY <1>5 DEF Store, Memory
<1>6. ASSUME NEW i \in Id, Touch(i) PROVE SavedWhole'
  BY <1>6 DEF Touch, Memory
<1>7. ASSUME NEW i \in Id, Erase(i) PROVE SavedWhole'
  BY <1>7 DEF Erase, Memory
<1>8. CASE Save
  BY <1>8 DEF Save, Memory, Begin
<1>9. CASE SaveCollects
  BY <1>9 DEF SaveCollects, Memory
<1>10. CASE Destroy
  BY <1>10 DEF Destroy, Memory, Begin
<1>11. CASE Destroyed
  BY <1>11 DEF Destroyed
<1>12. CASE Reload
  BY <1>12 DEF Reload, Memory, Loaded, Unopened
<1>13. ASSUME NEW d \in Dir, SetWorkingDirectory(d) PROVE SavedWhole'
  BY <1>13 DEF SetWorkingDirectory, Sess
<1>14. ASSUME NEW s \in Session, RestoreSession(s) PROVE SavedWhole'
  BY <1>14 DEF RestoreSession, Sess, Unlocked
<1>15. CASE PushMessage
  BY <1>15 DEF PushMessage, Sess, Unlocked
<1>16. CASE ClearMessages
  BY <1>16 DEF ClearMessages, Sess, Unlocked
<1>17. CASE NewSession
  BY <1>17 DEF NewSession, Sess, Unlocked
<1>18. CASE SaveSession
  BY <1>18 DEF SaveSession, Sess, Unlocked
<1>19. CASE SavePath
  BY <1>19 DEF SavePath, Sess
<1>20. CASE Crash
  BY <1>20 DEF Crash, Idle
<1>21. CASE Restart
  BY <1>21 DEF Restart, Loaded, Unopened
<1> QED
  BY <1>1, <1>2, <1>3, <1>4, <1>5, <1>6, <1>7, <1>8, <1>9, <1>10, <1>11,
     <1>12, <1>13, <1>14, <1>15, <1>16, <1>17, <1>18, <1>19, <1>20, <1>21 DEF Next

\* Every step keeps what holds of the memory store.
LEMMA MemStep ==
    ASSUME StoreInv, Next PROVE MemInv'
<1> USE FileFacts, BoundsAssumption DEF StoreInv, StoreType, SaveInv, MemInv, SavedIsRead,
        Running, disk, save, memory, state
<1>1. CASE OpenTmp
  BY <1>1 DEF OpenTmp
<1>2. CASE OpenFails
  BY <1>2 DEF OpenFails, Idle
<1>3. CASE WriteTmp
  BY <1>3 DEF WriteTmp
<1>4. CASE RenameTmp
  BY <1>4 DEF RenameTmp, Idle
<1>5. ASSUME NEW i \in Id, Store(i) PROVE MemInv'
  <2>1. dirty' /\ since' = "none" /\ 1 <= Ids
    BY <1>5 DEF Store, Id
  <2> QED
    BY <1>5, <2>1 DEF Store, Memory
<1>6. ASSUME NEW i \in Id, Touch(i) PROVE MemInv'
  <2>1. dirty' /\ since' = "none" /\ 1 <= Ids
    BY <1>6 DEF Touch, Id
  <2> QED
    BY <1>6, <2>1 DEF Touch, Memory
<1>7. ASSUME NEW i \in Id, Erase(i) PROVE MemInv'
  <2>1. dirty' /\ since' = "none" /\ 1 <= Ids
    BY <1>7 DEF Erase, Id
  <2> QED
    BY <1>7, <2>1 DEF Erase, Memory
<1>8. CASE Save
  BY <1>8, BeginFacts DEF Save, Memory, Id
<1>9. CASE SaveCollects
  <2>1. /\ part = "memory" /\ part' = part /\ up /\ up'
        /\ dirty /\ 1 <= Ids /\ next \in Id
    BY <1>9 DEF SaveCollects, Memory
  <2>2. UNCHANGED <<dirty, mem, since, file>>
    BY <1>9 DEF SaveCollects, Memory
  <2>3. at' = "collect" => next' \in Id
    BY <1>9, <2>1 DEF SaveCollects, Id
  <2>4. /\ data'.mem = [data.mem EXCEPT ![next] = mem[next]]
        /\ data.mem \in [Id -> Nat] /\ mem \in [Id -> Nat]
    BY <1>9 DEF SaveCollects, File
  <2>5. ASSUME since = "saving", at' = "collect", NEW i \in Id, i < next'
        PROVE  data'.mem[i] = mem[i]
    <3>1. i <= next
      BY <1>9, <2>1, <2>5 DEF SaveCollects, Id
    <3>2. CASE i = next
      BY <2>1, <2>4, <3>2
    <3>3. CASE i < next
      <4>1. data.mem[i] = mem[i]
        BY <1>9, <2>1, <2>5, <3>3 DEF SaveCollects
      <4> QED
        BY <2>1, <2>4, <3>3, <4>1 DEF Id
    <3> QED
      BY <3>1, <3>2, <3>3 DEF Id
  <2>6. ASSUME since = "saving", at' \in {"open", "write", "rename"} PROVE data'.mem = mem
    <3>1. next = Ids
      BY <1>9, <2>6 DEF SaveCollects
    <3>2. \A i \in Id : data'.mem[i] = mem[i]
      BY <1>9, <2>1, <2>4, <2>6, <3>1 DEF SaveCollects, Id
    <3> QED
      BY <2>4, <3>2
  <2> QED
    BY <2>1, <2>2, <2>3, <2>5, <2>6
<1>10. CASE Destroy
  <2>1. CASE dirty
    BY <1>10, <2>1, BeginFacts DEF Destroy, Memory, Id
  <2>2. CASE ~dirty
    BY <1>10, <2>2 DEF Destroy, Memory
  <2> QED
    BY <2>1, <2>2
<1>11. CASE Destroyed
  BY <1>11 DEF Destroyed
<1>12. CASE Reload
  BY <1>12, LoadedFacts DEF Reload, Memory, Unopened
<1>13. ASSUME NEW d \in Dir, SetWorkingDirectory(d) PROVE MemInv'
  BY <1>13 DEF SetWorkingDirectory, Sess
<1>14. ASSUME NEW s \in Session, RestoreSession(s) PROVE MemInv'
  BY <1>14 DEF RestoreSession, Sess, Unlocked
<1>15. CASE PushMessage
  BY <1>15 DEF PushMessage, Sess, Unlocked
<1>16. CASE ClearMessages
  BY <1>16 DEF ClearMessages, Sess, Unlocked
<1>17. CASE NewSession
  BY <1>17 DEF NewSession, Sess, Unlocked
<1>18. CASE SaveSession
  BY <1>18 DEF SaveSession, Sess, Unlocked
<1>19. CASE SavePath
  BY <1>19 DEF SavePath, Sess
<1>20. CASE Crash
  BY <1>20 DEF Crash, Idle
<1>21. CASE Restart
  BY <1>21, LoadedFacts DEF Restart, Unopened
<1> QED
  BY <1>1, <1>2, <1>3, <1>4, <1>5, <1>6, <1>7, <1>8, <1>9, <1>10, <1>11,
     <1>12, <1>13, <1>14, <1>15, <1>16, <1>17, <1>18, <1>19, <1>20, <1>21 DEF Next

\* Every step keeps the messages of sessions apart.
LEMMA SessStep ==
    ASSUME StoreInv, Next PROVE SessInv'
<1> USE FileFacts, BoundsAssumption DEF StoreInv, StoreType, SaveInv, SessInv,
        SessionFileOwn, Own, Running, disk, save, memory, state
<1>1. CASE OpenTmp
  BY <1>1 DEF OpenTmp
<1>2. CASE OpenFails
  BY <1>2 DEF OpenFails, Idle
<1>3. CASE WriteTmp
  BY <1>3 DEF WriteTmp
<1>4. CASE RenameTmp
  BY <1>4 DEF RenameTmp, Idle
<1>5. ASSUME NEW i \in Id, Store(i) PROVE SessInv'
  BY <1>5 DEF Store, Memory
<1>6. ASSUME NEW i \in Id, Touch(i) PROVE SessInv'
  BY <1>6 DEF Touch, Memory
<1>7. ASSUME NEW i \in Id, Erase(i) PROVE SessInv'
  BY <1>7 DEF Erase, Memory
<1>8. CASE Save
  BY <1>8, BeginFacts DEF Save, Memory
<1>9. CASE SaveCollects
  BY <1>9 DEF SaveCollects, Memory
<1>10. CASE Destroy
  <2>1. CASE dirty
    BY <1>10, <2>1, BeginFacts DEF Destroy, Memory
  <2>2. CASE ~dirty
    BY <1>10, <2>2 DEF Destroy, Memory
  <2> QED
    BY <2>1, <2>2
<1>11. CASE Destroyed
  BY <1>11 DEF Destroyed
<1>12. CASE Reload
  BY <1>12 DEF Reload, Memory, Loaded, Unopened
<1>13. ASSUME NEW d \in Dir, SetWorkingDirectory(d) PROVE SessInv'
  BY <1>13 DEF SetWorkingDirectory, Sess
<1>14. ASSUME NEW s \in Session, RestoreSession(s) PROVE SessInv'
  <2> DEFINE p == <<wd, s>>
         f == file[p]
  <2>1. p \in SessFile /\ p[2] = s /\ f \in File
    OBVIOUS
  <2>2. Own(s, f.messages)
    <3> HIDE DEF p
    <3> QED
      BY <2>1
  <2>3. adopted \subseteq adopted'
    BY <1>14 DEF RestoreSession
  <2>4. Own(session, messages)'
    <3>1. CASE UNCHANGED <<session, messages>>
      BY <2>3, <3>1
    <3>2. CASE session' = s /\ messages' = f.messages
      BY <2>2, <2>3, <3>2
    <3>3. CASE session' = s /\ messages' = messages /\ messages = <<>>
      BY <3>3
    <3>4. CASE session' = s /\ s \in adopted'
      BY <3>4
    <3> QED
      BY <1>14, <3>1, <3>2, <3>3, <3>4 DEF RestoreSession
  <2>5. SessionFileOwn'
    BY <1>14, <2>3 DEF RestoreSession
  <2> QED
    BY <1>14, <2>4, <2>5 DEF RestoreSession, Sess, Unlocked
<1>15. CASE PushMessage
  BY <1>15 DEF PushMessage, Sess, Unlocked
<1>16. CASE ClearMessages
  BY <1>16 DEF ClearMessages, Sess, Unlocked
<1>17. CASE NewSession
  BY <1>17 DEF NewSession, Sess, Unlocked
<1>18. CASE SaveSession
  BY <1>18, LastKept DEF SaveSession, Sess, Unlocked
<1>19. CASE SavePath
  BY <1>19 DEF SavePath, Sess
<1>20. CASE Crash
  BY <1>20 DEF Crash, Idle
<1>21. CASE Restart
  BY <1>21 DEF Restart, Loaded, Unopened
<1> QED
  BY <1>1, <1>2, <1>3, <1>4, <1>5, <1>6, <1>7, <1>8, <1>9, <1>10, <1>11,
     <1>12, <1>13, <1>14, <1>15, <1>16, <1>17, <1>18, <1>19, <1>20, <1>21 DEF Next

\* A step that changes nothing keeps the invariant.
LEMMA StutterStep == ASSUME StoreInv, UNCHANGED vars PROVE StoreInv'
BY DEF StoreInv, StoreType, SaveInv, SavedWhole, MemInv, SavedIsRead, SessInv, SessionFileOwn, Own,
       vars, disk, save, memory, state

\* The saves of both stores keep their invariant for every bound.
THEOREM StoreInvariant == Spec => []StoreInv
<1>1. StoreInv /\ [Next]_vars => StoreInv'
  BY TypeStep, SaveStep, WholeStep, MemStep, SessStep, StutterStep DEF StoreInv
<1> QED
  BY InitInv, <1>1, PTL DEF Spec

\* A file is as some save wrote it to the end, wherever the process was killed,
\* unless the disk was full.
THEOREM SavedWholeSafe == Spec => []SavedWhole
<1>1. StoreInv => SavedWhole
  BY DEF StoreInv
<1> QED
  BY StoreInvariant, <1>1, PTL

\* What is in memory is what the next start reads, after a save that nothing
\* disturbed and while dirty_ is not set, unless the process could not open the
\* file when it started.
THEOREM ReadSafe == Spec => []SavedIsRead
<1>1. StoreInv => SavedIsRead
  BY DEF StoreInv, MemInv, SavedIsRead
<1> QED
  BY StoreInvariant, <1>1, PTL

\* A session's file has only messages of that session, the last Keep at most.
THEOREM OwnSafe == Spec => []SessionFileOwn
<1>1. StoreInv => SessionFileOwn
  BY DEF StoreInv, SessInv
<1> QED
  BY StoreInvariant, <1>1, PTL

-----------------------------------------------------------------------------
(* The Edit and Write tools.                                               *)

\* Times never run ahead of the clock that the next write takes its time from.
ClockInv ==
    /\ now \in Nat /\ version \in Nat
    /\ mtime \in Nat /\ mtime <= now
    /\ stamp \in Nat /\ stamp <= now
    /\ tempTime \in Nat /\ tempTime <= now

\* The temporary file exists from its writing to its renaming only, or stays
\* behind a call that could not remove it.
TempInv ==
    temp # NoTemp => pc \in {"rename", "cleanup"} \/ (pc = "idle" /\ result = "threw")

\* The edits applied so far are the first k, each to what the others have made;
\* what all of them are to make of the content read counts as intended.  So,
\* where the disk does not fill up, what is about to be renamed over the file
\* is intended as a whole.
WholeInv ==
    /\ pc \in {"stat", "read", "apply"} => Len(edits) \in Nat /\ k \in 0..Len(edits)
    /\ pc \in {"stat", "read"} => k = 0
    /\ pc = "apply" => /\ current \in Made(original, edits)[k]
                       /\ Edited(original, edits) \subseteq intended
    /\ pc = "temp" => current \in intended
    /\ ~fills => /\ exists => content \in intended
                 /\ pc = "rename" => temp \in intended

\* Between the reading and the check: a file that still has the noted time
\* has not been touched since it was read, for a write by another program
\* gets a later time, and a removal is only undone by such a write.
StaleInv ==
    fine => /\ pc = "apply" /\ exists /\ mtime = stamp => version = readVersion
            /\ mode # "write" /\ pc \in {"temp", "rename"} => checkVersion = readVersion

EditInv == ClockInv /\ TempInv /\ WholeInv /\ StaleInv

\* A set of numbers that is not empty has a least one.
LEMMA LeastNat ==
    ASSUME NEW T, T \subseteq Nat, T # {}
    PROVE  \E m \in T : \A n \in T : m <= n
<1>1. PICK m \in T : \A n \in T : <<n, m>> \notin OpToRel(<, Nat)
  BY WFMin, NatLessThanWellFounded, Zenon
<1>2. \A n \in T : ~(n < m)
  BY <1>1, Zenon DEF OpToRel
<1>3. QED
  BY <1>2

\* A set of numbers up to n that has 0, and has i when it has i - 1, has them
\* all.
LEMMA Upto ==
    ASSUME NEW n \in Nat, NEW P, 0 \in P,
           \A i \in 1..n : i - 1 \in P => i \in P
    PROVE  \A i \in 0..n : i \in P
<1> DEFINE Bad == { i \in 0..n : i \notin P }
<1> SUFFICES ASSUME Bad # {} PROVE FALSE
  OBVIOUS
<1>1. Bad \subseteq Nat
  OBVIOUS
<1>2. PICK m \in Bad : \A i \in Bad : m <= i
  <2> HIDE DEF Bad
  <2> QED BY <1>1, LeastNat
<1>3. m \in 1..n /\ m - 1 \in 0..n /\ m - 1 \notin Bad
  BY <1>2
<1> QED
  BY <1>2, <1>3

\* f is a table of what the first edits of es make of text, up to the n-th.
Stages(f, text, es, n) ==
    /\ DOMAIN f = 0..n
    /\ f[0] = {text}
    /\ \A i \in 1..n : f[i] = MadeBy(es[i], f[i - 1])

\* Made is such a table: its recursion has a solution.
LEMMA MadeStages ==
    ASSUME NEW text, NEW es, Len(es) \in Nat
    PROVE  Stages(Made(text, es), text, es, Len(es))
<1> DEFINE Has(n) == \E f : f = [i \in 0..n |-> f[i]] /\ Stages(f, text, es, n)
           N == { n \in 0..Len(es) : Has(n) }
<1>1. Has(0)
  <2> DEFINE f == [i \in 0..0 |-> {text}]
  <2>1. f = [i \in 0..0 |-> f[i]] /\ Stages(f, text, es, 0)
    BY DEF Stages
  <2> QED BY <2>1
<1>2. ASSUME NEW n \in 1..Len(es), Has(n - 1) PROVE Has(n)
  <2>1. PICK f : Stages(f, text, es, n - 1)
    BY <1>2
  <2> DEFINE x == MadeBy(es[n], f[n - 1])
             g == [i \in 0..n |-> IF i = n THEN x ELSE f[i]]
  <2> HIDE DEF x
  <2>2. g = [i \in 0..n |-> g[i]]
    OBVIOUS
  <2>3. g[0] = {text}
    BY <1>2, <2>1 DEF Stages
  <2>4. ASSUME NEW i \in 1..n PROVE g[i] = MadeBy(es[i], g[i - 1])
    <3>1. CASE i = n
      <4>1. g[i - 1] = f[n - 1] /\ g[i] = x
        BY <3>1, <1>2
      <4> QED BY <4>1, <3>1 DEF x
    <3>2. CASE i # n
      <4>1. i \in 1..(n - 1) /\ g[i] = f[i] /\ g[i - 1] = f[i - 1]
        BY <3>2, <1>2
      <4> QED BY <4>1, <2>1 DEF Stages
    <3> QED BY <3>1, <3>2
  <2>5. DOMAIN g = 0..n
    OBVIOUS
  <2> HIDE DEF g
  <2>6. Stages(g, text, es, n)
    BY <2>3, <2>4, <2>5 DEF Stages
  <2> QED BY <2>2, <2>6
<1>3. Has(Len(es))
  <2> HIDE DEF Has
  <2>1. 0 \in N
    BY <1>1
  <2>2. \A i \in 1..Len(es) : i - 1 \in N => i \in N
    BY <1>2
  <2>3. \A n \in 0..Len(es) : n \in N
    <3> HIDE DEF N
    <3> QED BY <2>1, <2>2, Upto
  <2> QED BY <2>3
<1>4. PICK f : f = [i \in 0..Len(es) |-> f[i]] /\ Stages(f, text, es, Len(es))
  BY <1>3
<1> DEFINE At(g, i) == IF i = 0 THEN {text} ELSE MadeBy(es[i], g[i - 1])
           IsMade(g) == g = [i \in 0..Len(es) |-> At(g, i)]
           made == CHOOSE g : IsMade(g)
<1>5. ASSUME NEW i \in 0..Len(es) PROVE f[i] = At(f, i)
  <2>1. CASE i = 0
    BY <1>4, <2>1 DEF Stages
  <2>2. CASE i # 0
    <3>1. i \in 1..Len(es)
      BY <2>2
    <3> QED BY <1>4, <3>1, <2>2 DEF Stages
  <2> QED BY <2>1, <2>2
<1>6. IsMade(made)
  <2>1. IsMade(f)
    <3> HIDE DEF At
    <3>1. f = [i \in 0..Len(es) |-> f[i]]
      BY <1>4
    <3>2. [i \in 0..Len(es) |-> f[i]] = [i \in 0..Len(es) |-> At(f, i)]
      BY <1>5
    <3> QED BY <3>1, <3>2, Zenon
  <2> HIDE DEF IsMade
  <2> QED BY <2>1, Zenon
<1>7. Made(text, es) = made
  BY Zenon DEF Made
<1> HIDE DEF made
<1>8. DOMAIN made = 0..Len(es) /\ \A i \in 0..Len(es) : made[i] = At(made, i)
  <2> HIDE DEF At
  <2> QED BY <1>6
<1>9. made[0] = {text}
  BY <1>8
<1>10. ASSUME NEW i \in 1..Len(es) PROVE made[i] = MadeBy(es[i], made[i - 1])
  BY <1>8
<1> QED
  BY <1>7, <1>8, <1>9, <1>10, Zenon DEF Stages

\* The state before the first call.
LEMMA InitEditInv == EditInit => EditInv
  BY DEF EditInit, EditInv, ClockInv, TempInv, WholeInv, StaleInv

\* Every step of a call, and of the programs beside it, keeps EditInv.
LEMMA NextEditInv == EditInv /\ [EditNext]_editVars => EditInv'
  <1> SUFFICES ASSUME EditInv, [EditNext]_editVars PROVE EditInv'
    OBVIOUS
  <1> USE DEF EditInv, ClockInv, TempInv, WholeInv, StaleInv, Return, Ticks,
              fileVars, tempVars, callVars
  <1>0. CASE UNCHANGED editVars
    BY <1>0 DEF editVars
  <1>1. CASE Edit
    BY <1>1, EditListsAssumption DEF Edit
  <1>2. CASE Stat
    BY <1>2 DEF Stat
  <1>3. CASE Read
    <2>1. CASE exists
      <3>1. Made(content, edits)[0] = {content}
        BY <1>3, MadeStages DEF Read, Stages
      <3>2. current' \in Made(original', edits')[k'] /\ Edited(original', edits') \subseteq intended'
        BY <1>3, <2>1, <3>1 DEF Read
      <3> QED BY <1>3, <2>1, <3>2 DEF Read
    <2>2. CASE ~exists
      BY <1>3, <2>2 DEF Read
    <2> QED BY <2>1, <2>2
  <1>4. CASE Apply
    <2>1. CASE Replaceable(current, edits[k + 1])
      <3>1. k \in Nat /\ k + 1 \in 1..Len(edits) /\ Len(edits) \in Nat
        BY <1>4 DEF Apply
      <3>2. Made(original, edits)[k + 1] = MadeBy(edits[k + 1], Made(original, edits)[k])
        BY <3>1, MadeStages DEF Stages
      <3>3. Replace(current, edits[k + 1]) \in Made(original, edits)[k + 1]
        BY <1>4, <2>1, <3>2 DEF Apply, MadeBy
      <3>4. current' \in Made(original', edits')[k'] /\ k' \in 0..Len(edits')
        BY <1>4, <2>1, <3>1, <3>3 DEF Apply
      <3> QED BY <1>4, <2>1, <3>4 DEF Apply
    <2>2. CASE ~Replaceable(current, edits[k + 1])
      BY <1>4, <2>2 DEF Apply
    <2> QED BY <2>1, <2>2
  <1>5. CASE Check
    BY <1>5 DEF Check, Edited
  <1>6. CASE Write
    BY <1>6 DEF Write
  <1>7. CASE WriteTemp
    BY <1>7 DEF WriteTemp
  <1>8. CASE TempFails
    BY <1>8 DEF TempFails
  <1>9. CASE WriteShort
    BY <1>9 DEF WriteShort
  <1>10. CASE Rename
    BY <1>10 DEF Rename
  <1>11. CASE RenameFails
    BY <1>11 DEF RenameFails
  <1>12. CASE Report
    BY <1>12 DEF Report
  <1>13. CASE ForeignWrite
    BY <1>13 DEF ForeignWrite
  <1>14. CASE ForeignRemove
    BY <1>14 DEF ForeignRemove
  <1>15. CASE EditCrash
    BY <1>15 DEF EditCrash
  <1>16. CASE Cleanup
    BY <1>16 DEF Cleanup
  <1> QED BY <1>0, <1>1, <1>2, <1>3, <1>4, <1>5, <1>6, <1>7, <1>8, <1>9, <1>10,
             <1>11, <1>12, <1>13, <1>14, <1>15, <1>16 DEF EditNext

\* EditInv holds throughout.
THEOREM EditInvariant == EditSpec => []EditInv
  BY InitEditInv, NextEditInv, PTL DEF EditSpec

\* The file only ever holds what another program or a Write call wrote, or what
\* all the edits of a call make of the content it read, unless the disk fills up.
THEOREM WholeSafe == EditSpec => []FileWhole
  <1>1. EditInv => FileWhole
    BY DEF EditInv, WholeInv, FileWhole
  <1> QED BY <1>1, EditInvariant, PTL

\* No edit gets past the modification check when the file was changed after
\* it was read, on a file system whose times tell writes apart.
THEOREM StaleSafe == EditSpec => []StaleEditCaught
  <1>1. EditInv => StaleEditCaught
    BY DEF EditInv, StaleInv, StaleEditCaught
  <1> QED BY <1>1, EditInvariant, PTL

\* A call leaves its temporary file only when it reports that it could not be
\* removed.
THEOREM TempSafe == EditSpec => []NoTempLeft
  <1>1. EditInv => NoTempLeft
    BY DEF EditInv, TempInv, NoTempLeft
  <1> QED BY <1>1, EditInvariant, PTL
=============================================================================
