------------------------ MODULE StreamClientProofs ------------------------
(* The streaming client for any number of retries, blocks and deltas: what *)
(* the response holds while the events of a stream arrive, how many        *)
(* transfers a call begins, and that each of its steps is a step of the    *)
(* abstract call interface MessageApi or changes nothing there.            *)
EXTENDS StreamClient, TLAPS

ContentBlock == [type : BlockTypes, text : Nat, input : Nat]
ServedBlock == [type : BlockTypes, deltas : Nat, closed : BOOLEAN]

\* An accumulator whose block being filled is one of its blocks.
Sound(acc) == acc \in Accumulator /\ acc.cur <= Len(acc.blocks)

\* The server has a block open.
Open(srv) == srv # <<>> /\ ~srv[Len(srv)].closed

\* Block b of the response holds what the server sent of its block s.
Holds(b, s) ==
    /\ b.type = s.type
    /\ b.type = "text" => b.text = s.deltas
    /\ b.type # "text" /\ s.closed => b.input = s.deltas

\* The accumulator follows the server: the blocks agree, only the last one
\* can be open, and it is the one current_block points at.
Synced(acc, srv) ==
    /\ ~acc.stale
    /\ Len(acc.blocks) = Len(srv)
    /\ \A i \in 1..Len(srv) : Holds(acc.blocks[i], srv[i])
    /\ \A i \in 1..Len(srv) : i # Len(srv) => srv[i].closed
    /\ acc.cur = IF Open(srv) THEN Len(srv) ELSE 0
    /\ Open(srv) /\ srv[Len(srv)].type = "tool_use" => acc.buf = srv[Len(srv)].deltas

-----------------------------------------------------------------------------
\* The types, as the provers need them.
TypeInv == TypeOK /\ resp.cur <= Len(resp.blocks)

\* How many transfers have begun, and how many of them after an abort, at
\* each place of the retry loop.
CountInv ==
    /\ pc = "build" => starts = 0 /\ attempt = 0
    /\ pc \in {"top", "backoff", "perform"} => starts = attempt
    /\ pc \in {"transfer", "judge"} => starts = attempt + 1
    /\ pc # "idle" /\ (code # "none" \/ resp.stop = "tool_use") => starts > 0
    /\ pc \in {"build", "top", "backoff", "perform"} => lateStarts = 0
    /\ lateStarts <= 1
    /\ lateStarts > 0 => aborted

\* The response is empty whenever a transfer is about to begin.
FreshInv ==
    pc \in {"build", "perform"} \/ (pc = "top" /\ attempt = 0) => resp = EmptyAcc

\* The response of a streaming call follows the server's events.
StreamInv ==
    mode = "stream" /\ ~errs =>
        /\ pc \notin {"idle", "perform"} =>
              /\ Synced(resp, served)
              /\ resp.stop = "tool_use" => phase = "stopped"
              /\ phase = "stopped" => ~Open(served)
        /\ pc = "idle" /\ result = "tools" => Synced(resp, served) /\ ~Open(served)

ClientInv == TypeInv /\ CountInv /\ FreshInv /\ StreamInv

-----------------------------------------------------------------------------
(* The operators that assemble the response.                               *)

\* The empty accumulator is sound, and agrees with a server that has sent
\* nothing.
LEMMA EmptySound == Sound(EmptyAcc) /\ Synced(EmptyAcc, <<>>)
  <1>1. EmptyAcc \in Accumulator
    BY DEF EmptyAcc, Accumulator
  <1> QED BY <1>1 DEF EmptyAcc, Sound, Synced, Open

\* A new block is appended and becomes the block being filled.
LEMMA BlockStartSound ==
  ASSUME NEW acc, Sound(acc), NEW t \in BlockTypes
  PROVE  /\ Sound(OnBlockStart(acc, t))
         /\ OnBlockStart(acc, t).stop = acc.stop
  <1>1. Block(t) \in ContentBlock
    BY DEF Block, ContentBlock
  <1>2. /\ acc.blocks \in Seq(ContentBlock) /\ acc.cur \in Nat /\ acc.buf \in Nat
        /\ acc.stop \in {"none", "end_turn", "tool_use", "error"}
    BY DEF Sound, Accumulator, ContentBlock
  <1>3. Append(acc.blocks, Block(t)) \in Seq(ContentBlock)
    BY <1>1, <1>2
  <1>4. Len(Append(acc.blocks, Block(t))) = Len(acc.blocks) + 1
    BY <1>1, <1>2
  <1>5. OnBlockStart(acc, t) \in Accumulator
    <2> DEFINE bs == Append(acc.blocks, Block(t))
               c == Len(acc.blocks) + 1
               n == IF t = "tool_use" THEN 0 ELSE acc.buf
               f == FALSE
    <2>1. OnBlockStart(acc, t) = [acc EXCEPT !.blocks = bs, !.cur = c, !.stale = f, !.buf = n]
      BY DEF OnBlockStart
    <2>2. bs \in Seq(ContentBlock) /\ c \in Nat /\ n \in Nat /\ f \in BOOLEAN
      BY <1>2, <1>3
    <2> HIDE DEF bs, c, n, f
    <2> QED BY <2>1, <2>2 DEF Sound, Accumulator, ContentBlock
  <1>6. /\ OnBlockStart(acc, t).blocks = Append(acc.blocks, Block(t))
        /\ OnBlockStart(acc, t).cur = Len(acc.blocks) + 1
        /\ OnBlockStart(acc, t).stop = acc.stop
    BY DEF OnBlockStart, Sound, Accumulator
  <1> QED BY <1>4, <1>5, <1>6 DEF Sound

\* A delta changes neither the number of blocks nor the stop reason.
LEMMA DeltaSound ==
  ASSUME NEW acc, Sound(acc)
  PROVE  /\ Sound(OnDelta(acc))
         /\ OnDelta(acc).stop = acc.stop
  <1>1. /\ acc.blocks \in Seq(ContentBlock) /\ acc.cur \in Nat /\ acc.buf \in Nat
        /\ acc.cur <= Len(acc.blocks)
    BY DEF Sound, Accumulator, ContentBlock
  <1>2. CASE acc.cur = 0
    BY <1>2 DEF OnDelta
  <1>3. CASE acc.cur # 0 /\ acc.blocks[acc.cur].type = "tool_use"
    <2>1. OnDelta(acc) = [acc EXCEPT !.buf = @ + 1]
      BY <1>3 DEF OnDelta
    <2>2. /\ acc.buf + 1 \in Nat
          /\ OnDelta(acc).stop = acc.stop
          /\ OnDelta(acc).cur = acc.cur
          /\ OnDelta(acc).blocks = acc.blocks
      BY <1>1, <2>1 DEF Sound, Accumulator
    <2>3. OnDelta(acc) \in Accumulator
      BY <2>1, <2>2 DEF Sound, Accumulator
    <2> QED BY <1>1, <2>2, <2>3 DEF Sound
  <1>4. CASE acc.cur # 0 /\ acc.blocks[acc.cur].type # "tool_use" /\ acc.stale
    BY <1>4 DEF OnDelta
  <1>5. CASE acc.cur # 0 /\ acc.blocks[acc.cur].type # "tool_use" /\ ~acc.stale
    <2>1. acc.cur \in 1..Len(acc.blocks) /\ acc.blocks[acc.cur] \in ContentBlock
      BY <1>1, <1>5
    <2>2. [acc.blocks[acc.cur] EXCEPT !.text = @ + 1] \in ContentBlock
      BY <2>1 DEF ContentBlock
    <2> DEFINE new == [acc.blocks EXCEPT ![acc.cur].text = @ + 1]
    <2>3. new \in Seq(ContentBlock) /\ Len(new) = Len(acc.blocks)
      BY <1>1, <2>1, <2>2
    <2>4. OnDelta(acc) = [acc EXCEPT !.blocks = new]
      BY <1>5 DEF OnDelta, Sound, Accumulator
    <2> HIDE DEF new
    <2> QED BY <2>3, <2>4 DEF Sound, Accumulator, ContentBlock
  <1> QED BY <1>2, <1>3, <1>4, <1>5

\* The end of a block stores the tool input and leaves no block current.
LEMMA BlockStopSound ==
  ASSUME NEW acc, Sound(acc)
  PROVE  /\ Sound(OnBlockStop(acc))
         /\ OnBlockStop(acc).stop = acc.stop
  <1>1. /\ acc.blocks \in Seq(ContentBlock) /\ acc.cur \in Nat /\ acc.buf \in Nat
        /\ acc.cur <= Len(acc.blocks)
    BY DEF Sound, Accumulator, ContentBlock
  <1> DEFINE f == FALSE
             z == 0
  <1>2. f \in BOOLEAN /\ z \in Nat
    OBVIOUS
  <1>3. CASE acc.cur = 0 \/ acc.blocks[acc.cur].type # "tool_use"
    <2>1. OnBlockStop(acc) = [acc EXCEPT !.cur = z, !.stale = f]
      BY <1>3 DEF OnBlockStop
    <2> HIDE DEF f, z
    <2>2. OnBlockStop(acc) \in Accumulator
      BY <1>2, <2>1 DEF Sound, Accumulator
    <2>3. /\ OnBlockStop(acc).cur = z /\ OnBlockStop(acc).blocks = acc.blocks
          /\ OnBlockStop(acc).stop = acc.stop
      BY <2>1 DEF Sound, Accumulator
    <2> QED BY <1>1, <2>2, <2>3 DEF Sound, z
  <1>4. CASE ~(acc.cur = 0 \/ acc.blocks[acc.cur].type # "tool_use")
    <2>1. acc.cur \in 1..Len(acc.blocks) /\ acc.blocks[acc.cur] \in ContentBlock
      BY <1>1, <1>4
    <2> DEFINE n == IF acc.stale THEN acc.blocks[acc.cur].input ELSE acc.buf
               new == [acc.blocks EXCEPT ![acc.cur].input = n]
    <2>2. n \in Nat
      BY <1>1, <2>1 DEF ContentBlock
    <2>3. OnBlockStop(acc) = [acc EXCEPT !.blocks = new, !.buf = z, !.cur = z, !.stale = f]
      BY <1>4 DEF OnBlockStop, Sound, Accumulator
    <2> HIDE DEF n
    <2>4. [acc.blocks[acc.cur] EXCEPT !.input = n] \in ContentBlock
      BY <2>1, <2>2 DEF ContentBlock
    <2>5. new \in Seq(ContentBlock)
      BY <1>1, <2>1, <2>4
    <2> HIDE DEF new, f, z
    <2>6. OnBlockStop(acc) \in Accumulator
      BY <1>2, <2>3, <2>5 DEF Sound, Accumulator, ContentBlock
    <2>7. /\ OnBlockStop(acc).cur = z /\ OnBlockStop(acc).blocks = new
          /\ OnBlockStop(acc).stop = acc.stop
      BY <2>3 DEF Sound, Accumulator
    <2>8. Len(new) \in Nat
      BY <2>5
    <2> QED BY <2>6, <2>7, <2>8 DEF Sound, z
  <1> QED BY <1>3, <1>4

\* message_delta sets the stop reason only.
LEMMA MessageDeltaSound ==
  ASSUME NEW acc, Sound(acc), NEW stop \in {"end_turn", "tool_use"}
  PROVE  /\ Sound(OnMessageDelta(acc, stop))
         /\ OnMessageDelta(acc, stop).stop = stop
         /\ \A srv : Synced(acc, srv) => Synced(OnMessageDelta(acc, stop), srv)
  <1>1. /\ OnMessageDelta(acc, stop).blocks = acc.blocks
        /\ OnMessageDelta(acc, stop).cur = acc.cur
        /\ OnMessageDelta(acc, stop).stale = acc.stale
        /\ OnMessageDelta(acc, stop).buf = acc.buf
        /\ OnMessageDelta(acc, stop).stop = stop
    BY DEF OnMessageDelta, Sound, Accumulator
  <1>2. OnMessageDelta(acc, stop) \in Accumulator
    BY DEF OnMessageDelta, Sound, Accumulator
  <1> QED BY <1>1, <1>2 DEF Sound, Synced

\* An error appends a text block.
LEMMA ErrorSound ==
  ASSUME NEW acc, Sound(acc), NEW moved \in BOOLEAN
  PROVE  /\ Sound(OnError(acc, moved))
         /\ OnError(acc, moved).stop = "error"
  <1>1. /\ acc.blocks \in Seq(ContentBlock) /\ acc.cur \in Nat
        /\ acc.cur <= Len(acc.blocks)
    BY DEF Sound, Accumulator, ContentBlock
  <1> DEFINE bs == Append(acc.blocks, Block("text"))
             f == acc.stale \/ (moved /\ acc.cur # 0)
  <1>2. bs \in Seq(ContentBlock) /\ Len(bs) = Len(acc.blocks) + 1
    BY <1>1 DEF Block, ContentBlock, BlockTypes
  <1>3. f \in BOOLEAN
    OBVIOUS
  <1>4. OnError(acc, moved) = [acc EXCEPT !.stop = "error", !.blocks = bs, !.stale = f]
    BY DEF OnError
  <1> HIDE DEF bs, f
  <1>5. OnError(acc, moved) \in Accumulator
    BY <1>2, <1>3, <1>4 DEF Sound, Accumulator, ContentBlock
  <1>6. /\ OnError(acc, moved).cur = acc.cur /\ OnError(acc, moved).blocks = bs
        /\ OnError(acc, moved).stop = "error"
    BY <1>4 DEF Sound, Accumulator
  <1> QED BY <1>1, <1>2, <1>5, <1>6 DEF Sound

\* content_block_start keeps the response in step with the server.
LEMMA SyncedBlockStart ==
  ASSUME NEW acc, Sound(acc), NEW srv \in Seq(ServedBlock), NEW t \in BlockTypes,
         Synced(acc, srv), ~Open(srv)
  PROVE  Synced(OnBlockStart(acc, t),
                Append(srv, [type |-> t, deltas |-> 0, closed |-> FALSE]))
  <1> DEFINE b == [type |-> t, deltas |-> 0, closed |-> FALSE]
             new == Append(srv, b)
             res2 == OnBlockStart(acc, t)
             n == Len(srv) + 1
  <1>1. /\ res2.blocks = Append(acc.blocks, Block(t))
        /\ res2.cur = Len(acc.blocks) + 1
        /\ ~res2.stale
        /\ t = "tool_use" => res2.buf = 0
    BY DEF OnBlockStart, Sound, Accumulator
  <1>2. b.type = t /\ b.deltas = 0 /\ ~b.closed
    OBVIOUS
  <1>3. Block(t).type = t /\ Block(t).text = 0
    BY DEF Block
  <1>4. /\ Len(new) = n /\ new[n] = b /\ n \in Nat /\ n # 0
        /\ \A i \in 1..n : i # n => i \in 1..Len(srv) /\ new[i] = srv[i]
    OBVIOUS
  <1>5. acc.blocks \in Seq(ContentBlock) /\ Len(acc.blocks) = Len(srv)
    BY DEF Sound, Accumulator, ContentBlock, Synced
  <1>6. /\ Len(res2.blocks) = n /\ res2.blocks[n] = Block(t)
        /\ \A i \in 1..n : i # n => res2.blocks[i] = acc.blocks[i]
    BY <1>1, <1>5 DEF Block, ContentBlock
  <1>7. Open(new)
    <2>1. new # <<>>
      BY <1>4
    <2> QED BY <1>2, <1>4, <2>1 DEF Open
  <1>8. \A i \in 1..Len(srv) : srv[i].closed
    BY DEF Synced, Open
  <1> HIDE DEF b, new, res2, n
  <1>9. \A i \in 1..n : Holds(res2.blocks[i], new[i])
    <2> TAKE i \in 1..n
    <2>1. CASE i = n
      BY <1>2, <1>3, <1>4, <1>6, <2>1 DEF Holds
    <2>2. CASE i # n
      BY <1>4, <1>6, <2>2 DEF Synced
    <2> QED BY <2>1, <2>2
  <1>10. \A i \in 1..n : i # n => new[i].closed
    BY <1>4, <1>8
  <1>11. Synced(res2, new)
    BY <1>1, <1>2, <1>4, <1>5, <1>6, <1>7, <1>9, <1>10 DEF Synced, n
  <1> QED BY <1>11 DEF res2, new, b

\* A delta goes to the open block of the response and of the server.
LEMMA SyncedDelta ==
  ASSUME NEW acc, Sound(acc), NEW srv \in Seq(ServedBlock), Synced(acc, srv), Open(srv)
  PROVE  Synced(OnDelta(acc), [srv EXCEPT ![Len(srv)].deltas = @ + 1])
  <1> DEFINE n == Len(srv)
             new == [srv EXCEPT ![n].deltas = @ + 1]
             res2 == OnDelta(acc)
  <1>1. n \in 1..Len(srv) /\ srv[n] \in ServedBlock /\ ~srv[n].closed
    BY DEF Open
  <1>2. /\ Len(new) = n
        /\ new[n] = [srv[n] EXCEPT !.deltas = @ + 1]
        /\ \A i \in 1..n : i # n => new[i] = srv[i]
    BY <1>1
  <1>3. /\ new[n].type = srv[n].type /\ new[n].deltas = srv[n].deltas + 1
        /\ new[n].closed = srv[n].closed
    BY <1>1, <1>2 DEF ServedBlock
  <1>4. /\ acc.blocks \in Seq(ContentBlock) /\ Len(acc.blocks) = n
        /\ acc.cur = n /\ ~acc.stale /\ acc.buf \in Nat
        /\ n # 0 /\ acc.blocks[n] \in ContentBlock
        /\ Holds(acc.blocks[n], srv[n])
    <2>1. acc.blocks \in Seq(ContentBlock) /\ acc.buf \in Nat
      BY DEF Sound, Accumulator, ContentBlock
    <2>2. Len(acc.blocks) = n /\ acc.cur = n /\ ~acc.stale
      BY DEF Synced
    <2>3. Holds(acc.blocks[n], srv[n])
      BY <1>1 DEF Synced
    <2>4. n # 0 /\ acc.blocks[n] \in ContentBlock
      BY <1>1, <2>1, <2>2
    <2> QED BY <2>1, <2>2, <2>3, <2>4
  <1>5. Open(new)
    <2>1. new # <<>>
      BY <1>1, <1>2
    <2> QED BY <1>1, <1>2, <1>3, <2>1 DEF Open
  <1>6. CASE srv[n].type = "tool_use"
    <2>1. res2 = [acc EXCEPT !.buf = @ + 1]
      BY <1>4, <1>6 DEF OnDelta, Holds
    <2>2. /\ res2.blocks = acc.blocks /\ res2.cur = acc.cur /\ ~res2.stale
          /\ res2.buf = acc.buf + 1
      BY <1>4, <2>1 DEF Sound, Accumulator
    <2>3. acc.buf = srv[n].deltas
      BY <1>6 DEF Synced
    <2> HIDE DEF res2, new
    <2>4. \A i \in 1..n : Holds(res2.blocks[i], new[i])
      <3> TAKE i \in 1..n
      <3>1. CASE i = n
        BY <1>1, <1>3, <1>4, <1>6, <2>2, <3>1 DEF Holds
      <3>2. CASE i # n
        BY <1>2, <2>2, <3>2 DEF Synced
      <3> QED BY <3>1, <3>2
    <2>5. \A i \in 1..n : i # n => new[i].closed
      BY <1>2 DEF Synced
    <2>6. Synced(res2, new)
      BY <1>2, <1>3, <1>4, <1>5, <2>2, <2>3, <2>4, <2>5 DEF Synced
    <2> QED BY <2>6 DEF res2, new
  <1>7. CASE srv[n].type # "tool_use"
    <2>1. srv[n].type = "text" /\ acc.blocks[n].type = "text"
      BY <1>1, <1>4, <1>7 DEF ServedBlock, BlockTypes, Holds
    <2> DEFINE bs == [acc.blocks EXCEPT ![acc.cur].text = @ + 1]
    <2>2. res2 = [acc EXCEPT !.blocks = bs]
      BY <1>4, <2>1 DEF OnDelta, Sound, Accumulator
    <2>3. /\ res2.blocks = bs
          /\ res2.cur = acc.cur /\ ~res2.stale
      BY <1>4, <2>2 DEF Sound, Accumulator
    <2>4. /\ Len(res2.blocks) = n
          /\ res2.blocks[n] = [acc.blocks[n] EXCEPT !.text = @ + 1]
          /\ \A i \in 1..n : i # n => res2.blocks[i] = acc.blocks[i]
      BY <1>1, <1>4, <2>3
    <2>5. res2.blocks[n].type = "text" /\ res2.blocks[n].text = acc.blocks[n].text + 1
      BY <1>4, <2>1, <2>4 DEF ContentBlock
    <2> HIDE DEF res2, new
    <2>6. \A i \in 1..n : Holds(res2.blocks[i], new[i])
      <3> TAKE i \in 1..n
      <3>1. CASE i = n
        BY <1>3, <1>4, <2>1, <2>5, <3>1 DEF Holds
      <3>2. CASE i # n
        BY <1>2, <2>4, <3>2 DEF Synced
      <3> QED BY <3>1, <3>2
    <2>7. \A i \in 1..n : i # n => new[i].closed
      BY <1>2 DEF Synced
    <2>8. Synced(res2, new)
      BY <1>2, <1>3, <1>4, <1>5, <2>1, <2>3, <2>4, <2>6, <2>7 DEF Synced
    <2> QED BY <2>8 DEF res2, new
  <1> QED BY <1>6, <1>7

\* content_block_stop closes the block on both sides, a tool's input stored.
LEMMA SyncedBlockStop ==
  ASSUME NEW acc, Sound(acc), NEW srv \in Seq(ServedBlock), Synced(acc, srv), Open(srv)
  PROVE  Synced(OnBlockStop(acc), [srv EXCEPT ![Len(srv)].closed = TRUE])
  <1> DEFINE n == Len(srv)
             new == [srv EXCEPT ![n].closed = TRUE]
             res2 == OnBlockStop(acc)
             bs == [acc.blocks EXCEPT ![acc.cur].input = acc.buf]
  <1>1. n \in 1..Len(srv) /\ srv[n] \in ServedBlock
    BY DEF Open
  <1>2. /\ Len(new) = n
        /\ new[n] = [srv[n] EXCEPT !.closed = TRUE]
        /\ \A i \in 1..n : i # n => new[i] = srv[i]
    <2> DEFINE yes == TRUE
    <2> HIDE DEF yes
    <2>1. LET closed == [srv EXCEPT ![n].closed = yes]
          IN  /\ Len(closed) = n
              /\ closed[n] = [srv[n] EXCEPT !.closed = yes]
              /\ \A i \in 1..n : i # n => closed[i] = srv[i]
      BY <1>1
    <2> QED BY <2>1 DEF yes
  <1>3. new[n].type = srv[n].type /\ new[n].deltas = srv[n].deltas /\ new[n].closed
    <2>1. new[n].type = srv[n].type /\ new[n].deltas = srv[n].deltas
      BY <1>1, <1>2 DEF ServedBlock
    <2>2. new[n].closed = TRUE
      BY <1>1, <1>2 DEF ServedBlock
    <2> QED BY <2>1, <2>2
  <1>4. /\ acc.blocks \in Seq(ContentBlock) /\ Len(acc.blocks) = n
        /\ acc.cur = n /\ ~acc.stale
        /\ n # 0 /\ acc.blocks[n] \in ContentBlock
        /\ Holds(acc.blocks[n], srv[n])
    <2>1. acc.blocks \in Seq(ContentBlock)
      BY DEF Sound, Accumulator, ContentBlock
    <2>2. Len(acc.blocks) = n /\ acc.cur = n /\ ~acc.stale
      BY DEF Synced
    <2>3. Holds(acc.blocks[n], srv[n])
      BY <1>1 DEF Synced
    <2>4. n # 0 /\ acc.blocks[n] \in ContentBlock
      BY <1>1, <2>1, <2>2
    <2> QED BY <2>1, <2>2, <2>3, <2>4
  <1>5. ~Open(new)
    BY <1>2, <1>3 DEF Open
  <1>6. \A i \in 1..n : i # n => new[i].closed
    BY <1>2 DEF Synced
  <1>7. CASE srv[n].type = "tool_use"
    <2>1. res2 = [acc EXCEPT !.blocks = bs, !.buf = 0, !.cur = 0, !.stale = FALSE]
      BY <1>4, <1>7 DEF OnBlockStop, Holds, Sound, Accumulator
    <2>2. res2.blocks = bs /\ res2.cur = 0 /\ ~res2.stale
      BY <2>1 DEF Sound, Accumulator
    <2>3. /\ Len(res2.blocks) = n
          /\ res2.blocks[n] = [acc.blocks[n] EXCEPT !.input = acc.buf]
          /\ \A i \in 1..n : i # n => res2.blocks[i] = acc.blocks[i]
      BY <1>1, <1>4, <2>2
    <2>4. res2.blocks[n].type = "tool_use" /\ res2.blocks[n].input = acc.buf
      BY <1>4, <1>7, <2>3 DEF ContentBlock, Holds
    <2>5. acc.buf = srv[n].deltas
      BY <1>7 DEF Synced
    <2> HIDE DEF res2, new
    <2>6. \A i \in 1..n : Holds(res2.blocks[i], new[i])
      <3> TAKE i \in 1..n
      <3>1. CASE i = n
        BY <1>3, <1>7, <2>4, <2>5, <3>1 DEF Holds
      <3>2. CASE i # n
        BY <1>2, <2>3, <3>2 DEF Synced
      <3> QED BY <3>1, <3>2
    <2>7. Synced(res2, new)
      BY <1>2, <1>5, <1>6, <2>2, <2>3, <2>6 DEF Synced
    <2> QED BY <2>7 DEF res2, new
  <1>8. CASE srv[n].type # "tool_use"
    <2>1. srv[n].type = "text" /\ acc.blocks[n].type = "text"
      BY <1>1, <1>4, <1>8 DEF ServedBlock, BlockTypes, Holds
    <2>2. res2 = [acc EXCEPT !.cur = 0, !.stale = FALSE]
      BY <1>4, <2>1 DEF OnBlockStop
    <2>3. res2.blocks = acc.blocks /\ res2.cur = 0 /\ ~res2.stale
      BY <2>2 DEF Sound, Accumulator
    <2> HIDE DEF res2, new
    <2>4. \A i \in 1..n : Holds(res2.blocks[i], new[i])
      <3> TAKE i \in 1..n
      <3>1. CASE i = n
        BY <1>3, <1>4, <2>1, <2>3, <3>1 DEF Holds
      <3>2. CASE i # n
        BY <1>2, <2>3, <3>2 DEF Synced
      <3> QED BY <3>1, <3>2
    <2>5. Synced(res2, new)
      BY <1>2, <1>4, <1>5, <1>6, <2>3, <2>4 DEF Synced
    <2> QED BY <2>5 DEF res2, new
  <1> QED BY <1>7, <1>8

-----------------------------------------------------------------------------
(* The invariant.                                                          *)

\* The types in the vocabulary of the lemmas above.
LEMMA TypeInvSound == TypeInv => Sound(resp) /\ served \in Seq(ServedBlock)
  BY DEF TypeInv, TypeOK, Sound, ServedBlock

\* The client is built with an empty response and no call.
LEMMA InitClientInv == Init => ClientInv
  <1> SUFFICES ASSUME Init PROVE ClientInv
    OBVIOUS
  <1>1. TypeInv
    <2>1. resp \in Accumulator /\ resp.cur <= Len(resp.blocks)
      BY EmptySound DEF Init, Sound
    <2>2. /\ curl \in BOOLEAN /\ busy \in BOOLEAN /\ aborted \in BOOLEAN
          /\ inChunk \in BOOLEAN /\ errs \in BOOLEAN
      BY DEF Init
    <2> QED BY <2>1, <2>2, RetriesAssumption DEF Init, TypeInv, TypeOK
  <1>2. CountInv
    BY DEF Init, CountInv
  <1>3. FreshInv
    BY DEF Init, FreshInv
  <1>4. StreamInv
    BY DEF Init, StreamInv
  <1> QED BY <1>1, <1>2, <1>3, <1>4 DEF ClientInv

\* The steps of the calling thread and of abort() between two events.
LEMMA StepClientInv == ClientInv /\ (Step \/ ChunkStart \/ ChunkEnd \/ EndTransfer \/ Abort)
                         => ClientInv'
  <1> SUFFICES ASSUME ClientInv, Step \/ ChunkStart \/ ChunkEnd \/ EndTransfer \/ Abort
               PROVE  ClientInv'
    OBVIOUS
  <1> USE RetriesAssumption, TypeInvSound, EmptySound
      DEF ClientInv, TypeInv, TypeOK, CountInv, callVars, netVars, srvVars, ghostVars
  <1>1. CASE Build
    <2>1. TypeInv'
      <3>1. Sound(resp) /\ Sound(OnError(resp, FALSE))
        BY ErrorSound
      <3>2. Sound(resp')
        BY <1>1, <3>1 DEF Build
      <3>3. /\ curl' \in BOOLEAN /\ busy' \in BOOLEAN /\ aborted' \in BOOLEAN
            /\ inChunk' \in BOOLEAN /\ errs' \in BOOLEAN
        BY <1>1 DEF Build, ReturnAs
      <3>4. QED BY <1>1, <3>2, <3>3 DEF Sound, Build, ReturnAs
    <2>2. CountInv'
      BY <1>1 DEF Build, ReturnAs
    <2>3. FreshInv'
      BY <1>1 DEF FreshInv, Build, ReturnAs
    <2>4. StreamInv'
      BY <1>1 DEF StreamInv, Build, ReturnAs
    <2> QED BY <2>1, <2>2, <2>3, <2>4 DEF ClientInv
  <1>2. CASE BuildThrows
    <2>1. TypeInv'
      BY <1>2 DEF BuildThrows
    <2>2. CountInv'
      BY <1>2 DEF BuildThrows
    <2>3. FreshInv'
      BY <1>2 DEF FreshInv, BuildThrows
    <2>4. StreamInv'
      BY <1>2 DEF StreamInv, BuildThrows
    <2> QED BY <2>1, <2>2, <2>3, <2>4 DEF ClientInv
  <1>3. CASE LoopTop
    <2>1. TypeInv'
      BY <1>3 DEF LoopTop, AbortSeen
    <2>2. CountInv'
      BY <1>3 DEF LoopTop, AbortSeen
    <2>3. FreshInv'
      BY <1>3 DEF FreshInv, LoopTop, AbortSeen
    <2>4. StreamInv'
      BY <1>3 DEF StreamInv, LoopTop, AbortSeen
    <2> QED BY <2>1, <2>2, <2>3, <2>4 DEF ClientInv
  <1>4. CASE Backoff
    <2>1. TypeInv'
      BY <1>4 DEF Sound, Backoff
    <2>2. CountInv'
      BY <1>4 DEF EmptyAcc, Backoff
    <2>3. FreshInv'
      BY <1>4 DEF FreshInv, Backoff
    <2>4. StreamInv'
      BY <1>4 DEF StreamInv, Backoff
    <2> QED BY <2>1, <2>2, <2>3, <2>4 DEF ClientInv
  <1>5. CASE StartTransfer
    <2>1. TypeInv'
      <3>1. served' \in Seq(ServedBlock) /\ starts' \in 0..MaxRetries + 1 /\ lateStarts' \in Nat
        BY <1>5 DEF StartTransfer, Count
      <3>2. /\ curl' \in BOOLEAN /\ busy' \in BOOLEAN /\ aborted' \in BOOLEAN
            /\ inChunk' \in BOOLEAN /\ errs' \in BOOLEAN
        BY <1>5 DEF StartTransfer
      <3>3. QED BY <1>5, <3>1, <3>2 DEF StartTransfer, ServedBlock
    <2>2. CountInv'
      BY <1>5 DEF StartTransfer, Count
    <2>3. FreshInv'
      BY <1>5 DEF FreshInv, StartTransfer, Count
    <2>4. StreamInv'
      <3>1. resp' = EmptyAcc /\ served' = <<>> /\ phase' = "none" /\ pc' = "transfer"
        BY <1>5 DEF FreshInv, StartTransfer
      <3>2. Synced(resp, served)' /\ resp'.stop = "none"
        BY <3>1 DEF EmptyAcc
      <3>3. QED BY <3>1, <3>2 DEF StreamInv
    <2> QED BY <2>1, <2>2, <2>3, <2>4 DEF ClientInv
  <1>6. CASE Judge
    <2>1. TypeInv'
      BY <1>6 DEF Judge, AbortSeen, ShouldRetry
    <2>2. CountInv'
      BY <1>6 DEF Judge, AbortSeen, ShouldRetry
    <2>3. FreshInv'
      BY <1>6 DEF FreshInv, Judge, AbortSeen, ShouldRetry
    <2>4. StreamInv'
      BY <1>6 DEF StreamInv, Judge, AbortSeen, ShouldRetry
    <2> QED BY <2>1, <2>2, <2>3, <2>4 DEF ClientInv
  <1>7. CASE Transport
    <2>1. TypeInv'
      <3>1. Sound(resp) /\ Sound(OnError(resp, FALSE))
        BY ErrorSound
      <3>2. Sound(resp')
        BY <1>7, <3>1 DEF Transport
      <3>3. /\ curl' \in BOOLEAN /\ busy' \in BOOLEAN /\ aborted' \in BOOLEAN
            /\ inChunk' \in BOOLEAN /\ errs' \in BOOLEAN
        BY <1>7 DEF Transport, ReturnAs
      <3>4. QED BY <1>7, <3>2, <3>3 DEF Sound, Transport, ReturnAs
    <2>2. CountInv'
      BY <1>7 DEF Transport, ReturnAs
    <2>3. FreshInv'
      BY <1>7 DEF FreshInv, Transport, ReturnAs
    <2>4. StreamInv'
      BY <1>7 DEF StreamInv, Transport, ReturnAs
    <2> QED BY <2>1, <2>2, <2>3, <2>4 DEF ClientInv
  <1>8. CASE HttpStatus
    <2>1. TypeInv'
      <3>1. Sound(resp) /\ Sound(OnError(resp, FALSE))
        BY ErrorSound
      <3>2. Sound(resp')
        BY <1>8, <3>1 DEF HttpStatus
      <3>3. /\ curl' \in BOOLEAN /\ busy' \in BOOLEAN /\ aborted' \in BOOLEAN
            /\ inChunk' \in BOOLEAN /\ errs' \in BOOLEAN
        BY <1>8 DEF HttpStatus, ReturnAs
      <3>4. QED BY <1>8, <3>2, <3>3 DEF Sound, HttpStatus, ReturnAs
    <2>2. CountInv'
      BY <1>8 DEF HttpStatus, ReturnAs
    <2>3. FreshInv'
      BY <1>8 DEF FreshInv, HttpStatus, ReturnAs
    <2>4. StreamInv'
      BY <1>8 DEF StreamInv, HttpStatus, ReturnAs
    <2> QED BY <2>1, <2>2, <2>3, <2>4 DEF ClientInv
  <1>9. CASE ReturnStream
    <2>1. TypeInv'
      BY <1>9 DEF ReturnStream, ReturnAs, Outcome
    <2>2. CountInv'
      BY <1>9 DEF ReturnStream, ReturnAs, Outcome
    <2>3. FreshInv'
      BY <1>9 DEF FreshInv, ReturnStream, ReturnAs, Outcome
    <2>4. StreamInv'
      BY <1>9 DEF StreamInv, ReturnStream, ReturnAs, Outcome
    <2> QED BY <2>1, <2>2, <2>3, <2>4 DEF ClientInv
  <1>10. CASE ReturnPlain
    <2>1. TypeInv'
      <3>1. Sound(OnError(EmptyAcc, FALSE))
        BY ErrorSound
      <3>2. \A stop \in {"end_turn", "tool_use"} : Sound([EmptyAcc EXCEPT !.stop = stop])
        BY MessageDeltaSound DEF OnMessageDelta
      <3>3. Sound(resp')
        BY <1>10, <3>1, <3>2 DEF ReturnPlain
      <3>4. result' \in {"none", "reply", "tools", "error", "thrown"}
        BY <1>10 DEF ReturnPlain, ReturnAs, Outcome
      <3>5. /\ curl' \in BOOLEAN /\ busy' \in BOOLEAN /\ aborted' \in BOOLEAN
            /\ inChunk' \in BOOLEAN /\ errs' \in BOOLEAN
        BY <1>10 DEF ReturnPlain, ReturnAs
      <3>6. QED BY <1>10, <3>3, <3>4, <3>5 DEF Sound, ReturnPlain, ReturnAs
    <2>2. CountInv'
      BY <1>10 DEF ReturnPlain, ReturnAs, Outcome
    <2>3. FreshInv'
      BY <1>10 DEF FreshInv, ReturnPlain, ReturnAs, Outcome
    <2>4. StreamInv'
      BY <1>10 DEF StreamInv, ReturnPlain, ReturnAs, Outcome
    <2> QED BY <2>1, <2>2, <2>3, <2>4 DEF ClientInv
  <1>11. CASE PlainThrows
    <2>1. TypeInv'
      BY <1>11 DEF PlainThrows
    <2>2. CountInv'
      BY <1>11 DEF PlainThrows
    <2>3. FreshInv'
      BY <1>11 DEF FreshInv, PlainThrows
    <2>4. StreamInv'
      BY <1>11 DEF StreamInv, PlainThrows
    <2> QED BY <2>1, <2>2, <2>3, <2>4 DEF ClientInv
  <1>12. CASE ChunkStart
    <2>1. TypeInv'
      <3>1. CASE aborted
        BY <1>12, <3>1 DEF ChunkStart
      <3>2. CASE ~aborted
        <4>1. inChunk' \in BOOLEAN
          BY <1>12, <3>2 DEF ChunkStart
        <4> QED BY <1>12, <3>2, <4>1 DEF ChunkStart
      <3> QED BY <3>1, <3>2
    <2>2. CountInv'
      BY <1>12 DEF ChunkStart
    <2>3. FreshInv'
      BY <1>12 DEF FreshInv, ChunkStart
    <2>4. StreamInv'
      BY <1>12 DEF StreamInv, ChunkStart
    <2> QED BY <2>1, <2>2, <2>3, <2>4 DEF ClientInv
  <1>13. CASE ChunkEnd
    <2>1. TypeInv'
      <3>1. /\ curl' \in BOOLEAN /\ busy' \in BOOLEAN /\ aborted' \in BOOLEAN
            /\ inChunk' \in BOOLEAN /\ errs' \in BOOLEAN
        BY <1>13 DEF ChunkEnd
      <3>2. QED BY <1>13, <3>1 DEF ChunkEnd
    <2>2. CountInv'
      BY <1>13 DEF ChunkEnd
    <2>3. FreshInv'
      BY <1>13 DEF FreshInv, ChunkEnd
    <2>4. StreamInv'
      BY <1>13 DEF StreamInv, ChunkEnd
    <2> QED BY <2>1, <2>2, <2>3, <2>4 DEF ClientInv
  <1>14. CASE EndTransfer
    <2>1. TypeInv'
      BY <1>14 DEF EndTransfer
    <2>2. CountInv'
      BY <1>14 DEF EndTransfer
    <2>3. FreshInv'
      BY <1>14 DEF FreshInv, EndTransfer
    <2>4. StreamInv'
      BY <1>14 DEF StreamInv, EndTransfer
    <2> QED BY <2>1, <2>2, <2>3, <2>4 DEF ClientInv
  <1>15. CASE Abort
    <2>1. TypeInv'
      BY <1>15 DEF Abort
    <2>2. CountInv'
      BY <1>15 DEF Abort
    <2>3. FreshInv'
      BY <1>15 DEF FreshInv, Abort
    <2>4. StreamInv'
      BY <1>15 DEF StreamInv, Abort
    <2> QED BY <2>1, <2>2, <2>3, <2>4 DEF ClientInv
  <1> QED BY <1>1, <1>2, <1>3, <1>4, <1>5, <1>6, <1>7, <1>8, <1>9, <1>10, <1>11,
             <1>12, <1>13, <1>14, <1>15 DEF Step

\* A call begins afresh, or is turned away at the door.
LEMMA CallClientInv == ClientInv /\ (CreateMessageStream \/ CreateMessage) => ClientInv'
  <1> SUFFICES ASSUME ClientInv, CreateMessageStream \/ CreateMessage
               PROVE  ClientInv'
    OBVIOUS
  <1> USE RetriesAssumption, TypeInvSound, EmptySound
      DEF ClientInv, callVars, netVars, srvVars, ghostVars
  <1>1. ASSUME NEW m \in {"stream", "plain"}, Begin(m) PROVE ClientInv'
    <2>1. TypeInv'
      <3>1. Sound(resp')
        BY <1>1 DEF Begin
      <3>2. /\ curl' \in BOOLEAN /\ busy' \in BOOLEAN /\ aborted' \in BOOLEAN
            /\ inChunk' \in BOOLEAN /\ errs' \in BOOLEAN
        BY <1>1 DEF Begin, TypeInv, TypeOK
      <3>3. served' \in Seq(ServedBlock)
        BY <1>1 DEF Begin
      <3> QED BY <1>1, <3>1, <3>2, <3>3 DEF Sound, Begin, TypeInv, TypeOK, ServedBlock
    <2>2. CountInv'
      BY <1>1 DEF Begin, CountInv, EmptyAcc
    <2>3. FreshInv'
      BY <1>1 DEF Begin, FreshInv
    <2>4. StreamInv'
      <3>1. resp' = EmptyAcc /\ served' = <<>> /\ phase' = "none" /\ pc' = "build"
        BY <1>1 DEF Begin
      <3>2. Synced(resp, served)' /\ resp'.stop = "none"
        BY <3>1 DEF EmptyAcc
      <3> QED BY <3>1, <3>2 DEF StreamInv
    <2> QED BY <2>1, <2>2, <2>3, <2>4
  <1>2. ASSUME pc = "idle", resp' = OnError(EmptyAcc, FALSE), result' = "error",
               UNCHANGED <<pc, callVars, netVars, srvVars, ghostVars>>
        PROVE  ClientInv'
    <2>1. Sound(resp')
      BY <1>2, ErrorSound
    <2>2. TypeInv'
      <3>1. resp' \in Accumulator /\ resp'.cur <= Len(resp'.blocks)
        BY <2>1 DEF Sound
      <3>2. /\ TypeOK /\ result' = "error"
            /\ UNCHANGED <<pc, callVars, netVars, srvVars, ghostVars>>
        BY <1>2 DEF TypeInv
      <3> QED BY <3>1, <3>2 DEF TypeInv, TypeOK
    <2>3. CountInv' /\ FreshInv' /\ StreamInv'
      BY <1>2 DEF TypeInv, TypeOK, CountInv, FreshInv, StreamInv
    <2> QED BY <2>2, <2>3
  <1> QED BY <1>1, <1>2 DEF CreateMessageStream, CreateMessage

\* An event is handled inside a transfer; what it does to the response, it
\* does to the server's blocks.
LEMMA EventClientInv == ClientInv /\ Event => ClientInv'
  <1> SUFFICES ASSUME ClientInv, Event PROVE ClientInv'
    OBVIOUS
  <1>1. Sound(resp) /\ served \in Seq(ServedBlock) /\ TypeInv /\ pc = "transfer"
    BY TypeInvSound DEF ClientInv, Event, MessageStart, ContentBlockStart,
       ContentBlockDelta, ContentBlockStop, MessageDelta, ErrorEvent, Receiving
  <1>2. UNCHANGED <<callVars, pc, netVars, result, ghostVars>>
    BY DEF Event, MessageStart, ContentBlockStart, ContentBlockDelta,
       ContentBlockStop, MessageDelta, ErrorEvent, Feed
  <1>3. FreshInv'
    BY <1>1, <1>2 DEF FreshInv
  <1>4. CountInv'
    BY <1>1, <1>2, RetriesAssumption
       DEF ClientInv, TypeInv, TypeOK, CountInv, callVars, netVars, ghostVars
  <1>5. ASSUME Sound(resp'), served' \in Seq(ServedBlock), errs' \in BOOLEAN,
               phase' \in {"none", "started", "stopped"}
        PROVE  TypeInv'
    BY <1>1, <1>2, <1>5 DEF TypeInv, TypeOK, Sound, ServedBlock, callVars, netVars,
       ghostVars
  <1>6. mode = "stream" /\ ~errs =>
          /\ Synced(resp, served)
          /\ resp.stop = "tool_use" => phase = "stopped"
          /\ phase = "stopped" => ~Open(served)
    BY <1>1 DEF ClientInv, StreamInv
  <1>7. ASSUME mode = "stream" /\ ~errs' =>
                 /\ Synced(resp, served)'
                 /\ resp'.stop = "tool_use" => phase' = "stopped"
                 /\ phase' = "stopped" => ~Open(served')
        PROVE  StreamInv'
    BY <1>1, <1>2, <1>7 DEF StreamInv, callVars
  <1>8. BlockOpen <=> Open(served)
    BY DEF BlockOpen, Open
  <1>9. errs \in BOOLEAN /\ phase \in {"none", "started", "stopped"}
    BY <1>1 DEF TypeInv, TypeOK
  <1>10. CASE MessageStart
    <2>1. UNCHANGED <<resp, served, errs>> /\ phase = "none" /\ phase' = "started"
      BY <1>10 DEF MessageStart, Feed
    <2> QED BY <1>1, <1>3, <1>4, <1>5, <1>6, <1>7, <1>9, <2>1 DEF ClientInv
  <1>11. CASE ContentBlockStart
    <2>1. PICK t \in BlockTypes :
            /\ served' = Append(served, [type |-> t, deltas |-> 0, closed |-> FALSE])
            /\ resp' = OnBlockStart(resp, t)
      BY <1>11 DEF ContentBlockStart, Feed
    <2>2. ~Open(served) /\ UNCHANGED <<phase, errs>> /\ phase = "started"
      BY <1>8, <1>11 DEF ContentBlockStart
    <2>3. Sound(resp') /\ resp'.stop = resp.stop
      BY <1>1, <2>1, BlockStartSound
    <2>4. served' \in Seq(ServedBlock)
      <3>1. [type |-> t, deltas |-> 0, closed |-> FALSE] \in ServedBlock
        BY DEF ServedBlock
      <3> QED BY <1>1, <2>1, <3>1
    <2>5. Synced(resp, served) => Synced(resp, served)'
      BY <1>1, <2>1, <2>2, SyncedBlockStart
    <2> QED BY <1>3, <1>4, <1>5, <1>6, <1>7, <1>9, <2>2, <2>3, <2>4, <2>5 DEF ClientInv
  <1>12. CASE ContentBlockDelta
    <2>1. /\ served' = [served EXCEPT ![Len(served)].deltas = @ + 1]
          /\ resp' = OnDelta(resp)
          /\ Open(served) /\ UNCHANGED <<phase, errs>>
      BY <1>8, <1>12 DEF ContentBlockDelta, Feed
    <2>2. Sound(resp') /\ resp'.stop = resp.stop
      BY <1>1, <2>1, DeltaSound
    <2>3. served' \in Seq(ServedBlock)
      <3>1. Len(served) \in 1..Len(served) /\ served[Len(served)] \in ServedBlock
        BY <1>1, <2>1 DEF Open
      <3>2. [served[Len(served)] EXCEPT !.deltas = @ + 1] \in ServedBlock
        BY <3>1 DEF ServedBlock
      <3> QED BY <1>1, <2>1, <3>1, <3>2
    <2>4. Synced(resp, served) => Synced(resp, served)'
      BY <1>1, <2>1, SyncedDelta
    <2> QED BY <1>3, <1>4, <1>5, <1>6, <1>7, <1>9, <2>1, <2>2, <2>3, <2>4 DEF ClientInv
  <1>13. CASE ContentBlockStop
    <2>1. /\ served' = [served EXCEPT ![Len(served)].closed = TRUE]
          /\ resp' = OnBlockStop(resp)
          /\ Open(served) /\ UNCHANGED <<phase, errs>>
      BY <1>8, <1>13 DEF ContentBlockStop, Feed
    <2>2. Sound(resp') /\ resp'.stop = resp.stop
      BY <1>1, <2>1, BlockStopSound
    <2>3. served' \in Seq(ServedBlock)
      <3>1. Len(served) \in 1..Len(served) /\ served[Len(served)] \in ServedBlock
        BY <1>1, <2>1 DEF Open
      <3> DEFINE yes == TRUE
      <3>2. yes \in BOOLEAN
        OBVIOUS
      <3> HIDE DEF yes
      <3>3. [served[Len(served)] EXCEPT !.closed = yes] \in ServedBlock
        BY <3>1, <3>2 DEF ServedBlock
      <3>4. [served EXCEPT ![Len(served)].closed = yes] \in Seq(ServedBlock)
        BY <1>1, <3>1, <3>3
      <3> QED BY <2>1, <3>4 DEF yes
    <2>4. Synced(resp, served) => Synced(resp, served)'
      BY <1>1, <2>1, SyncedBlockStop
    <2> QED BY <1>3, <1>4, <1>5, <1>6, <1>7, <1>9, <2>1, <2>2, <2>3, <2>4 DEF ClientInv
  <1>14. CASE MessageDelta
    <2>1. PICK stop \in {"end_turn", "tool_use"} : resp' = OnMessageDelta(resp, stop)
      BY <1>14 DEF MessageDelta, Feed
    <2>2. ~Open(served) /\ UNCHANGED <<served, errs>> /\ phase' = "stopped"
      BY <1>8, <1>14 DEF MessageDelta
    <2>3. Sound(resp') /\ (Synced(resp, served) => Synced(resp', served))
      BY <1>1, <2>1, MessageDeltaSound
    <2> QED BY <1>1, <1>3, <1>4, <1>5, <1>6, <1>7, <1>9, <2>2, <2>3 DEF ClientInv
  <1>15. CASE ErrorEvent
    <2>1. PICK moved \in BOOLEAN : resp' = OnError(resp, moved)
      BY <1>15 DEF ErrorEvent, Feed
    <2>2. UNCHANGED <<phase, served>> /\ errs'
      BY <1>15 DEF ErrorEvent
    <2>3. Sound(resp') /\ errs' \in BOOLEAN
      BY <1>1, <1>15, <2>1, ErrorSound DEF ErrorEvent
    <2> QED BY <1>1, <1>3, <1>4, <1>5, <1>7, <1>9, <2>2, <2>3 DEF ClientInv
  <1> QED BY <1>10, <1>11, <1>12, <1>13, <1>14, <1>15 DEF Event

\* Every step keeps ClientInv.
LEMMA NextClientInv == ClientInv /\ [Next]_vars => ClientInv'
  <1> SUFFICES ASSUME ClientInv, [Next]_vars PROVE ClientInv'
    OBVIOUS
  <1>1. CASE UNCHANGED vars
    BY <1>1 DEF vars, ClientInv, TypeInv, TypeOK, CountInv, FreshInv, StreamInv
  <1> QED BY <1>1, StepClientInv, CallClientInv, EventClientInv DEF Next

\* ClientInv holds throughout.
THEOREM ClientInvariant == Spec => []ClientInv
  BY InitClientInv, NextClientInv, PTL DEF Spec

\* The variables keep their types; a call begins at most MaxRetries + 1
\* transfers.
THEOREM TypeSafe == Spec => []TypeOK
  BY ClientInvariant, PTL DEF ClientInv, TypeInv

\* Blocks in step with the server's are the server's.
LEMMA SyncedMatches ==
  ASSUME TypeInv, Synced(resp, served)
  PROVE  /\ Matches(resp.blocks)
         /\ ~Open(served) => \A i \in 1..Len(served) : served[i].closed
  <1>1. served \in Seq(ServedBlock) /\ Len(resp.blocks) = Len(served)
    BY TypeInvSound DEF Synced
  <1>2. Matches(resp.blocks)
    BY <1>1 DEF Matches, Synced, Holds
  <1>3. ~Open(served) => \A i \in 1..Len(served) : served[i].closed
    BY <1>1 DEF Synced, Open
  <1> QED BY <1>2, <1>3

\* While a streamed transfer runs without error events the response holds
\* exactly what the server has sent in this attempt.
THEOREM AssembledSafe == Spec => []Assembled
  <1>1. ClientInv => Assembled
    BY SyncedMatches DEF ClientInv, StreamInv, Assembled
  <1> QED BY <1>1, ClientInvariant, PTL

\* A streamed reply that asks for tools carries every call with its whole
\* input, whatever was retried or aborted on the way.
THEOREM ToolReplySafe == Spec => []ToolReplyComplete
  <1>1. ClientInv => ToolReplyComplete
    BY SyncedMatches DEF ClientInv, StreamInv, ToolReplyComplete
  <1> QED BY <1>1, ClientInvariant, PTL

\* After abort() at most one more transfer begins.
THEOREM AbortSafe == Spec => []AbortStopsRetries
  <1>1. ClientInv => AbortStopsRetries
    BY DEF ClientInv, CountInv, AbortStopsRetries
  <1> QED BY <1>1, ClientInvariant, PTL

-----------------------------------------------------------------------------
(* The refinement of MessageApi.                                           *)

\* A call of the client is a Call or a Refuse of the interface.
LEMMA CallRefines == CreateMessageStream \/ CreateMessage => Api!Call \/ Api!Refuse
  BY DEF CreateMessageStream, CreateMessage, Begin, ghostVars, Api!Call, Api!Refuse

\* The beginning of a transfer is a Try: one is left.
LEMMA TryRefines == ClientInv /\ StartTransfer => Api!Try
  <1> SUFFICES ASSUME ClientInv, StartTransfer PROVE Api!Try
    OBVIOUS
  <1>1. starts = attempt /\ attempt \in Nat /\ attempt <= MaxRetries
    BY RetriesAssumption DEF ClientInv, TypeInv, TypeOK, CountInv, StartTransfer
  <1>2. starts < MaxRetries + 1 /\ starts' = starts + 1
    BY <1>1, RetriesAssumption DEF StartTransfer, Count
  <1> QED BY <1>2 DEF StartTransfer, Api!Try

\* What ends the call is a Return, with tools only after a transfer.
LEMMA ReturnRefines ==
  ASSUME ClientInv, Step, pc # "idle", pc' = "idle"
  PROVE  Api!Return
  <1>1. starts' = starts
    BY DEF Step, Build, BuildThrows, LoopTop, Backoff, StartTransfer, Judge, Transport,
           HttpStatus, ReturnStream, ReturnPlain, PlainThrows, ghostVars
  <1>2. result' \in {"reply", "tools", "error", "thrown"}
    BY DEF Step, Build, BuildThrows, LoopTop, Backoff, StartTransfer, Judge, Transport,
           HttpStatus, ReturnStream, ReturnPlain, PlainThrows, ReturnAs, Outcome
  <1>3. result' = "tools" => starts > 0
    BY DEF Step, Build, BuildThrows, LoopTop, Backoff, StartTransfer, Judge, Transport,
           HttpStatus, ReturnStream, ReturnPlain, PlainThrows, ReturnAs, Outcome,
           ClientInv, CountInv
  <1> QED BY <1>1, <1>2, <1>3 DEF Api!Return

\* Every step of the client is a step of the interface, or invisible there.
LEMMA NextRefines == ClientInv /\ [Next]_vars => [Api!ApiNext]_(Api!apiVars)
  <1> SUFFICES ASSUME ClientInv, [Next]_vars
               PROVE  Api!ApiNext \/ UNCHANGED Api!apiVars
    OBVIOUS
  <1>1. CASE CreateMessageStream \/ CreateMessage
    BY <1>1, CallRefines DEF Api!ApiNext
  <1>2. CASE StartTransfer
    BY <1>2, TryRefines DEF Api!ApiNext
  <1>3. CASE Step /\ ~StartTransfer
    <2>1. pc # "idle"
      BY <1>3 DEF Step, Build, BuildThrows, LoopTop, Backoff, Judge, Transport,
                  HttpStatus, ReturnStream, ReturnPlain, PlainThrows
    <2>2. CASE pc' = "idle"
      BY <1>3, <2>1, <2>2, ReturnRefines DEF Api!ApiNext
    <2>3. CASE pc' # "idle"
      <3>1. starts' = starts /\ result' = result
        BY <1>3, <2>3 DEF Step, Build, BuildThrows, LoopTop, Backoff, Judge, Transport,
           HttpStatus, ReturnStream, ReturnPlain, PlainThrows, ReturnAs, ghostVars
      <3> QED BY <2>1, <2>3, <3>1 DEF Api!apiVars
    <2> QED BY <2>2, <2>3
  <1>4. CASE ChunkStart \/ ChunkEnd \/ EndTransfer \/ Abort
    BY <1>4 DEF ChunkStart, ChunkEnd, EndTransfer, Abort, ghostVars, Api!apiVars
  <1>5. CASE Event
    BY <1>5 DEF Event, MessageStart, ContentBlockStart, ContentBlockDelta,
       ContentBlockStop, MessageDelta, ErrorEvent, Feed, ghostVars, Api!apiVars
  <1>6. CASE UNCHANGED vars
    BY <1>6 DEF vars, Api!apiVars
  <1> QED BY <1>1, <1>2, <1>3, <1>4, <1>5, <1>6 DEF Next

\* The client implements the safety of MessageApi for every MaxRetries: a
\* bounded number of requests per call, one outcome per call, and tools only
\* from a call that reached the server.
THEOREM RefinesApi == Spec => Api!ApiSafe
  <1>1. Init => Api!ApiInit
    BY DEF Init, Api!ApiInit
  <1> QED BY <1>1, NextRefines, ClientInvariant, PTL DEF Spec, Api!ApiSafe
=============================================================================
