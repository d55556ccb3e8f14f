---------------------------- MODULE AgentsProofs ----------------------------
(***************************************************************************)
(* Proofs about the agent ecosystem.  The bus, the teams and the instance  *)
(* share no variable, so each has an inductive invariant of its own, and   *)
(* the steps of the other two leave it alone.                              *)
(***************************************************************************)
EXTENDS Agents, WellFoundedInduction, TLAPS

BusTypes ==
    /\ holder \in Agent \cup {None}
    /\ pc \in [Agent -> {"idle", "wait", "deliver", "stuck"}]
    /\ msg \in [Agent -> Message]
    /\ nth \in [Agent -> Nat]
    /\ subs \in Seq(Subscriber)
    /\ pending \in Seq(Message)
    /\ nextId \in Nat
    /\ published \in Nat
    /\ seen \in [Agent -> Seq(Nat)]

\* A thread that delivers holds the mutex.
Publishing(a) == pc[a] \in {"deliver", "stuck"}
Exclusive ==
    \A a \in Agent : Publishing(a) => holder = a /\ nth[a] > 0

\* Turns are given out in order, and so are the ids that come from next_id_; the
\* message being delivered has the newest turn, and the newest id if the bus
\* gave it one: this is why the bus, and not the threads, sets the order.
Numbered ==
    /\ \A i \in 1..Len(pending) :
         /\ pending[i].turn <= published
         /\ pending[i].by = "bus" => pending[i].id < nextId
    /\ \A b \in Agent : \A i \in 1..Len(seen[b]) : seen[b][i] <= published
Newest ==
    \A a \in Agent : Publishing(a) =>
        /\ msg[a].turn <= published
        /\ msg[a].by = "bus" => msg[a].id < nextId
        /\ \A i \in 1..Len(pending) : Before(pending[i], msg[a])
        /\ \A b \in Agent : \A i \in 1..Len(seen[b]) : seen[b][i] <= msg[a].turn

SeenOrder ==
    \A a \in Agent : \A m, n \in 1..Len(seen[a]) : m < n => seen[a][m] <= seen[a][n]
Sorted(s) == \A m, n \in 1..Len(s) : m < n => Before(s[m], s[n])

BusInv == BusTypes /\ Exclusive /\ Numbered /\ Newest /\ SeenOrder /\ Sorted(pending)

\* Also of teams that no name has any more.
TeamInv ==
    /\ made \in 0..MaxTeams
    /\ teams \in [TeamName -> 0..made]
    /\ members \in [1..MaxTeams -> SUBSET Agent]
    /\ results \in [1..MaxTeams -> [Agent -> Nat]]
    /\ \A t \in 1..MaxTeams, a \in Agent : results[t][a] > 0 => a \in members[t]

Outcome == IF early THEN "cancelled" ELSE "completed"

InstanceTypes ==
    /\ runs \in Nat
    /\ flag \in BOOLEAN
    /\ early \in BOOLEAN
    /\ raced \in BOOLEAN
    /\ ex \in {"idle", "running", "decided", "ended"}
    /\ cn \in {"idle", "test", "status", "task"}

\* What each step of an undisturbed execute() has established, and that the
\* cancel() which may follow it finds nothing running.
InstanceInv ==
    /\ InstanceTypes
    /\ ~raced /\ ex # "idle" => cn = "idle"
    /\ ~raced /\ ex = "running" => flag = early
    /\ ~raced /\ ex \in {"decided", "ended"} => taskStatus = Outcome
    /\ ~raced /\ ex = "ended" => status = Outcome
    /\ ~raced /\ ex = "idle" /\ runs > 0 =>
         cn \in {"idle", "test"} /\ result = Outcome /\ status = Outcome

-----------------------------------------------------------------------------
(* What erase(remove_if) leaves.  Its definition recurs over the positions *)
(* of the sequence, so the facts are proved by least counterexample.       *)

\* Every non-empty set of numbers has a least one.
LEMMA LeastNat ==
    ASSUME NEW T, T \subseteq Nat, T # {}
    PROVE  \E m \in T : \A k \in T : m <= k
<1>1. PICK m \in T : \A k \in T : <<k, m>> \notin OpToRel(<, Nat)
  BY WFMin, NatLessThanWellFounded, Zenon
<1>2. \A k \in T : ~(k < m)
  BY <1>1, Zenon DEF OpToRel
<1>3. QED
  BY <1>2

\* A set of numbers up to n that has 0, and has i when it has i - 1, has them
\* all.
LEMMA Upto ==
    ASSUME NEW n \in Nat, NEW P, 0 \in P,
           \A i \in 1..n : i - 1 \in P => i \in P
    PROVE  \A i \in 0..n : i \in P
<1> DEFINE Bad == { i \in 0..n : i \notin P }
<1> SUFFICES ASSUME Bad # {} PROVE FALSE
  OBVIOUS
<1>1. Bad \subseteq Nat
  OBVIOUS
<1>2. PICK m \in Bad : \A k \in Bad : m <= k
  <2> HIDE DEF Bad
  <2> QED BY <1>1, LeastNat
<1>3. m \in 1..n /\ m - 1 \in 0..n /\ m - 1 \notin Bad
  BY <1>2
<1> QED
  BY <1>2, <1>3

\* One round of the loop: the kept part after element x.
Step(k, x, D) == IF x \in D THEN k ELSE Append(k, x)

\* kept is a table of the rounds of f up to n.
Rounds(f, s, D, n) ==
    /\ DOMAIN f = 0..n
    /\ f[0] = <<>>
    /\ \A i \in 1..n : f[i] = Step(f[i - 1], s[i], D)

\* The recursion of Erase has a solution.
LEMMA EraseRounds ==
    ASSUME NEW S, NEW s \in Seq(S), NEW D
    PROVE  \E f \in [0..Len(s) -> Seq(S)] :
             Rounds(f, s, D, Len(s)) /\ Erase(s, D) = f[Len(s)]
<1>0. Len(s) \in Nat
  OBVIOUS
<1> DEFINE Has(n) == \E f \in [0..n -> Seq(S)] : Rounds(f, s, D, n)
<1> DEFINE N == { n \in 0..Len(s) : Has(n) }
<1>1. Has(0)
  <2> DEFINE f == [i \in 0..0 |-> <<>>]
  <2>1. f \in [0..0 -> Seq(S)] /\ Rounds(f, s, D, 0)
    BY DEF Rounds
  <2> QED BY <2>1
<1>2. ASSUME NEW n \in 1..Len(s), Has(n - 1) PROVE Has(n)
  <2>1. PICK f \in [0..(n - 1) -> Seq(S)] : Rounds(f, s, D, n - 1)
    BY <1>2
  <2> DEFINE x == Step(f[n - 1], s[n], D)
             g == [i \in 0..n |-> IF i = n THEN x ELSE f[i]]
  <2>2. x \in Seq(S)
    BY <1>2, <2>1 DEF Step
  <2> HIDE DEF x
  <2>3. g \in [0..n -> Seq(S)]
    BY <2>1, <2>2
  <2>4. g[0] = <<>>
    BY <1>2, <2>1 DEF Rounds
  <2>5. ASSUME NEW i \in 1..n PROVE g[i] = Step(g[i - 1], s[i], D)
    <3>1. CASE i = n
      <4>1. g[i - 1] = f[n - 1] /\ g[i] = x
        BY <3>1, <1>2
      <4> QED BY <4>1, <3>1 DEF x
    <3>2. CASE i # n
      <4>1. i \in 1..(n - 1) /\ g[i] = f[i] /\ g[i - 1] = f[i - 1]
        BY <3>2, <1>2
      <4> QED BY <4>1, <2>1 DEF Rounds
    <3> QED BY <3>1, <3>2
  <2> HIDE DEF g
  <2> QED BY <2>3, <2>4, <2>5 DEF Rounds
<1>3. \A n \in 0..Len(s) : n \in N
  <2> HIDE DEF Has
  <2>1. 0 \in N
    BY <1>1
  <2>2. \A i \in 1..Len(s) : i - 1 \in N => i \in N
    BY <1>2
  <2> HIDE DEF N
  <2> QED BY <1>0, <2>1, <2>2, Upto
<1>4. Len(s) \in N
  <2> HIDE DEF N
  <2> QED BY <1>3
<1>5. PICK f \in [0..Len(s) -> Seq(S)] : Rounds(f, s, D, Len(s))
  BY <1>4
<1> DEFINE At(k, i) ==
      IF i = 0 THEN <<>>
      ELSE IF s[i] \in D THEN k[i - 1] ELSE Append(k[i - 1], s[i])
           IsKept(k) == k = [i \in 0..Len(s) |-> At(k, i)]
           kept == CHOOSE k : IsKept(k)
<1>6. ASSUME NEW i \in 0..Len(s) PROVE f[i] = At(f, i)
  <2>1. CASE i = 0
    BY <1>5, <2>1 DEF Rounds
  <2>2. CASE i # 0
    <3>1. i \in 1..Len(s)
      BY <2>2
    <3>2. f[i] = Step(f[i - 1], s[i], D)
      BY <1>5, <3>1 DEF Rounds
    <3> QED BY <3>2, <2>2 DEF Step
  <2> QED BY <2>1, <2>2
<1>7. \A i \in 0..Len(s) : kept[i] = At(kept, i)
  <2>1. IsKept(f)
    <3> HIDE DEF At
    <3> QED BY <1>6
  <2>2. IsKept(kept)
    <3> HIDE DEF IsKept
    <3> QED BY <2>1, Zenon
  <2> HIDE DEF kept, At
  <2> QED BY <2>2
<1>8. Erase(s, D) = kept[Len(s)]
  BY Zenon DEF Erase
<1> HIDE DEF kept
<1>9. \A i \in 0..Len(s) : kept[i] = f[i]
  <2> DEFINE Same == { i \in 0..Len(s) : kept[i] = f[i] }
  <2>1. 0 \in Same
    BY <1>6, <1>7
  <2>2. ASSUME NEW i \in 1..Len(s), i - 1 \in Same PROVE i \in Same
    <3>1. kept[i - 1] = f[i - 1] /\ i # 0 /\ i \in 0..Len(s)
      BY <2>2
    <3>2. kept[i] = At(kept, i) /\ f[i] = At(f, i)
      BY <3>1, <1>6, <1>7
    <3>3. At(kept, i) = At(f, i)
      BY <3>1
    <3> QED BY <3>1, <3>2, <3>3
  <2>3. \A i \in 0..Len(s) : i \in Same
    <3> HIDE DEF Same
    <3> QED BY <1>0, <2>1, <2>2, Upto
  <2> QED BY <2>3
<1>10. Erase(s, D) = f[Len(s)]
  BY <1>8, <1>9
<1> QED
  BY <1>5, <1>10

\* What is kept was there, and if the messages were in order, they still are.
LEMMA ErasePart ==
    ASSUME NEW S, NEW s \in Seq(S), NEW D
    PROVE  /\ Erase(s, D) \in Seq(S)
           /\ \A k \in 1..Len(Erase(s, D)) : \E i \in 1..Len(s) : Erase(s, D)[k] = s[i]
           /\ Sorted(s) => Sorted(Erase(s, D))
<1>0. Len(s) \in Nat
  OBVIOUS
<1>1. PICK f \in [0..Len(s) -> Seq(S)] :
        Rounds(f, s, D, Len(s)) /\ Erase(s, D) = f[Len(s)]
  BY EraseRounds
<1> DEFINE Part(n) == \A k \in 1..Len(f[n]) : \E i \in 1..n : f[n][k] = s[i]
           Parts == { n \in 0..Len(s) : Part(n) }
           Ordered == { n \in 0..Len(s) : Sorted(f[n]) }
<1>2. ASSUME NEW n \in 1..Len(s), Part(n - 1) PROVE Part(n)
  <2>1. f[n] = Step(f[n - 1], s[n], D) /\ n - 1 \in 0..Len(s)
    BY <1>1 DEF Rounds
  <2>2. CASE s[n] \in D
    BY <1>2, <2>1, <2>2 DEF Step
  <2>3. CASE s[n] \notin D
    <3>1. f[n] = Append(f[n - 1], s[n])
      BY <2>1, <2>3 DEF Step
    <3>2. ASSUME NEW k \in 1..Len(f[n]) PROVE \E i \in 1..n : f[n][k] = s[i]
      <4>1. CASE k <= Len(f[n - 1])
        BY <1>2, <2>1, <3>1, <4>1
      <4>2. CASE k > Len(f[n - 1])
        BY <2>1, <3>1, <4>2
      <4> QED BY <4>1, <4>2, <2>1
    <3> QED BY <3>2
  <2> QED BY <2>2, <2>3
<1>3. \A n \in 0..Len(s) : n \in Parts
  <2>1. 0 \in Parts
    BY <1>1 DEF Rounds
  <2> HIDE DEF Part
  <2>2. \A n \in 1..Len(s) : n - 1 \in Parts => n \in Parts
    BY <1>2
  <2> HIDE DEF Parts
  <2> QED BY <1>0, <2>1, <2>2, Upto
<1>4. \A n \in 0..Len(s) : Part(n)
  BY <1>3
<1>5. ASSUME Sorted(s) PROVE Sorted(Erase(s, D))
  <2>1. 0 \in Ordered
    BY <1>1 DEF Rounds, Sorted
  <2>2. ASSUME NEW n \in 1..Len(s), Sorted(f[n - 1]) PROVE Sorted(f[n])
    <3>1. f[n] = Step(f[n - 1], s[n], D) /\ n - 1 \in 0..Len(s) /\ f[n - 1] \in Seq(S)
      BY <1>1 DEF Rounds
    <3>2. CASE s[n] \in D
      BY <2>2, <3>1, <3>2 DEF Step
    <3>3. CASE s[n] \notin D
      <4>1. f[n] = Append(f[n - 1], s[n]) /\ s[n] \in S
        BY <3>1, <3>3 DEF Step
      <4>2. ASSUME NEW k \in 1..Len(f[n - 1]) PROVE Before(f[n - 1][k], s[n])
        <5>1. PICK i \in 1..(n - 1) : f[n - 1][k] = s[i]
          BY <1>4, <3>1, <4>2
        <5> QED BY <5>1, <1>5 DEF Sorted
      <4>3. ASSUME NEW j \in 1..Len(f[n]), NEW k \in 1..Len(f[n]), j < k
            PROVE  Before(f[n][j], f[n][k])
        <5>1. CASE k <= Len(f[n - 1])
          BY <2>2, <3>1, <4>1, <4>3, <5>1 DEF Sorted
        <5>2. CASE k > Len(f[n - 1])
          <6>1. f[n][k] = s[n] /\ j \in 1..Len(f[n - 1]) /\ f[n][j] = f[n - 1][j]
            BY <3>1, <4>1, <4>3, <5>2
          <6> QED BY <6>1, <4>2
        <5> QED BY <5>1, <5>2, <3>1
      <4> QED BY <4>3 DEF Sorted
    <3> QED BY <3>2, <3>3
  <2>3. \A n \in 1..Len(s) : n - 1 \in Ordered => n \in Ordered
    BY <2>2
  <2>4. \A n \in 0..Len(s) : n \in Ordered
    <3> HIDE DEF Ordered
    <3> QED BY <1>0, <2>1, <2>3, Upto
  <2> QED BY <2>4, <1>1
<1> QED
  BY <1>1, <1>4, <1>5

-----------------------------------------------------------------------------
(* The bus.                                                                *)

\* What a bus step does not touch keeps the invariant.
LEMMA BusFrame ==
    ASSUME BusInv, UNCHANGED busVars
    PROVE  BusInv'
BY DEF BusInv, busVars, BusTypes, Exclusive, Publishing, Numbered, Newest, SeenOrder, Sorted

\* What the fields of a message are, and what numbering it does to them.
LEMMA MessageFields ==
    ASSUME NEW m \in Message
    PROVE  m.turn \in Nat /\ m.id \in Nat /\ m.by \in {"bus", "publisher"}
BY DEF Message

LEMMA StampedFields ==
    ASSUME NEW m \in Message, NEW turn \in Nat, NEW id \in Nat
    PROVE  /\ Stamped(m, turn, id) \in Message
           /\ Stamped(m, turn, id).by = m.by
           /\ Stamped(m, turn, id).turn = turn
           /\ m.by = "bus" => Stamped(m, turn, id).id = id
<1> DEFINE i == IF m.by = "bus" THEN id ELSE m.id
<1>1. i \in Nat /\ (m.by = "bus" => i = id)
  BY MessageFields
<1>2. Stamped(m, turn, id) = [m EXCEPT !.turn = turn, !.id = i]
  BY DEF Stamped, Message
<1> HIDE DEF i
<1> QED
  BY <1>1, <1>2 DEF Message

\* The message that takes the mutex waits for no one, gets the next turn, and
\* the next id unless it has one.
LEMMA LockInv ==
    ASSUME BusInv, NEW a \in Agent, Lock(a)
    PROVE  BusInv'
<1> USE DEF BusInv
<1> DEFINE m == Stamped(msg[a], published + 1, nextId)
<1>0. /\ msg[a] \in Message /\ nextId \in Nat /\ published \in Nat
      /\ msg \in [Agent -> Message]
  BY DEF BusTypes
<1>1. /\ m \in Message /\ m.by = msg[a].by /\ m.turn = published + 1
      /\ m.by = "bus" => m.id = nextId
  BY <1>0, StampedFields
<1>2. /\ msg' = [msg EXCEPT ![a] = m]
      /\ nextId' \in {nextId, nextId + 1}
      /\ m.by = "bus" => nextId' = nextId + 1
      /\ published' = published + 1
      /\ holder = None /\ holder' = a
      /\ nth' = [nth EXCEPT ![a] = 1] /\ pc' = [pc EXCEPT ![a] = "deliver"]
      /\ subs' = subs /\ pending' = pending /\ seen' = seen
  BY <1>0, <1>1 DEF Lock, Number
<1> HIDE DEF m
<1>3. BusTypes'
  BY <1>0, <1>1, <1>2 DEF BusTypes
<1>4. \A b \in Agent : ~Publishing(b)
  BY <1>2, NoneAssumption DEF Exclusive
<1>5. \A b \in Agent : Publishing(b)' => b = a
  BY <1>2, <1>4 DEF BusTypes, Publishing
<1>6. Exclusive'
  BY <1>2, <1>5 DEF BusTypes, Exclusive
<1>7. ASSUME NEW i \in 1..Len(pending)
      PROVE  /\ pending[i].turn \in Nat /\ pending[i].id \in Nat
             /\ pending[i].turn <= published
             /\ pending[i].by = "bus" => pending[i].id < nextId
  <2>1. pending[i] \in Message
    BY DEF BusTypes
  <2> QED BY <2>1, MessageFields DEF Numbered
<1>8. ASSUME NEW b \in Agent, NEW i \in 1..Len(seen[b])
      PROVE  seen[b][i] \in Nat /\ seen[b][i] <= published
  BY DEF Numbered, BusTypes
<1>9. Numbered'
  BY <1>0, <1>2, <1>7, <1>8 DEF Numbered
<1>10. msg'[a] = m
  BY <1>0, <1>2
<1>11. \A i \in 1..Len(pending) : Before(pending[i], m)
  BY <1>0, <1>1, <1>7 DEF Before
<1>12. \A b \in Agent : \A i \in 1..Len(seen[b]) : seen[b][i] <= m.turn
  BY <1>0, <1>1, <1>8
<1>13. m.turn <= published' /\ (m.by = "bus" => m.id < nextId')
  BY <1>0, <1>1, <1>2
<1>14. Newest'
  BY <1>2, <1>5, <1>10, <1>11, <1>12, <1>13 DEF Newest
<1>15. SeenOrder' /\ Sorted(pending)'
  BY <1>2 DEF SeenOrder, Sorted
<1> QED
  BY <1>3, <1>6, <1>9, <1>14, <1>15

\* What leaves publish, whichever way, releases the mutex.
LEMMA LeaveInv ==
    ASSUME BusInv, NEW a \in Agent, holder = a, Leave(a), nextId' = nextId,
           published' = published, subs' = subs,
           pending' \in Seq(Message), seen' \in [Agent -> Seq(Nat)],
           Numbered', SeenOrder', Sorted(pending)'
    PROVE  BusInv'
<1> USE DEF BusInv, Leave
<1>1. NoMsg \in Message
  BY DEF NoMsg, NewMsg, Message
<1>2. BusTypes'
  BY <1>1 DEF BusTypes
<1>3. \A b \in Agent : ~Publishing(b)'
  BY DEF BusTypes, Publishing, Exclusive
<1> QED
  BY <1>2, <1>3 DEF Exclusive, Newest

\* A callback gets the newest message: what it got before is not newer.
LEMMA DeliverInv ==
    ASSUME BusInv, NEW a \in Agent, Deliver(a)
    PROVE  BusInv'
<1> DEFINE sub == subs[nth[a]]
           hit == msg[a].to \in {sub.agent, None}
           turn == msg[a].turn
<1>1. /\ Publishing(a) /\ holder = a
      /\ nth[a] \in 1..Len(subs)
      /\ sub.agent \in Agent
      /\ turn \in Nat
      /\ turn <= published
      /\ \A b \in Agent : \A i \in 1..Len(seen[b]) : seen[b][i] <= turn
  <2>1. Publishing(a) /\ nth[a] <= Len(subs)
    BY DEF Deliver, Publishing
  <2>2. holder = a /\ nth[a] \in 1..Len(subs)
    BY <2>1 DEF BusInv, BusTypes, Exclusive
  <2>3. sub \in Subscriber /\ msg[a] \in Message
    BY <2>2 DEF BusInv, BusTypes
  <2>4. sub.agent \in Agent /\ turn \in Nat
    BY <2>3 DEF Subscriber, Message
  <2> QED BY <2>1, <2>2, <2>4 DEF BusInv, Newest
<1>2. /\ seen' = IF hit THEN [seen EXCEPT ![sub.agent] = Append(@, turn)] ELSE seen
      /\ subs' = subs /\ pending' = pending
      /\ nextId' = nextId /\ published' = published
  BY DEF Deliver
<1>3. \/ Leave(a)
      \/ pc' = [pc EXCEPT ![a] = "stuck"] /\ UNCHANGED <<holder, msg, nth>>
      \/ nth' = [nth EXCEPT ![a] = @ + 1] /\ UNCHANGED <<holder, pc, msg>>
  BY DEF Deliver
<1> HIDE DEF sub, hit, turn
<1>4. ASSUME NEW b \in Agent
      PROVE  \/ seen'[b] = seen[b]
             \/ seen'[b] = Append(seen[b], turn)
  BY <1>1, <1>2 DEF BusInv, BusTypes
<1>5. seen' \in [Agent -> Seq(Nat)]
  BY <1>1, <1>2 DEF BusInv, BusTypes
<1>6. ASSUME NEW b \in Agent
      PROVE  /\ \A i \in 1..Len(seen'[b]) : seen'[b][i] <= turn
             /\ \A m, n \in 1..Len(seen'[b]) : m < n => seen'[b][m] <= seen'[b][n]
  <2>1. seen[b] \in Seq(Nat)
    BY DEF BusInv, BusTypes
  <2>2. /\ \A i \in 1..Len(seen[b]) : seen[b][i] <= turn
        /\ \A m, n \in 1..Len(seen[b]) : m < n => seen[b][m] <= seen[b][n]
    BY <1>1 DEF BusInv, SeenOrder
  <2>3. CASE seen'[b] = seen[b]
    BY <2>2, <2>3
  <2>4. CASE seen'[b] = Append(seen[b], turn)
    BY <1>1, <2>1, <2>2, <2>4
  <2> QED BY <1>4, <2>3, <2>4
<1>7. SeenOrder'
  BY <1>6 DEF SeenOrder
<1>8. Numbered'
  <2>1. \A b \in Agent : \A i \in 1..Len(seen'[b]) : seen'[b][i] \in Nat
    BY <1>5
  <2>2. published \in Nat
    BY DEF BusInv, BusTypes
  <2> QED BY <1>1, <1>2, <1>6, <2>1, <2>2 DEF BusInv, Numbered
<1>9. Sorted(pending)'
  BY <1>2 DEF BusInv, Sorted
<1>10. CASE Leave(a)
  <2>1. pending' \in Seq(Message)
    BY <1>2 DEF BusInv, BusTypes
  <2> QED BY <1>1, <1>2, <1>5, <1>7, <1>8, <1>9, <1>10, <2>1, LeaveInv
<1>11. CASE \/ pc' = [pc EXCEPT ![a] = "stuck"] /\ UNCHANGED <<holder, msg, nth>>
            \/ nth' = [nth EXCEPT ![a] = @ + 1] /\ UNCHANGED <<holder, pc, msg>>
  <2>1. BusTypes'
    <3>1. nth[a] + 1 \in Nat
      BY <1>1
    <3>2. CASE pc' = [pc EXCEPT ![a] = "stuck"] /\ UNCHANGED <<holder, msg, nth>>
      BY <1>2, <1>5, <3>2 DEF BusInv, BusTypes
    <3>3. CASE nth' = [nth EXCEPT ![a] = @ + 1] /\ UNCHANGED <<holder, pc, msg>>
      BY <1>2, <1>5, <3>1, <3>3 DEF BusInv, BusTypes
    <3> QED BY <1>11, <3>2, <3>3
  <2>2. \A b \in Agent : Publishing(b)' => Publishing(b)
    BY <1>1, <1>11 DEF BusInv, BusTypes, Publishing
  <2>3. \A b \in Agent : nth[b] > 0 => nth'[b] > 0
    <3> SUFFICES ASSUME NEW b \in Agent, nth[b] > 0 PROVE nth'[b] > 0
      OBVIOUS
    <3>1. nth \in [Agent -> Nat]
      BY DEF BusInv, BusTypes
    <3>2. nth'[b] = nth[b] \/ nth'[b] = nth[b] + 1
      BY <1>11, <3>1
    <3> QED BY <3>1, <3>2
  <2>4. Exclusive'
    BY <1>11, <2>2, <2>3 DEF BusInv, Exclusive
  <2>5. \A b \in Agent : Publishing(b)' => b = a
    BY <1>1, <2>2 DEF BusInv, Exclusive
  <2>6. msg' = msg
    BY <1>11
  <2>7. Newest'
    <3>1. /\ turn <= published
          /\ msg[a].by = "bus" => msg[a].id < nextId
          /\ \A i \in 1..Len(pending) : Before(pending[i], msg[a])
      BY <1>1 DEF BusInv, Newest, turn
    <3> QED BY <1>2, <1>6, <2>5, <2>6, <3>1 DEF Newest, turn
  <2> QED BY <2>1, <2>4, <2>7, <1>7, <1>8, <1>9 DEF BusInv
<1> QED
  BY <1>3, <1>10, <1>11

\* The message that is stored is newer than all that are pending.
LEMMA StoreInv ==
    ASSUME BusInv, NEW a \in Agent, Store(a)
    PROVE  BusInv'
<1>1. /\ holder = a /\ Leave(a) /\ nextId' = nextId /\ published' = published
      /\ subs' = subs /\ seen' = seen
      /\ pending' = Append(pending, msg[a])
      /\ pending \in Seq(Message) /\ msg[a] \in Message
      /\ msg[a].turn <= published
      /\ msg[a].by = "bus" => msg[a].id < nextId
      /\ \A i \in 1..Len(pending) : Before(pending[i], msg[a])
  BY DEF Store, BusInv, BusTypes, Exclusive, Newest, Publishing
<1>2. \A i \in 1..Len(pending') :
        \/ i \in 1..Len(pending) /\ pending'[i] = pending[i]
        \/ i = Len(pending) + 1 /\ pending'[i] = msg[a]
  BY <1>1
<1>3. Sorted(pending)'
  BY <1>1, <1>2 DEF Sorted, BusInv
<1>4. Numbered'
  <2>1. \A i \in 1..Len(pending') :
          /\ pending'[i].turn <= published
          /\ pending'[i].by = "bus" => pending'[i].id < nextId
    BY <1>1, <1>2 DEF BusInv, Numbered
  <2> QED BY <1>1, <2>1 DEF BusInv, Numbered
<1>5. SeenOrder'
  BY <1>1 DEF BusInv, SeenOrder
<1>6. pending' \in Seq(Message) /\ seen' \in [Agent -> Seq(Nat)]
  BY <1>1 DEF BusInv, BusTypes
<1> QED
  BY <1>1, <1>3, <1>4, <1>5, <1>6, LeaveInv

\* The subscribers change only while nobody delivers.
LEMMA SubscribersInv ==
    ASSUME BusInv, NEW a \in Agent, Subscribe(a) \/ Unsubscribe(a)
    PROVE  BusInv'
<1>1. UNCHANGED <<holder, pc, msg, nth, pending, nextId, published, seen>>
  BY DEF Subscribe, Unsubscribe
<1>2. subs \in Seq(Subscriber)
  BY DEF BusInv, BusTypes
<1>3. subs' \in Seq(Subscriber)
  <2>1. CASE Subscribe(a)
    BY <1>2, <2>1 DEF Subscribe, Subscriber
  <2>2. CASE Unsubscribe(a)
    BY <1>2, <2>2, ErasePart DEF Unsubscribe
  <2> QED BY <2>1, <2>2
<1> QED
  BY <1>1, <1>3
  DEF BusInv, BusTypes, Exclusive, Publishing, Numbered, Newest, SeenOrder, Sorted

\* clear drops messages and keeps the order of the others.
LEMMA ClearInv ==
    ASSUME BusInv, NEW a \in Agent, Clear(a)
    PROVE  BusInv'
<1> DEFINE D == { m \in Message : a \in {m.to, m.from} }
<1>1. /\ UNCHANGED <<holder, pc, msg, nth, subs, nextId, published, seen>>
      /\ pending' = Erase(pending, D)
  BY DEF Clear
<1>2. pending \in Seq(Message)
  BY DEF BusInv, BusTypes
<1> HIDE DEF D
<1>4. /\ pending' \in Seq(Message)
      /\ \A k \in 1..Len(pending') : \E i \in 1..Len(pending) : pending'[k] = pending[i]
      /\ Sorted(pending)'
  BY <1>1, <1>2, ErasePart DEF BusInv
<1>5. BusTypes' /\ Exclusive' /\ SeenOrder'
  BY <1>1, <1>4 DEF BusInv, BusTypes, Exclusive, Publishing, SeenOrder
<1>6. Numbered'
  BY <1>1, <1>4 DEF BusInv, Numbered
<1>7. Newest'
  BY <1>1, <1>4 DEF BusInv, Newest, Publishing
<1> QED
  BY <1>4, <1>5, <1>6, <1>7 DEF BusInv

\* publish queues for the mutex.
LEMMA PublishInv ==
    ASSUME BusInv, NEW a \in Agent, NEW to \in Agent \cup {None}, NEW id \in {0, 1},
           Publish(a, to, id)
    PROVE  BusInv'
<1>1. /\ UNCHANGED <<holder, nth, subs, pending, nextId, published, seen>>
      /\ msg' = [msg EXCEPT ![a] = NewMsg(id, a, to)]
      /\ pc' = [pc EXCEPT ![a] = "wait"]
  BY DEF Publish
<1>2. NewMsg(id, a, to) \in Message
  BY DEF NewMsg, Message
<1>3. BusTypes'
  BY <1>1, <1>2 DEF BusInv, BusTypes
<1>4. \A b \in Agent : Publishing(b)' => Publishing(b) /\ msg'[b] = msg[b]
  BY <1>1 DEF BusInv, BusTypes, Publishing
<1>5. Exclusive' /\ Numbered' /\ SeenOrder' /\ Sorted(pending)'
  BY <1>1, <1>4 DEF BusInv, Exclusive, Numbered, SeenOrder, Sorted
<1>6. Newest'
  BY <1>1, <1>4 DEF BusInv, Newest
<1> QED
  BY <1>3, <1>5, <1>6 DEF BusInv

-----------------------------------------------------------------------------
(* The teams.                                                              *)

\* No step of a team gives a task to one who is not a member, and who leaves
\* leaves the tasks behind; a team without a name is not touched any more.
LEMMA TeamAct ==
    ASSUME TeamInv, NEW t \in Owned,
           \/ \E a \in Agent : AddMember(t, a) \/ RemoveMember(t, a) \/ Assign(t, a)
           \/ Broadcast(t) \/ ClearTasks(t)
    PROVE  TeamInv'
<1>1. /\ made' = made /\ teams' = teams
      /\ members \in [1..MaxTeams -> SUBSET Agent]
      /\ results \in [1..MaxTeams -> [Agent -> Nat]]
      /\ \A u \in 1..MaxTeams, b \in Agent : results[u][b] > 0 => b \in members[u]
  BY DEF AddMember, RemoveMember, Assign, Broadcast, ClearTasks, TeamInv
<1>2. t \in 1..MaxTeams
  BY BoundsAssumption DEF Owned, TeamInv
<1> SUFFICES /\ members' \in [1..MaxTeams -> SUBSET Agent]
             /\ results' \in [1..MaxTeams -> [Agent -> Nat]]
             /\ \A u \in 1..MaxTeams, b \in Agent : results'[u][b] > 0 => b \in members'[u]
  BY <1>1 DEF TeamInv
<1>3. CASE \E a \in Agent : AddMember(t, a)
  BY <1>1, <1>2, <1>3 DEF AddMember
<1>4. CASE \E a \in Agent : RemoveMember(t, a)
  BY <1>1, <1>2, <1>4 DEF RemoveMember
<1>5. CASE \E a \in Agent : Assign(t, a)
  BY <1>1, <1>2, <1>5 DEF Assign
<1>6. CASE Broadcast(t)
  <2> DEFINE new == [b \in Agent |-> IF b \in members[t] THEN results[t][b] + 1
                                     ELSE results[t][b]]
  <2>1. results' = [results EXCEPT ![t] = new] /\ members' = members
    BY <1>1, <1>2, <1>6 DEF Broadcast
  <2>2. /\ new \in [Agent -> Nat]
        /\ \A b \in Agent : new[b] > 0 => b \in members[t]
    BY <1>1, <1>2
  <2> HIDE DEF new
  <2> QED BY <1>1, <1>2, <2>1, <2>2
<1>7. CASE ClearTasks(t)
  BY <1>1, <1>2, <1>7 DEF ClearTasks
<1> QED
  BY <1>3, <1>4, <1>5, <1>6, <1>7

\* Names come and go, teams are made in turn.
LEMMA NameAct ==
    ASSUME TeamInv, (\E n \in TeamName : CreateTeam(n) \/ RemoveTeam(n)) \/ Shutdown
    PROVE  TeamInv'
<1>1. CASE \E n \in TeamName : CreateTeam(n)
  BY <1>1, BoundsAssumption DEF CreateTeam, TeamInv
<1>2. CASE \E n \in TeamName : RemoveTeam(n)
  BY <1>2, BoundsAssumption DEF RemoveTeam, TeamInv
<1>3. CASE Shutdown
  BY <1>3, BoundsAssumption DEF Shutdown, TeamInv
<1> QED
  BY <1>1, <1>2, <1>3

-----------------------------------------------------------------------------
(* The instance.                                                           *)

\* Every access of execute() and of cancel(), in any order.
LEMMA InstanceAct ==
    ASSUME InstanceInv,
           \/ Execute \/ Decide \/ SetStatus \/ Return
           \/ Cancel \/ CancelTests \/ CancelMarks
    PROVE  InstanceInv'
<1> USE DEF InstanceInv, InstanceTypes, Outcome
<1>1. CASE Execute
  <2>1. raced' \in BOOLEAN /\ (~raced' => cn = "idle")
    BY <1>1 DEF Execute
  <2>2. /\ runs' = runs + 1 /\ ex' = "running" /\ early' = flag
        /\ flag' = flag /\ cn' = cn
    BY <1>1 DEF Execute
  <2>3. InstanceTypes'
    BY <2>1, <2>2
  <2> QED BY <2>1, <2>2, <2>3
<1>2. CASE Decide
  BY <1>2 DEF Decide
<1>3. CASE SetStatus
  BY <1>3 DEF SetStatus
<1>4. CASE Return
  BY <1>4 DEF Return
<1>5. CASE Cancel
  BY <1>5 DEF Cancel
<1>6. CASE CancelTests
  BY <1>6 DEF CancelTests
<1>7. CASE CancelMarks
  BY <1>7 DEF CancelMarks
<1> QED
  BY <1>1, <1>2, <1>3, <1>4, <1>5, <1>6, <1>7

-----------------------------------------------------------------------------
(* The invariant of the whole.                                             *)

AgentsInv == BusInv /\ TeamInv /\ InstanceInv

\* Nothing is subscribed, no team is made, nothing runs.
LEMMA InitAgents == Init => AgentsInv
<1> SUFFICES ASSUME Init PROVE AgentsInv
  OBVIOUS
<1>1. BusInv
  <2>1. NoMsg \in Message
    BY DEF NoMsg, NewMsg, Message
  <2>2. BusTypes
    BY <2>1 DEF Init, BusTypes
  <2> QED BY <2>2 DEF Init, BusInv, Exclusive, Publishing, Numbered, Newest, SeenOrder, Sorted
<1>2. TeamInv
  BY BoundsAssumption DEF Init, TeamInv
<1>3. InstanceInv
  <2>1. flag \in BOOLEAN /\ early \in BOOLEAN /\ raced \in BOOLEAN
    BY DEF Init
  <2>2. runs = 0 /\ ex = "idle" /\ cn = "idle"
    BY DEF Init
  <2> QED BY <2>1, <2>2 DEF InstanceInv, InstanceTypes
<1> QED
  BY <1>1, <1>2, <1>3 DEF AgentsInv

\* A step is a step of one part, and leaves the other two alone.
LEMMA OnePart ==
    ASSUME Next
    PROVE  \/ /\ \E a \in Agent :
                   \/ \E to \in Agent \cup {None}, id \in {0, 1} : Publish(a, to, id)
                   \/ Lock(a) \/ Deliver(a) \/ Store(a)
                   \/ Subscribe(a) \/ Unsubscribe(a) \/ Clear(a)
              /\ UNCHANGED <<teamVars, instance>>
           \/ /\ \/ (\E n \in TeamName : CreateTeam(n) \/ RemoveTeam(n)) \/ Shutdown
                 \/ \E t \in Owned, a \in Agent :
                      AddMember(t, a) \/ RemoveMember(t, a) \/ Assign(t, a)
                 \/ \E t \in Owned : Broadcast(t) \/ ClearTasks(t)
              /\ UNCHANGED <<busVars, instance>>
           \/ /\ \/ Execute \/ Decide \/ SetStatus \/ Return
                 \/ Cancel \/ CancelTests \/ CancelMarks
              /\ UNCHANGED <<busVars, teamVars>>
           \/ UNCHANGED <<busVars, teamVars, instance>>
BY DEF Next, BusStep, Publish, Lock, Deliver, Store, Subscribe, Unsubscribe, Clear, OnBus,
       CreateTeam, RemoveTeam, Shutdown, AddMember, RemoveMember, Assign, Broadcast,
       ClearTasks, OnTeams, RegisterAgent, AgentTool, AgentToolRuns,
       RegisterBuiltins, SubmitTask, Execute, Decide, SetStatus, Return, Cancel, CancelTests, CancelMarks, Inst, OnTasks,
       taskVars

\* The other two invariants are about variables the step leaves alone.
LEMMA OtherFrame ==
    /\ TeamInv /\ UNCHANGED teamVars => TeamInv'
    /\ InstanceInv /\ UNCHANGED instance => InstanceInv'
<1>1. TeamInv /\ UNCHANGED teamVars => TeamInv'
  BY DEF TeamInv, teamVars
<1>2. InstanceInv /\ UNCHANGED instance => InstanceInv'
  BY DEF InstanceInv, InstanceTypes, Outcome, instance
<1> QED
  BY <1>1, <1>2

\* Every step keeps the three invariants.
LEMMA NextAgents ==
    ASSUME AgentsInv, [Next]_vars
    PROVE  AgentsInv'
<1> USE DEF AgentsInv
<1>1. CASE UNCHANGED vars
  BY <1>1, BusFrame, OtherFrame DEF vars, taskVars
<1>2. CASE Next
  <2>1. CASE UNCHANGED <<busVars, teamVars, instance>>
    BY <2>1, BusFrame, OtherFrame
  <2>2. CASE /\ \E a \in Agent :
                  \/ \E to \in Agent \cup {None}, id \in {0, 1} : Publish(a, to, id)
                  \/ Lock(a) \/ Deliver(a) \/ Store(a)
                  \/ Subscribe(a) \/ Unsubscribe(a) \/ Clear(a)
             /\ UNCHANGED <<teamVars, instance>>
    BY <2>2, OtherFrame, PublishInv, LockInv, DeliverInv, StoreInv, SubscribersInv, ClearInv
  <2>3. CASE /\ \/ (\E n \in TeamName : CreateTeam(n) \/ RemoveTeam(n)) \/ Shutdown
                \/ \E t \in Owned, a \in Agent :
                     AddMember(t, a) \/ RemoveMember(t, a) \/ Assign(t, a)
                \/ \E t \in Owned : Broadcast(t) \/ ClearTasks(t)
             /\ UNCHANGED <<busVars, instance>>
    BY <2>3, OtherFrame, BusFrame, TeamAct, NameAct
  <2>4. CASE /\ \/ Execute \/ Decide \/ SetStatus \/ Return
                \/ Cancel \/ CancelTests \/ CancelMarks
             /\ UNCHANGED <<busVars, teamVars>>
    BY <2>4, OtherFrame, BusFrame, InstanceAct
  <2> QED BY <1>2, <2>1, <2>2, <2>3, <2>4, OnePart
<1> QED
  BY <1>1, <1>2

\* The three invariants hold throughout, whichever part runs.
THEOREM AgentsSafe == Spec => []AgentsInv
<1>1. Init => AgentsInv
  BY InitAgents
<1>2. AgentsInv /\ [Next]_vars => AgentsInv'
  BY NextAgents
<1> QED
  BY <1>1, <1>2, PTL DEF Spec

\* For any number of agents, messages and subscriptions: callbacks and poll see
\* the messages in the order in which publish took them up, and the bus's ids
\* ascend in it, since publish numbers and delivers under one lock: also when
\* callbacks throw, clear drops what is pending, or publishers set ids.
THEOREM OrderSafe == Spec => []SameOrder
<1>1. AgentsInv => SameOrder
  BY DEF AgentsInv, BusInv, SeenOrder, Sorted, SameOrder
<1> QED
  BY <1>1, AgentsSafe, PTL

\* For any number of teams and members: only members have tasks.
THEOREM TasksSafe == Spec => []TasksOfMembers
<1>1. AgentsInv => TasksOfMembers
  BY BoundsAssumption DEF AgentsInv, TeamInv, TasksOfMembers, Owned
<1> QED
  BY <1>1, AgentsSafe, PTL

\* For any number of executions and cancellations of an instance: an undisturbed
\* execute() returns what status() says, and "cancelled" once it was cancelled.
THEOREM CancelSafe == Spec => []CancelHonoured
<1>1. AgentsInv => CancelHonoured
  BY DEF AgentsInv, InstanceInv, Outcome, CancelHonoured
<1> QED
  BY <1>1, AgentsSafe, PTL

\* A callback of a's publish has used the bus.
Stuck(a) == pc[a] = "stuck"

\* Once a callback has used the bus, its thread keeps the mutex for ever: later
\* calls may queue up, but no message is delivered or stored, nobody subscribes
\* or clears.  This is the exception PublishEnds makes.
THEOREM StuckForEver ==
    Spec => [][\A a \in Agent : Stuck(a) =>
                 Stuck(a)' /\ UNCHANGED <<holder, subs, pending, nextId, published, seen>>]_vars
<1>1. ASSUME AgentsInv, [Next]_vars, NEW a \in Agent, Stuck(a)
      PROVE  Stuck(a)' /\ UNCHANGED <<holder, subs, pending, nextId, published, seen>>
  <2>1. /\ pc \in [Agent -> {"idle", "wait", "deliver", "stuck"}]
        /\ holder = a
        /\ \A b \in Agent : pc[b] = "deliver" => b = a
    BY <1>1 DEF AgentsInv, BusInv, BusTypes, Exclusive, Publishing, Stuck
  <2>2. holder # None /\ \A b \in Agent : pc[b] # "deliver"
    BY <1>1, <2>1, NoneAssumption DEF Stuck
  <2>3. CASE UNCHANGED busVars
    BY <1>1, <2>3 DEF busVars, Stuck
  <2>4. ASSUME NEW b \in Agent, NEW to \in Agent \cup {None}, NEW id \in {0, 1},
               Publish(b, to, id)
        PROVE  Stuck(a)' /\ UNCHANGED <<holder, subs, pending, nextId, published, seen>>
    <3>1. b # a
      BY <1>1, <2>4 DEF Publish, Stuck
    <3> QED BY <1>1, <2>1, <2>4, <3>1 DEF Publish, Stuck
  <2>5. ASSUME NEW b \in Agent,
               \/ Lock(b) \/ Deliver(b) \/ Store(b)
               \/ Subscribe(b) \/ Unsubscribe(b) \/ Clear(b)
        PROVE  FALSE
    BY <2>2, <2>5 DEF Lock, Deliver, Store, Subscribe, Unsubscribe, Clear
  <2>6. CASE Next
    BY <2>3, <2>4, <2>5, <2>6, OnePart
  <2> QED BY <1>1, <2>3, <2>6 DEF vars
<1>2. AgentsInv /\ [Next]_vars =>
        [\A a \in Agent : Stuck(a) =>
           Stuck(a)' /\ UNCHANGED <<holder, subs, pending, nextId, published, seen>>]_vars
  BY <1>1
<1> QED
  BY <1>2, AgentsSafe, PTL DEF Spec
=============================================================================
