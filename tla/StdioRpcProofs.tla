--------------------------- MODULE StdioRpcProofs ---------------------------
(***************************************************************************)
(* Proofs about the three clients of a server behind two pipes, for any    *)
(* number of servers, requests and notifications and any way in which the  *)
(* output of a server is cut into reads.                                   *)
(***************************************************************************)
EXTENDS StdioRpc, TLAPS

Kinds == {"result", "error", "note"}
Phases == {"idle", "spawned", "read", "grace", "killed"} \cup Blocked
Whats == {"none", "initialize", "call", "shutdown", "receive"}

\* Every variable has its type.
TypeInv ==
    /\ impl \in {"mcp", "conn", "lsp"}
    /\ pc \in Phases
    /\ kids \in [1..MaxKids -> {"none", "running", "dead", "reaped"}]
    /\ gen \in Nat /\ gen <= MaxKids
    /\ fds \subseteq 1..gen /\ abandoned \subseteq 1..gen
    /\ pid \in Nat /\ pid <= gen
    /\ connected \in BOOLEAN /\ initialized \in BOOLEAN /\ listed \in BOOLEAN
    /\ call \in [id : Nat, what : Whats]
    /\ fresh \in BOOLEAN
    /\ nextId \in Nat /\ nextId > 0 /\ inbox \subseteq Nat
    /\ said \in Seq([kind : Kinds, to : Nat])
    /\ hidden \in Nat /\ out \in Nat /\ inp \in Nat /\ base \in Nat
    /\ last \in Nat /\ given \in Nat
    /\ mixed \in BOOLEAN /\ timedOut \in BOOLEAN
    /\ told \in {"none", "found", "nothing", "failed"}

\* Which phases of a call go with which flags of which client.
PhaseInv ==
    /\ pc \notin {"idle", "killed"} \/ connected => pid # 0
    /\ pid # 0 => kids[pid] \in {"running", "dead"}
    /\ impl # "lsp" => ~listed
    /\ impl = "conn" => (connected <=> pid # 0) /\ pc # "spawned"
    /\ pc = "spawned" => ~listed /\ (impl = "lsp" <=> connected)
    /\ pc \in {"read", "writeRequest"} =>
         \/ impl = "conn" /\ call.what = "receive"
         \/ impl = "mcp" /\ call.what = "initialize" /\ ~connected
         \/ impl = "mcp" /\ call.what = "call" /\ connected
         \/ impl = "lsp" /\ call.what = "initialize" /\ connected /\ ~listed
         \/ impl = "lsp" /\ call.what \in {"call", "shutdown"} /\ connected /\ listed
    /\ pc = "writeInitialized" => impl # "conn" /\ ~listed /\ (impl = "lsp" <=> connected)
    /\ pc = "writeExit" => impl = "lsp" /\ connected /\ listed
    /\ pc = "writeMessage" => impl # "mcp" /\ connected /\ (impl = "lsp" => listed)
    /\ impl = "lsp" => /\ abandoned = {}
                       /\ pc = "grace" => ~connected
                       /\ pc = "idle" => (listed <=> connected)

\* A child that is not collected is the client's own or one it abandoned.
KidInv ==
    /\ \A k \in 1..gen : kids[k] \in {"running", "dead"} => k \in abandoned \cup {pid}
    /\ \A k \in 1..MaxKids : k > gen => kids[k] = "none"
    /\ \A k \in fds : kids[k] # "reaped"
    /\ pc = "idle" /\ ~connected => pid = 0 \/ pid \in abandoned

\* The positions in the stream are in order; the server is inside its last
\* frame, if it is inside one.
StreamInv ==
    /\ base <= inp /\ inp <= out /\ out <= 2 * Len(said)
    /\ FramesOnce

Noted == \E i \in 1..Len(said) : said[i].kind = "note"

\* As long as no call gave up and the server spoke only when asked: between two
\* calls nothing is under way, and during a call its request or its answer is.
AskedInv ==
    impl # "conn" /\ ~timedOut /\ ~Noted =>
        /\ ~mixed
        /\ pc # "read" /\ pid # 0 /\ Alive =>
             inbox = {} /\ Len(said) = last /\ base = 2 * last
        /\ pc = "read" =>
             /\ base = 2 * last
             /\ \/ inbox = {call.id} /\ Len(said) = last
                \/ inbox = {} /\ Len(said) = last + 1 /\ said[last + 1].to = call.id

\* What the tool was told was found is the last frame that was handed out.
ToldInv ==
    /\ impl = "conn" \/ pc \in {"read", "writeRequest"} => told = "none"
    /\ told = "found" => given > 0 /\ said[last].kind = "result"

RpcInv == TypeInv /\ PhaseInv /\ KidInv /\ StreamInv /\ AskedInv /\ ToldInv

\* Where the caller may be.
LEMMA PhasesHave ==
    /\ "idle" \in Phases /\ "spawned" \in Phases /\ "read" \in Phases
    /\ "grace" \in Phases /\ "killed" \in Phases
    /\ "writeRequest" \in Phases /\ "writeInitialized" \in Phases
    /\ "writeExit" \in Phases /\ "writeMessage" \in Phases
BY DEF Phases, Blocked

\* The first complete frame in the buffer.
LEMMA FirstFrame ==
    ASSUME TypeInv, Buffered # {}
    PROVE  Min(Buffered) \in Buffered /\ \A j \in Buffered : Min(Buffered) <= j
<1>1. PICK j \in Buffered : TRUE
  OBVIOUS
<1>2. /\ j \in Nat /\ 1 <= j /\ j <= Len(said) /\ base < 2 * j - 1 /\ 2 * j <= inp
      /\ hidden = 0 \/ j < hidden
  BY DEF Buffered, TypeInv
<1> DEFINE h == base \div 2
<1>3. h \in Nat /\ (base = 2 * h \/ base = 2 * h + 1)
  BY DEF TypeInv
<1> HIDE DEF h
<1>4. \E m \in Buffered : \A k \in Buffered : m <= k
  <2>1. CASE base = 2 * h
    <3>1. h + 1 \in Buffered
      BY <1>2, <1>3, <2>1 DEF Buffered, TypeInv
    <3>2. \A k \in Buffered : h + 1 <= k
      BY <1>3, <2>1 DEF Buffered, TypeInv
    <3> QED
      BY <3>1, <3>2
  <2>2. CASE base = 2 * h + 1
    <3>1. h + 2 \in Buffered
      BY <1>2, <1>3, <2>2 DEF Buffered, TypeInv
    <3>2. \A k \in Buffered : h + 2 <= k
      BY <1>3, <2>2 DEF Buffered, TypeInv
    <3> QED
      BY <3>1, <3>2
  <2> QED
    BY <1>3, <2>1, <2>2
<1> QED
  BY <1>4 DEF Min

\* Whatever receive returned, the end of a call leaves phases and children in order.
LEMMA ReturnPhase ==
    ASSUME RpcInv, pc = "read", NEW r, NEW i, Return(r, i)
    PROVE  /\ PhaseInv' /\ KidInv'
           /\ pc' \in {"idle", "grace", "killed", "writeInitialized", "writeExit"}
           /\ abandoned' \subseteq 1..gen
           /\ connected' \in BOOLEAN /\ initialized' \in BOOLEAN /\ listed' \in BOOLEAN
           /\ UNCHANGED <<impl, kids, gen, fds, pid, nextId, stream>>
           /\ call' = NoCall /\ fresh' = FALSE
<1> USE DEF RpcInv, TypeInv, PhaseInv, KidInv, Return, Alive, stream
<1>1. CASE impl = "mcp" /\ call.what = "initialize"
  <2>1. McpInitialized(r)
    BY <1>1
  <2>2. CASE r = "error"
    BY <1>1, <2>1, <2>2 DEF McpInitialized
  <2>3. CASE r # "error"
    BY <1>1, <2>1, <2>3 DEF McpInitialized
  <2> QED
    BY <2>2, <2>3
<1>2. CASE impl = "lsp" /\ call.what = "initialize"
  BY <1>2 DEF LspInitialized
<1>3. CASE call.what = "shutdown"
  BY <1>3 DEF ShutdownReturns
<1>4. CASE call.what \in {"call", "receive"}
  BY <1>4 DEF CallReturns
<1> QED
  BY <1>1, <1>2, <1>3, <1>4

\* What the tool is told at the end of a call, and when the answer is mixed up.
LEMMA ReturnTold ==
    ASSUME RpcInv, pc = "read", NEW r, NEW i \in Nat, Return(r, i)
    PROVE  /\ mixed' \in BOOLEAN /\ told' \in {"none", "found", "nothing", "failed"}
           /\ impl = "conn" => told' = "none"
           /\ told' = "found" => r = "result"
           /\ mixed' => mixed \/ (i # 0 /\ said[i].to # call.id)
<1> USE DEF RpcInv, TypeInv, PhaseInv, ToldInv, Return
<1>1. CASE impl = "mcp" /\ call.what = "initialize"
  BY <1>1 DEF McpInitialized
<1>2. CASE impl = "lsp" /\ call.what = "initialize"
  BY <1>2 DEF LspInitialized
<1>3. CASE call.what = "shutdown"
  BY <1>3 DEF ShutdownReturns
<1>4. CASE call.what \in {"call", "receive"}
  <2>1. CallReturns(r, i)
    BY <1>4
  <2>2. mixed' = (mixed \/ (i # 0 /\ said[i].to # call.id))
    BY <2>1 DEF CallReturns
  <2>3. mixed' \in BOOLEAN
    BY <2>2
  <2>4. CASE impl = "mcp"
    BY <2>1, <2>2, <2>3, <2>4 DEF CallReturns, McpTells
  <2>5. CASE impl = "lsp"
    BY <2>1, <2>2, <2>3, <2>5 DEF CallReturns, LspTells, LspLocates, LspHovers,
       LspRenames
  <2>6. CASE impl = "conn"
    BY <2>1, <2>2, <2>3, <2>6 DEF CallReturns
  <2> QED
    BY <2>4, <2>5, <2>6
<1> QED
  BY <1>1, <1>2, <1>3, <1>4

\* The types after a call ended.
LEMMA ReturnTypes ==
    ASSUME RpcInv, pc = "read", NEW r, NEW i \in Nat, Return(r, i),
           inp' \in Nat, base' \in Nat, last' \in Nat, given' \in Nat, timedOut' \in BOOLEAN
    PROVE  TypeInv'
<1>1. call' = NoCall /\ fresh' = FALSE
  BY ReturnPhase
<1>2. fresh' \in BOOLEAN
  BY <1>1
<1>3. call' \in [id : Nat, what : Whats]
  BY <1>1 DEF NoCall, Whats
<1>4. mixed' \in BOOLEAN /\ told' \in {"none", "found", "nothing", "failed"}
  BY ReturnTold
<1>5. /\ pc' \in {"idle", "grace", "killed", "writeInitialized", "writeExit"}
      /\ abandoned' \subseteq 1..gen
      /\ connected' \in BOOLEAN /\ initialized' \in BOOLEAN /\ listed' \in BOOLEAN
      /\ UNCHANGED <<impl, kids, gen, fds, pid, nextId, stream>>
  BY ReturnPhase
<1>6. TypeInv
  BY DEF RpcInv
<1> QED
  BY <1>2, <1>3, <1>4, <1>5, <1>6, PhasesHave DEF TypeInv, stream

\* The frame that is handed out is the first one not yet consumed; in the clients
\* that keep their buffer, the one after the last.
LEMMA TakeFacts ==
    ASSUME RpcInv, Take
    PROVE  \E i \in 1..Len(said) :
              /\ Return(said[i].kind, i)
              /\ last' = i /\ given' = given + 1 /\ inp' = inp /\ timedOut' = timedOut
              /\ last < i /\ 2 * i <= inp
              /\ base' = (IF impl = "mcp" THEN inp ELSE 2 * i)
              /\ impl # "mcp" => i = last + 1
<1> DEFINE i == Min(Buffered)
<1>1. Buffered # {}
  BY DEF Take, Ready, McpReady, ConnReady, LspReady, RpcInv, TypeInv
<1>2. i \in Buffered /\ \A j \in Buffered : i <= j
  BY <1>1, FirstFrame DEF RpcInv
<1>3. /\ last' = i /\ given' = given + 1 /\ inp' = inp /\ timedOut' = timedOut
      /\ base' = (IF impl = "mcp" THEN inp ELSE 2 * i)
      /\ Return(said[i].kind, i)
  BY DEF Take
<1> HIDE DEF i
<1>4. /\ i \in 1..Len(said) /\ base < 2 * i - 1 /\ 2 * i <= inp
      /\ hidden = 0 \/ i < hidden
  BY <1>2 DEF Buffered
<1>5. last < i
  BY <1>4 DEF RpcInv, TypeInv, StreamInv, FramesOnce
<1>6. impl # "mcp" => i = last + 1
  <2> SUFFICES ASSUME impl # "mcp" PROVE i <= last + 1
    BY <1>4, <1>5 DEF RpcInv, TypeInv
  <2>1. last + 1 \in Buffered
    BY <1>4, <1>5 DEF Buffered, RpcInv, TypeInv, StreamInv, FramesOnce
  <2> QED
    BY <1>2, <2>1
<1> QED
  BY <1>3, <1>4, <1>5, <1>6

\* A new child starts with an empty stream.
LEMMA ForgetTypes ==
    ASSUME Forget
    PROVE  /\ nextId' \in Nat /\ nextId' > 0 /\ inbox' \subseteq Nat
           /\ said' \in Seq([kind : Kinds, to : Nat])
           /\ hidden' \in Nat /\ out' \in Nat /\ inp' \in Nat /\ base' \in Nat
           /\ last' \in Nat /\ given' \in Nat
           /\ mixed' \in BOOLEAN /\ timedOut' \in BOOLEAN
           /\ told' = "none"
<1>1. mixed' \in BOOLEAN /\ timedOut' \in BOOLEAN
  BY DEF Forget
<1>2. said' \in Seq([kind : Kinds, to : Nat])
  BY DEF Forget
<1> QED
  BY <1>1, <1>2 DEF Forget

\* The types after a new child was started.
LEMMA SpawnTypes ==
    ASSUME TypeInv, Spawn, pc' \in {"idle", "spawned"}, connected' \in BOOLEAN
    PROVE  TypeInv'
<1>1. kids' \in [1..MaxKids -> {"none", "running", "dead", "reaped"}]
  BY DEF TypeInv, Spawn
<1>2. gen' \in Nat /\ gen' <= MaxKids /\ pid' \in Nat /\ pid' <= gen'
  BY BoundsAssumption DEF TypeInv, Spawn
<1>3. fds' \subseteq 1..gen' /\ abandoned' \subseteq 1..gen'
  BY DEF TypeInv, Spawn
<1>4. Forget /\ UNCHANGED <<impl, call, fresh, initialized, listed>>
  BY DEF Spawn
<1> QED
  BY <1>1, <1>2, <1>3, <1>4, ForgetTypes, PhasesHave DEF TypeInv

\* The types after a child was collected.
LEMMA ClosedTypes ==
    ASSUME TypeInv, Closed,
           kids' \in [1..MaxKids -> {"none", "running", "dead", "reaped"}]
    PROVE  TypeInv'
<1>1. connected' \in BOOLEAN /\ listed' \in BOOLEAN
  BY DEF Closed
<1>2. fds' \subseteq 1..gen /\ pid' = 0 /\ pc' = "idle"
  BY DEF Closed, TypeInv
<1>3. Forget /\ UNCHANGED <<impl, gen, initialized, call, fresh, abandoned>>
  BY DEF Closed
<1> QED
  BY <1>1, <1>2, <1>3, ForgetTypes, PhasesHave DEF TypeInv

\* A request is written, or the program ends.
LEMMA RequestFacts ==
    ASSUME TypeInv, NEW what \in Whats, Request(what)
    PROVE  \/ /\ Alive
              /\ \/ pc' = "read" /\ inbox' = inbox \cup {nextId}
                 \/ pc' = "writeRequest" /\ inbox' = inbox
              /\ call' \in [id : Nat, what : Whats] /\ call'.id = nextId /\ call'.what = what
              /\ nextId' = nextId + 1
              /\ fresh' \in BOOLEAN
              /\ base' = (IF impl = "mcp" THEN inp ELSE base)
              /\ told' = "none"
              /\ UNCHANGED <<impl, status, said, hidden, out, inp, last, given, mixed,
                             timedOut, abandoned>>
           \/ /\ ~Alive /\ pc' = "killed"
              /\ UNCHANGED <<impl, status, call, fresh, nextId, stream, buffer, history>>
<1>1. CASE Alive
  <2>1. call' = [id |-> nextId, what |-> what] /\ fresh' = FALSE
    BY <1>1 DEF Request
  <2>2. fresh' \in BOOLEAN
    BY <2>1
  <2>3. call' \in [id : Nat, what : Whats] /\ call'.id = nextId /\ call'.what = what
    BY <2>1 DEF TypeInv
  <2>4. base' = IF impl = "mcp" THEN inp ELSE base
    BY <1>1 DEF Request
  <2>5. /\ \/ pc' = "read" /\ inbox' = inbox \cup {nextId}
           \/ pc' = "writeRequest" /\ inbox' = inbox
        /\ nextId' = nextId + 1 /\ told' = "none"
        /\ UNCHANGED <<impl, status, said, hidden, out, inp, last, given, mixed, timedOut,
                       abandoned>>
    BY <1>1 DEF Request
  <2> QED
    BY <1>1, <2>2, <2>3, <2>4, <2>5
<1>2. CASE ~Alive
  BY <1>2 DEF Request
<1> QED
  BY <1>1, <1>2

\* The types after a request.
LEMMA RequestTypes ==
    ASSUME TypeInv, NEW what \in Whats, Request(what)
    PROVE  TypeInv'
<1> USE PhasesHave DEF TypeInv, status, stream, buffer, history
<1>1. CASE Alive
  <2>1. /\ nextId' = nextId + 1 /\ base' \in {inp, base}
        /\ inbox' \in {inbox, inbox \cup {nextId}}
    BY <1>1, RequestFacts
  <2>2. nextId' \in Nat /\ nextId' > 0 /\ base' \in Nat
    BY <2>1
  <2>3. inbox' \subseteq Nat
    BY <2>1
  <2>4. pc' \in {"read", "writeRequest"}
    BY <1>1, RequestFacts
  <2> QED
    BY <1>1, <2>2, <2>3, <2>4, RequestFacts
<1>2. CASE ~Alive
  <2>1. /\ pc' = "killed"
        /\ UNCHANGED <<impl, status, call, fresh, nextId, stream, buffer, history>>
    BY <1>2, RequestFacts
  <2> QED
    BY <2>1
<1> QED
  BY <1>1, <1>2

\* A request touches no child.
LEMMA RequestKid ==
    ASSUME RpcInv, NEW what \in Whats, Request(what)
    PROVE  KidInv'
<1>1. /\ pc' \in {"read", "writeRequest", "killed"}
      /\ UNCHANGED <<kids, gen, fds, pid, abandoned>>
  BY RequestFacts DEF RpcInv, status, history
<1>2. KidInv
  BY DEF RpcInv
<1> QED
  BY <1>1, <1>2 DEF KidInv

\* With nothing under way before it, a request is all that is under way.
LEMMA RequestAsked ==
    ASSUME RpcInv, NEW what \in Whats, Request(what), pc # "read", pid # 0
    PROVE  StreamInv' /\ AskedInv'
<1>0. TypeInv /\ StreamInv /\ AskedInv
  BY DEF RpcInv
<1>1. CASE Alive
  <2>1. /\ \/ pc' = "read" /\ inbox' = inbox \cup {nextId}
           \/ pc' = "writeRequest" /\ inbox' = inbox
        /\ call'.id = nextId
        /\ base' = (IF impl = "mcp" THEN inp ELSE base)
        /\ UNCHANGED <<impl, kids, pid, said, out, inp, last, given, mixed, timedOut>>
    BY <1>0, <1>1, RequestFacts DEF status
  <2>2. /\ base \in Nat /\ inp \in Nat /\ out \in Nat /\ last \in Nat /\ given \in Nat
        /\ Len(said) \in Nat
    BY <1>0 DEF TypeInv
  <2>3. StreamInv'
    <3>1. CASE impl = "mcp"
      BY <1>0, <2>1, <2>2, <3>1 DEF StreamInv, FramesOnce
    <3>2. CASE impl # "mcp"
      BY <1>0, <2>1, <3>2 DEF StreamInv, FramesOnce
    <3> QED
      BY <3>1, <3>2
  <2>4. ASSUME (impl # "conn" /\ ~timedOut /\ ~Noted)'
        PROVE  /\ ~mixed' /\ base' = 2 * last' /\ Len(said') = last'
               /\ \/ pc' = "read" /\ inbox' = {call'.id}
                  \/ pc' = "writeRequest" /\ inbox' = {}
    <3>1. inbox = {} /\ Len(said) = last /\ base = 2 * last /\ ~mixed
      BY <1>0, <1>1, <2>1, <2>4 DEF AskedInv, Noted
    <3>2. base' = 2 * last'
      <4>1. base' \in {inp, base} /\ last' = last
        BY <2>1
      <4>2. base <= inp /\ inp <= out /\ out <= 2 * Len(said)
        BY <1>0 DEF StreamInv
      <4> QED
        BY <2>2, <3>1, <4>1, <4>2
    <3> QED
      BY <2>1, <3>1, <3>2
  <2> QED
    BY <2>3, <2>4 DEF AskedInv
<1>2. CASE ~Alive
  <2>1. pc' = "killed" /\ UNCHANGED <<impl, status, call, nextId, stream, buffer, history>>
    BY <1>0, <1>2, RequestFacts
  <2>2. StreamInv'
    BY <1>0, <2>1 DEF StreamInv, FramesOnce, stream, buffer
  <2>3. AskedInv'
    BY <1>0, <1>2, <2>1 DEF AskedInv, Noted, Alive, status, stream, buffer, history
  <2> QED
    BY <2>2, <2>3
<1> QED
  BY <1>1, <1>2

\* The frame that a server begins.
LEMMA FrameBegun ==
    ASSUME TypeInv, ServerBegins
    PROVE  \E f \in [kind : Kinds, to : Nat] :
              /\ said' = Append(said, f)
              /\ \/ f.kind = "note" /\ inbox' = inbox
                 \/ f.kind # "note" /\ f.to \in inbox /\ inbox' = inbox \ {f.to}
<1>1. \/ \E id \in inbox, kind \in {"result", "error"} :
            said' = Append(said, [kind |-> kind, to |-> id]) /\ inbox' = inbox \ {id}
      \/ said' = Append(said, [kind |-> "note", to |-> 0]) /\ inbox' = inbox
  BY DEF ServerBegins
<1>2. ASSUME NEW id \in inbox, NEW kind \in {"result", "error"},
             said' = Append(said, [kind |-> kind, to |-> id]), inbox' = inbox \ {id}
      PROVE  \E f \in [kind : Kinds, to : Nat] :
                said' = Append(said, f) /\ f.kind # "note" /\ f.to \in inbox
                /\ inbox' = inbox \ {f.to}
  <2> DEFINE f == [kind |-> kind, to |-> id]
  <2>1. f \in [kind : Kinds, to : Nat] /\ f.kind = kind /\ f.to = id
    BY DEF TypeInv, Kinds
  <2> HIDE DEF f
  <2>2. said' = Append(said, f)
    BY <1>2 DEF f
  <2> QED
    BY <1>2, <2>1, <2>2
<1>3. ASSUME said' = Append(said, [kind |-> "note", to |-> 0]), inbox' = inbox
      PROVE  \E f \in [kind : Kinds, to : Nat] : said' = Append(said, f) /\ f.kind = "note"
  <2> DEFINE f == [kind |-> "note", to |-> 0]
  <2>1. f \in [kind : Kinds, to : Nat] /\ f.kind = "note"
    BY DEF Kinds
  <2> HIDE DEF f
  <2>2. said' = Append(said, f)
    BY <1>3 DEF f
  <2> QED
    BY <2>1, <2>2
<1> QED
  BY <1>1, <1>2, <1>3

\* Init establishes the invariant.
LEMMA InitInv == Init => RpcInv
<1> SUFFICES ASSUME Init PROVE RpcInv
  OBVIOUS
<1> USE BoundsAssumption, ImplsAssumption, PhasesHave DEF Init, NoCall
<1>1. TypeInv
  <2>1. connected \in BOOLEAN /\ initialized \in BOOLEAN /\ listed \in BOOLEAN
    OBVIOUS
  <2>2. fresh \in BOOLEAN /\ mixed \in BOOLEAN /\ timedOut \in BOOLEAN
    OBVIOUS
  <2>3. said \in Seq([kind : Kinds, to : Nat])
    OBVIOUS
  <2>4. kids \in [1..MaxKids -> {"none", "running", "dead", "reaped"}]
    OBVIOUS
  <2>5. call \in [id : Nat, what : Whats]
    BY DEF Whats
  <2> QED
    BY <2>1, <2>2, <2>3, <2>4, <2>5 DEF TypeInv
<1>2. PhaseInv /\ KidInv
  BY DEF PhaseInv, KidInv
<1>3. StreamInv /\ AskedInv /\ ToldInv
  BY DEF StreamInv, FramesOnce, AskedInv, ToldInv, Noted
<1> QED
  BY <1>1, <1>2, <1>3 DEF RpcInv

\* No step leaves the types.
LEMMA TypeStep ==
    ASSUME RpcInv, Next PROVE TypeInv'
<1> USE BoundsAssumption, PhasesHave DEF RpcInv, TypeInv, stream, buffer, status, history
<1>1. CASE ConnectStdio
  <2>1. connected' \in BOOLEAN
    BY <1>1 DEF ConnectStdio
  <2> QED
    BY <1>1, <2>1, SpawnTypes DEF ConnectStdio
<1>2. CASE CreateStdio
  <2>1. connected' \in BOOLEAN
    BY <1>2 DEF CreateStdio
  <2> QED
    BY <1>2, <2>1, SpawnTypes DEF CreateStdio
<1>3. CASE Start
  <2>1. connected' \in BOOLEAN
    BY <1>3 DEF Start
  <2> QED
    BY <1>3, <2>1, SpawnTypes DEF Start
<1>4. CASE SpawnFails
  BY <1>4 DEF SpawnFails
<1>5. CASE McpCall
  BY <1>5, RequestTypes DEF McpCall, Whats
<1>6. CASE LspCall
  BY <1>6, RequestTypes DEF LspCall, Whats
<1>7. CASE LspUnasked
  BY <1>7 DEF LspUnasked, LspTells, LspLocates, LspHovers, LspRenames
<1>8. CASE LspNotify
  BY <1>8 DEF LspNotify, LspServed
<1>9. CASE ConnSend
  <2>1. /\ pc' \in {"idle", "writeMessage", "killed"}
        /\ nextId' \in Nat /\ nextId' > 0 /\ inbox' \subseteq Nat
    <3>1. CASE Alive
      <4>1. /\ nextId' = nextId + 1 /\ inbox' \in {inbox, inbox \cup {nextId}}
            /\ pc' \in {"idle", "writeMessage"}
        BY <1>9, <3>1 DEF ConnSend
      <4>2. inbox' \subseteq Nat
        BY <4>1
      <4> QED
        BY <4>1, <4>2
    <3>2. CASE ~Alive
      BY <1>9, <3>2 DEF ConnSend
    <3> QED
      BY <3>1, <3>2
  <2> QED
    BY <1>9, <2>1 DEF ConnSend
<1>10. CASE ConnReceive
  <2>1. call' \in [id : Nat, what : Whats] /\ fresh' \in BOOLEAN
    BY <1>10 DEF ConnReceive, Whats
  <2> QED
    BY <1>10, <2>1 DEF ConnReceive
<1>11. CASE McpDisconnect
  BY <1>11 DEF McpDisconnect
<1>12. CASE ConnDisconnect
  BY <1>12 DEF ConnDisconnect
<1>13. CASE ConnDrop
  <2>1. connected' \in BOOLEAN
    BY <1>13 DEF ConnDrop
  <2>2. abandoned' \subseteq 1..gen /\ pid' = 0
    BY <1>13 DEF ConnDrop
  <2> QED
    BY <1>13, <2>1, <2>2 DEF ConnDrop
<1>14. CASE LspStop
  BY <1>14, RequestTypes DEF LspStop, Whats
<1>15. CASE SendInitialize
  BY <1>15, RequestTypes DEF SendInitialize, Whats
<1>16. CASE Read
  BY <1>16 DEF Read, Reading
<1>17. CASE Take
  <2>1. PICK i \in 1..Len(said) :
            /\ Return(said[i].kind, i)
            /\ last' = i /\ given' = given + 1 /\ inp' = inp /\ timedOut' = timedOut
            /\ base' = (IF impl = "mcp" THEN inp ELSE 2 * i)
    BY <1>17, TakeFacts
  <2>2. base' \in Nat /\ last' \in Nat /\ given' \in Nat
    BY <2>1
  <2>3. pc = "read"
    BY <1>17 DEF Take
  <2>4. inp' \in Nat /\ timedOut' \in BOOLEAN
    BY <2>1
  <2> HIDE DEF RpcInv, TypeInv
  <2> QED
    BY <2>1, <2>2, <2>3, <2>4, ReturnTypes
<1>18. CASE Timeout
  <2>1. pc = "read" /\ Return("none", 0) /\ UNCHANGED buffer
    BY <1>18 DEF Timeout
  <2>2. timedOut' \in BOOLEAN
    BY <1>18 DEF Timeout
  <2>3. inp' \in Nat /\ base' \in Nat /\ last' \in Nat /\ given' \in Nat
    BY <2>1
  <2> HIDE DEF RpcInv, TypeInv
  <2> QED
    BY <2>1, <2>2, <2>3, ReturnTypes
<1>19. CASE Eof
  <2>1. pc = "read" /\ Return("none", 0) /\ UNCHANGED buffer
    BY <1>19 DEF Eof, Reading
  <2>2. timedOut' \in BOOLEAN
    BY <1>19 DEF Eof, Reading
  <2>3. inp' \in Nat /\ base' \in Nat /\ last' \in Nat /\ given' \in Nat
    BY <2>1
  <2> HIDE DEF RpcInv, TypeInv
  <2> QED
    BY <2>1, <2>2, <2>3, ReturnTypes
<1>20. CASE Reap
  <2>1. kids' \in [1..MaxKids -> {"none", "running", "dead", "reaped"}]
    BY <1>20 DEF Reap
  <2> QED
    BY <1>20, <2>1, ClosedTypes DEF Reap
<1>21. CASE KillAndWait
  <2>1. kids' \in [1..MaxKids -> {"none", "running", "dead", "reaped"}]
    BY <1>21 DEF KillAndWait
  <2> QED
    BY <1>21, <2>1, ClosedTypes DEF KillAndWait
<1>22. CASE ServerBegins
  <2>1. PICK f \in [kind : Kinds, to : Nat] : said' = Append(said, f)
    BY <1>22, FrameBegun
  <2>2. inbox' \subseteq Nat
    BY <1>22, FrameBegun
  <2>3. said' \in Seq([kind : Kinds, to : Nat])
    BY <2>1
  <2>4. out' \in Nat /\ UNCHANGED <<impl, pc, status, call, fresh, nextId, buffer, history>>
    BY <1>22 DEF ServerBegins
  <2>5. hidden' \in Nat
    <3>1. hidden' \in {0, Len(said) + 1, hidden}
      BY <1>22 DEF ServerBegins
    <3> QED
      BY <3>1
  <2> QED
    BY <2>2, <2>3, <2>4, <2>5
<1>23. CASE ServerEnds
  BY <1>23 DEF ServerEnds, Listening
<1>24. CASE ServerExits
  BY <1>24 DEF ServerExits, Listening
<1>25. CASE WriteReturns
  <2>1. /\ pc' \in {"read", "idle", "grace"}
        /\ UNCHANGED <<impl, kids, gen, fds, pid, call, fresh, nextId, said, hidden, out,
                       buffer, history>>
    BY <1>25 DEF WriteReturns
  <2>2. connected' \in BOOLEAN /\ initialized' \in BOOLEAN /\ listed' \in BOOLEAN
    BY <1>25 DEF WriteReturns
  <2>3. inbox' \subseteq Nat
    <3>1. CASE pc = "writeRequest"
      BY <1>25, <3>1 DEF WriteReturns
    <3>2. CASE pc = "writeMessage" /\ impl = "conn"
      <4>1. nextId > 0 /\ inbox' = inbox \cup {nextId - 1}
        BY <1>25, <3>2 DEF WriteReturns
      <4> QED
        BY <4>1
    <3>3. CASE pc # "writeRequest" /\ ~(pc = "writeMessage" /\ impl = "conn")
      BY <1>25, <3>3 DEF WriteReturns
    <3> QED
      BY <3>1, <3>2, <3>3
  <2> QED
    BY <2>1, <2>2, <2>3
<1>26. CASE WriteBreaks
  BY <1>26 DEF WriteBreaks, Blocked
<1>27. CASE ReadAgain
  BY <1>27 DEF ReadAgain
<1> QED
  BY <1>1, <1>2, <1>3, <1>4, <1>5, <1>6, <1>7, <1>8, <1>9, <1>10, <1>11,
     <1>12, <1>13, <1>14, <1>15, <1>16, <1>17, <1>18, <1>19, <1>20, <1>21, <1>22,
     <1>23, <1>24, <1>25, <1>26, <1>27 DEF Next, Progress

\* Every step keeps the phases of a call and the flags of its client together.
LEMMA PhaseStep ==
    ASSUME RpcInv, Next PROVE PhaseInv'
<1> USE BoundsAssumption DEF RpcInv, TypeInv, PhaseInv, Alive, stream, buffer,
          status, history
<1>1. CASE ConnectStdio
  BY <1>1 DEF ConnectStdio, Spawn, Forget
<1>2. CASE CreateStdio
  BY <1>2 DEF CreateStdio, Spawn, Forget
<1>3. CASE Start
  BY <1>3 DEF Start, LspUnserved, Spawn, Forget
<1>4. CASE SpawnFails
  BY <1>4 DEF SpawnFails
<1>5. CASE McpCall
  BY <1>5, RequestFacts DEF McpCall, Whats
<1>6. CASE LspCall
  BY <1>6, RequestFacts DEF LspCall, Whats, LspServed
<1>7. CASE LspUnasked
  BY <1>7 DEF LspUnasked, LspTells, LspLocates, LspHovers, LspRenames
<1>8. CASE LspNotify
  BY <1>8 DEF LspNotify, LspServed
<1>9. CASE ConnSend
  BY <1>9 DEF ConnSend
<1>10. CASE ConnReceive
  BY <1>10 DEF ConnReceive
<1>11. CASE McpDisconnect
  BY <1>11 DEF McpDisconnect
<1>12. CASE ConnDisconnect
  BY <1>12 DEF ConnDisconnect
<1>13. CASE ConnDrop
  BY <1>13 DEF ConnDrop
<1>14. CASE LspStop
  BY <1>14, RequestFacts DEF LspStop, Whats, LspServed
<1>15. CASE SendInitialize
  BY <1>15, RequestFacts DEF SendInitialize, Whats
<1>16. CASE Read
  BY <1>16 DEF Read, Reading
<1>17. CASE Take
  BY <1>17, ReturnPhase DEF Take
<1>18. CASE Timeout
  BY <1>18, ReturnPhase DEF Timeout
<1>19. CASE Eof
  BY <1>19, ReturnPhase DEF Eof, Reading
<1>20. CASE Reap
  BY <1>20 DEF Reap, Closed, Forget
<1>21. CASE KillAndWait
  BY <1>21 DEF KillAndWait, Closed, Forget
<1>22. CASE ServerBegins
  BY <1>22 DEF ServerBegins, Listening
<1>23. CASE ServerEnds
  BY <1>23 DEF ServerEnds, Listening
<1>24. CASE ServerExits
  BY <1>24 DEF ServerExits, Listening
<1>25. CASE WriteReturns
  BY <1>25 DEF WriteReturns
<1>26. CASE WriteBreaks
  BY <1>26 DEF WriteBreaks, Blocked
<1>27. CASE ReadAgain
  BY <1>27 DEF ReadAgain
<1> QED
  BY <1>1, <1>2, <1>3, <1>4, <1>5, <1>6, <1>7, <1>8, <1>9, <1>10, <1>11,
     <1>12, <1>13, <1>14, <1>15, <1>16, <1>17, <1>18, <1>19, <1>20, <1>21, <1>22,
     <1>23, <1>24, <1>25, <1>26, <1>27 DEF Next, Progress

\* No step loses sight of a child.
LEMMA KidStep ==
    ASSUME RpcInv, Next PROVE KidInv'
<1> USE BoundsAssumption DEF RpcInv, TypeInv, PhaseInv, KidInv, Alive, stream,
          buffer, status, history
<1>1. CASE ConnectStdio
  BY <1>1 DEF ConnectStdio, Spawn, Forget
<1>2. CASE CreateStdio
  BY <1>2 DEF CreateStdio, Spawn, Forget
<1>3. CASE Start
  BY <1>3 DEF Start, LspUnserved, Spawn, Forget
<1>4. CASE SpawnFails
  BY <1>4 DEF SpawnFails
<1>5. CASE McpCall
  BY <1>5, RequestKid DEF McpCall, Whats
<1>6. CASE LspCall
  BY <1>6, RequestKid DEF LspCall, Whats
<1>7. CASE LspUnasked
  BY <1>7 DEF LspUnasked, LspTells, LspLocates, LspHovers, LspRenames
<1>8. CASE LspNotify
  BY <1>8 DEF LspNotify, LspServed
<1>9. CASE ConnSend
  BY <1>9 DEF ConnSend
<1>10. CASE ConnReceive
  BY <1>10 DEF ConnReceive
<1>11. CASE McpDisconnect
  BY <1>11 DEF McpDisconnect
<1>12. CASE ConnDisconnect
  BY <1>12 DEF ConnDisconnect
<1>13. CASE ConnDrop
  BY <1>13 DEF ConnDrop
<1>14. CASE LspStop
  BY <1>14, RequestKid DEF LspStop, Whats
<1>15. CASE SendInitialize
  BY <1>15, RequestKid DEF SendInitialize, Whats
<1>16. CASE Read
  BY <1>16 DEF Read, Reading
<1>17. CASE Take
  BY <1>17, ReturnPhase DEF Take
<1>18. CASE Timeout
  BY <1>18, ReturnPhase DEF Timeout
<1>19. CASE Eof
  BY <1>19, ReturnPhase DEF Eof, Reading
<1>20. CASE Reap
  BY <1>20 DEF Reap, Closed, Forget
<1>21. CASE KillAndWait
  BY <1>21 DEF KillAndWait, Closed, Forget
<1>22. CASE ServerBegins
  BY <1>22 DEF ServerBegins, Listening
<1>23. CASE ServerEnds
  BY <1>23 DEF ServerEnds, Listening
<1>24. CASE ServerExits
  BY <1>24 DEF ServerExits, Listening
<1>25. CASE WriteReturns
  BY <1>25 DEF WriteReturns
<1>26. CASE WriteBreaks
  BY <1>26 DEF WriteBreaks, Blocked
<1>27. CASE ReadAgain
  BY <1>27 DEF ReadAgain
<1> QED
  BY <1>1, <1>2, <1>3, <1>4, <1>5, <1>6, <1>7, <1>8, <1>9, <1>10, <1>11,
     <1>12, <1>13, <1>14, <1>15, <1>16, <1>17, <1>18, <1>19, <1>20, <1>21, <1>22,
     <1>23, <1>24, <1>25, <1>26, <1>27 DEF Next, Progress

\* No step hands out a frame twice or out of order.
LEMMA StreamStep ==
    ASSUME RpcInv, Next PROVE StreamInv'
<1> USE BoundsAssumption DEF RpcInv, TypeInv, StreamInv, FramesOnce, stream, buffer,
          status, history
<1>1. CASE ConnectStdio
  BY <1>1 DEF ConnectStdio, Spawn, Forget
<1>2. CASE CreateStdio
  BY <1>2 DEF CreateStdio, Spawn, Forget
<1>3. CASE Start
  BY <1>3 DEF Start, LspUnserved, Spawn, Forget
<1>4. CASE SpawnFails
  BY <1>4 DEF SpawnFails
<1>5. CASE McpCall
  BY <1>5, RequestAsked DEF McpCall, PhaseInv, Whats
<1>6. CASE LspCall
  BY <1>6, RequestAsked DEF LspCall, PhaseInv, Whats, LspServed
<1>7. CASE LspUnasked
  BY <1>7 DEF LspUnasked, LspTells, LspLocates, LspHovers, LspRenames
<1>8. CASE LspNotify
  BY <1>8 DEF LspNotify, LspServed
<1>9. CASE ConnSend
  BY <1>9 DEF ConnSend
<1>10. CASE ConnReceive
  BY <1>10 DEF ConnReceive
<1>11. CASE McpDisconnect
  BY <1>11 DEF McpDisconnect
<1>12. CASE ConnDisconnect
  BY <1>12 DEF ConnDisconnect
<1>13. CASE ConnDrop
  BY <1>13 DEF ConnDrop
<1>14. CASE LspStop
  BY <1>14, RequestAsked DEF LspStop, PhaseInv, Whats, LspServed
<1>15. CASE SendInitialize
  BY <1>15, RequestAsked DEF SendInitialize, PhaseInv, Whats
<1>16. CASE Read
  BY <1>16 DEF Read, Reading
<1>17. CASE Take
  <2>1. PICK i \in 1..Len(said) :
            /\ Return(said[i].kind, i)
            /\ last' = i /\ given' = given + 1 /\ inp' = inp
            /\ last < i /\ 2 * i <= inp
            /\ base' = (IF impl = "mcp" THEN inp ELSE 2 * i)
            /\ impl # "mcp" => i = last + 1
    BY <1>17, TakeFacts
  <2>2. UNCHANGED <<impl, stream>>
    BY <1>17, <2>1, ReturnPhase DEF Take
  <2>3. CASE impl = "mcp"
    BY <2>1, <2>2, <2>3
  <2>4. CASE impl # "mcp"
    BY <2>1, <2>2, <2>4
  <2> QED
    BY <2>3, <2>4
<1>18. CASE Timeout
  <2>1. UNCHANGED <<impl, buffer, stream>>
    BY <1>18, ReturnPhase DEF Timeout
  <2> QED
    BY <2>1
<1>19. CASE Eof
  <2>1. UNCHANGED <<impl, buffer, stream>>
    BY <1>19, ReturnPhase DEF Eof, Reading
  <2> QED
    BY <2>1
<1>20. CASE Reap
  BY <1>20 DEF Reap, Closed, Forget
<1>21. CASE KillAndWait
  BY <1>21 DEF KillAndWait, Closed, Forget
<1>22. CASE ServerBegins
  <2>1. PICK f \in [kind : Kinds, to : Nat] : said' = Append(said, f)
    BY <1>22, FrameBegun
  <2>2. Len(said') = Len(said) + 1
    BY <2>1
  <2>3. out = 2 * Len(said) /\ out' = out + 1 /\ UNCHANGED <<impl, buffer>>
    BY <1>22 DEF ServerBegins
  <2> QED
    BY <2>2, <2>3
<1>23. CASE ServerEnds
  BY <1>23 DEF ServerEnds, Listening
<1>24. CASE ServerExits
  BY <1>24 DEF ServerExits, Listening
<1>25. CASE WriteReturns
  BY <1>25 DEF WriteReturns
<1>26. CASE WriteBreaks
  BY <1>26 DEF WriteBreaks, Blocked
<1>27. CASE ReadAgain
  BY <1>27 DEF ReadAgain
<1> QED
  BY <1>1, <1>2, <1>3, <1>4, <1>5, <1>6, <1>7, <1>8, <1>9, <1>10, <1>11,
     <1>12, <1>13, <1>14, <1>15, <1>16, <1>17, <1>18, <1>19, <1>20, <1>21, <1>22,
     <1>23, <1>24, <1>25, <1>26, <1>27 DEF Next, Progress

\* Without timeouts and notifications every step keeps requests and answers paired.
LEMMA AskedStep ==
    ASSUME RpcInv, Next PROVE AskedInv'
<1> USE BoundsAssumption DEF RpcInv, TypeInv, PhaseInv, StreamInv, FramesOnce,
          AskedInv, Noted, Alive, stream, buffer, status, history
<1>1. CASE ConnectStdio
  BY <1>1 DEF ConnectStdio, Spawn, Forget
<1>2. CASE CreateStdio
  BY <1>2 DEF CreateStdio, Spawn, Forget
<1>3. CASE Start
  BY <1>3 DEF Start, LspUnserved, Spawn, Forget
<1>4. CASE SpawnFails
  BY <1>4 DEF SpawnFails
<1>5. CASE McpCall
  BY <1>5, RequestAsked DEF McpCall, Whats
<1>6. CASE LspCall
  BY <1>6, RequestAsked DEF LspCall, Whats, LspServed
<1>7. CASE LspUnasked
  BY <1>7 DEF LspUnasked, LspTells, LspLocates, LspHovers, LspRenames
<1>8. CASE LspNotify
  BY <1>8 DEF LspNotify, LspServed
<1>9. CASE ConnSend
  BY <1>9 DEF ConnSend
<1>10. CASE ConnReceive
  BY <1>10 DEF ConnReceive
<1>11. CASE McpDisconnect
  BY <1>11 DEF McpDisconnect
<1>12. CASE ConnDisconnect
  BY <1>12 DEF ConnDisconnect
<1>13. CASE ConnDrop
  BY <1>13 DEF ConnDrop
<1>14. CASE LspStop
  BY <1>14, RequestAsked DEF LspStop, Whats, LspServed
<1>15. CASE SendInitialize
  BY <1>15, RequestAsked DEF SendInitialize, Whats
<1>16. CASE Read
  BY <1>16 DEF Read, Reading
<1>17. CASE Take
  <2>1. PICK i \in 1..Len(said) :
            /\ Return(said[i].kind, i)
            /\ last' = i /\ inp' = inp /\ timedOut' = timedOut
            /\ last < i /\ 2 * i <= inp
            /\ base' = (IF impl = "mcp" THEN inp ELSE 2 * i)
    BY <1>17, TakeFacts
  <2>2. pc = "read"
    BY <1>17 DEF Take
  <2>3. pc' # "read" /\ UNCHANGED <<impl, kids, pid, stream>>
    BY <2>1, <2>2, ReturnPhase
  <2>4. ASSUME impl # "conn", ~timedOut, ~Noted
        PROVE  ~mixed' /\ inbox' = {} /\ Len(said') = last' /\ base' = 2 * last'
    <3>1. ~mixed /\ base = 2 * last
      BY <2>2, <2>4
    <3>2. inbox = {} /\ Len(said) = last + 1 /\ said[last + 1].to = call.id
      <4>1. \/ Len(said) = last
            \/ inbox = {} /\ Len(said) = last + 1 /\ said[last + 1].to = call.id
        BY <2>2, <2>4
      <4>2. Len(said) # last
        BY <2>1
      <4> QED
        BY <4>1, <4>2
    <3>3. i = last + 1
      BY <2>1, <3>2
    <3>4. ~mixed'
      <4>1. mixed' => mixed \/ said[i].to # call.id
        <5>1. i \in Nat /\ Return(said[i].kind, i)
          BY <2>1
        <5> HIDE DEF RpcInv
        <5> QED
          BY <2>2, <5>1, ReturnTold
      <4> QED
        BY <3>1, <3>2, <3>3, <4>1
    <3>5. base' \in {inp, 2 * i} /\ inp <= 2 * Len(said)
      BY <2>1
    <3>6. base' = 2 * last'
      BY <2>1, <3>2, <3>3, <3>5
    <3> QED
      BY <2>1, <2>3, <3>2, <3>3, <3>4, <3>6
  <2> QED
    BY <2>1, <2>3, <2>4
<1>18. CASE Timeout
  <2>1. timedOut' /\ impl' = impl
    BY <1>18, ReturnPhase DEF Timeout
  <2> QED
    BY <2>1
<1>19. CASE Eof
  <2>1. /\ pc = "read" /\ Return("none", 0) /\ ~Alive
        /\ UNCHANGED <<buffer, timedOut>>
    BY <1>19 DEF Eof, Reading
  <2>2. mixed' => mixed
    BY <2>1, ReturnTold
  <2>3. pc' # "read" /\ UNCHANGED <<impl, kids, pid, stream>>
    BY <2>1, ReturnPhase
  <2> QED
    BY <2>1, <2>2, <2>3
<1>20. CASE Reap
  BY <1>20 DEF Reap, Closed, Forget
<1>21. CASE KillAndWait
  BY <1>21 DEF KillAndWait, Closed, Forget
<1>22. CASE ServerBegins
  <2>1. PICK f \in [kind : Kinds, to : Nat] :
            /\ said' = Append(said, f)
            /\ \/ f.kind = "note" /\ inbox' = inbox
               \/ f.kind # "note" /\ f.to \in inbox /\ inbox' = inbox \ {f.to}
    BY <1>22, FrameBegun
  <2>2. /\ Len(said') = Len(said) + 1 /\ said'[Len(said) + 1] = f
        /\ \A i \in 1..Len(said) : said'[i] = said[i]
    BY <2>1
  <2>3. Listening /\ UNCHANGED <<impl, pc, status, call, fresh, nextId, buffer, history>>
    BY <1>22 DEF ServerBegins
  <2>4. CASE f.kind = "note"
    <3>1. Noted'
      <4>1. Len(said) + 1 \in 1..Len(said') /\ said'[Len(said) + 1].kind = "note"
        BY <2>2, <2>4
      <4> QED
        BY <4>1
    <3> QED
      BY <3>1
  <2>5. CASE f.kind # "note"
    <3>1. Noted => Noted'
      <4> SUFFICES ASSUME NEW n \in 1..Len(said), said[n].kind = "note" PROVE Noted'
        OBVIOUS
      <4>1. n \in 1..Len(said') /\ said'[n].kind = "note"
        BY <2>2
      <4> QED
        BY <4>1
    <3>2. f.to \in inbox /\ inbox' = inbox \ {f.to}
      BY <2>1, <2>5
    <3>3. ASSUME impl # "conn", ~timedOut, ~Noted PROVE AskedInv'
      <4>1. pc = "read"
        BY <2>3, <3>2, <3>3 DEF Listening
      <4>2. inbox = {call.id} /\ Len(said) = last /\ base = 2 * last /\ ~mixed
        BY <3>2, <3>3, <4>1
      <4>3. inbox' = {} /\ f.to = call.id
        BY <3>2, <4>2
      <4> QED
        BY <2>2, <2>3, <4>1, <4>2, <4>3
    <3> QED
      BY <2>3, <3>1, <3>3
  <2> QED
    BY <2>4, <2>5
<1>23. CASE ServerEnds
  BY <1>23 DEF ServerEnds, Listening
<1>24. CASE ServerExits
  BY <1>24 DEF ServerExits, Listening
<1>25. CASE WriteReturns
  BY <1>25 DEF WriteReturns
<1>26. CASE WriteBreaks
  BY <1>26 DEF WriteBreaks, Blocked
<1>27. CASE ReadAgain
  BY <1>27 DEF ReadAgain
<1> QED
  BY <1>1, <1>2, <1>3, <1>4, <1>5, <1>6, <1>7, <1>8, <1>9, <1>10, <1>11,
     <1>12, <1>13, <1>14, <1>15, <1>16, <1>17, <1>18, <1>19, <1>20, <1>21, <1>22,
     <1>23, <1>24, <1>25, <1>26, <1>27 DEF Next, Progress

\* What the tool was told stays true of the last frame.
LEMMA ToldStep ==
    ASSUME RpcInv, Next PROVE ToldInv'
<1> USE BoundsAssumption DEF RpcInv, TypeInv, StreamInv, FramesOnce, ToldInv,
          stream, buffer, status, history
<1>1. CASE ConnectStdio
  BY <1>1 DEF ConnectStdio, Spawn, Forget
<1>2. CASE CreateStdio
  BY <1>2 DEF CreateStdio, Spawn, Forget
<1>3. CASE Start
  BY <1>3 DEF Start, LspUnserved, Spawn, Forget
<1>4. CASE SpawnFails
  BY <1>4 DEF SpawnFails
<1>5. CASE McpCall
  BY <1>5 DEF McpCall, Request
<1>6. CASE LspCall
  BY <1>6 DEF LspCall, LspServed, Request
<1>7. CASE LspUnasked
  BY <1>7 DEF LspUnasked, LspTells, LspLocates, LspHovers, LspRenames
<1>8. CASE LspNotify
  BY <1>8 DEF LspNotify, LspServed
<1>9. CASE ConnSend
  BY <1>9 DEF ConnSend
<1>10. CASE ConnReceive
  BY <1>10 DEF ConnReceive
<1>11. CASE McpDisconnect
  BY <1>11 DEF McpDisconnect
<1>12. CASE ConnDisconnect
  BY <1>12 DEF ConnDisconnect
<1>13. CASE ConnDrop
  BY <1>13 DEF ConnDrop
<1>14. CASE LspStop
  BY <1>14 DEF LspStop, LspServed, Request
<1>15. CASE SendInitialize
  BY <1>15 DEF SendInitialize, Request
<1>16. CASE Read
  BY <1>16 DEF Read, Reading
<1>17. CASE Take
  <2>1. PICK i \in 1..Len(said) :
            Return(said[i].kind, i) /\ last' = i /\ given' = given + 1
    BY <1>17, TakeFacts
  <2>2. pc = "read"
    BY <1>17 DEF Take
  <2>3. pc' \notin {"read", "writeRequest"} /\ UNCHANGED <<impl, stream>>
    BY <2>1, <2>2, ReturnPhase
  <2>4. /\ impl = "conn" => told' = "none"
        /\ told' = "found" => said[i].kind = "result"
    BY <2>1, <2>2, ReturnTold
  <2> QED
    BY <2>1, <2>3, <2>4
<1>18. CASE Timeout
  <2>1. pc = "read" /\ Return("none", 0) /\ UNCHANGED buffer
    BY <1>18 DEF Timeout
  <2> QED
    BY <2>1, ReturnPhase, ReturnTold
<1>19. CASE Eof
  <2>1. pc = "read" /\ Return("none", 0) /\ UNCHANGED buffer
    BY <1>19 DEF Eof, Reading
  <2> QED
    BY <2>1, ReturnPhase, ReturnTold
<1>20. CASE Reap
  BY <1>20 DEF Reap, Closed, Forget
<1>21. CASE KillAndWait
  BY <1>21 DEF KillAndWait, Closed, Forget
<1>22. CASE ServerBegins
  <2>1. PICK f \in [kind : Kinds, to : Nat] : said' = Append(said, f)
    BY <1>22, FrameBegun
  <2>2. \A i \in 1..Len(said) : said'[i] = said[i]
    BY <2>1
  <2>3. UNCHANGED <<impl, pc, buffer, history>>
    BY <1>22 DEF ServerBegins
  <2>4. last <= Len(said) /\ given <= last
    OBVIOUS
  <2> QED
    BY <2>2, <2>3, <2>4
<1>23. CASE ServerEnds
  BY <1>23 DEF ServerEnds, Listening
<1>24. CASE ServerExits
  BY <1>24 DEF ServerExits, Listening
<1>25. CASE WriteReturns
  BY <1>25 DEF WriteReturns
<1>26. CASE WriteBreaks
  BY <1>26 DEF WriteBreaks, Blocked
<1>27. CASE ReadAgain
  BY <1>27 DEF ReadAgain
<1> QED
  BY <1>1, <1>2, <1>3, <1>4, <1>5, <1>6, <1>7, <1>8, <1>9, <1>10, <1>11,
     <1>12, <1>13, <1>14, <1>15, <1>16, <1>17, <1>18, <1>19, <1>20, <1>21, <1>22,
     <1>23, <1>24, <1>25, <1>26, <1>27 DEF Next, Progress

\* A step that changes nothing keeps the invariant.
LEMMA StutterStep == ASSUME RpcInv, UNCHANGED vars PROVE RpcInv'
BY DEF RpcInv, TypeInv, PhaseInv, KidInv, StreamInv, FramesOnce, AskedInv, ToldInv,
   Noted,
       Alive, vars, stream, buffer, status, history

\* The clients keep their invariant whatever the server does.
THEOREM RpcInvariant == Spec => []RpcInv
<1>1. RpcInv /\ [Next]_vars => RpcInv'
  BY TypeStep, PhaseStep, KidStep, StreamStep, AskedStep, ToldStep, StutterStep
     DEF RpcInv
<1> QED
  BY InitInv, <1>1, PTL DEF Spec

\* However the server's output is cut into reads, no frame is handed out twice and
\* none overtakes another; the clients that keep their buffer pass over none.
THEOREM FramesSafe == Spec => []FramesOnce
<1>1. RpcInv => FramesOnce
  BY DEF RpcInv, StreamInv
<1> QED
  BY RpcInvariant, <1>1, PTL

\* A call gets another one's answer only after a timeout or an unasked message,
\* and only a result is shown to the model as found.
THEOREM AnswersSafe == Spec => []AnswersMatch
<1>1. RpcInv => AnswersMatch
  BY DEF RpcInv, AskedInv, ToldInv, Noted, AnswersMatch
<1> QED
  BY RpcInvariant, <1>1, PTL

\* Between calls every child is collected, except the connected one and those the
\* client abandoned.
THEOREM ChildrenSafe == Spec => []ChildrenCollected
<1>1. ASSUME RpcInv, pc = "idle" PROVE ChildrenCollected
  <2> USE <1>1 DEF RpcInv, TypeInv, PhaseInv, KidInv
  <2>1. ASSUME NEW k \in 1..gen, kids[k] \in {"running", "dead"}
        PROVE  k \in abandoned \cup (IF connected THEN {pid} ELSE {})
    <3>1. CASE connected
      BY <2>1, <3>1
    <3>2. CASE ~connected
      BY <2>1, <3>2
    <3> QED
      BY <3>1, <3>2
  <2>2. \A k \in fds : kids[k] \in {"running", "dead", "none"}
    BY BoundsAssumption
  <2>3. impl = "lsp" => abandoned = {} /\ (listed <=> connected)
    OBVIOUS
  <2> QED
    BY <2>1, <2>2, <2>3 DEF ChildrenCollected
<1>2. RpcInv => ChildrenCollected
  BY <1>1 DEF ChildrenCollected
<1> QED
  BY RpcInvariant, <1>2, PTL
=============================================================================
