------------------------------- MODULE Agents -------------------------------
(***************************************************************************)
(* The agent ecosystem that AgentManager holds together (src/agent/): the  *)
(* message bus, the teams, the coordinator with its agent instances, and   *)
(* the tool through which the model delegates to an agent                  *)
(* (src/tools/agent_tool.cpp).                                             *)
(*                                                                         *)
(* The parts share no state, so a behaviour exercises one of them: "bus",  *)
(* "teams" or "tasks".  On the bus each agent is a thread of its own.      *)
(* publish runs the subscribers' callbacks with the mutex held, so it is   *)
(* taken apart; the other operations of the bus hold the mutex throughout  *)
(* and are one action each.  A callback belongs to the subscriber: it may  *)
(* return, throw, or use the bus itself.                                   *)
(***************************************************************************)
EXTENDS Integers, Sequences, FiniteSets

CONSTANTS
    Agent,      \* agent ids; each is a thread that may use the bus
    TeamName,
    Type,       \* agent types
    None,
    MaxMsgs,    \* bound: messages published
    MaxSubs,    \* bound: subscriptions at a time
    MaxTeams,   \* bound: teams made
    MaxTasks    \* bound: tasks a member holds, tasks submitted, tasks run

ASSUME NoneAssumption == None \notin Agent \cup Type
ASSUME BoundsAssumption ==
    MaxMsgs \in Nat /\ MaxSubs \in Nat /\ MaxTeams \in Nat /\ MaxTasks \in Nat

VARIABLES
    part,       \* the part this behaviour exercises
    (* the bus *)
    holder,     \* the thread that has mutex_, or None
    pc,         \* each thread: "idle", "wait" for the mutex, "deliver" or "stuck"
    msg,        \* the message each thread publishes
    nth,        \* the subscriber a publishing thread is at
    subs,       \* subscribers_
    pending,    \* pending_
    nextId,     \* next_id_
    published,  \* history: messages that publish has taken up, whoever named them
    seen,       \* history: the messages each agent's callbacks got, by their turn
    (* the teams *)
    teams,      \* teams_: the team of each name, 0 for none
    made,       \* teams made so far
    members,    \* members_ of each team
    results,    \* task_results_ of each team: how many tasks a member has
    (* the coordinator and one instance *)
    types,      \* keys of agent_defs_
    submitted,  \* tasks_: how many; all of them stay Idle
    asked,      \* the type a call of the tool has found and is about to run
    told,       \* what the last call of the tool returned
    runs,       \* executions of the instance
    flag,       \* cancelled_
    status,     \* status_
    taskStatus, \* task_.status
    ex, cn,     \* where execute() and cancel() are
    result,     \* what the last execute() returned
    early,      \* history: cancelled_ was set when execute() began
    raced       \* history: a cancel() overlapped the last execute()

busVars == <<holder, pc, msg, nth, subs, pending, nextId, published, seen>>
teamVars == <<teams, made, members, results>>
instance == <<runs, flag, status, taskStatus, ex, cn, result, early, raced>>
taskVars == <<types, submitted, asked, told, instance>>
vars == <<part, busVars, teamVars, taskVars>>

Kinds == {"plain", "throws", "reenters"}
Subscriber == [agent : Agent, kind : Kinds]

\* turn: the place of the message among all that publish took up (history);
\* by: who sets its id.
Message == [turn : Nat, id : Nat, by : {"bus", "publisher"},
            from : Agent \cup {None}, to : Agent \cup {None}]
NewMsg(id, from, to) ==
    [turn |-> 0, id |-> id, by |-> IF id = 0 THEN "bus" ELSE "publisher", from |-> from, to |-> to]
NoMsg == NewMsg(0, None, None)

Init ==
    /\ part \in {"bus", "teams", "tasks"}
    /\ holder = None
    /\ pc = [a \in Agent |-> "idle"]
    /\ msg = [a \in Agent |-> NoMsg]
    /\ nth = [a \in Agent |-> 0]
    /\ subs = <<>> /\ pending = <<>> /\ nextId = 1 /\ published = 0
    /\ seen = [a \in Agent |-> <<>>]
    /\ teams = [n \in TeamName |-> 0]
    /\ made = 0
    /\ members = [t \in 1..MaxTeams |-> {}]
    /\ results = [t \in 1..MaxTeams |-> [a \in Agent |-> 0]]
    /\ types = {} /\ submitted = 0 /\ asked = None /\ told = "none"
    /\ runs = 0 /\ flag = FALSE /\ status = "idle" /\ taskStatus = "idle"
    /\ ex = "idle" /\ cn = "idle" /\ result = "none" /\ early = FALSE /\ raced = FALSE

-----------------------------------------------------------------------------
(* The message bus.                                                        *)

OnBus == part = "bus" /\ UNCHANGED <<part, teamVars, taskVars>>

\* To one agent, or to all of them (to = None), without an id (0) or with one
\* of the publisher's choice, which the bus may have given or give as well.
Publish(a, to, id) ==
    /\ OnBus
    /\ pc[a] = "idle"
    /\ published + Cardinality({ b \in Agent : pc[b] = "wait" }) < MaxMsgs
    /\ msg' = [msg EXCEPT ![a] = NewMsg(id, a, to)]
    /\ pc' = [pc EXCEPT ![a] = "wait"]
    /\ UNCHANGED <<holder, nth, subs, pending, nextId, published, seen>>

\* A message without an id gets the next one; one with an id keeps it and
\* next_id_ stays.
Stamped(m, turn, id) ==
    [m EXCEPT !.turn = turn, !.id = IF m.by = "bus" THEN id ELSE @]

Number(a) ==
    /\ msg' = [msg EXCEPT ![a] = Stamped(@, published + 1, nextId)]
    /\ nextId' = IF msg[a].by = "bus" THEN nextId + 1 ELSE nextId
    /\ published' = published + 1

\* Slip: the mutex covers only the numbering of the message.
LockForId(a) ==
    /\ OnBus
    /\ pc[a] = "wait" /\ holder = None
    /\ Number(a)
    /\ nth' = [nth EXCEPT ![a] = 1]
    /\ pc' = [pc EXCEPT ![a] = "deliver"]
    /\ UNCHANGED <<holder, subs, pending, seen>>

\* The message gets its id under the mutex.
Lock(a) ==
    /\ OnBus
    /\ pc[a] = "wait" /\ holder = None
    /\ holder' = a
    /\ Number(a)
    /\ nth' = [nth EXCEPT ![a] = 1]
    /\ pc' = [pc EXCEPT ![a] = "deliver"]
    /\ UNCHANGED <<subs, pending, seen>>

\* Slip: after an exception the mutex stays locked.
LeaveLocked(a) ==
    /\ holder' = IF nth[a] <= Len(subs) THEN holder ELSE None
    /\ pc' = [pc EXCEPT ![a] = "idle"]
    /\ msg' = [msg EXCEPT ![a] = NoMsg]
    /\ nth' = [nth EXCEPT ![a] = 0]

\* publish returns or is left by an exception: the mutex is released.
Leave(a) ==
    /\ holder' = None
    /\ pc' = [pc EXCEPT ![a] = "idle"]
    /\ msg' = [msg EXCEPT ![a] = NoMsg]
    /\ nth' = [nth EXCEPT ![a] = 0]

\* The next subscriber, if the message is for it.  A callback that throws ends
\* publish: the later subscribers get nothing and the message is not stored.
\* One that uses the bus waits for the mutex its own thread holds.
Deliver(a) ==
    /\ OnBus
    /\ pc[a] = "deliver" /\ nth[a] <= Len(subs)
    /\ LET sub == subs[nth[a]]
           hit == msg[a].to \in {sub.agent, None}
       IN  /\ seen' = IF hit THEN [seen EXCEPT ![sub.agent] = Append(@, msg[a].turn)] ELSE seen
           /\ CASE hit /\ sub.kind = "throws" -> Leave(a)
                [] hit /\ sub.kind = "reenters" ->
                     /\ pc' = [pc EXCEPT ![a] = "stuck"]
                     /\ UNCHANGED <<holder, msg, nth>>
                [] OTHER ->
                     /\ nth' = [nth EXCEPT ![a] = @ + 1]
                     /\ UNCHANGED <<holder, pc, msg>>
    /\ UNCHANGED <<subs, pending, nextId, published>>

Store(a) ==
    /\ OnBus
    /\ pc[a] = "deliver" /\ nth[a] > Len(subs)
    /\ pending' = Append(pending, msg[a])
    /\ Leave(a)
    /\ UNCHANGED <<subs, nextId, published, seen>>

Subscribe(a) ==
    /\ OnBus
    /\ pc[a] = "idle" /\ holder = None /\ Len(subs) < MaxSubs
    /\ \E kind \in Kinds : subs' = Append(subs, [agent |-> a, kind |-> kind])
    /\ UNCHANGED <<holder, pc, msg, nth, pending, nextId, published, seen>>

\* erase(remove_if): the elements of s that are not in D, in their order.
Erase(s, D) ==
    LET kept[i \in 0..Len(s)] ==
          IF i = 0 THEN <<>>
          ELSE IF s[i] \in D THEN kept[i - 1] ELSE Append(kept[i - 1], s[i])
    IN  kept[Len(s)]

Unsubscribe(a) ==
    /\ OnBus
    /\ pc[a] = "idle" /\ holder = None
    /\ subs' = Erase(subs, { s \in Subscriber : s.agent = a })
    /\ UNCHANGED <<holder, pc, msg, nth, pending, nextId, published, seen>>

\* What the agent sent goes too, whether it was read or not; broadcasts of
\* others stay.  poll reads pending_ and takes nothing from it.
Clear(a) ==
    /\ OnBus
    /\ pc[a] = "idle" /\ holder = None
    /\ pending' = Erase(pending, { m \in Message : a \in {m.to, m.from} })
    /\ UNCHANGED <<holder, pc, msg, nth, subs, nextId, published, seen>>

BusStep(a) == Lock(a) \/ Deliver(a) \/ Store(a)

-----------------------------------------------------------------------------
(* Teams, and the manager that owns them.                                  *)

OnTeams == part = "teams" /\ UNCHANGED <<part, busVars, taskVars>>
Owned == { teams[n] : n \in TeamName } \ {0}

\* A name that has a team keeps it.
CreateTeam(n) ==
    /\ OnTeams
    /\ teams[n] = 0 /\ made < MaxTeams
    /\ made' = made + 1
    /\ teams' = [teams EXCEPT ![n] = made + 1]
    /\ UNCHANGED <<members, results>>

RemoveTeam(n) ==
    /\ OnTeams
    /\ teams' = [teams EXCEPT ![n] = 0]
    /\ UNCHANGED <<made, members, results>>

Shutdown ==
    /\ OnTeams
    /\ teams' = [n \in TeamName |-> 0]
    /\ UNCHANGED <<made, members, results>>

AddMember(t, a) ==
    /\ OnTeams
    /\ members' = [members EXCEPT ![t] = @ \cup {a}]
    /\ UNCHANGED <<teams, made, results>>

\* Slip: the tasks of the member stay.
RemoveKeepsTasks(t, a) ==
    /\ OnTeams
    /\ members' = [members EXCEPT ![t] = @ \ {a}]
    /\ UNCHANGED <<teams, made, results>>

RemoveMember(t, a) ==
    /\ OnTeams
    /\ members' = [members EXCEPT ![t] = @ \ {a}]
    /\ results' = [results EXCEPT ![t][a] = 0]
    /\ UNCHANGED <<teams, made>>

Assign(t, a) ==
    /\ OnTeams
    /\ a \in members[t] /\ results[t][a] < MaxTasks
    /\ results' = [results EXCEPT ![t][a] = @ + 1]
    /\ UNCHANGED <<teams, made, members>>

\* A copy of the task, with an id of its own, for every member.
Broadcast(t) ==
    /\ OnTeams
    /\ \A a \in members[t] : results[t][a] < MaxTasks
    /\ results' = [results EXCEPT ![t] =
                     [a \in Agent |-> IF a \in members[t] THEN @[a] + 1 ELSE @[a]]]
    /\ UNCHANGED <<teams, made, members>>

ClearTasks(t) ==
    /\ OnTeams
    /\ results' = [results EXCEPT ![t] = [a \in Agent |-> 0]]
    /\ UNCHANGED <<teams, made, members>>

-----------------------------------------------------------------------------
(* The coordinator, the delegating tool, and one instance on which two     *)
(* threads call execute() and cancel().  None of its fields is guarded, so *)
(* their accesses interleave.                                              *)

OnTasks == part = "tasks" /\ UNCHANGED <<part, busVars, teamVars>>

RegisterAgent(ty) ==
    /\ OnTasks
    /\ types' = types \cup {ty}
    /\ UNCHANGED <<submitted, asked, told, instance>>

RegisterBuiltins ==
    /\ OnTasks
    /\ types' = types \cup Type
    /\ UNCHANGED <<submitted, asked, told, instance>>

\* The task is stored; nothing runs it.
SubmitTask ==
    /\ OnTasks
    /\ submitted < MaxTasks
    /\ submitted' = submitted + 1
    /\ UNCHANGED <<types, asked, told, instance>>

\* run_task makes an instance of its own, which nobody can cancel.
RunTask(ty) == IF ty \in types THEN "completed" ELSE "failed"

\* AgentTool::execute refuses a call without a task, one that the permission
\* callback denies and a type it does not find; the coordinator's lock is not
\* held from here to run_task.
AgentTool(ty) ==
    /\ OnTasks
    /\ asked = None
    /\ \/ told' \in {"no task", "denied"} /\ UNCHANGED asked
       \/ ty \notin types /\ told' = "unknown type" /\ UNCHANGED asked
       \/ ty \in types /\ asked' = ty /\ UNCHANGED told
    /\ UNCHANGED <<types, submitted, instance>>

AgentToolRuns ==
    /\ OnTasks
    /\ asked # None
    /\ told' = RunTask(asked)
    /\ asked' = None
    /\ UNCHANGED <<types, submitted, instance>>

Inst == OnTasks /\ UNCHANGED <<types, submitted, asked, told>>

\* Slip: a new execution forgets an earlier cancel().
ExecuteResets ==
    /\ Inst
    /\ ex = "idle" /\ runs < MaxTasks
    /\ runs' = runs + 1
    /\ flag' = FALSE
    /\ taskStatus' = "running" /\ status' = "running"
    /\ ex' = "running"
    /\ early' = flag /\ raced' = (cn # "idle")
    /\ UNCHANGED <<cn, result>>

\* cancelled_ is not reset.
Execute ==
    /\ Inst
    /\ ex = "idle" /\ runs < MaxTasks
    /\ runs' = runs + 1
    /\ taskStatus' = "running" /\ status' = "running"
    /\ ex' = "running"
    /\ early' = flag /\ raced' = (cn # "idle")
    /\ UNCHANGED <<flag, cn, result>>

Decide ==
    /\ Inst
    /\ ex = "running"
    /\ taskStatus' = IF flag THEN "cancelled" ELSE "completed"
    /\ ex' = "decided"
    /\ UNCHANGED <<runs, flag, status, cn, result, early, raced>>

SetStatus ==
    /\ Inst
    /\ ex = "decided"
    /\ status' = taskStatus
    /\ ex' = "ended"
    /\ UNCHANGED <<runs, flag, taskStatus, cn, result, early, raced>>

Return ==
    /\ Inst
    /\ ex = "ended"
    /\ result' = taskStatus
    /\ ex' = "idle"
    /\ UNCHANGED <<runs, flag, status, taskStatus, cn, early, raced>>

Cancel ==
    /\ Inst
    /\ cn = "idle"
    /\ flag' = TRUE
    /\ cn' = "test"
    /\ raced' = (raced \/ ex # "idle")
    /\ UNCHANGED <<runs, status, taskStatus, ex, result, early>>

CancelTests ==
    /\ Inst
    /\ cn = "test"
    /\ cn' = IF status = "running" THEN "status" ELSE "idle"
    /\ UNCHANGED <<runs, flag, status, taskStatus, ex, result, early, raced>>

CancelMarks ==
    /\ Inst
    /\ \/ cn = "status" /\ cn' = "task" /\ status' = "cancelled" /\ UNCHANGED taskStatus
       \/ cn = "task" /\ cn' = "idle" /\ taskStatus' = "cancelled" /\ UNCHANGED status
    /\ UNCHANGED <<runs, flag, ex, result, early, raced>>

-----------------------------------------------------------------------------
Next ==
    \/ \E a \in Agent :
         \/ \E to \in Agent \cup {None}, id \in {0, 1} : Publish(a, to, id)
         \/ BusStep(a)
         \/ Subscribe(a) \/ Unsubscribe(a) \/ Clear(a)
    \/ \E n \in TeamName : CreateTeam(n) \/ RemoveTeam(n)
    \/ Shutdown
    \/ \E t \in Owned :
         \/ \E a \in Agent : AddMember(t, a) \/ RemoveMember(t, a) \/ Assign(t, a)
         \/ Broadcast(t) \/ ClearTasks(t)
    \/ \E ty \in Type : RegisterAgent(ty) \/ AgentTool(ty)
    \/ AgentToolRuns \/ RegisterBuiltins \/ SubmitTask
    \/ Execute \/ Decide \/ SetStatus \/ Return
    \/ Cancel \/ CancelTests \/ CancelMarks

\* A thread in publish runs on, and gets the mutex if it is free often enough.
Spec ==
    /\ Init /\ [][Next]_vars
    /\ \A a \in Agent : SF_vars(Lock(a)) /\ WF_vars(Deliver(a) \/ Store(a))

-----------------------------------------------------------------------------
(* Properties.                                                             *)

\* m was taken up before n, and its id is the smaller one if the bus gave both.
Before(m, n) == m.turn < n.turn /\ (m.by = "bus" /\ n.by = "bus" => m.id < n.id)

\* All callbacks of an agent get the messages in one order, the order in which
\* publish took them up, and poll returns them in that order too, whichever
\* threads publish; the ids that the bus gives ascend in it.  Ids that the
\* publishers set say nothing about the order.
SameOrder ==
    /\ \A a \in Agent : \A m, n \in 1..Len(seen[a]) :
         m < n => seen[a][m] <= seen[a][n]
    /\ \A m, n \in 1..Len(pending) : m < n => Before(pending[m], pending[n])

\* Every publish ends, also when a callback throws, unless some callback used
\* the bus: that one, and every later user of the bus, waits for ever.
PublishEnds ==
    \A a \in Agent :
        pc[a] = "wait" ~> (pc[a] = "idle" \/ \E b \in Agent : pc[b] = "stuck")

\* Only members have tasks, through assignments, broadcasts and members that
\* leave and come back.
TasksOfMembers ==
    \A t \in Owned, a \in Agent : results[t][a] > 0 => a \in members[t]

\* Without a cancel() running beside it, execute() returns what status() then
\* says: "completed", or "cancelled" for ever once the instance was cancelled.
CancelHonoured ==
    ex = "idle" /\ runs > 0 /\ ~raced =>
        /\ result = status
        /\ result = IF early THEN "cancelled" ELSE "completed"
=============================================================================
