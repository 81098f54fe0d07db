------------------------------- MODULE Kanban -------------------------------
(***************************************************************************)
(* The durable task board: ChronicleKanbanStore, the KanbanDispatcher on   *)
(* top of it, and the REST routes and agent tools that share the store.    *)
(*                                                                         *)
(* Covered: concurrent clients, each inside one asynchronous operation at  *)
(* a time; claims, heartbeats, lease expiry and reclaim; multi-hop moves   *)
(* whose every hop is a commit of its own; dependencies; idempotent        *)
(* creation; an append that is refused or fails; a crash and the rebuild   *)
(* of the board from the log.                                              *)
(*                                                                         *)
(* One action is the code between two awaits. Abstracted: titles, goals,   *)
(* labels and comment bodies; priority, deadline and schedule, which only  *)
(* choose among the runnable tasks; updatedAt, which is the version that   *)
(* stamped it; and the tie-break among shortest paths.                     *)
(***************************************************************************)
EXTENDS Chronicle, FiniteSets, SequencesExt

CONSTANTS
    Tasks,          \* task ids
    Clients,        \* asynchronous callers of the store and the dispatcher
    Workers,        \* claimants
    Keys,           \* idempotency keys of creates
    Targets,        \* statuses the routes and the tools ask for
    LeaseDuration,  \* leaseDurationMs, in clock ticks
    MaxConcurrent,  \* tasks one worker may hold; 0 is no limit
    MaxTime, MaxCalls,  \* bounds: the clock, operations called
    NoTask, NoKey

ASSUME LeaseAssumption == LeaseDuration \in Nat \ {0} /\ MaxConcurrent \in Nat
ASSUME KanbanNoneAssumption == NoTask \notin Tasks /\ NoKey \notin Keys

VARIABLES
    log,       \* Tasks -> the durable stream `kanban:<task>`
    tasks,     \* Tasks -> the projected task, or NoTask (#tasks)
    keyIndex,  \* Keys -> a task, or NoTask (#idempotency)
    job,       \* Clients -> the operation under way with its locals
    clock,     \* the time
    leases,    \* how many lease ids were generated so far
    calls      \* how many operations were called so far

vars == <<log, tasks, keyIndex, job, clock, leases, calls>>

-----------------------------------------------------------------------------
(* The state machine *)

Transitions ==
    [inbox     |-> {"triaged", "cancelled", "failed", "archived"},
     triaged   |-> {"ready", "cancelled", "failed", "archived"},
     ready     |-> {"running", "cancelled", "failed", "archived"},
     running   |-> {"ready", "blocked", "review", "done", "cancelled", "failed", "archived"},
     blocked   |-> {"running", "ready", "cancelled", "failed", "archived"},
     review    |-> {"done", "running", "cancelled", "failed", "archived"},
     done      |-> {"archived"},
     failed    |-> {"ready", "running", "cancelled", "archived"},
     cancelled |-> {"archived"},
     archived  |-> {}]

Statuses == DOMAIN Transitions

ASSUME TargetsAssumption == Targets \subseteq Statuses

\* Statuses a multi-hop move never passes through.
Terminalish == {"failed", "cancelled", "archived"}

\* The legal hop sequences of length n between two statuses.
PathsOfLength(from, to, n) ==
    {p \in [1 .. n -> Statuses] :
        /\ p[n] = to
        /\ \A i \in 1 .. n - 1 : p[i] \notin Terminalish \union {from, to}
        /\ \A i \in 1 .. n :
              p[i] \in Transitions[IF i = 1 THEN from ELSE p[i - 1]]}

\* shortestTransitionPath for every pair of statuses; {} where there is no path.
\* No two statuses are more than four hops apart.
ShortestPaths ==
    [from \in Statuses |->
        [to \in Statuses |->
            LET lengths == {n \in 1 .. 4 : PathsOfLength(from, to, n) # {}} IN
            IF from = to \/ lengths = {} THEN {}
            ELSE PathsOfLength(from, to, CHOOSE n \in lengths : \A m \in lengths : n <= m)]]

NoClaim == [claimant |-> "nobody", lease |-> 0, expires |-> 0]

\* applyTransition, once its two checks have passed.
ApplyTransition(task, to, claim) ==
    [task EXCEPT !.status = to,
                 !.version = @ + 1,
                 !.updatedAt = task.version + 1,
                 !.claim = IF to # "running" THEN NoClaim
                           ELSE IF claim # NoClaim THEN claim ELSE @]

-----------------------------------------------------------------------------
(* Tasks and events *)

NewTask(key, dependencies) ==
    [status |-> "inbox", version |-> 1, updatedAt |-> 1, claim |-> NoClaim,
     key |-> key, dependencies |-> dependencies]

Dependencies == [task : Tasks, satisfiedWhen : Statuses]

Claims == {NoClaim} \union [claimant : Workers, lease : Nat \ {0}, expires : Nat]

TaskRecords == [status : Statuses, version : Nat, updatedAt : Nat, claim : Claims,
                key : Keys \union {NoKey}, dependencies : SUBSET Dependencies]

ASSUME NoTaskAssumption == NoTask \notin TaskRecords

\* An event carries the resulting task, except that a comment carries nothing
\* of it and a renewal only the lease and its new expiry. `by` tells apart two
\* appends at one position, as the event id does.
Event(p, type, task, claim) == [type |-> type, by |-> p, task |-> task, claim |-> claim]

\* The events that carry the resulting task.
Snapshots == {"created", "status_changed", "updated"}

\* Mutant: replay keeps the old expiry of a renewed lease.
FoldTask_KeepsExpiry(task, event) ==
    CASE event.type \in Snapshots -> event.task
      [] OTHER -> [task EXCEPT !.version = @ + 1]

\* One event of a replay. A comment leaves updatedAt alone here.
FoldTask(task, event) ==
    CASE event.type \in Snapshots -> event.task
      [] event.type = "commented" -> [task EXCEPT !.version = @ + 1]
      [] event.type = "lease_renewed" ->
            IF task.status = "running" /\ task.claim.lease = event.claim.lease
            THEN [task EXCEPT !.claim.expires = event.claim.expires,
                              !.version = @ + 1]
            ELSE task

\* The task a replay of a stream yields.
Replayed(stream) == FoldLeft(FoldTask, NoTask, stream)

\* The index a rebuild may leave: of two tasks with one key, the last listed.
KeyIndexes(board) ==
    {index \in [Keys -> Tasks \union {NoTask}] :
        \A k \in Keys :
            LET holders == {t \in Tasks : board[t] # NoTask /\ board[t].key = k} IN
            IF holders = {} THEN index[k] = NoTask ELSE index[k] \in holders}

-----------------------------------------------------------------------------
(* Operations under way *)

Ops == {"none", "create", "move", "finish", "heartbeat", "update", "comment",
        "claim", "reclaim"}

Idle == [op |-> "none", at |-> "idle", task |-> NoTask, seen |-> 0,
         hops |-> <<>>, lease |-> 0, worker |-> "nobody", now |-> 0,
         listed |-> {}, runnable |-> {}, event |-> NoTask, next |-> NoTask]

\* Client p goes on in state j.
Becomes(p, j) == job' = [job EXCEPT ![p] = j]

\* It asks the store to append `event` behind version `seen`, #commit's first
\* half; `next` is what it indexes afterwards.
Commit(p, j, t, seen, event, next) ==
    Becomes(p, [j EXCEPT !.at = "append", !.task = t, !.seen = seen,
                         !.event = event, !.next = next])

\* store.transition up to its append: a stale or illegal move ends the operation.
StartTransition(p, j, t, seen, to, claim) ==
    IF tasks[t].version = seen /\ to \in Transitions[tasks[t].status]
    THEN LET next == ApplyTransition(tasks[t], to, claim) IN
         Commit(p, j, t, seen, Event(p, "status_changed", next, NoClaim), next)
    ELSE Becomes(p, Idle)

\* Client p is free to call an operation; MaxCalls bounds how many are called.
Calls(p) ==
    /\ job[p].at = "idle"
    /\ calls < MaxCalls
    /\ calls' = calls + 1

-----------------------------------------------------------------------------
(* Actions *)

\* The stream of a task that went through the given statuses, and was claimed
\* under the first lease if it runs.
History(statuses, worker, deps) ==
    [n \in DOMAIN statuses |->
        Event("before", IF n = 1 THEN "created" ELSE "status_changed",
              [NewTask(NoKey, deps) EXCEPT
                  !.status = statuses[n], !.version = n, !.updatedAt = n,
                  !.claim = IF statuses[n] # "running" THEN NoClaim
                            ELSE [claimant |-> worker, lease |-> 1,
                                  expires |-> LeaseDuration]],
              NoClaim)]

\* A board as a restart may find it: a task is not created yet, ready and perhaps
\* waiting for another, or still running under the lease of a worker of before.
Histories ==
    {<<>>} \union
    {History(<<"inbox", "triaged", "ready">>, "nobody", deps) :
        deps \in {{}} \union {{d} : d \in [task : Tasks, satisfiedWhen : {"done"}]}} \union
    {History(<<"inbox", "triaged", "ready", "running">>, w, {}) : w \in Workers}

Init ==
    /\ log \in [Tasks -> Histories]
    /\ Cardinality({t \in Tasks : Len(log[t]) = 4}) <= 1
    /\ tasks = [t \in Tasks |-> Replayed(log[t])]
    /\ keyIndex \in KeyIndexes(tasks)
    /\ job = [p \in Clients |-> Idle]
    /\ clock = 0
    /\ leases = 1
    /\ calls = 0

\* create: a known key returns its task; otherwise the new task is appended.
\* The id may be the caller's own choice.
Create(p) ==
    /\ Calls(p)
    /\ \E t \in Tasks, k \in Keys \union {NoKey} :
          /\ tasks[t] = NoTask
          /\ k # NoKey => keyIndex[k] = NoTask
          /\ LET task == NewTask(k, {}) IN
             Commit(p, [Idle EXCEPT !.op = "create"], t, 0,
                    Event(p, "created", task, NoClaim), task)
    /\ UNCHANGED <<log, tasks, keyIndex, clock, leases>>

\* transitionAlongPath of the REST routes and the agent tools: the task is read,
\* and the path computed from that reading. dispatcher.cancel is its one-hop case.
Move(p) ==
    /\ Calls(p)
    /\ \E t \in Tasks, to \in Targets :
          /\ tasks[t] # NoTask
          /\ \E path \in ShortestPaths[tasks[t].status][to] :
                Becomes(p, [Idle EXCEPT !.op = "move", !.at = "hop", !.task = t,
                                        !.seen = tasks[t].version, !.hops = path])
    /\ UNCHANGED <<log, tasks, keyIndex, clock, leases>>

\* Mutant: the caller's lease is not looked at.
Finish_AnyLease(p) ==
    /\ Calls(p)
    /\ \E t \in Tasks, l \in 1 .. leases, to \in {"done", "failed", "blocked"} :
          /\ tasks[t] # NoTask
          /\ tasks[t].status = "running"
          /\ Becomes(p, [Idle EXCEPT !.op = "finish", !.at = "hop", !.task = t,
                                     !.seen = tasks[t].version, !.hops = <<to>>,
                                     !.lease = l])
    /\ UNCHANGED <<log, tasks, keyIndex, clock, leases>>

\* dispatcher.complete, fail and block: #owned reads the task and compares the
\* lease the worker was given, one it may have lost meanwhile.
Finish(p) ==
    /\ Calls(p)
    /\ \E t \in Tasks, l \in 1 .. leases, to \in {"done", "failed", "blocked"} :
          /\ tasks[t] # NoTask
          /\ tasks[t].status = "running" /\ tasks[t].claim.lease = l
          /\ Becomes(p, [Idle EXCEPT !.op = "finish", !.at = "hop", !.task = t,
                                     !.seen = tasks[t].version, !.hops = <<to>>,
                                     !.lease = l])
    /\ UNCHANGED <<log, tasks, keyIndex, clock, leases>>

\* The next hop of a move, or the only one of a finish.
Hop(p) ==
    /\ job[p].at = "hop" /\ job[p].op # "update"
    /\ StartTransition(p, [job[p] EXCEPT !.hops = Tail(@)], job[p].task,
                       job[p].seen, Head(job[p].hops), NoClaim)
    /\ UNCHANGED <<log, tasks, keyIndex, clock, leases, calls>>

\* dispatcher.heartbeat and store.renewLease: checked and appended in one go.
Heartbeat(p) ==
    /\ Calls(p)
    /\ \E t \in Tasks, l \in 1 .. leases :
          /\ tasks[t] # NoTask
          /\ tasks[t].status = "running" /\ tasks[t].claim.lease = l
          /\ LET next == [tasks[t] EXCEPT !.claim.expires = clock + LeaseDuration,
                                          !.version = @ + 1]
             IN Commit(p, [Idle EXCEPT !.op = "heartbeat", !.lease = l], t,
                       tasks[t].version,
                       Event(p, "lease_renewed", NoTask, next.claim), next)
    /\ UNCHANGED <<log, tasks, keyIndex, clock, leases>>

\* The route or the tool reads the task before it calls store.update.
Update(p) ==
    /\ Calls(p)
    /\ \E t \in Tasks :
          /\ tasks[t] # NoTask
          /\ Becomes(p, [Idle EXCEPT !.op = "update", !.at = "hop", !.task = t,
                                     !.seen = tasks[t].version])
    /\ UNCHANGED <<log, tasks, keyIndex, clock, leases>>

\* store.update: fields change, the status does not.
Patch(p) ==
    LET t == job[p].task
        next == [tasks[t] EXCEPT !.version = @ + 1, !.updatedAt = tasks[t].version + 1]
    IN
    /\ job[p].at = "hop" /\ job[p].op = "update"
    /\ IF job[p].seen = tasks[t].version
       THEN Commit(p, job[p], t, job[p].seen, Event(p, "updated", next, NoClaim), next)
       ELSE Becomes(p, Idle)
    /\ UNCHANGED <<log, tasks, keyIndex, clock, leases, calls>>

\* store.comment, which names no expected version: it takes the current one.
Comment(p) ==
    /\ Calls(p)
    /\ \E t \in Tasks :
          /\ tasks[t] # NoTask
          /\ LET next == [tasks[t] EXCEPT !.version = @ + 1,
                                          !.updatedAt = tasks[t].version + 1]
             IN Commit(p, [Idle EXCEPT !.op = "comment"], t, tasks[t].version,
                       Event(p, "commented", NoTask, NoClaim), next)
    /\ UNCHANGED <<log, tasks, keyIndex, clock, leases>>

HeldBy(w) == {t \in Tasks : /\ tasks[t] # NoTask /\ tasks[t].status = "running"
                            /\ tasks[t].claim.claimant = w}

\* claimNext, first await: #hasCapacity.
ClaimNext(p) ==
    /\ Calls(p)
    /\ \E w \in Workers :
          /\ MaxConcurrent = 0 \/ Cardinality(HeldBy(w)) < MaxConcurrent
          /\ Becomes(p, [Idle EXCEPT !.op = "claim", !.at = "list", !.worker = w,
                                     !.now = clock])
    /\ UNCHANGED <<log, tasks, keyIndex, clock, leases>>

\* readyTasks lists the ready tasks; what it holds on to are snapshots.
ListReady(p) ==
    LET ready == {t \in Tasks : tasks[t] # NoTask /\ tasks[t].status = "ready"} IN
    /\ job[p].at = "list"
    /\ Becomes(p, [job[p] EXCEPT !.at = "examine",
                                 !.listed = {<<t, tasks[t].version>> : t \in ready}])
    /\ UNCHANGED <<log, tasks, keyIndex, clock, leases, calls>>

Satisfied(dependency) ==
    /\ tasks[dependency.task] # NoTask
    /\ tasks[dependency.task].status = dependency.satisfiedWhen

\* #dependenciesSatisfied of one listed task.
Examine(p) ==
    /\ job[p].at = "examine"
    /\ \E x \in job[p].listed :
          LET satisfied == \A d \in tasks[x[1]].dependencies : Satisfied(d) IN
          Becomes(p, [job[p] EXCEPT !.listed = @ \ {x},
                                    !.runnable = @ \union (IF satisfied THEN {x} ELSE {})])
    /\ UNCHANGED <<log, tasks, keyIndex, clock, leases, calls>>

\* claimNext, last part: the first runnable task starts running under a new
\* lease; without one there is nothing to claim.
Claim(p) ==
    LET claim == [claimant |-> job[p].worker, lease |-> leases + 1,
                  expires |-> job[p].now + LeaseDuration]
    IN
    /\ job[p].at = "examine" /\ job[p].listed = {}
    /\ \/ /\ leases' = leases + 1
          /\ \E x \in job[p].runnable :
                StartTransition(p, [job[p] EXCEPT !.runnable = {}, !.lease = 0], x[1],
                                x[2], "running", claim)
       \/ /\ job[p].runnable = {}
          /\ Becomes(p, Idle)
          /\ UNCHANGED leases
    /\ UNCHANGED <<log, tasks, keyIndex, clock, calls>>

\* reclaimExpired: the snapshots of the running tasks whose lease has lapsed.
ReclaimExpired(p) ==
    LET lapsed == {t \in Tasks : /\ tasks[t] # NoTask
                                 /\ tasks[t].status = "running"
                                 /\ tasks[t].claim # NoClaim
                                 /\ tasks[t].claim.expires <= clock}
    IN
    /\ Calls(p)
    /\ lapsed # {}
    /\ Becomes(p, [Idle EXCEPT !.op = "reclaim", !.at = "release", !.now = clock,
                               !.listed = {<<t, tasks[t].version>> : t \in lapsed}])
    /\ UNCHANGED <<log, tasks, keyIndex, clock, leases>>

\* Its loop: the next of them goes back to ready; a conflict ends the loop.
Release(p) ==
    /\ job[p].at = "release"
    /\ \E x \in job[p].listed :
          StartTransition(p, [job[p] EXCEPT !.listed = @ \ {x}], x[1], x[2],
                          "ready", NoClaim)
    /\ UNCHANGED <<log, tasks, keyIndex, clock, leases, calls>>

\* The append of #commit, at the position the observed version implies. It is
\* stored, or refused, or the store fails; then the operation throws.
Store(p) ==
    LET t == job[p].task
        events == <<job[p].event>>
        next == job[p].seen + 1
    IN
    /\ job[p].at = "append"
    /\ \/ /\ ~ Conflicts(log[t], events, next)
          /\ log' = [log EXCEPT ![t] = Appended(@, events, next)]
          /\ Becomes(p, [job[p] EXCEPT !.at = "index"])
       \/ /\ Becomes(p, Idle)
          /\ UNCHANGED log
    /\ UNCHANGED <<tasks, keyIndex, clock, leases, calls>>

\* #index once the append has settled, and what the operation does next.
Index(p) ==
    LET j == job[p]
        k == j.next.key
        rest == [j EXCEPT !.seen = j.next.version, !.event = NoTask, !.next = NoTask]
    IN
    /\ j.at = "index"
    /\ tasks' = [tasks EXCEPT ![j.task] = j.next]
    /\ keyIndex' = IF k = NoKey THEN keyIndex ELSE [keyIndex EXCEPT ![k] = j.task]
    /\ Becomes(p, IF j.op = "move" /\ j.hops # <<>> THEN [rest EXCEPT !.at = "hop"]
                  ELSE IF j.op = "reclaim" /\ j.listed # {} THEN [rest EXCEPT !.at = "release"]
                  ELSE Idle)
    /\ UNCHANGED <<log, clock, leases, calls>>

Tick ==
    /\ clock < MaxTime
    /\ clock' = clock + 1
    /\ UNCHANGED <<log, tasks, keyIndex, job, leases, calls>>

\* The process dies; the next one rebuilds the board before it serves anyone.
Restart ==
    /\ \E p \in Clients : job[p].at # "idle"
    /\ tasks' = [t \in Tasks |-> Replayed(log[t])]
    /\ keyIndex' \in KeyIndexes(tasks')
    /\ job' = [p \in Clients |-> Idle]
    /\ UNCHANGED <<log, clock, leases, calls>>

Next ==
    \/ \E p \in Clients :
          \/ Create(p) \/ Move(p) \/ Finish(p) \/ Hop(p) \/ Heartbeat(p)
          \/ Update(p) \/ Patch(p) \/ Comment(p)
          \/ ClaimNext(p) \/ ListReady(p) \/ Examine(p) \/ Claim(p)
          \/ ReclaimExpired(p) \/ Release(p) \/ Store(p) \/ Index(p)
    \/ Tick
    \/ Restart

Spec == Init /\ [][Next]_vars

-----------------------------------------------------------------------------
(* Properties *)

Jobs == [op : Ops, at : {"idle", "hop", "list", "examine", "release", "append", "index"},
         task : Tasks \union {NoTask}, seen : Nat, hops : Seq(Statuses),
         lease : 0 .. MaxCalls + 1, worker : Workers \union {"nobody"}, now : Nat,
         listed : SUBSET (Tasks \X Nat), runnable : SUBSET (Tasks \X Nat),
         next : TaskRecords \union {NoTask}]

TypeOK ==
    /\ tasks \in [Tasks -> TaskRecords \union {NoTask}]
    /\ keyIndex \in [Keys -> Tasks \union {NoTask}]
    /\ \A p \in Clients : [f \in DOMAIN job[p] \ {"event"} |-> job[p][f]] \in Jobs
                        /\ job[p].at = "hop" => (job[p].op = "update" \/ job[p].hops # <<>>)
    /\ clock \in Nat /\ leases \in 1 .. MaxCalls + 1 /\ calls \in 0 .. MaxCalls

\* Client p's event has just been stored and is not indexed yet.
Stores(p) == job[p].at = "append" /\ job'[p].at = "index"

Indexing(t) == {p \in Clients : job[p].at = "index" /\ job[p].task = t}

\* What a replay says of the task now.
Durable(t) == Replayed(log[t])

\* Everything a worker or a user relies on survives a restart: replaying the log
\* yields the task as it is indexed, or as it is about to be, up to updatedAt.
BoardIsReplay ==
    LET shown(task) == IF task = NoTask THEN NoTask ELSE [task EXCEPT !.updatedAt = 0] IN
    \A t \in Tasks :
        IF Indexing(t) = {}
        THEN shown(Durable(t)) = shown(tasks[t])
        ELSE \A p \in Indexing(t) : shown(Durable(t)) = shown(job[p].next)

\* The lease is a fencing token: a heartbeat, a completion, a failure or a block
\* is stored only while the durable task still runs under the caller's lease. And
\* reclaim, which works through a list it read once, takes a task back only while
\* the lease it has then is one that had lapsed (dispatcher.ts).
LeaseFencing ==
    [][\A p \in Clients : Stores(p) =>
          LET task == Durable(job[p].task) IN
          /\ job[p].op \in {"finish", "heartbeat"} =>
                task.status = "running" /\ task.claim.lease = job[p].lease
          /\ job[p].op = "reclaim" =>
                task.status = "running" /\ task.claim.expires <= job[p].now]_vars

=============================================================================
