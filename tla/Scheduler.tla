------------------------------ MODULE Scheduler ------------------------------
(***************************************************************************)
(* The durable agent scheduler: AgentScheduler, its `scheduler` stream and *)
(* the routes and subscriptions through which the host drives it.          *)
(*                                                                         *)
(* Covered: one-shot, recurring, task and event triggers; ticks of the     *)
(* timer and of the route and notifications, queued behind each other;     *)
(* registrations and removals, which are not queued and interleave with a  *)
(* tick at every await; catch-up after a late tick; an append that fails;  *)
(* a crash between any two awaits and the rebuild from the stream.         *)
(*                                                                         *)
(* One action is the code between two awaits. Abstracted: inputs, threads, *)
(* reasons and how a turn ends, which the schedule does not look at; when  *)
(* a trigger was created, unless it waits for a task; the order of equal   *)
(* due times; which of several pending conditions is looked at first (the  *)
(* code takes the order of registration).                                  *)
(***************************************************************************)
EXTENDS Chronicle, FiniteSets, SequencesExt

CONSTANTS
    Ids,        \* trigger ids
    Interval,   \* intervalMs of every recurring trigger, in clock ticks
    Ats,        \* first-run times the registrations name
    Mixes,      \* which kinds of trigger are registered together: Ids -> kind
    MaxTime, MaxQueue, MaxRemovals, MaxFaults,
                \* bounds: clock, waiting operations of a kind, removals, failures
    None

ASSUME IntervalAssumption == Interval \in Nat \ {0}
ASSUME SchedulerBounds == MaxTime \in Nat /\ MaxFaults \in Nat /\ Ats \subseteq Nat
ASSUME MixesAssumption == Mixes \subseteq [Ids -> {"once", "every", "task", "event", "unused"}]

VARIABLES
    kinds,     \* Ids -> the kind of trigger registered under the id, never changed
    now,       \* the time
    up,        \* the host process is up
    log,       \* the durable stream `scheduler`
    triggers,  \* Ids -> the projected trigger, or None (#triggers)
    calls,     \* Ids -> the register or remove under way, or None
    queue,     \* the operations waiting in #serialize
    op,        \* the operation #serialize runs, with its locals
    reachedAt, \* when the awaited task last reached the awaited status, or None
    starts,    \* Ids -> how many turns were started for the trigger
    revived,   \* history: the triggers a run put back after their removal
    faults     \* crashes and failed appends so far

vars == <<kinds, now, up, log, triggers, calls, queue, op, reachedAt, starts, revived, faults>>
world == <<kinds, now, up, reachedAt, revived, faults>>

Times == 0 .. MaxTime + Interval

Trigger == [interval : Nat, when : {"none", "task", "event"},
            next : Nat \union {None}, created : Nat \union {None}]

\* A register or a remove between its await and its end.
Call == [does : {"register", "remove"}, logged : BOOLEAN, trigger : Trigger]

ASSUME NoneAssumption == None \notin Call

NoTriggers == [id \in Ids |-> None]

\* Triggers of this kind are registered: nobody looks at the condition otherwise.
Awaits(kind) == \E id \in Ids : kinds[id] = kind

\* What register accepts: a schedule or a condition, never both. A schedule
\* without a first-run time starts at once, one without an interval runs once.
Registration(kind) ==
    [when     : {IF kind \in {"once", "every"} THEN "none" ELSE kind},
     interval : {IF kind = "every" THEN Interval ELSE 0},
     next     : CASE kind = "once"  -> Ats
                  [] kind = "every" -> Ats \union {now}
                  [] OTHER          -> {None},
     created  : {IF kind = "task" THEN now ELSE None}]

-----------------------------------------------------------------------------
(* The stream and its replay *)

Registered(id, t) == [type |-> "registered", id |-> id, trigger |-> t]
Triggered(id, at, missed, next) ==
    [type |-> "triggered", id |-> id, firedAt |-> at, missed |-> missed, next |-> next]
Removed(id) == [type |-> "removed", id |-> id]

\* A trigger whose run is recorded: a condition is spent, a schedule moves on.
Ran(t, next) == IF t.when # "none" THEN None ELSE [t EXCEPT !.next = next]

Replayed_KeepsRemoved(ts, e) ==
    [ts EXCEPT ![e.id] =
        CASE e.type = "registered" -> e.trigger
          [] e.type = "triggered"  -> IF @ = None THEN None ELSE Ran(@, e.next)
          [] e.type = "removed"    -> @]

Replayed(ts, e) ==
    [ts EXCEPT ![e.id] =
        CASE e.type = "registered" -> e.trigger
          [] e.type = "triggered"  -> IF @ = None THEN None ELSE Ran(@, e.next)
          [] e.type = "removed"    -> None]

\* rebuild
Rebuilt(stream) == FoldLeft(Replayed, NoTriggers, stream)

Entries(type, id) == {i \in DOMAIN log : log[i].type = type /\ log[i].id = id}

Logs(e) == log' = Appended(log, <<e>>, NextSequence(log))

-----------------------------------------------------------------------------
(* When a trigger fires *)

Due(t, at) == t.when = "none" /\ t.next # None /\ t.next <= at

\* #taskReachedStatus: a transition after the registration.
Reached(t) == reachedAt # None /\ reachedAt > t.created

Missed(t, at) ==
    IF t.interval = 0 \/ t.next = None THEN 0 ELSE (at - t.next) \div t.interval

Following(t, at) ==
    IF t.interval = 0 \/ t.next = None THEN None
    ELSE Max({t.next + (Missed(t, at) + 1) * t.interval, at + t.interval})

\* The live triggers that wait for a condition of this kind.
Waiting(kind) == {id \in Ids : triggers[id] # None /\ triggers[id].when = kind}

-----------------------------------------------------------------------------
(* The operation under way *)

Phases == {"idle", "loop", "read", "turn", "settle"}
NoOp == [kind |-> "none", phase |-> "idle", now |-> 0, due |-> NoTriggers,
         seen |-> {}, id |-> None, trigger |-> None]

Idle == op.phase = "idle"

\* #fire up to the await of runTurn, on the trigger as it was picked.
Fires(o, id, t) ==
    /\ op' = [o EXCEPT !.phase = "turn", !.id = id, !.trigger = t]
    /\ starts' = [starts EXCEPT ![id] = @ + 1]

Enqueue(kind) ==
    /\ up /\ Cardinality({i \in DOMAIN queue : queue[i] = kind}) < MaxQueue
    /\ queue' = Append(queue, kind)

\* Everything the process had in memory is gone.
ProcessEnds ==
    /\ up' = FALSE /\ revived' = {}
    /\ op' = NoOp /\ queue' = <<>> /\ triggers' = NoTriggers /\ calls' = NoTriggers

Init ==
    /\ kinds \in Mixes
    /\ now = 0 /\ up = FALSE /\ log = <<>>
    /\ triggers = NoTriggers /\ calls = NoTriggers
    /\ queue = <<>> /\ op = NoOp
    /\ reachedAt = None /\ starts = [id \in Ids |-> 0]
    /\ revived = {} /\ faults = 0

TypeOK ==
    /\ kinds \in Mixes /\ now \in 0 .. MaxTime /\ up \in BOOLEAN
    /\ \A i \in DOMAIN log : log[i] \in
          [type : {"registered"}, id : Ids, trigger : Trigger]
          \union [type : {"triggered"}, id : Ids, firedAt : Times, missed : Times,
                  next : Times \union {None}]
          \union [type : {"removed"}, id : Ids]
    /\ triggers \in [Ids -> Trigger \union {None}]
    /\ calls \in [Ids -> Call \union {None}]
    /\ queue \in BoundedSeq({"tick", "event"}, 2 * MaxQueue)
    /\ op \in [kind : {"none", "tick", "event"}, phase : Phases, now : Times,
               due : [Ids -> Trigger \union {None}], seen : SUBSET Ids,
               id : Ids \union {None}, trigger : Trigger \union {None}]
    /\ op.phase \in {"read", "turn", "settle"} <=> op.id # None /\ op.trigger # None
    /\ reachedAt \in Times \union {None}
    /\ starts \in [Ids -> Nat] /\ revived \subseteq Ids /\ faults \in 0 .. MaxFaults

-----------------------------------------------------------------------------
(* Serialized operations: tick and notify *)

\* The interval timer of start, or POST /scheduler/tick.
Tick == Enqueue("tick") /\ UNCHANGED <<world, log, triggers, calls, op, starts>>

\* An event some event trigger may wait for is appended and broadcast.
EventAppended ==
    /\ Awaits("event")
    /\ Enqueue("event")
    /\ UNCHANGED <<world, log, triggers, calls, op, starts>>

\* #tickNow reads the clock and picks what is due.
StartTick ==
    /\ Idle /\ queue # <<>> /\ Head(queue) = "tick"
    /\ queue' = Tail(queue)
    /\ op' = [NoOp EXCEPT
                !.kind = "tick", !.phase = "loop", !.now = now,
                !.due = [id \in Ids |-> IF triggers[id] # None /\ Due(triggers[id], now)
                                        THEN triggers[id] ELSE None]]
    /\ UNCHANGED <<world, log, triggers, calls, starts>>

\* notify: the first match fires, the others wait for another event.
StartNotify ==
    /\ Idle /\ queue # <<>> /\ Head(queue) = "event"
    /\ queue' = Tail(queue)
    /\ \/ /\ Waiting("event") = {}
          /\ UNCHANGED <<op, starts>>
       \/ \E id \in Waiting("event") :
             Fires([NoOp EXCEPT !.kind = "event", !.now = now], id, triggers[id])
    /\ UNCHANGED <<world, log, triggers, calls>>

DueIds == {id \in Ids : op.due[id] # None}

FireDue ==
    /\ op.phase = "loop"
    /\ \E id \in DueIds :
          /\ \A other \in DueIds : op.due[id].next <= op.due[other].next
          /\ Fires([op EXCEPT !.due[id] = None], id, op.due[id])
    /\ UNCHANGED <<world, log, triggers, calls, queue>>

\* #pendingTaskTriggers yields the next one, and its task's stream is read.
ReadTask ==
    /\ op.phase = "loop" /\ DueIds = {}
    /\ \E id \in Waiting("task") \ op.seen :
          op' = [op EXCEPT !.phase = "read", !.id = id, !.trigger = triggers[id],
                           !.seen = @ \union {id}]
    /\ UNCHANGED <<world, log, triggers, calls, queue, starts>>

TaskWasRead ==
    /\ op.phase = "read"
    /\ IF Reached(op.trigger)
       THEN Fires(op, op.id, op.trigger)
       ELSE /\ op' = [op EXCEPT !.phase = "loop", !.id = None, !.trigger = None]
            /\ UNCHANGED starts
    /\ UNCHANGED <<world, log, triggers, calls, queue>>

EndTick ==
    /\ op.phase = "loop" /\ DueIds = {} /\ Waiting("task") \subseteq op.seen
    /\ op' = NoOp
    /\ UNCHANGED <<world, log, triggers, calls, queue, starts>>

\* The turn has ended, whatever way, and its run is appended.
RecordRun ==
    /\ op.phase = "turn"
    /\ Logs(Triggered(op.id, op.now, Missed(op.trigger, op.now), Following(op.trigger, op.now)))
    /\ op' = [op EXCEPT !.phase = "settle"]
    /\ UNCHANGED <<world, triggers, calls, queue, starts>>

Settle_LeavesSchedule ==
    /\ op.phase = "settle"
    /\ triggers' = [triggers EXCEPT ![op.id] = IF op.trigger.when # "none" THEN None ELSE op.trigger]
    /\ op' = IF op.kind = "event" THEN NoOp
             ELSE [op EXCEPT !.phase = "loop", !.id = None, !.trigger = None]
    /\ UNCHANGED <<world, log, calls, queue, starts>>

\* The rest of #fire, and the return to the loop. The trigger is set as it was
\* picked, with its next run, also when it has been removed since.
Settle ==
    /\ op.phase = "settle"
    /\ LET t == Ran(op.trigger, Following(op.trigger, op.now))
       IN  /\ triggers' = [triggers EXCEPT ![op.id] = t]
           /\ revived' = IF t # None /\ triggers[op.id] = None
                         THEN revived \union {op.id} ELSE revived
    /\ op' = IF op.kind = "event" THEN NoOp
             ELSE [op EXCEPT !.phase = "loop", !.id = None, !.trigger = None]
    /\ UNCHANGED <<kinds, now, up, reachedAt, faults, log, calls, queue, starts>>

\* The append behind a turn fails: three conflicts in a row, or the store. The
\* operation ends there, its other triggers unfired. The route answers with the
\* error; nobody handles the rejection of the timer's tick or of a notification,
\* and that ends a Node process.
RecordFails ==
    /\ op.phase = "turn" /\ faults < MaxFaults
    /\ faults' = faults + 1
    /\ \/ op.kind = "tick" /\ op' = NoOp /\ UNCHANGED <<up, queue, triggers, calls, revived>>
       \/ ProcessEnds
    /\ UNCHANGED <<kinds, now, reachedAt, log, starts>>

-----------------------------------------------------------------------------
(* register and remove, which nothing serializes *)

RegisterTrigger(id) ==
    /\ up /\ kinds[id] # "unused" /\ calls[id] = None /\ Entries("registered", id) = {}
    /\ \E t \in Registration(kinds[id]) :
          calls' = [calls EXCEPT ![id] = [does |-> "register", logged |-> FALSE, trigger |-> t]]
    /\ UNCHANGED <<world, log, triggers, queue, op, starts>>

RemoveTrigger(id) ==
    /\ up /\ calls[id] = None /\ triggers[id] # None
    /\ Cardinality({i \in DOMAIN log : log[i].type = "removed"}) < MaxRemovals
    /\ calls' = [calls EXCEPT ![id] = [does |-> "remove", logged |-> FALSE,
                                       trigger |-> triggers[id]]]
    /\ UNCHANGED <<world, log, triggers, queue, op, starts>>

CallLogs(id) ==
    /\ calls[id] # None /\ ~calls[id].logged
    /\ Logs(IF calls[id].does = "register" THEN Registered(id, calls[id].trigger)
                                           ELSE Removed(id))
    /\ calls' = [calls EXCEPT ![id].logged = TRUE]
    /\ UNCHANGED <<world, triggers, queue, op, starts>>

CallFails(id) ==
    /\ calls[id] # None /\ ~calls[id].logged /\ faults < MaxFaults
    /\ faults' = faults + 1
    /\ calls' = [calls EXCEPT ![id] = None]
    /\ UNCHANGED <<kinds, now, up, reachedAt, log, triggers, queue, op, starts, revived>>

CallSettles(id) ==
    /\ calls[id] # None /\ calls[id].logged
    /\ triggers' = [triggers EXCEPT ![id] = IF calls[id].does = "register"
                                            THEN calls[id].trigger ELSE None]
    /\ calls' = [calls EXCEPT ![id] = None]
    /\ revived' = revived \ {id}
    /\ UNCHANGED <<kinds, now, up, reachedAt, faults, log, queue, op, starts>>

-----------------------------------------------------------------------------
(* The world around it *)

TimePasses ==
    /\ now < MaxTime
    /\ now' = now + 1
    /\ UNCHANGED <<kinds, up, reachedAt, faults, log, triggers, calls, queue, op, starts,
                   revived>>

\* The awaited task enters the awaited status (while the host is down too: the
\* rebuilt schedule catches up).
TaskReaches ==
    /\ Awaits("task")
    /\ reachedAt' = now /\ reachedAt # now
    /\ UNCHANGED <<kinds, now, up, faults, log, triggers, calls, queue, op, starts, revived>>

Crash ==
    /\ up /\ faults < MaxFaults
    /\ faults' = faults + 1
    /\ ProcessEnds
    /\ UNCHANGED <<kinds, now, reachedAt, log, starts>>

Boot_WithoutRebuild ==
    /\ ~up
    /\ up' = TRUE
    /\ UNCHANGED <<kinds, now, reachedAt, faults, log, triggers, calls, queue, op, starts, revived>>

\* buildBeeApp: rebuild, start the timer, subscribe.
Boot ==
    /\ ~up
    /\ up' = TRUE
    /\ triggers' = Rebuilt(log)
    /\ UNCHANGED <<kinds, now, reachedAt, faults, log, calls, queue, op, starts, revived>>

Proceed ==
    \/ StartTick \/ StartNotify \/ FireDue \/ ReadTask \/ TaskWasRead \/ EndTick
    \/ RecordRun \/ Settle

Next ==
    \/ Proceed \/ RecordFails
    \/ Tick \/ EventAppended
    \/ \E id \in Ids : \/ RegisterTrigger(id) \/ RemoveTrigger(id)
                       \/ CallLogs(id) \/ CallFails(id) \/ CallSettles(id)
    \/ TimePasses \/ TaskReaches \/ Crash \/ Boot

Spec == Init /\ [][Next]_vars

\* Promises settle, turns end, the timer keeps ticking and the host is restarted.
FairSpec ==
    /\ Spec
    /\ WF_vars(Proceed) /\ WF_vars(Tick) /\ WF_vars(Boot)
    /\ \A id \in Ids : WF_vars(CallLogs(id)) /\ WF_vars(CallSettles(id))

-----------------------------------------------------------------------------
(* Properties *)

\* "State is the serialized `scheduler` Chronicle stream; `rebuild` recovers
\* it": with nothing under way on it, a trigger in memory is what a restart would
\* make of it, a removed one too. The one exception is a schedule that was removed
\* while a tick had it in hand and that the end of its run put back: it stays
\* until it is removed again or the host restarts.
LiveScheduleIsReplay ==
    \A id \in Ids :
        up /\ calls[id] = None /\ ~(op.phase = "settle" /\ op.id = id) /\ id \notin revived
        => triggers[id] = Rebuilt(log)[id]

\* Ticks that pile up behind a long turn, notifications and tasks that settle do
\* not start a trigger twice: of two recorded runs the later one fired when the
\* run before it said the next is due, and never when that said there is none (so
\* a one-shot or a condition has one run). "Firing is at-least-once": what was
\* started beyond the recorded runs is paid for by a crash or a failed append.
ExtraTurnsAreFaults ==
    \A id \in Ids :
        /\ \A i, j \in Entries("triggered", id) :
              i < j => log[i].next # None /\ log[i].next <= log[j].firedAt
        /\ starts[id] <= Cardinality(Entries("triggered", id)) + faults
                         + (IF op.phase = "turn" /\ op.id = id THEN 1 ELSE 0)

\* What the durable schedule owes now: due by the clock, or by its task.
Owed(id) ==
    LET t == Rebuilt(log)[id] IN t # None /\ (Due(t, now) \/ (t.when = "task" /\ Reached(t)))

\* Missed intervals and transitions that happened while the host was down
\* still fire: what is owed is run, or removed, in the end.
OwedIsRun == \A id \in Ids : Owed(id) ~> ~Owed(id)

=============================================================================
