----------------------------- MODULE ProjectionProofs -----------------------------
(***************************************************************************)
(* What TLAPS proves of the two projections whose memory is the fold of    *)
(* their own stream: of Kanban, for any tasks, clients, workers and leases *)
(* and any number of operations, failed appends and restarts; of World,    *)
(* for any streams and resources, and any number of events, failed         *)
(* appends, wrong digests and starts.                                      *)
(***************************************************************************)
EXTENDS Kanban, World, TLAPS

W == INSTANCE Folding WITH Op <- LAMBDA none, scan, entry : Reread(scan, entry)
R == INSTANCE Folding WITH Op <- LAMBDA none, task, e : FoldTask(task, e)

-----------------------------------------------------------------------------
(* Kanban: types *)

Boarded == TaskRecords \union {NoTask}
Types == Snapshots \union {"commented", "lease_renewed"}
Events == {e \in [type : Types, by : Clients \union {"before"}, task : Boarded, claim : Claims] :
              e.type \in Snapshots => e.task \in TaskRecords}

JobRecords ==
    [op : Ops, at : {"idle", "hop", "list", "examine", "release", "append", "index"},
     task : Tasks \union {NoTask}, seen : Nat, hops : Seq(Statuses), lease : Nat,
     worker : Workers \union {"nobody"}, now : Nat,
     listed : SUBSET (Tasks \X Nat), runnable : SUBSET (Tasks \X Nat),
     event : Events \union {NoTask}, next : Boarded]

Shape ==
    /\ log \in [Tasks -> Seq(Events)]
    /\ tasks \in [Tasks -> Boarded]
    /\ job \in [Clients -> JobRecords]
    /\ clock \in Nat /\ leases \in Nat \ {0}

-----------------------------------------------------------------------------
(* The inductive invariant *)

\* The version of a task as its readers see it; a task not created has none.
Version(task) == IF task = NoTask THEN 0 ELSE task.version

\* Two readings of a task that differ at most in updatedAt.
Same(a, b) ==
    /\ (a = NoTask) = (b = NoTask)
    /\ a # NoTask => /\ a.status = b.status /\ a.version = b.version /\ a.claim = b.claim
                     /\ a.key = b.key /\ a.dependencies = b.dependencies

\* The log numbers the versions: a stream of n events replays to version n.
LogNumbers ==
    \A t \in Tasks : /\ Durable(t) \in Boarded
                     /\ Version(Durable(t)) = Len(log[t])
                     /\ log[t] # <<>> => Durable(t) # NoTask

\* The board is the replay, or behind by the one event whose client is about to
\* index it.
BoardFollows ==
    \A t \in Tasks :
       /\ Indexing(t) = {} => Same(Durable(t), tasks[t])
       /\ \A p \in Indexing(t) : /\ Same(Durable(t), job[p].next)
                                 /\ Version(tasks[t]) < Len(log[t])
       /\ \A p, q \in Indexing(t) : p = q

\* What a client appended lies within what the board shows, unless the client is
\* about to index it.
OwnIsShown ==
    \A p \in Clients, t \in Tasks : \A i \in DOMAIN log[t] :
       log[t][i].by = p => i <= Version(tasks[t]) \/ p \in Indexing(t)

\* The event makes the task the next one, up to updatedAt.
Extends(task, event, next) ==
    LET r == FoldTask(task, event) IN
    /\ r \in TaskRecords /\ next \in TaskRecords
    /\ Same(r, next) /\ next.version = Version(task) + 1

Holds(task, lease) == task # NoTask /\ task.status = "running" /\ task.claim.lease = lease
Lapsed(task, now) == task # NoTask /\ task.status = "running" /\ task.claim.expires <= now

\* Client p's reading of its task is the last one: nothing was stored since.
Latest(j) == j.seen = Len(log[j.task])

\* What a client under way knows: it saw a version the board has shown, and if
\* nothing was stored since, what it checked still holds.
JobOk(p, j) ==
    /\ j.at \in {"hop", "append", "index"} => j.task \in Tasks
    /\ j.at \in {"hop", "append"} => j.seen <= Version(tasks[j.task])
    /\ j.at = "hop" => /\ j.op \in {"move", "finish", "update"}
                       /\ j.op # "update" => j.hops # <<>>
                       /\ tasks[j.task] # NoTask
                       /\ j.op = "finish" /\ Latest(j) => Holds(Durable(j.task), j.lease)
    /\ j.at \in {"list", "examine"} => j.op = "claim" /\ j.worker \in Workers
    /\ j.at = "release" => j.op = "reclaim"
    /\ \A x \in j.listed \union j.runnable :
          tasks[x[1]] # NoTask /\ x[2] <= Version(tasks[x[1]])
    /\ j.op = "reclaim" => \A x \in j.listed :
          x[2] = Len(log[x[1]]) => Lapsed(Durable(x[1]), j.now)
    /\ j.at = "append" =>
          /\ j.event \in Events /\ j.event.by = p
          /\ \A i \in DOMAIN log[j.task] : log[j.task][i].by = p => i <= j.seen
          /\ j.next \in TaskRecords
          /\ Latest(j) => /\ Extends(Durable(j.task), j.event, j.next)
                          /\ j.op \in {"finish", "heartbeat"} => Holds(Durable(j.task), j.lease)
                          /\ j.op = "reclaim" => Lapsed(Durable(j.task), j.now)
    /\ j.at = "index" => j.next \in TaskRecords

BInv == /\ LogNumbers /\ BoardFollows /\ OwnIsShown
        /\ \A p \in Clients : JobOk(p, job[p])
-----------------------------------------------------------------------------
(* Tasks, events and replays *)

LEMMA StatusesAre ==
    /\ Statuses = {"inbox", "triaged", "ready", "running", "blocked", "review", "done",
                   "failed", "cancelled", "archived"}
    /\ \A s \in Statuses : Transitions[s] \subseteq Statuses
<1>1. Statuses = {"inbox", "triaged", "ready", "running", "blocked", "review", "done",
                  "failed", "cancelled", "archived"}
  BY DEF Statuses, Transitions
<1>2. \A s \in Statuses : Transitions[s] \subseteq Statuses
  <2>1. SUFFICES ASSUME NEW s \in Statuses, NEW x \in Transitions[s] PROVE x \in Statuses
    OBVIOUS
  <2>2. QED  BY <1>1 DEF Transitions
<1>3. QED  BY <1>1, <1>2

LEMMA ApplyType ==
    ASSUME NEW task \in TaskRecords, NEW to \in Transitions[task.status], NEW claim \in Claims
    PROVE  /\ ApplyTransition(task, to, claim) \in TaskRecords
           /\ ApplyTransition(task, to, claim).version = task.version + 1
<1>1. task.status \in Statuses /\ task.claim \in Claims /\ task.version \in Nat
  BY DEF TaskRecords
<1>2. to \in Statuses
  BY <1>1, StatusesAre
<1> DEFINE c == IF to # "running" THEN NoClaim ELSE IF claim # NoClaim THEN claim ELSE task.claim
           n == task.version + 1
<1>3. c \in Claims /\ n \in Nat
  BY <1>1 DEF Claims
<1>4. ApplyTransition(task, to, claim) =
         [task EXCEPT !.status = to, !.version = n, !.updatedAt = n, !.claim = c]
  BY DEF ApplyTransition
<1> HIDE DEF c, n
<1>5. ApplyTransition(task, to, claim) \in TaskRecords
      /\ ApplyTransition(task, to, claim).version = n
  BY <1>2, <1>3, <1>4 DEF TaskRecords
<1>6. QED  BY <1>5 DEF n

LEMMA NewTaskType ==
    ASSUME NEW k \in Keys \union {NoKey}, NEW deps \in SUBSET Dependencies
    PROVE  NewTask(k, deps) \in TaskRecords /\ NewTask(k, deps).version = 1
<1>1. NoClaim \in Claims
  BY DEF Claims
<1>2. "inbox" \in Statuses
  BY StatusesAre
<1>3. QED  BY <1>1, <1>2 DEF NewTask, TaskRecords

LEMMA ReplayedOneMore ==
    ASSUME NEW s \in Seq(Events), NEW e \in Events
    PROVE  Replayed(Append(s, e)) = FoldTask(Replayed(s), e)
<1>1. \A u : Replayed(u) = R!Folding(NoTask, NoTask, u)
  BY DEF Replayed, R!Folding, FoldLeft, R!FoldLeft, MapThenFoldSet, R!MapThenFoldSet, Max, R!Max
<1>2. R!Folding(NoTask, NoTask, Append(s, e)) = FoldTask(R!Folding(NoTask, NoTask, s), e)
  BY R!FoldsOneMore
<1>3. QED  BY <1>1, <1>2

LEMMA ReplayedNothing == Replayed(<<>>) = NoTask
<1>1. Replayed(<<>>) = R!Folding(NoTask, NoTask, <<>>)
  BY DEF Replayed, R!Folding, FoldLeft, R!FoldLeft, MapThenFoldSet, R!MapThenFoldSet, Max, R!Max
<1>2. QED  BY <1>1, R!FoldsNothing

\* A snapshot says all there is to say.
LEMMA SnapshotTells ==
    ASSUME NEW s \in Seq(Events), s # <<>>, s[Len(s)].type \in Snapshots
    PROVE  Replayed(s) = s[Len(s)].task
<1> DEFINE u == [i \in 1 .. (Len(s) - 1) |-> s[i]]
           e == s[Len(s)]
<1>1. u \in Seq(Events) /\ e \in Events /\ s = Append(u, e)
  OBVIOUS
<1> HIDE DEF u
<1>2. Replayed(s) = FoldTask(Replayed(u), e)
  <2> HIDE DEF e
  <2>1. Replayed(Append(u, e)) = FoldTask(Replayed(u), e)
    BY <1>1, ReplayedOneMore
  <2>2. QED  BY <1>1, <2>1
<1>3. FoldTask(Replayed(u), e) = e.task
  BY DEF FoldTask, Snapshots
<1>4. QED  BY <1>2, <1>3

\* What an event makes of a task does not depend on updatedAt.
LEMMA ExtendsSame ==
    ASSUME NEW task \in Boarded, NEW d \in Boarded, Same(d, task),
           NEW event \in Events, NEW next, Extends(task, event, next),
           event.type \notin Snapshots => task # NoTask
    PROVE  Extends(d, event, next)
<1>1. FoldTask(task, event) \in TaskRecords /\ next \in TaskRecords
      /\ Same(FoldTask(task, event), next) /\ next.version = Version(task) + 1
  BY DEF Extends
<1>2. Version(d) = Version(task)
  BY DEF Same, Version
<1>3. CASE event.type \in Snapshots
  <2>1. FoldTask(d, event) = FoldTask(task, event)
    BY <1>3 DEF FoldTask, Snapshots
  <2>2. QED  BY <1>1, <1>2, <2>1 DEF Extends
<1>4. CASE event.type \notin Snapshots
  <2>1. /\ task \in TaskRecords /\ d \in TaskRecords /\ task # NoTask /\ d # NoTask
        /\ d.status = task.status /\ d.version = task.version /\ d.claim = task.claim
        /\ d.key = task.key /\ d.dependencies = task.dependencies
    BY <1>4 DEF Same, Boarded
  <2>2. event.type \in {"commented", "lease_renewed"}
    BY <1>4 DEF Events, Types
  <2> DEFINE a == FoldTask(task, event)
             b == FoldTask(d, event)
  <2>3. /\ b \in TaskRecords /\ b.status = a.status /\ b.version = a.version
        /\ b.claim = a.claim /\ b.key = a.key /\ b.dependencies = a.dependencies
    <3>1. CASE event.type = "commented"
      <4>1. /\ a = [task EXCEPT !.version = task.version + 1]
            /\ b = [d EXCEPT !.version = d.version + 1]
        BY <3>1 DEF FoldTask, Snapshots
      <4> HIDE DEF a, b
      <4>2. QED  BY <2>1, <4>1 DEF TaskRecords
    <3>2. CASE event.type = "lease_renewed" /\ task.status = "running"
               /\ task.claim.lease = event.claim.lease
      <4> DEFINE c == [task.claim EXCEPT !.expires = event.claim.expires]
      <4>1. /\ a = [task EXCEPT !.claim.expires = event.claim.expires, !.version = task.version + 1]
            /\ b = [d EXCEPT !.claim.expires = event.claim.expires, !.version = d.version + 1]
        BY <2>1, <3>2 DEF FoldTask, Snapshots
      <4>2. /\ a = [task EXCEPT !.claim = c, !.version = task.version + 1]
            /\ b = [d EXCEPT !.claim = c, !.version = d.version + 1]
        BY <2>1, <4>1 DEF TaskRecords
      <4> HIDE DEF a, b, c
      <4>3. a.claim = c /\ a \in TaskRecords
        BY <1>1, <2>1, <4>2 DEF a, TaskRecords
      <4>4. c \in Claims
        BY <4>3 DEF TaskRecords
      <4> DEFINE n == d.version + 1
      <4>5. /\ b.status = d.status /\ b.version = d.version + 1 /\ b.claim = c
            /\ b.key = d.key /\ b.dependencies = d.dependencies /\ b \in TaskRecords
        <5>1. n \in Nat /\ b = [d EXCEPT !.claim = c, !.version = n]
          BY <2>1, <4>2 DEF TaskRecords
        <5> HIDE DEF n
        <5>2. /\ b.status = d.status /\ b.version = n /\ b.claim = c
              /\ b.key = d.key /\ b.dependencies = d.dependencies /\ b \in TaskRecords
          BY <2>1, <4>4, <5>1 DEF TaskRecords
        <5>3. QED  BY <5>2 DEF n
      <4>6. /\ a.status = task.status /\ a.version = task.version + 1 /\ a.claim = c
            /\ a.key = task.key /\ a.dependencies = task.dependencies
        BY <2>1, <4>2 DEF TaskRecords
      <4>7. QED  BY <2>1, <4>5, <4>6
    <3>3. CASE event.type = "lease_renewed" /\ ~ (task.status = "running"
               /\ task.claim.lease = event.claim.lease)
      <4>1. a = task /\ b = d
        BY <2>1, <3>3 DEF FoldTask, Snapshots
      <4>2. QED  BY <2>1, <4>1
    <3>4. QED  BY <2>2, <3>1, <3>2, <3>3
  <2>4. b # NoTask /\ a # NoTask
    BY <1>1, <2>3, NoTaskAssumption
  <2> HIDE DEF a, b
  <2>5. Same(b, next)
    BY <1>1, <2>3, <2>4 DEF Same, a
  <2>6. QED  BY <1>1, <1>2, <2>3, <2>5 DEF Extends, b
<1>5. QED  BY <1>3, <1>4
-----------------------------------------------------------------------------
(* What the invariant says to a client *)

LEMMA Lengths ==
    ASSUME Shape, NEW t \in Tasks
    PROVE  /\ log[t] \in Seq(Events) /\ Len(log[t]) \in Nat /\ DOMAIN log[t] = 1 .. Len(log[t])
           /\ tasks[t] \in Boarded /\ Version(tasks[t]) \in Nat
BY DEF Shape, Version, Boarded, TaskRecords

\* The board never shows more than what is stored.
LEMMA ShownIsStored ==
    ASSUME Shape, BInv, NEW t \in Tasks
    PROVE  /\ Version(tasks[t]) <= Len(log[t])
           /\ Version(tasks[t]) = Len(log[t]) =>
                 Indexing(t) = {} /\ Same(Durable(t), tasks[t]) /\ Durable(t) \in Boarded
<1>1. CASE Indexing(t) = {}
  <2>1. Same(Durable(t), tasks[t])
    BY <1>1 DEF BInv, BoardFollows
  <2>2. Durable(t) \in Boarded /\ Version(Durable(t)) = Len(log[t])
    BY DEF BInv, LogNumbers
  <2>3. Version(tasks[t]) = Len(log[t])
    BY <2>1, <2>2 DEF Same, Version
  <2>4. QED  BY <1>1, <2>1, <2>2, <2>3, Lengths
<1>2. CASE Indexing(t) # {}
  <2>1. Version(tasks[t]) < Len(log[t])
    BY <1>2 DEF BInv, BoardFollows
  <2>2. QED  BY <2>1, Lengths
<1>3. QED  BY <1>1, <1>2

\* A client goes on, and neither the log nor the board changes.
LEMMA Proceeds ==
    ASSUME Shape, BInv, NEW p \in Clients, NEW j \in JobRecords, Becomes(p, j),
           UNCHANGED <<log, tasks>>, clock' \in Nat, leases' \in Nat \ {0},
           job[p].at # "index", j.at # "index", JobOk(p, j)
    PROVE  Shape' /\ BInv'
<1>1. log' = log /\ tasks' = tasks /\ job' = [job EXCEPT ![p] = j]
  BY DEF Becomes
<1>2. /\ job' \in [Clients -> JobRecords] /\ job'[p] = j
      /\ \A q \in Clients : q # p => job'[q] = job[q]
  BY <1>1 DEF Shape
<1>3. Shape'
  BY <1>1, <1>2 DEF Shape
<1>4. \A t \in Tasks : Indexing(t)' = Indexing(t) /\ Durable(t)' = Durable(t)
  BY <1>1, <1>2 DEF Indexing, Durable
<1>5. LogNumbers'
  BY <1>1, <1>4 DEF BInv, LogNumbers
<1>6. BoardFollows'
  <2>1. ASSUME NEW t \in Tasks
        PROVE  /\ Indexing(t) = {} => Same(Durable(t), tasks[t])
               /\ \A q \in Indexing(t) : /\ Same(Durable(t), job'[q].next)
                                         /\ Version(tasks[t]) < Len(log[t])
               /\ \A q, s \in Indexing(t) : q = s
    <3>1. \A q \in Indexing(t) : q \in Clients /\ q # p
      BY DEF Indexing
    <3>2. QED  BY <1>2, <3>1 DEF BInv, BoardFollows
  <2>2. QED  BY <1>1, <1>4, <2>1 DEF BoardFollows
<1>7. OwnIsShown'
  BY <1>1, <1>4 DEF BInv, OwnIsShown
<1>8. ASSUME NEW q \in Clients PROVE JobOk(q, job[q])'
  <2>1. JobOk(q, job'[q])
    BY <1>2 DEF BInv
  <2>2. QED  BY <1>1, <2>1 DEF JobOk, Latest, Durable
<1>9. QED  BY <1>3, <1>5, <1>6, <1>7, <1>8 DEF BInv

LEMMA IdleOk ==
    ASSUME NEW p
    PROVE  Idle \in JobRecords /\ Idle.at = "idle" /\ JobOk(p, Idle)
<1>1. << >> \in Seq(Statuses)
  OBVIOUS
<1>2. Idle \in JobRecords /\ Idle.at = "idle" /\ Idle.listed = {} /\ Idle.runnable = {}
      /\ Idle.op = "none"
  BY <1>1 DEF Idle, JobRecords, Ops, Boarded
<1>3. QED  BY <1>2 DEF JobOk

LEMMA Rests ==
    ASSUME Shape, BInv, NEW p \in Clients, Becomes(p, Idle),
           UNCHANGED <<log, tasks>>, clock' \in Nat, leases' \in Nat \ {0},
           job[p].at # "index"
    PROVE  Shape' /\ BInv'
BY IdleOk, Proceeds

\* What a client holds besides the task it is about: listed tasks it has seen on
\* the board, and for reclaim, tasks whose lease had lapsed.
ListedOk(j) ==
    /\ \A x \in j.listed \union j.runnable :
          tasks[x[1]] # NoTask /\ x[2] <= Version(tasks[x[1]])
    /\ j.op = "reclaim" => \A x \in j.listed :
          x[2] = Len(log[x[1]]) => Lapsed(Durable(x[1]), j.now)

\* A client sends an event that extends the task as the board shows it.
LEMMA CommitKeeps ==
    ASSUME Shape, BInv, NEW p \in Clients, NEW j \in JobRecords, NEW t \in Tasks,
           NEW event \in Events, NEW next, NEW seen, seen = Version(tasks[t]),
           Commit(p, j, t, seen, event, next),
           Extends(tasks[t], event, next), event.by = p,
           event.type \notin Snapshots => tasks[t] # NoTask,
           ListedOk(j),
           j.op \in {"finish", "heartbeat"} /\ seen = Len(log[t]) => Holds(tasks[t], j.lease),
           j.op = "reclaim" /\ seen = Len(log[t]) => Lapsed(tasks[t], j.now),
           UNCHANGED <<log, tasks>>, clock' \in Nat, leases' \in Nat \ {0},
           job[p].at # "index"
    PROVE  Shape' /\ BInv'
<1> DEFINE l == [j EXCEPT !.at = "append", !.task = t, !.seen = seen,
                          !.event = event, !.next = next]
<1>1. Becomes(p, l)
  BY DEF Commit
<1>2. /\ seen \in Nat /\ seen <= Len(log[t]) /\ Len(log[t]) \in Nat
      /\ DOMAIN log[t] = 1 .. Len(log[t]) /\ next \in TaskRecords
  BY Lengths, ShownIsStored DEF Extends
<1>3. /\ l \in JobRecords /\ l.at = "append" /\ l.task = t /\ l.seen = seen /\ l.event = event
      /\ l.next = next /\ l.op = j.op /\ l.lease = j.lease /\ l.now = j.now
      /\ l.listed = j.listed /\ l.runnable = j.runnable
  BY <1>2 DEF JobRecords, Boarded
<1> HIDE DEF l
<1>4. \A i \in DOMAIN log[t] : log[t][i].by = p => i <= seen
  BY DEF BInv, OwnIsShown, Indexing
<1>5. ASSUME seen = Len(log[t])
      PROVE  /\ Extends(Durable(t), event, next)
             /\ j.op \in {"finish", "heartbeat"} => Holds(Durable(t), j.lease)
             /\ j.op = "reclaim" => Lapsed(Durable(t), j.now)
  <2>1. Same(Durable(t), tasks[t]) /\ Durable(t) \in Boarded /\ tasks[t] \in Boarded
    BY <1>5, ShownIsStored, Lengths
  <2>2. Extends(Durable(t), event, next)
    BY <2>1, ExtendsSame
  <2>3. QED  BY <1>5, <2>1, <2>2 DEF Same, Holds, Lapsed
<1>6. JobOk(p, l)
  BY <1>2, <1>3, <1>4, <1>5 DEF JobOk, ListedOk, Latest
<1>7. QED  BY <1>1, <1>3, <1>6, Proceeds
-----------------------------------------------------------------------------
(* Each operation keeps the invariant *)

\* An event that carries the next task extends the one before it.
LEMMA SnapshotExtends ==
    ASSUME NEW task, NEW event \in Events, event.type \in Snapshots,
           NEW next \in TaskRecords, event.task = next, next.version = Version(task) + 1
    PROVE  Extends(task, event, next)
<1>1. FoldTask(task, event) = next
  BY DEF FoldTask, Snapshots
<1>2. Same(next, next)
  BY DEF Same
<1>3. QED  BY <1>1, <1>2 DEF Extends

LEMMA SnapshotType ==
    ASSUME NEW p \in Clients, NEW type \in Snapshots, NEW next \in TaskRecords
    PROVE  /\ Event(p, type, next, NoClaim) \in Events
           /\ Event(p, type, next, NoClaim).type = type
           /\ Event(p, type, next, NoClaim).task = next
           /\ Event(p, type, next, NoClaim).by = p
BY DEF Event, Events, Types, Boarded, Claims

LEMMA TransitionKeeps ==
    ASSUME Shape, BInv, NEW p \in Clients, NEW j \in JobRecords, NEW t \in Tasks, NEW seen \in Nat,
           NEW to, NEW claim \in Claims, StartTransition(p, j, t, seen, to, claim),
           tasks[t] # NoTask, ListedOk(j),
           j.op \in {"finish", "heartbeat"} /\ seen = Len(log[t]) => Holds(Durable(t), j.lease),
           j.op = "reclaim" /\ seen = Len(log[t]) => Lapsed(Durable(t), j.now),
           UNCHANGED <<log, tasks>>, clock' \in Nat, leases' \in Nat \ {0},
           job[p].at # "index"
    PROVE  Shape' /\ BInv'
<1> DEFINE next == ApplyTransition(tasks[t], to, claim)
           event == Event(p, "status_changed", next, NoClaim)
           may == tasks[t].version = seen /\ to \in Transitions[tasks[t].status]
<1>1. CASE ~may
  <2>1. Becomes(p, Idle)
    BY <1>1 DEF StartTransition
  <2>2. QED  BY <2>1, Rests
<1>2. CASE may
  <2>1. Commit(p, j, t, seen, event, next)
    BY <1>2 DEF StartTransition
  <2>2. tasks[t] \in TaskRecords /\ seen = Version(tasks[t])
    BY <1>2, Lengths DEF Boarded, Version
  <2>3. next \in TaskRecords /\ next.version = Version(tasks[t]) + 1
    BY <1>2, <2>2, ApplyType
  <2> HIDE DEF next
  <2>4. /\ event \in Events /\ event.type \in Snapshots /\ event.task = next /\ event.by = p
    <3>1. "status_changed" \in Snapshots
      BY DEF Snapshots
    <3>2. QED  BY <2>3, <3>1, SnapshotType
  <2> HIDE DEF event, may
  <2>5. Extends(tasks[t], event, next)
    BY <2>3, <2>4, SnapshotExtends
  <2>6. ASSUME seen = Len(log[t])
        PROVE  /\ j.op \in {"finish", "heartbeat"} => Holds(tasks[t], j.lease)
               /\ j.op = "reclaim" => Lapsed(tasks[t], j.now)
    <3>1. Same(Durable(t), tasks[t])
      BY <2>2, <2>6, ShownIsStored
    <3>2. QED  BY <2>6, <3>1 DEF Same, Holds, Lapsed
  <2>7. QED  BY <2>1, <2>2, <2>4, <2>5, <2>6, CommitKeeps
<1>3. QED  BY <1>1, <1>2

\* A record of a client that calls an operation, and lists nothing.
LEMMA FreshJob ==
    ASSUME NEW op \in Ops
    PROVE  /\ [Idle EXCEPT !.op = op] \in JobRecords
           /\ [Idle EXCEPT !.op = op].op = op
           /\ op # "reclaim" => ListedOk([Idle EXCEPT !.op = op])
<1>1. Idle \in JobRecords /\ Idle.listed = {} /\ Idle.runnable = {}
  BY IdleOk DEF Idle
<1> DEFINE j == [Idle EXCEPT !.op = op]
<1>2. j \in JobRecords /\ j.op = op /\ j.listed = {} /\ j.runnable = {}
  BY <1>1 DEF JobRecords
<1> HIDE DEF j
<1>3. QED  BY <1>2 DEF ListedOk, j

LEMMA CreateKeeps ==
    ASSUME Shape, BInv, NEW p \in Clients, Create(p)
    PROVE  Shape' /\ BInv'
<1> DEFINE j == [Idle EXCEPT !.op = "create"]
<1>1. PICK t \in Tasks, k \in Keys \union {NoKey} :
         /\ tasks[t] = NoTask
         /\ Commit(p, j, t, 0, Event(p, "created", NewTask(k, {}), NoClaim), NewTask(k, {}))
  BY DEF Create
<1> DEFINE next == NewTask(k, {})
           event == Event(p, "created", next, NoClaim)
<1>2. next \in TaskRecords /\ next.version = 1
  BY NewTaskType
<1> HIDE DEF next
<1>3. event \in Events /\ event.type \in Snapshots /\ event.task = next /\ event.by = p
  <2>1. "created" \in Snapshots
    BY DEF Snapshots
  <2>2. QED  BY <1>2, <2>1, SnapshotType
<1>4. Version(tasks[t]) = 0
  BY <1>1 DEF Version
<1> HIDE DEF event
<1>5. Extends(tasks[t], event, next)
  <2>1. next.version = Version(tasks[t]) + 1
    BY <1>2, <1>4
  <2>2. QED  BY <1>2, <1>3, <2>1, SnapshotExtends
<1>6. j \in JobRecords /\ j.op = "create" /\ ListedOk(j)
  <2>1. "create" \in Ops
    BY DEF Ops
  <2>2. QED  BY <2>1, FreshJob
<1>7. UNCHANGED <<log, tasks>> /\ clock' \in Nat /\ leases' \in Nat \ {0} /\ job[p].at # "index"
  BY DEF Create, Calls, Shape
<1>8. Commit(p, j, t, 0, event, next)
  BY <1>1 DEF event, next
<1> HIDE DEF j
<1>9. QED  BY <1>3, <1>4, <1>5, <1>6, <1>7, <1>8, CommitKeeps
\* A client that has read a task and is about to send its next hop.
LEMMA HopOk ==
    ASSUME Shape, BInv, NEW p \in Clients, NEW j \in JobRecords, NEW t \in Tasks,
           j.at = "hop", j.op \in {"move", "finish", "update"}, j.op # "update" => j.hops # <<>>,
           j.task = t, tasks[t] # NoTask, j.seen = Version(tasks[t]),
           j.listed = {}, j.runnable = {},
           j.op = "finish" => Holds(tasks[t], j.lease)
    PROVE  JobOk(p, j)
<1>1. j.op = "finish" /\ Latest(j) => Holds(Durable(t), j.lease)
  <2>1. Version(tasks[t]) = Len(log[t]) => Same(Durable(t), tasks[t])
    BY ShownIsStored
  <2>2. QED  BY <2>1 DEF Latest, Same, Holds
<1>2. j.seen \in Nat /\ j.seen <= Version(tasks[t])
  BY Lengths
<1>3. QED  BY <1>1, <1>2 DEF JobOk

LEMMA PathType ==
    ASSUME NEW from \in Statuses, NEW to \in Statuses, NEW path \in ShortestPaths[from][to]
    PROVE  path \in Seq(Statuses) /\ path # <<>>
<1> DEFINE lengths == {n \in 1 .. 4 : PathsOfLength(from, to, n) # {}}
           least == CHOOSE n \in lengths : \A m \in lengths : n <= m
<1>1. ShortestPaths[from][to] =
         IF from = to \/ lengths = {} THEN {} ELSE PathsOfLength(from, to, least)
  BY DEF ShortestPaths
<1>2. lengths # {} /\ path \in PathsOfLength(from, to, least)
  BY <1>1
<1>3. lengths \in SUBSET (Nat \ {0})
  OBVIOUS
<1>4. least \in lengths
  <2> HIDE DEF lengths
  <2>1. lengths \in SUBSET Nat
    BY <1>3
  <2>2. \E n \in lengths : \A m \in lengths : n <= m
    BY <1>2, <2>1, R!LeastNumber
  <2>3. QED  BY <2>2, Zenon
<1> HIDE DEF lengths
<1>5. least \in Nat \ {0}
  BY <1>3, <1>4
<1> HIDE DEF least
<1>6. path \in [1 .. least -> Statuses]
  BY <1>2 DEF PathsOfLength
<1>7. QED  BY <1>5, <1>6

LEMMA MoveKeeps ==
    ASSUME Shape, BInv, NEW p \in Clients, Move(p)
    PROVE  Shape' /\ BInv'
<1>1. PICK t \in Tasks, to \in Targets :
         /\ tasks[t] # NoTask
         /\ \E path \in ShortestPaths[tasks[t].status][to] :
               Becomes(p, [Idle EXCEPT !.op = "move", !.at = "hop", !.task = t,
                                       !.seen = tasks[t].version, !.hops = path])
  BY DEF Move
<1>2. PICK path \in ShortestPaths[tasks[t].status][to] :
         Becomes(p, [Idle EXCEPT !.op = "move", !.at = "hop", !.task = t,
                                 !.seen = tasks[t].version, !.hops = path])
  BY <1>1
<1> DEFINE seen == tasks[t].version
           j == [Idle EXCEPT !.op = "move", !.at = "hop", !.task = t,
                             !.seen = seen, !.hops = path]
<1>3. tasks[t].status \in Statuses /\ seen = Version(tasks[t]) /\ seen \in Nat
  BY <1>1, Lengths DEF Boarded, TaskRecords, Version
<1>4. path \in Seq(Statuses) /\ path # <<>>
  BY <1>3, PathType, TargetsAssumption
<1> HIDE DEF seen
<1>5. /\ j \in JobRecords /\ j.at = "hop" /\ j.op = "move" /\ j.task = t /\ j.seen = seen
      /\ j.hops = path /\ j.listed = {} /\ j.runnable = {}
  <2>1. Idle \in JobRecords /\ Idle.listed = {} /\ Idle.runnable = {}
    BY IdleOk DEF Idle
  <2>2. QED  BY <1>3, <1>4, <2>1 DEF JobRecords, Ops
<1>6. Becomes(p, j)
  BY <1>2 DEF seen
<1> HIDE DEF j
<1>7. JobOk(p, j)
  BY <1>1, <1>3, <1>4, <1>5, HopOk
<1>8. UNCHANGED <<log, tasks>> /\ clock' \in Nat /\ leases' \in Nat \ {0} /\ job[p].at # "index"
  BY DEF Move, Calls, Shape
<1>9. QED  BY <1>5, <1>6, <1>7, <1>8, Proceeds

LEMMA FinishKeeps ==
    ASSUME Shape, BInv, NEW p \in Clients, Finish(p)
    PROVE  Shape' /\ BInv'
<1>1. PICK t \in Tasks, l \in 1 .. leases, to \in {"done", "failed", "blocked"} :
         /\ tasks[t] # NoTask
         /\ tasks[t].status = "running" /\ tasks[t].claim.lease = l
         /\ Becomes(p, [Idle EXCEPT !.op = "finish", !.at = "hop", !.task = t,
                                    !.seen = tasks[t].version, !.hops = <<to>>, !.lease = l])
  BY DEF Finish
<1> DEFINE seen == tasks[t].version
           hops == <<to>>
           j == [Idle EXCEPT !.op = "finish", !.at = "hop", !.task = t,
                             !.seen = seen, !.hops = hops, !.lease = l]
<1>2. seen = Version(tasks[t]) /\ seen \in Nat /\ l \in Nat /\ Holds(tasks[t], l)
  BY <1>1, Lengths DEF Boarded, TaskRecords, Version, Holds, Shape
<1>3. hops \in Seq(Statuses) /\ hops # <<>>
  BY StatusesAre
<1>4. Becomes(p, j)
  BY <1>1
<1> HIDE DEF seen, hops
<1>5. /\ j \in JobRecords /\ j.at = "hop" /\ j.op = "finish" /\ j.task = t /\ j.seen = seen
      /\ j.hops = hops /\ j.lease = l /\ j.listed = {} /\ j.runnable = {}
  <2>1. Idle \in JobRecords /\ Idle.listed = {} /\ Idle.runnable = {}
    BY IdleOk DEF Idle
  <2>2. QED  BY <1>2, <1>3, <2>1 DEF JobRecords, Ops
<1> HIDE DEF j
<1>6. JobOk(p, j)
  BY <1>1, <1>2, <1>3, <1>5, HopOk
<1>7. UNCHANGED <<log, tasks>> /\ clock' \in Nat /\ leases' \in Nat \ {0} /\ job[p].at # "index"
  BY DEF Finish, Calls, Shape
<1>8. QED  BY <1>4, <1>5, <1>6, <1>7, Proceeds

LEMMA UpdateKeeps ==
    ASSUME Shape, BInv, NEW p \in Clients, Update(p)
    PROVE  Shape' /\ BInv'
<1>1. PICK t \in Tasks :
         /\ tasks[t] # NoTask
         /\ Becomes(p, [Idle EXCEPT !.op = "update", !.at = "hop", !.task = t,
                                    !.seen = tasks[t].version])
  BY DEF Update
<1> DEFINE seen == tasks[t].version
           j == [Idle EXCEPT !.op = "update", !.at = "hop", !.task = t, !.seen = seen]
<1>2. seen = Version(tasks[t]) /\ seen \in Nat
  BY <1>1, Lengths DEF Boarded, TaskRecords, Version
<1>3. Becomes(p, j)
  BY <1>1
<1> HIDE DEF seen
<1>4. /\ j \in JobRecords /\ j.at = "hop" /\ j.op = "update" /\ j.task = t /\ j.seen = seen
      /\ j.listed = {} /\ j.runnable = {}
  <2>1. Idle \in JobRecords /\ Idle.listed = {} /\ Idle.runnable = {}
    BY IdleOk DEF Idle
  <2>2. QED  BY <1>2, <2>1 DEF JobRecords, Ops
<1> HIDE DEF j
<1>5. JobOk(p, j)
  BY <1>1, <1>2, <1>4, HopOk
<1>6. UNCHANGED <<log, tasks>> /\ clock' \in Nat /\ leases' \in Nat \ {0} /\ job[p].at # "index"
  BY DEF Update, Calls, Shape
<1>7. QED  BY <1>3, <1>4, <1>5, <1>6, Proceeds
LEMMA HopKeeps ==
    ASSUME Shape, BInv, NEW p \in Clients, Hop(p)
    PROVE  Shape' /\ BInv'
<1> DEFINE l == job[p]
           hops == Tail(l.hops)
           j == [l EXCEPT !.hops = hops]
           t == l.task
           to == Head(l.hops)
<1>1. /\ l.at = "hop" /\ l.op # "update"
      /\ StartTransition(p, j, t, l.seen, to, NoClaim)
      /\ UNCHANGED <<log, tasks, clock, leases>>
  BY DEF Hop
<1>2. l \in JobRecords /\ JobOk(p, l) /\ clock \in Nat /\ leases \in Nat \ {0}
  BY DEF Shape, BInv
<1>3. /\ t \in Tasks /\ tasks[t] # NoTask /\ l.op \in {"move", "finish"}
      /\ l.hops \in Seq(Statuses) /\ l.hops # <<>>
      /\ l.op = "finish" /\ l.seen = Len(log[t]) => Holds(Durable(t), l.lease)
  BY <1>1, <1>2 DEF JobOk, Latest, JobRecords
<1>4. hops \in Seq(Statuses)
  BY <1>3
<1> HIDE DEF hops
<1>5. /\ j \in JobRecords /\ j.op = l.op /\ j.listed = l.listed /\ j.runnable = l.runnable
      /\ j.lease = l.lease /\ j.now = l.now /\ l.seen \in Nat
  BY <1>2, <1>4 DEF JobRecords
<1>6. ListedOk(l)
  BY <1>2 DEF JobOk, ListedOk
<1>7. NoClaim \in Claims
  BY DEF Claims
<1> HIDE DEF j, l, t, to
<1>8. ListedOk(j)
  BY <1>5, <1>6 DEF ListedOk
<1>9. clock' \in Nat /\ leases' \in Nat \ {0} /\ job[p].at # "index"
  BY <1>1, <1>2 DEF l
<1>10. QED  BY <1>1, <1>3, <1>5, <1>7, <1>8, <1>9, TransitionKeeps

LEMMA PatchKeeps ==
    ASSUME Shape, BInv, NEW p \in Clients, Patch(p)
    PROVE  Shape' /\ BInv'
<1> DEFINE j == job[p]
           t == j.task
           n == tasks[t].version + 1
           next == [tasks[t] EXCEPT !.version = n, !.updatedAt = n]
           event == Event(p, "updated", next, NoClaim)
<1>1. /\ j.at = "hop" /\ j.op = "update"
      /\ IF j.seen = tasks[t].version THEN Commit(p, j, t, j.seen, event, next)
                                     ELSE Becomes(p, Idle)
      /\ UNCHANGED <<log, tasks, clock, leases>>
  BY DEF Patch
<1>2. j \in JobRecords /\ JobOk(p, j) /\ clock' \in Nat /\ leases' \in Nat \ {0}
  BY <1>1 DEF Shape, BInv
<1>3. t \in Tasks /\ tasks[t] # NoTask /\ ListedOk(j) /\ job[p].at # "index"
  BY <1>1, <1>2 DEF JobOk, ListedOk
<1>4. CASE j.seen # tasks[t].version
  <2>1. Becomes(p, Idle)
    BY <1>1, <1>4
  <2>2. QED  BY <1>1, <1>2, <1>3, <2>1, Rests
<1>5. CASE j.seen = tasks[t].version
  <2>1. tasks[t] \in TaskRecords /\ tasks[t].version \in Nat /\ j.seen = Version(tasks[t])
    BY <1>3, <1>5, Lengths DEF Boarded, Version, TaskRecords
  <2>2. n \in Nat /\ n = Version(tasks[t]) + 1
    BY <1>5, <2>1
  <2>3. Commit(p, j, t, j.seen, event, next)
    BY <1>1, <1>5
  <2> HIDE DEF n
  <2>4. next \in TaskRecords /\ next.version = n
    BY <2>1, <2>2 DEF TaskRecords
  <2> HIDE DEF next
  <2>5. "updated" \in Snapshots
    BY DEF Snapshots
  <2>6. event \in Events /\ event.type \in Snapshots /\ event.task = next /\ event.by = p
    BY <2>4, <2>5, SnapshotType
  <2> HIDE DEF event
  <2>7. Extends(tasks[t], event, next)
    BY <2>2, <2>4, <2>6, SnapshotExtends
  <2> HIDE DEF t
  <2>8. QED
    BY <1>1, <1>2, <1>3, <2>1, <2>3, <2>6, <2>7, CommitKeeps
<1>6. QED  BY <1>4, <1>5

LEMMA CommentKeeps ==
    ASSUME Shape, BInv, NEW p \in Clients, Comment(p)
    PROVE  Shape' /\ BInv'
<1> DEFINE j == [Idle EXCEPT !.op = "comment"]
           N(t) == tasks[t].version + 1
           After(t) == [tasks[t] EXCEPT !.version = N(t), !.updatedAt = N(t)]
           event == Event(p, "commented", NoTask, NoClaim)
<1>1. PICK t \in Tasks :
         tasks[t] # NoTask /\ Commit(p, j, t, tasks[t].version, event, After(t))
  BY DEF Comment
<1> DEFINE n == N(t)
           next == After(t)
           seen == tasks[t].version
<1>2. tasks[t] \in TaskRecords /\ seen \in Nat /\ seen = Version(tasks[t])
  BY <1>1, Lengths DEF Boarded, Version, TaskRecords
<1>3. n \in Nat /\ n = Version(tasks[t]) + 1
  BY <1>2
<1>4. next = [tasks[t] EXCEPT !.version = n, !.updatedAt = n]
      /\ FoldTask(tasks[t], event) = [tasks[t] EXCEPT !.version = n]
      /\ Commit(p, j, t, seen, event, next)
  BY <1>1 DEF FoldTask, Event, Snapshots
<1> HIDE DEF n, next, seen
<1>5. /\ next \in TaskRecords /\ next.version = n
      /\ next.status = tasks[t].status /\ next.claim = tasks[t].claim
      /\ next.key = tasks[t].key /\ next.dependencies = tasks[t].dependencies
  BY <1>2, <1>3, <1>4 DEF TaskRecords
<1> DEFINE r == FoldTask(tasks[t], event)
<1>6. /\ r \in TaskRecords /\ r.version = n
      /\ r.status = tasks[t].status /\ r.claim = tasks[t].claim
      /\ r.key = tasks[t].key /\ r.dependencies = tasks[t].dependencies
  BY <1>2, <1>3, <1>4 DEF TaskRecords
<1>7. event \in Events /\ event.by = p
  BY DEF Event, Events, Types, Boarded, Claims, Snapshots
<1> HIDE DEF event, r
<1>8. Extends(tasks[t], event, next)
  BY <1>3, <1>5, <1>6, NoTaskAssumption DEF Extends, Same, r
<1>9. j \in JobRecords /\ j.op = "comment" /\ ListedOk(j)
  <2>1. "comment" \in Ops
    BY DEF Ops
  <2>2. QED  BY <2>1, FreshJob
<1>10. UNCHANGED <<log, tasks>> /\ clock' \in Nat /\ leases' \in Nat \ {0} /\ job[p].at # "index"
  BY DEF Comment, Calls, Shape
<1> HIDE DEF j
<1>11. QED  BY <1>1, <1>2, <1>4, <1>7, <1>8, <1>9, <1>10, CommitKeeps
LEMMA HeartbeatKeeps ==
    ASSUME Shape, BInv, NEW p \in Clients, Heartbeat(p)
    PROVE  Shape' /\ BInv'
<1> DEFINE J(l) == [Idle EXCEPT !.op = "heartbeat", !.lease = l]
           After(t) == [tasks[t] EXCEPT !.claim.expires = clock + LeaseDuration, !.version = @ + 1]
           Renewed(t) == Event(p, "lease_renewed", NoTask, After(t).claim)
<1>1. PICK t \in Tasks, l \in 1 .. leases :
         /\ tasks[t] # NoTask
         /\ tasks[t].status = "running" /\ tasks[t].claim.lease = l
         /\ Commit(p, J(l), t, tasks[t].version, Renewed(t), After(t))
  BY DEF Heartbeat
<1> DEFINE j == J(l)
           seen == tasks[t].version
           n == seen + 1
           expires == clock + LeaseDuration
           claim == [tasks[t].claim EXCEPT !.expires = expires]
           next == After(t)
           event == Renewed(t)
           r == FoldTask(tasks[t], event)
<1>2. /\ tasks[t] \in TaskRecords /\ seen \in Nat /\ n \in Nat /\ seen = Version(tasks[t])
      /\ l \in Nat /\ l # 0 /\ expires \in Nat /\ Holds(tasks[t], l)
  BY <1>1, Lengths, LeaseAssumption DEF Boarded, Version, TaskRecords, Shape, Holds
<1>3. claim \in Claims /\ claim.lease = l /\ claim.expires = expires
  <2>1. tasks[t].claim \in Claims /\ tasks[t].claim # NoClaim
    BY <1>1, <1>2 DEF TaskRecords, NoClaim
  <2> HIDE DEF expires
  <2>2. QED  BY <1>1, <1>2, <2>1 DEF Claims
<1>4. next = [tasks[t] EXCEPT !.claim = claim, !.version = n]
  BY <1>2 DEF TaskRecords
<1> HIDE DEF claim, n, next
<1>5. /\ next \in TaskRecords /\ next.version = n /\ next.claim = claim
      /\ next.status = tasks[t].status
      /\ next.key = tasks[t].key /\ next.dependencies = tasks[t].dependencies
  BY <1>2, <1>3, <1>4 DEF TaskRecords
<1>6. /\ event \in Events /\ event.by = p /\ event.type = "lease_renewed" /\ event.claim = claim
  <2>1. event = Event(p, "lease_renewed", NoTask, claim)
    BY <1>5 DEF next
  <2> HIDE DEF event
  <2>2. QED  BY <1>3, <2>1 DEF Event, Events, Types, Boarded, Snapshots
<1> HIDE DEF event
<1>7. r = next
  <2>1. r = [tasks[t] EXCEPT !.claim.expires = claim.expires, !.version = @ + 1]
    BY <1>1, <1>3, <1>6 DEF FoldTask, Snapshots
  <2>2. QED  BY <1>3, <2>1 DEF next
<1>8. Extends(tasks[t], event, next)
  <2>1. n = Version(tasks[t]) + 1
    BY <1>2 DEF n
  <2> HIDE DEF r
  <2>2. QED  BY <1>5, <1>7, <2>1 DEF Extends, Same, r
<1>9. j \in JobRecords /\ j.op = "heartbeat" /\ j.lease = l /\ ListedOk(j)
  <2>1. Idle \in JobRecords /\ Idle.listed = {} /\ Idle.runnable = {}
    BY IdleOk DEF Idle
  <2>2. j \in JobRecords /\ j.op = "heartbeat" /\ j.lease = l /\ j.listed = {} /\ j.runnable = {}
    BY <1>2, <2>1 DEF JobRecords, Ops
  <2> HIDE DEF j
  <2>3. QED  BY <2>2 DEF ListedOk
<1>10. UNCHANGED <<log, tasks>> /\ clock' \in Nat /\ leases' \in Nat \ {0} /\ job[p].at # "index"
  BY DEF Heartbeat, Calls, Shape
<1>11. Commit(p, j, t, seen, event, next)
  BY <1>1 DEF next, event
<1> HIDE DEF j, seen
<1>12. QED  BY <1>1, <1>2, <1>6, <1>8, <1>9, <1>10, <1>11, CommitKeeps

LEMMA ClaimNextKeeps ==
    ASSUME Shape, BInv, NEW p \in Clients, ClaimNext(p)
    PROVE  Shape' /\ BInv'
<1>1. PICK w \in Workers :
         Becomes(p, [Idle EXCEPT !.op = "claim", !.at = "list", !.worker = w, !.now = clock])
  BY DEF ClaimNext
<1> DEFINE j == [Idle EXCEPT !.op = "claim", !.at = "list", !.worker = w, !.now = clock]
<1>2. /\ j \in JobRecords /\ j.at = "list" /\ j.op = "claim" /\ j.worker = w
      /\ j.listed = {} /\ j.runnable = {}
  <2>1. Idle \in JobRecords /\ Idle.listed = {} /\ Idle.runnable = {} /\ clock \in Nat
    BY IdleOk DEF Idle, Shape
  <2>2. QED  BY <2>1 DEF JobRecords, Ops
<1> HIDE DEF j
<1>3. JobOk(p, j)
  BY <1>2 DEF JobOk
<1>4. UNCHANGED <<log, tasks>> /\ clock' \in Nat /\ leases' \in Nat \ {0} /\ job[p].at # "index"
  BY DEF ClaimNext, Calls, Shape
<1>5. QED  BY <1>1, <1>2, <1>3, <1>4, Proceeds DEF j

\* What was just read from the board is on it.
LEMMA ReadIsShown ==
    ASSUME Shape, NEW S \in SUBSET Tasks, \A t \in S : tasks[t] # NoTask
    PROVE  /\ {<<t, tasks[t].version>> : t \in S} \in SUBSET (Tasks \X Nat)
           /\ \A x \in {<<t, tasks[t].version>> : t \in S} :
                 x[1] \in S /\ tasks[x[1]] # NoTask /\ x[2] = Version(tasks[x[1]])
                 /\ x[2] <= Version(tasks[x[1]])
<1>1. \A t \in S : tasks[t].version \in Nat /\ tasks[t].version = Version(tasks[t])
  BY Lengths DEF Boarded, TaskRecords, Version
<1>2. QED  BY <1>1

LEMMA ListReadyKeeps ==
    ASSUME Shape, BInv, NEW p \in Clients, ListReady(p)
    PROVE  Shape' /\ BInv'
<1> DEFINE ready == {t \in Tasks : tasks[t] # NoTask /\ tasks[t].status = "ready"}
           listed == {<<t, tasks[t].version>> : t \in ready}
           l == job[p]
           j == [l EXCEPT !.at = "examine", !.listed = listed]
<1>1. l.at = "list" /\ Becomes(p, j) /\ UNCHANGED <<log, tasks, clock, leases>>
  BY DEF ListReady
<1>2. l \in JobRecords /\ JobOk(p, l) /\ clock' \in Nat /\ leases' \in Nat \ {0}
  BY <1>1 DEF Shape, BInv
<1>3. /\ listed \in SUBSET (Tasks \X Nat)
      /\ \A x \in listed : tasks[x[1]] # NoTask /\ x[2] <= Version(tasks[x[1]])
  <2>1. ready \in SUBSET Tasks /\ \A t \in ready : tasks[t] # NoTask
    OBVIOUS
  <2> HIDE DEF ready
  <2>2. QED  BY <2>1, ReadIsShown
<1> HIDE DEF listed
<1>4. /\ j \in JobRecords /\ j.at = "examine" /\ j.op = l.op /\ j.listed = listed
      /\ j.runnable = l.runnable /\ j.worker = l.worker
  BY <1>2, <1>3 DEF JobRecords
<1> HIDE DEF j
<1>5. JobOk(p, j)
  BY <1>1, <1>2, <1>3, <1>4 DEF JobOk
<1>6. QED  BY <1>1, <1>2, <1>4, <1>5, Proceeds

LEMMA ExamineKeeps ==
    ASSUME Shape, BInv, NEW p \in Clients, Examine(p)
    PROVE  Shape' /\ BInv'
<1> DEFINE l == job[p]
           Passed(x) == \A d \in tasks[x[1]].dependencies : Satisfied(d)
           J(x) == [l EXCEPT !.listed = l.listed \ {x},
                             !.runnable = l.runnable \union (IF Passed(x) THEN {x} ELSE {})]
<1>1. l \in JobRecords /\ JobOk(p, l)
  BY DEF Shape, BInv
<1>2. PICK x \in l.listed : Becomes(p, J(x))
  BY <1>1 DEF Examine, JobRecords
<1> DEFINE listed == l.listed \ {x}
           runnable == l.runnable \union (IF Passed(x) THEN {x} ELSE {})
           j == [l EXCEPT !.listed = listed, !.runnable = runnable]
<1>3. l.at = "examine" /\ UNCHANGED <<log, tasks, clock, leases>> /\ Becomes(p, j)
  BY <1>2 DEF Examine
<1>4. clock' \in Nat /\ leases' \in Nat \ {0}
  BY <1>3 DEF Shape
<1>5. /\ listed \in SUBSET (Tasks \X Nat) /\ runnable \in SUBSET (Tasks \X Nat)
      /\ listed \subseteq l.listed /\ runnable \subseteq l.listed \union l.runnable
  BY <1>1 DEF JobRecords
<1> HIDE DEF listed, runnable
<1>6. /\ j \in JobRecords /\ j.at = "examine" /\ j.op = l.op
      /\ j.listed = listed /\ j.runnable = runnable /\ j.now = l.now /\ j.worker = l.worker
  BY <1>1, <1>3, <1>5 DEF JobRecords
<1> HIDE DEF j
<1>7. JobOk(p, j)
  <2>1. \A y \in j.listed \union j.runnable : y \in l.listed \union l.runnable
    BY <1>5, <1>6
  <2>2. j.op = "claim" /\ j.worker \in Workers
    BY <1>1, <1>3, <1>6 DEF JobOk
  <2>3. QED  BY <1>1, <1>6, <2>1, <2>2 DEF JobOk
<1>8. QED  BY <1>3, <1>4, <1>6, <1>7, Proceeds
LEMMA ClaimKeeps ==
    ASSUME Shape, BInv, NEW p \in Clients, Claim(p)
    PROVE  Shape' /\ BInv'
<1> DEFINE l == job[p]
           expires == l.now + LeaseDuration
           lease == leases + 1
           claim == [claimant |-> l.worker, lease |-> lease, expires |-> expires]
           none == {}
           j == [l EXCEPT !.runnable = none, !.lease = 0]
<1>1. /\ l.at = "examine" /\ l.listed = {}
      /\ \/ /\ leases' = leases + 1
            /\ \E x \in l.runnable : StartTransition(p, j, x[1], x[2], "running", claim)
         \/ Becomes(p, Idle) /\ UNCHANGED leases
      /\ UNCHANGED <<log, tasks, clock>>
  BY DEF Claim
<1>2. l \in JobRecords /\ JobOk(p, l) /\ clock' \in Nat /\ leases' \in Nat \ {0}
  BY <1>1 DEF Shape, BInv
<1>3. CASE Becomes(p, Idle)
  BY <1>1, <1>2, <1>3, Rests
<1>4. CASE \E x \in l.runnable : StartTransition(p, j, x[1], x[2], "running", claim)
  <2>1. PICK x \in l.runnable : StartTransition(p, j, x[1], x[2], "running", claim)
    BY <1>4
  <2>2. x[1] \in Tasks /\ x[2] \in Nat /\ tasks[x[1]] # NoTask
    BY <1>2 DEF JobRecords, JobOk
  <2>3. claim \in Claims
    <3>1. /\ lease \in Nat \ {0} /\ expires \in Nat /\ l.worker \in Workers \union {"nobody"}
      BY <1>2, LeaseAssumption DEF Shape, JobRecords
    <3>2. l.worker \in Workers
      BY <1>1, <1>2 DEF JobOk
    <3> HIDE DEF lease, expires, l
    <3>3. QED  BY <3>1, <3>2 DEF Claims
  <2>4. /\ none \in SUBSET (Tasks \X Nat) /\ j \in JobRecords /\ j.op = l.op
        /\ j.listed = {} /\ j.runnable = none
    <3>1. none \in SUBSET (Tasks \X Nat) /\ 0 \in Nat
      OBVIOUS
    <3> HIDE DEF none
    <3>2. QED  BY <1>1, <1>2, <3>1 DEF JobRecords
  <2>5. j.op = "claim" /\ ListedOk(j)
    <3>1. l.op = "claim"
      BY <1>1, <1>2 DEF JobOk
    <3> HIDE DEF j
    <3>2. j.listed \union j.runnable = {}
      BY <2>4 DEF none
    <3>3. QED  BY <2>4, <3>1, <3>2 DEF ListedOk
  <2> HIDE DEF j, claim, l
  <2>6. job[p].at # "index"
    BY <1>1 DEF l
  <2>7. QED  BY <1>1, <1>2, <2>1, <2>2, <2>3, <2>4, <2>5, <2>6, TransitionKeeps
<1>5. QED  BY <1>1, <1>3, <1>4

LEMMA ReclaimExpiredKeeps ==
    ASSUME Shape, BInv, NEW p \in Clients, ReclaimExpired(p)
    PROVE  Shape' /\ BInv'
<1> DEFINE lapsed == {t \in Tasks : /\ tasks[t] # NoTask
                                    /\ tasks[t].status = "running"
                                    /\ tasks[t].claim # NoClaim
                                    /\ tasks[t].claim.expires <= clock}
           listed == {<<t, tasks[t].version>> : t \in lapsed}
           j == [Idle EXCEPT !.op = "reclaim", !.at = "release", !.now = clock, !.listed = listed]
<1>1. Becomes(p, j)
  BY DEF ReclaimExpired
<1>2. UNCHANGED <<log, tasks>> /\ clock \in Nat /\ clock' \in Nat /\ leases' \in Nat \ {0}
      /\ job[p].at # "index"
  BY DEF ReclaimExpired, Calls, Shape
<1>3. \A t \in lapsed : t \in Tasks /\ tasks[t] # NoTask /\ Lapsed(tasks[t], clock)
  BY DEF Lapsed
<1>4. /\ listed \in SUBSET (Tasks \X Nat)
      /\ \A x \in listed : /\ x[1] \in lapsed /\ tasks[x[1]] # NoTask
                           /\ x[2] = Version(tasks[x[1]]) /\ x[2] <= Version(tasks[x[1]])
  <2>1. lapsed \in SUBSET Tasks
    OBVIOUS
  <2> HIDE DEF lapsed
  <2>2. QED  BY <1>3, <2>1, ReadIsShown
<1> HIDE DEF listed, lapsed
<1>5. /\ j \in JobRecords /\ j.at = "release" /\ j.op = "reclaim" /\ j.listed = listed
      /\ j.runnable = {} /\ j.now = clock
  <2>1. Idle \in JobRecords /\ Idle.runnable = {}
    BY IdleOk DEF Idle
  <2>2. QED  BY <1>2, <1>4, <2>1 DEF JobRecords, Ops
<1> HIDE DEF j
<1>6. \A x \in listed : x[2] = Len(log[x[1]]) => Lapsed(Durable(x[1]), clock)
  <2>1. SUFFICES ASSUME NEW x \in listed, x[2] = Len(log[x[1]])
                 PROVE  Lapsed(Durable(x[1]), clock)
    OBVIOUS
  <2>2. x[1] \in Tasks /\ Lapsed(tasks[x[1]], clock)
    BY <1>3, <1>4
  <2>3. Same(Durable(x[1]), tasks[x[1]])
    BY <1>4, <2>1, <2>2, ShownIsStored
  <2>4. QED  BY <2>2, <2>3 DEF Same, Lapsed
<1>7. JobOk(p, j)
  BY <1>4, <1>5, <1>6 DEF JobOk
<1>8. QED  BY <1>1, <1>2, <1>5, <1>7, Proceeds

LEMMA ReleaseKeeps ==
    ASSUME Shape, BInv, NEW p \in Clients, Release(p)
    PROVE  Shape' /\ BInv'
<1> DEFINE l == job[p]
           J(x) == [l EXCEPT !.listed = l.listed \ {x}]
<1>1. l \in JobRecords /\ JobOk(p, l)
  BY DEF Shape, BInv
<1>2. PICK x \in l.listed : StartTransition(p, J(x), x[1], x[2], "ready", NoClaim)
  BY <1>1 DEF Release, JobRecords
<1> DEFINE listed == l.listed \ {x}
           j == [l EXCEPT !.listed = listed]
<1>3. /\ l.at = "release" /\ UNCHANGED <<log, tasks, clock, leases>>
      /\ StartTransition(p, j, x[1], x[2], "ready", NoClaim)
  BY <1>2 DEF Release
<1>4. clock' \in Nat /\ leases' \in Nat \ {0} /\ NoClaim \in Claims /\ job[p].at # "index"
  BY <1>3 DEF Shape, Claims
<1>5. listed \in SUBSET (Tasks \X Nat) /\ listed \subseteq l.listed
      /\ x[1] \in Tasks /\ x[2] \in Nat
  BY <1>1 DEF JobRecords
<1>6. /\ l.op = "reclaim" /\ tasks[x[1]] # NoTask
      /\ x[2] = Len(log[x[1]]) => Lapsed(Durable(x[1]), l.now)
  BY <1>1, <1>3 DEF JobOk
<1> HIDE DEF listed
<1>7. /\ j \in JobRecords /\ j.op = l.op /\ j.listed = listed /\ j.runnable = l.runnable
      /\ j.now = l.now
  BY <1>1, <1>5 DEF JobRecords
<1> HIDE DEF j, l
<1>8. ListedOk(j)
  BY <1>1, <1>5, <1>7 DEF JobOk, ListedOk
<1>9. j.op = "reclaim" /\ (x[2] = Len(log[x[1]]) => Lapsed(Durable(x[1]), j.now))
  BY <1>6, <1>7
<1>10. QED  BY <1>3, <1>4, <1>5, <1>6, <1>7, <1>8, <1>9, TransitionKeeps
\* What the store takes was built on the last version: an older reading is refused,
\* for the event behind it is another client's.
LEMMA StoredIsLatest ==
    ASSUME Shape, BInv, NEW p \in Clients, job[p].at = "append",
           ~ Conflicts(log[job[p].task], <<job[p].event>>, job[p].seen + 1)
    PROVE  job[p].task \in Tasks /\ Latest(job[p])
           /\ Appended(log[job[p].task], <<job[p].event>>, job[p].seen + 1)
                 = Append(log[job[p].task], job[p].event)
<1> DEFINE l == job[p]
           t == l.task
           s == log[t]
           e == l.event
           seen == l.seen
<1>1. JobOk(p, l) /\ l \in JobRecords /\ t \in Tasks
  BY DEF BInv, Shape, JobOk
<1>2. /\ seen \in Nat /\ seen <= Len(s) /\ s \in Seq(Events) /\ Len(s) \in Nat
      /\ DOMAIN s = 1 .. Len(s) /\ e \in Events /\ e.by = p
      /\ \A i \in DOMAIN s : s[i].by = p => i <= seen
  <2>1. seen \in Nat /\ seen <= Version(tasks[t]) /\ e \in Events /\ e.by = p
    BY <1>1 DEF JobOk, JobRecords
  <2>2. \A i \in DOMAIN s : s[i].by = p => i <= seen
    BY <1>1 DEF JobOk
  <2>3. Version(tasks[t]) <= Len(s)
    BY <1>1, ShownIsStored
  <2>4. QED  BY <1>1, <2>1, <2>2, <2>3, Lengths
<1>3. ~ Conflicts(s, <<e>>, seen + 1)
  OBVIOUS
<1> HIDE DEF s, e, seen
<1>4. seen = Len(s)
  <2>0. seen \in Nat /\ Len(s) \in Nat /\ seen <= Len(s)
    BY <1>2
  <2>1. SUFFICES ASSUME seen < Len(s) PROVE FALSE
    BY <2>0
  <2>2. IsReplay(s, <<e>>, seen + 1)
    BY <1>2, <1>3, <2>1 DEF Conflicts, NextSequence
  <2>3. s[seen + 1 + 1 - 1] = <<e>>[1]
    BY <2>2 DEF IsReplay
  <2>4. s[seen + 1] = e
    <3>1. seen + 1 + 1 - 1 = seen + 1
      BY <1>2
    <3>2. QED  BY <2>3, <3>1
  <2>5. seen + 1 \in DOMAIN s
    BY <1>2, <2>1
  <2>6. QED  BY <1>2, <2>4, <2>5
<1>5. Appended(s, <<e>>, seen + 1) = Append(s, e)
  BY <1>2, <1>4 DEF Appended, NextSequence
<1>6. Latest(l)
  BY <1>4 DEF Latest, s, seen
<1>7. QED  BY <1>1, <1>5, <1>6 DEF s, e, seen

LEMMA StoreKeeps ==
    ASSUME Shape, BInv, NEW p \in Clients, Store(p)
    PROVE  Shape' /\ BInv'
<1>0. SUFFICES ASSUME NEW l, l = job[p] PROVE Shape' /\ BInv'
  OBVIOUS
<1> DEFINE t == l.task
           e == l.event
           next == l.next
           j == [l EXCEPT !.at = "index"]
           stored == /\ ~ Conflicts(log[t], <<e>>, l.seen + 1)
                     /\ log' = [log EXCEPT ![t] = Appended(log[t], <<e>>, l.seen + 1)]
                     /\ Becomes(p, j)
<1>1. /\ l.at = "append" /\ UNCHANGED <<tasks, clock, leases>>
      /\ stored \/ (Becomes(p, Idle) /\ UNCHANGED log)
  BY <1>0 DEF Store
<1>2. l \in JobRecords /\ JobOk(p, l) /\ clock' \in Nat /\ leases' \in Nat \ {0}
  BY <1>0, <1>1 DEF Shape, BInv
<1>3. CASE Becomes(p, Idle) /\ UNCHANGED log
  BY <1>0, <1>1, <1>2, <1>3, Rests
<1>4. CASE stored
  <2>1. /\ t \in Tasks /\ Latest(l) /\ log' = [log EXCEPT ![t] = Append(log[t], e)]
    BY <1>0, <1>1, <1>4, StoredIsLatest
  <2>2. /\ e \in Events /\ e.by = p /\ next \in TaskRecords
        /\ Extends(Durable(t), e, next) /\ l.seen <= Version(tasks[t]) /\ l.seen = Len(log[t])
    BY <1>1, <1>2, <2>1 DEF JobOk, Latest
  <2>3. /\ j \in JobRecords /\ j.at = "index" /\ j.task = t /\ j.next = next /\ j.op = l.op
        /\ j.listed = l.listed /\ j.runnable = l.runnable /\ j.now = l.now
    BY <1>2 DEF JobRecords
  <2>4. job' = [job EXCEPT ![p] = j]
    BY <1>4 DEF Becomes
  <2>5. /\ job' \in [Clients -> JobRecords] /\ job'[p] = j
        /\ \A q \in Clients : q # p => job'[q] = job[q]
    BY <2>3, <2>4 DEF Shape
  <2> DEFINE n == Len(log[t])
  <2>6. /\ log[t] \in Seq(Events) /\ n \in Nat /\ Version(tasks[t]) = n
        /\ DOMAIN log[t] = 1 .. n
    <3>1. Version(tasks[t]) <= n
      BY <2>1, ShownIsStored
    <3>2. QED  BY <2>1, <2>2, <3>1, Lengths
  <2>7. /\ log'[t] = Append(log[t], e) /\ Len(log'[t]) = n + 1 /\ DOMAIN log'[t] = 1 .. (n + 1)
        /\ \A u \in Tasks : u # t => log'[u] = log[u]
        /\ log' \in [Tasks -> Seq(Events)]
    BY <2>1, <2>2, <2>6 DEF Shape
  <2>8. Indexing(t) = {}
    BY <2>1, <2>6, ShownIsStored
  <2>9. Indexing(t)' = {p}
    BY <2>1, <2>3, <2>5, <2>8, ZenonT(60) DEF Indexing
  <2>10. \A u \in Tasks : u # t => Indexing(u)' = Indexing(u) /\ Durable(u)' = Durable(u)
    <3>1. SUFFICES ASSUME NEW u \in Tasks, u # t
                   PROVE  Indexing(u)' = Indexing(u) /\ Durable(u)' = Durable(u)
      OBVIOUS
    <3>2. ASSUME NEW q \in Clients PROVE q \in Indexing(u)' <=> q \in Indexing(u)
      <4>1. CASE q = p
        BY <1>0, <1>1, <2>3, <2>5, <3>1, <4>1 DEF Indexing
      <4>2. CASE q # p
        BY <2>5, <4>2 DEF Indexing
      <4>3. QED  BY <4>1, <4>2
    <3>3. Indexing(u)' \subseteq Clients /\ Indexing(u) \subseteq Clients
      BY DEF Indexing
    <3>4. Durable(u)' = Durable(u)
      BY <2>7, <3>1 DEF Durable
    <3>5. QED  BY <3>2, <3>3, <3>4
  <2>11. /\ Durable(t)' \in TaskRecords /\ Same(Durable(t)', next)
         /\ Version(Durable(t)') = n + 1
    <3>1. Durable(t)' = FoldTask(Durable(t), e)
      BY <2>2, <2>6, <2>7, ReplayedOneMore DEF Durable
    <3>2. Version(Durable(t)) = n
      BY <2>1 DEF BInv, LogNumbers
    <3>3. /\ FoldTask(Durable(t), e) \in TaskRecords /\ Same(FoldTask(Durable(t), e), next)
          /\ next.version = n + 1
      BY <2>2, <3>2 DEF Extends
    <3>4. QED  BY <3>1, <3>3, NoTaskAssumption DEF Same, Version
  <2> HIDE DEF j, n, e
  <2>12. tasks' = tasks
    BY <1>1
  <2>13. LogNumbers'
    <3>1. ASSUME NEW u \in Tasks
          PROVE  /\ Durable(u)' \in Boarded /\ Version(Durable(u)') = Len(log'[u])
                 /\ log'[u] # <<>> => Durable(u)' # NoTask
      <4>1. CASE u = t
        BY <2>7, <2>11, <4>1, NoTaskAssumption DEF Boarded
      <4>2. CASE u # t
        BY <2>7, <2>10, <4>2 DEF BInv, LogNumbers
      <4>3. QED  BY <4>1, <4>2
    <3>2. QED  BY <3>1 DEF LogNumbers, Version
  <2>14. BoardFollows'
    <3>1. ASSUME NEW u \in Tasks
          PROVE  /\ Indexing(u)' = {} => Same(Durable(u)', tasks[u])
                 /\ \A q \in Indexing(u)' : /\ Same(Durable(u)', job'[q].next)
                                            /\ Version(tasks[u]) < Len(log'[u])
                 /\ \A q, r \in Indexing(u)' : q = r
      <4>1. CASE u = t
        <5>1. Version(tasks[t]) < Len(log'[t])
          BY <2>6, <2>7
        <5>2. job'[p].next = next
          BY <2>3, <2>5
        <5>3. QED  BY <2>9, <2>11, <4>1, <5>1, <5>2
      <4>2. CASE u # t
        <5>1. \A q \in Indexing(u) : job'[q] = job[q]
          BY <1>0, <1>1, <2>5 DEF Indexing
        <5>2. QED  BY <2>7, <2>10, <4>2, <5>1 DEF BInv, BoardFollows
      <4>3. QED  BY <4>1, <4>2
    <3>2. QED  BY <2>12, <3>1 DEF BoardFollows, Same, Version
  <2>15. OwnIsShown'
    <3>1. ASSUME NEW q \in Clients, NEW u \in Tasks, NEW i \in DOMAIN log'[u], log'[u][i].by = q
          PROVE  i <= Version(tasks[u]) \/ q \in Indexing(u)'
      <4>1. CASE u # t
        BY <2>7, <2>10, <3>1, <4>1 DEF BInv, OwnIsShown
      <4>2. CASE u = t /\ i <= n
        BY <2>6, <4>2
      <4>3. CASE u = t /\ ~ (i <= n)
        <5>1. i = n + 1
          BY <2>6, <2>7, <4>3
        <5>2. log'[t][i] = e
          BY <2>6, <2>7, <5>1 DEF n
        <5>3. QED  BY <2>2, <2>9, <3>1, <4>3, <5>2
      <4>4. QED  BY <4>1, <4>2, <4>3
    <3>2. QED  BY <2>12, <3>1 DEF OwnIsShown, Version
  <2>16. \A u \in Tasks, k \in Nat : k <= Version(tasks[u]) /\ k = Len(log'[u]) => u # t
    BY <2>6, <2>7
  <2>17. ASSUME NEW q \in Clients PROVE JobOk(q, job[q])'
    <3>0. SUFFICES ASSUME NEW o, o = job[q] PROVE JobOk(q, job[q])'
      OBVIOUS
    <3>1. o \in JobRecords /\ JobOk(q, o)
      BY <3>0 DEF Shape, BInv
    <3>2. \A x \in o.listed \union o.runnable :
             /\ tasks[x[1]] # NoTask /\ x[2] <= Version(tasks[x[1]])
             /\ x[1] \in Tasks /\ x[2] \in Nat
      BY <3>1 DEF JobOk, JobRecords
    <3>3. o.op = "reclaim" => \A x \in o.listed :
             x[2] = Len(log'[x[1]]) => Lapsed(Durable(x[1])', o.now)
      <4>1. SUFFICES ASSUME o.op = "reclaim", NEW x \in o.listed, x[2] = Len(log'[x[1]])
                     PROVE  Lapsed(Durable(x[1])', o.now)
        OBVIOUS
      <4>2. x[1] \in Tasks /\ x[1] # t
        BY <2>16, <3>2, <4>1
      <4>3. x[2] = Len(log[x[1]]) /\ Durable(x[1])' = Durable(x[1])
        BY <2>7, <2>10, <4>1, <4>2
      <4>4. QED  BY <3>1, <4>1, <4>3 DEF JobOk
    <3>4. CASE q = p
      <4>1. o = l /\ job'[q] = j
        BY <1>0, <2>5, <3>0, <3>4
      <4>2. JobOk(q, j)'
        BY <2>1, <2>2, <2>3, <2>12, <3>2, <3>3, <4>1 DEF JobOk, Version, Lapsed
      <4>3. QED  BY <4>1, <4>2 DEF JobOk, Latest
    <3>5. CASE q # p
      <4>1. job'[q] = o
        BY <2>5, <3>0, <3>5
      <4>2. ASSUME o.at \in {"hop", "append"}
            PROVE  /\ o.task \in Tasks /\ o.seen \in Nat /\ o.seen <= Version(tasks[o.task])
                   /\ o.seen = Len(log'[o.task]) => Latest(o) /\ Durable(o.task)' = Durable(o.task)
        <5>1. o.task \in Tasks /\ o.seen \in Nat /\ o.seen <= Version(tasks[o.task])
          BY <3>1, <4>2 DEF JobOk, JobRecords
        <5>2. QED  BY <2>7, <2>10, <2>16, <5>1 DEF Latest
      <4>3. ASSUME o.at = "append"
            PROVE  \A i \in DOMAIN log'[o.task] : log'[o.task][i].by = q => i <= o.seen
        <5>1. SUFFICES ASSUME NEW i \in DOMAIN log'[o.task], log'[o.task][i].by = q
                       PROVE  i <= o.seen
          OBVIOUS
        <5>2. \A k \in DOMAIN log[o.task] : log[o.task][k].by = q => k <= o.seen
          BY <3>1, <4>3 DEF JobOk
        <5>3. CASE o.task # t
          BY <2>7, <4>2, <4>3, <5>1, <5>2, <5>3
        <5>4. CASE o.task = t
          <6>1. i # n + 1
            BY <2>2, <2>6, <2>7, <3>5, <5>1, <5>4 DEF n
          <6>2. i \in DOMAIN log[t] /\ log'[t][i] = log[t][i]
            BY <2>6, <2>7, <5>1, <5>4, <6>1 DEF n
          <6>3. QED  BY <5>1, <5>2, <5>4, <6>2
        <5>5. QED  BY <5>3, <5>4
      <4>4. JobOk(q, o)'
        BY <2>12, <3>1, <3>2, <3>3, <4>2, <4>3 DEF JobOk, Latest, Version, Lapsed
      <4>5. QED  BY <4>1, <4>4 DEF JobOk, Latest
    <3>6. QED  BY <3>4, <3>5
  <2>18. Shape'
    BY <1>2, <2>5, <2>7, <2>12 DEF Shape
  <2>19. QED  BY <2>13, <2>14, <2>15, <2>17, <2>18 DEF BInv
<1>5. QED  BY <1>1, <1>3, <1>4

LEMMA IndexKeeps ==
    ASSUME Shape, BInv, NEW p \in Clients, Index(p)
    PROVE  Shape' /\ BInv'
<1>0. SUFFICES ASSUME NEW l, l = job[p] PROVE Shape' /\ BInv'
  OBVIOUS
<1> DEFINE t == l.task
           seen == l.next.version
           none == NoTask
           rest == [l EXCEPT !.seen = seen, !.event = none, !.next = none]
           hop == [rest EXCEPT !.at = "hop"]
           release == [rest EXCEPT !.at = "release"]
           j == IF l.op = "move" /\ l.hops # <<>> THEN hop
                ELSE IF l.op = "reclaim" /\ l.listed # {} THEN release
                ELSE Idle
<1>1. /\ l.at = "index" /\ UNCHANGED <<log, clock, leases>>
      /\ tasks' = [tasks EXCEPT ![t] = l.next] /\ job' = [job EXCEPT ![p] = j]
  BY <1>0 DEF Index, Becomes
<1>2. /\ l \in JobRecords /\ JobOk(p, l) /\ t \in Tasks /\ l.next \in TaskRecords
      /\ l.next # NoTask /\ seen \in Nat
  BY <1>0, <1>1, NoTaskAssumption, SMTT(30) DEF Shape, BInv, JobOk, TaskRecords
<1>3. p \in Indexing(t) /\ \A u \in Tasks : p \in Indexing(u) => u = t
  BY <1>0, <1>1 DEF Indexing
<1>4. /\ Same(Durable(t), l.next) /\ Version(tasks[t]) < Len(log[t]) /\ Indexing(t) = {p}
  BY <1>0, <1>2, <1>3 DEF BInv, BoardFollows
<1>5. seen = Len(log[t]) /\ Version(l.next) = seen
  BY <1>2, <1>4 DEF BInv, LogNumbers, Same, Version
<1>6. /\ j \in JobRecords /\ j.at # "index" /\ j.at # "append"
      /\ j.op = "finish" => j.at = "idle"
      /\ j.at = "hop" => /\ j.op = "move" /\ j.hops # <<>> /\ j.task = t /\ j.seen = seen
      /\ j.at \in {"idle", "hop", "release"} /\ (j.at = "release" => j.op = "reclaim")
      /\ j = Idle \/ (j.listed = l.listed /\ j.runnable = l.runnable /\ j.now = l.now /\ j.op = l.op)
  <2> HIDE DEF seen
  <2>1. rest \in JobRecords /\ rest.listed = l.listed /\ rest.runnable = l.runnable
        /\ rest.now = l.now /\ rest.op = l.op /\ rest.hops = l.hops /\ rest.task = t /\ rest.seen = seen
    BY <1>2 DEF JobRecords, Boarded
  <2> HIDE DEF rest
  <2>2. hop \in JobRecords /\ hop.listed = l.listed /\ hop.runnable = l.runnable
        /\ hop.now = l.now /\ hop.op = l.op /\ hop.hops = l.hops /\ hop.task = t
        /\ hop.seen = seen /\ hop.at = "hop"
    BY <2>1 DEF JobRecords
  <2>3. release \in JobRecords /\ release.listed = l.listed /\ release.runnable = l.runnable
        /\ release.now = l.now /\ release.op = l.op /\ release.at = "release"
    BY <2>1 DEF JobRecords
  <2> HIDE DEF hop, release
  <2>4. CASE l.op = "move" /\ l.hops # <<>>
    BY <2>2, <2>4
  <2>5. CASE ~ (l.op = "move" /\ l.hops # <<>>) /\ l.op = "reclaim" /\ l.listed # {}
    BY <2>3, <2>5
  <2>6. CASE ~ (l.op = "move" /\ l.hops # <<>>) /\ ~ (l.op = "reclaim" /\ l.listed # {})
    <3>1. j = Idle
      BY <2>6
    <3> HIDE DEF j
    <3>2. QED  BY <3>1, IdleOk
  <2>7. QED  BY <2>4, <2>5, <2>6
<1> HIDE DEF j
<1>7. /\ job' \in [Clients -> JobRecords] /\ job'[p] = j
      /\ \A q \in Clients : q # p => job'[q] = job[q]
      /\ tasks' \in [Tasks -> Boarded] /\ tasks'[t] = l.next
      /\ \A u \in Tasks : u # t => tasks'[u] = tasks[u]
  BY <1>1, <1>2, <1>6 DEF Shape, Boarded
<1>8. Shape'
  BY <1>1, <1>7 DEF Shape
<1>9. \A u \in Tasks : Durable(u)' = Durable(u)
  BY <1>1 DEF Durable
<1>10. Indexing(t)' = {}
  <2>1. \A q \in Clients : q # p => q \notin Indexing(t)'
    BY <1>4, <1>7 DEF Indexing
  <2>2. p \notin Indexing(t)'
    BY <1>6, <1>7 DEF Indexing
  <2>3. QED  BY <2>1, <2>2 DEF Indexing
<1>11. ASSUME NEW u \in Tasks, u # t PROVE Indexing(u)' = Indexing(u)
  <2>1. ASSUME NEW q \in Clients PROVE q \in Indexing(u)' <=> q \in Indexing(u)
    <3>1. CASE q = p
      BY <1>3, <1>6, <1>7, <1>11, <3>1 DEF Indexing
    <3>2. CASE q # p
      BY <1>7, <3>2 DEF Indexing
    <3>3. QED  BY <3>1, <3>2
  <2>2. Indexing(u)' \subseteq Clients /\ Indexing(u) \subseteq Clients
    BY DEF Indexing
  <2>3. QED  BY <2>1, <2>2
<1> HIDE DEF seen, none
<1>12. /\ LogNumbers' /\ \A u \in Tasks : log'[u] = log[u]
  BY <1>1, <1>9 DEF BInv, LogNumbers, Version
<1>13. BoardFollows'
  <2>1. ASSUME NEW u \in Tasks
        PROVE  /\ Indexing(u)' = {} => Same(Durable(u), tasks'[u])
               /\ \A q \in Indexing(u)' : /\ Same(Durable(u), job'[q].next)
                                          /\ Version(tasks'[u]) < Len(log[u])
               /\ \A q, r \in Indexing(u)' : q = r
    <3>1. CASE u = t
      BY <1>4, <1>7, <1>10, <3>1
    <3>2. CASE u # t
      <4>1. \A q \in Indexing(u) : job'[q] = job[q]
        BY <1>3, <1>7, <3>2 DEF Indexing
      <4>2. Indexing(u)' = Indexing(u) /\ tasks'[u] = tasks[u]
        BY <1>7, <1>11, <3>2
      <4>3. QED  BY <4>1, <4>2 DEF BInv, BoardFollows
    <3>3. QED  BY <3>1, <3>2
  <2>2. QED  BY <1>9, <1>12, <2>1 DEF BoardFollows, Same, Version
<1>14. \A u \in Tasks : /\ Version(tasks'[u]) \in Nat /\ Version(tasks[u]) \in Nat
                        /\ Version(tasks[u]) <= Version(tasks'[u])
                        /\ tasks[u] # NoTask => tasks'[u] # NoTask
  <2>1. \A u \in Tasks : Version(tasks[u]) \in Nat /\ Len(log[u]) \in Nat
    BY Lengths
  <2>2. Version(tasks'[t]) \in Nat /\ Version(tasks[t]) <= Version(tasks'[t])
    BY <1>2, <1>4, <1>5, <1>7, <2>1
  <2>3. QED  BY <1>2, <1>7, <2>1, <2>2
<1>15. OwnIsShown'
  <2>1. ASSUME NEW q \in Clients, NEW u \in Tasks, NEW i \in DOMAIN log[u], log[u][i].by = q
        PROVE  i <= Version(tasks'[u]) \/ q \in Indexing(u)'
    <3>1. CASE u = t
      <4>1. i <= Len(log[t])
        BY <2>1, <3>1, Lengths
      <4>2. QED  BY <1>5, <1>7, <3>1, <4>1
    <3>2. CASE u # t
      BY <1>7, <1>11, <2>1, <3>2 DEF BInv, OwnIsShown
    <3>3. QED  BY <3>1, <3>2
  <2>2. QED  BY <1>12, <2>1 DEF OwnIsShown, Version
<1>16. ASSUME NEW q \in Clients PROVE JobOk(q, job[q])'
  <2>0. SUFFICES ASSUME NEW o, o = job[q] PROVE JobOk(q, job[q])'
    OBVIOUS
  <2>1. o \in JobRecords /\ JobOk(q, o)
    BY <2>0 DEF Shape, BInv
  <2>2. \A x \in o.listed \union o.runnable :
           x[1] \in Tasks /\ x[2] \in Nat /\ tasks'[x[1]] # NoTask /\ x[2] <= Version(tasks'[x[1]])
    <3>1. SUFFICES ASSUME NEW x \in o.listed \union o.runnable
                   PROVE  x[1] \in Tasks /\ x[2] \in Nat /\ tasks'[x[1]] # NoTask
                          /\ x[2] <= Version(tasks'[x[1]])
      OBVIOUS
    <3>2. x[1] \in Tasks /\ x[2] \in Nat
      BY <2>1 DEF JobRecords
    <3>3. tasks[x[1]] # NoTask /\ x[2] <= Version(tasks[x[1]])
      BY <2>1 DEF JobOk
    <3>4. QED  BY <1>14, <3>2, <3>3
  <2>3. o.op = "reclaim" => \A x \in o.listed :
           x[2] = Len(log'[x[1]]) => Lapsed(Durable(x[1])', o.now)
    BY <1>9, <1>12, <2>1, <2>2 DEF JobOk
  <2>4. CASE q = p
    <3>1. o = l /\ job'[q] = j
      BY <1>0, <1>7, <2>0, <2>4
    <3>2. \A x \in j.listed \union j.runnable :
             tasks'[x[1]] # NoTask /\ x[2] <= Version(tasks'[x[1]])
      <4>1. CASE j = Idle
        BY <4>1 DEF Idle
      <4>2. CASE j # Idle
        BY <1>6, <2>2, <3>1, <4>2
      <4>3. QED  BY <4>1, <4>2
    <3>3. j.op = "reclaim" => \A x \in j.listed :
             x[2] = Len(log'[x[1]]) => Lapsed(Durable(x[1])', j.now)
      <4>1. CASE j = Idle
        BY <4>1 DEF Idle
      <4>2. CASE j # Idle
        BY <1>6, <2>3, <3>1, <4>2
      <4>3. QED  BY <4>1, <4>2
    <3>4. j.at = "hop" => /\ j.task \in Tasks /\ j.seen <= Version(tasks'[j.task])
                          /\ tasks'[j.task] # NoTask
      BY <1>2, <1>5, <1>6, <1>7
    <3>5. JobOk(q, j)'
      BY <1>6, <3>2, <3>3, <3>4 DEF JobOk, Version, Lapsed
    <3>6. QED  BY <3>1, <3>5 DEF JobOk, Latest
  <2>5. CASE q # p
    <3>1. job'[q] = o
      BY <1>7, <2>0, <2>5
    <3>2. ASSUME o.at \in {"hop", "append"}
          PROVE  /\ o.task \in Tasks /\ o.seen <= Version(tasks'[o.task])
                 /\ Durable(o.task)' = Durable(o.task) /\ log'[o.task] = log[o.task]
                 /\ o.at = "hop" => tasks'[o.task] # NoTask
      <4>1. o.task \in Tasks /\ o.seen \in Nat /\ o.seen <= Version(tasks[o.task])
            /\ (o.at = "hop" => tasks[o.task] # NoTask)
        BY <2>1, <3>2 DEF JobOk, JobRecords
      <4>2. QED  BY <1>9, <1>12, <1>14, <4>1
    <3>3. JobOk(q, o)'
      BY <2>1, <2>2, <2>3, <3>2 DEF JobOk, Latest, Version, Lapsed
    <3>4. QED  BY <3>1, <3>3 DEF JobOk, Latest
  <2>6. QED  BY <2>4, <2>5
<1>17. QED  BY <1>8, <1>12, <1>13, <1>15, <1>16 DEF BInv

LEMMA RestKeeps ==
    ASSUME Shape, BInv, Tick \/ UNCHANGED vars
    PROVE  Shape' /\ BInv'
<1>1. log' = log /\ tasks' = tasks /\ job' = job /\ clock' \in Nat /\ leases' \in Nat \ {0}
  BY DEF Tick, vars, Shape
<1>2. Shape'
  BY <1>1 DEF Shape
<1>3. \A t \in Tasks : Indexing(t)' = Indexing(t) /\ Durable(t)' = Durable(t)
  BY <1>1 DEF Indexing, Durable
<1>4. LogNumbers' /\ BoardFollows' /\ OwnIsShown'
  BY <1>1, <1>3 DEF BInv, LogNumbers, BoardFollows, OwnIsShown
<1>5. \A p \in Clients : JobOk(p, job[p])'
  BY <1>1 DEF BInv, JobOk, Latest, Durable
<1>6. QED  BY <1>2, <1>4, <1>5 DEF BInv

\* A board just rebuilt from a log that numbers its versions, with every client idle.
LEMMA Rebuilt ==
    ASSUME log \in [Tasks -> Seq(Events)], LogNumbers,
           tasks = [t \in Tasks |-> Replayed(log[t])], job = [p \in Clients |-> Idle],
           clock \in Nat, leases \in Nat \ {0}
    PROVE  Shape /\ BInv
<1>1. \A t \in Tasks : tasks[t] = Durable(t)
  BY DEF Durable
<1>2. \A p \in Clients : job[p] = Idle /\ job[p].at = "idle"
  BY IdleOk
<1>3. Shape
  <2>1. tasks \in [Tasks -> Boarded]
    BY <1>1 DEF LogNumbers
  <2>2. job \in [Clients -> JobRecords]
    BY IdleOk
  <2>3. QED  BY <2>1, <2>2 DEF Shape
<1>4. \A t \in Tasks : Indexing(t) = {}
  BY <1>2 DEF Indexing
<1>5. BoardFollows
  BY <1>1, <1>4 DEF BoardFollows, Same
<1>6. OwnIsShown
  BY <1>1, <1>3, Lengths DEF LogNumbers, OwnIsShown
<1>7. \A p \in Clients : JobOk(p, job[p])
  BY <1>2, IdleOk
<1>8. QED  BY <1>3, <1>5, <1>6, <1>7 DEF BInv

LEMMA RestartKeeps ==
    ASSUME Shape, BInv, Restart
    PROVE  Shape' /\ BInv'
<1>1. /\ log' = log /\ tasks' = [t \in Tasks |-> Replayed(log'[t])]
      /\ job' = [p \in Clients |-> Idle] /\ clock' = clock /\ leases' = leases
  BY DEF Restart
<1>2. LogNumbers'
  BY <1>1 DEF BInv, LogNumbers, Durable, Version
<1>3. log' \in [Tasks -> Seq(Events)] /\ clock' \in Nat /\ leases' \in Nat \ {0}
  BY <1>1 DEF Shape
<1>4. \A t \in Tasks : tasks'[t] = Durable(t)'
  BY <1>1 DEF Durable
<1>5. \A p \in Clients : job'[p] = Idle /\ job'[p].at = "idle"
  BY <1>1, IdleOk
<1>6. Shape'
  <2>1. tasks' \in [Tasks -> Boarded]
    BY <1>1, <1>2, <1>4 DEF LogNumbers
  <2>2. job' \in [Clients -> JobRecords]
    BY <1>1, IdleOk
  <2>3. QED  BY <1>3, <2>1, <2>2 DEF Shape
<1>7. \A t \in Tasks : Indexing(t)' = {}
  BY <1>5 DEF Indexing
<1>8. BoardFollows'
  BY <1>4, <1>7 DEF BoardFollows, Same
<1>9. OwnIsShown'
  BY <1>2, <1>3, <1>4 DEF LogNumbers, OwnIsShown, Version
<1>10. ASSUME NEW p \in Clients PROVE JobOk(p, job[p])'
  <2>1. job'[p].at = "idle" /\ job'[p].op = "none" /\ job'[p].listed = {} /\ job'[p].runnable = {}
    BY <1>5 DEF Idle
  <2>2. QED  BY <2>1 DEF JobOk
<1>11. QED  BY <1>2, <1>6, <1>8, <1>9, <1>10 DEF BInv

-----------------------------------------------------------------------------
(* The invariant holds *)

\* A history is a stream of as many snapshots as it has versions.
LEMMA HistoryType ==
    ASSUME NEW n \in Nat \ {0}, NEW statuses \in [1 .. n -> Statuses],
           NEW worker, NEW deps \in SUBSET Dependencies,
           worker \in Workers \/ \A i \in 1 .. n : statuses[i] # "running",
           NEW h, h = History(statuses, worker, deps)
    PROVE  /\ h \in Seq(Events) /\ Len(h) = n
           /\ Replayed(h) \in TaskRecords /\ Replayed(h).version = n
<1> DEFINE C(i) == IF statuses[i] # "running" THEN NoClaim
                   ELSE [claimant |-> worker, lease |-> 1, expires |-> LeaseDuration]
           T(i) == [NewTask(NoKey, deps) EXCEPT !.status = statuses[i], !.version = i,
                                                !.updatedAt = i, !.claim = C(i)]
           Kind(i) == IF i = 1 THEN "created" ELSE "status_changed"
           E(i) == Event("before", Kind(i), T(i), NoClaim)
<1>1. h = [i \in 1 .. n |-> E(i)]
  BY DEF History
<1>2. ASSUME NEW i \in 1 .. n
      PROVE  T(i) \in TaskRecords /\ T(i).version = i
  <2>1. C(i) \in Claims
    BY LeaseAssumption DEF Claims
  <2>2. NewTask(NoKey, deps) \in TaskRecords /\ statuses[i] \in Statuses /\ i \in Nat
    BY NewTaskType, SMTT(30)
  <2> HIDE DEF C
  <2>3. QED  BY <2>1, <2>2 DEF TaskRecords
<1>3. ASSUME NEW i \in 1 .. n
      PROVE  E(i) \in Events /\ E(i).type \in Snapshots /\ E(i).task = T(i)
  <2>1. T(i) \in TaskRecords
    BY <1>2
  <2> HIDE DEF T
  <2>2. Kind(i) \in Snapshots
    BY DEF Snapshots
  <2> HIDE DEF Kind
  <2>3. QED  BY <2>1, <2>2 DEF Event, Events, Types, Boarded, Claims
<1> HIDE DEF E, T
<1>4. h \in Seq(Events) /\ Len(h) = n /\ h # <<>> /\ h[n] = E(n)
  BY <1>1, <1>3
<1>5. n \in 1 .. n
  OBVIOUS
<1>6. Replayed(h) = T(n)
  <2>1. h[Len(h)].type \in Snapshots /\ h[Len(h)].task = T(n)
    BY <1>3, <1>4, <1>5
  <2>2. QED  BY <1>4, <2>1, SnapshotTells
<1>7. Replayed(h) \in TaskRecords /\ Replayed(h).version = n
  BY <1>2, <1>5, <1>6
<1>8. QED  BY <1>4, <1>7

LEMMA HistoriesType ==
    ASSUME NEW h \in Histories
    PROVE  /\ h \in Seq(Events) /\ Replayed(h) \in Boarded
           /\ Version(Replayed(h)) = Len(h) /\ (h # <<>> => Replayed(h) # NoTask)
<1> DEFINE three == <<"inbox", "triaged", "ready">>
           four == <<"inbox", "triaged", "ready", "running">>
<1>1. CASE h = <<>>
  <2> DEFINE none == << >>
  <2>1. none \in Seq(Events) /\ Len(none) = 0
    OBVIOUS
  <2>2. Replayed(none) = NoTask
    BY ReplayedNothing
  <2>3. h = none
    BY <1>1
  <2>4. QED  BY <1>1, <2>1, <2>2, <2>3 DEF Boarded, Version
<1>2. ASSUME NEW n \in Nat, n # 0, h \in Seq(Events), Len(h) = n,
             Replayed(h) \in TaskRecords, Replayed(h).version = n
      PROVE  Replayed(h) \in Boarded /\ Version(Replayed(h)) = Len(h) /\ Replayed(h) # NoTask
  BY <1>2, NoTaskAssumption DEF Boarded, Version
<1>3. CASE \E deps \in {{}} \union {{d} : d \in [task : Tasks, satisfiedWhen : {"done"}]} :
              h = History(three, "nobody", deps)
  <2>1. PICK deps \in {{}} \union {{d} : d \in [task : Tasks, satisfiedWhen : {"done"}]} :
              h = History(three, "nobody", deps)
    BY <1>3
  <2>2. deps \in SUBSET Dependencies
    <3>1. "done" \in Statuses
      BY StatusesAre
    <3>2. [task : Tasks, satisfiedWhen : {"done"}] \subseteq Dependencies
      BY <3>1 DEF Dependencies
    <3>3. QED  BY <3>2
  <2>3. three \in [1 .. 3 -> Statuses] /\ \A i \in 1 .. 3 : three[i] # "running"
    <3>1. \A i \in 1 .. 3 : i = 1 \/ i = 2 \/ i = 3
      OBVIOUS
    <3>2. three[1] = "inbox" /\ three[2] = "triaged" /\ three[3] = "ready" /\ DOMAIN three = 1 .. 3
      OBVIOUS
    <3>3. QED  BY <3>1, <3>2, StatusesAre
  <2> HIDE DEF three
  <2>4. /\ h \in Seq(Events) /\ Len(h) = 3 /\ Replayed(h) \in TaskRecords
        /\ Replayed(h).version = 3
    <3>1. 3 \in Nat \ {0}
      OBVIOUS
    <3> DEFINE worker == "nobody"
               n == 3
    <3>2. h = History(three, worker, deps) /\ n \in Nat \ {0} /\ three \in [1 .. n -> Statuses]
          /\ \A i \in 1 .. n : three[i] # "running"
      BY <2>1, <2>3, <3>1
    <3> HIDE DEF worker, n
    <3>3. /\ h \in Seq(Events) /\ Len(h) = n /\ Replayed(h) \in TaskRecords
          /\ Replayed(h).version = n
      BY <2>2, <3>2, HistoryType
    <3>4. QED  BY <3>3 DEF n
  <2>5. QED  BY <1>2, <2>4
<1>4. CASE \E w \in Workers : h = History(four, w, {})
  <2>1. PICK w \in Workers : h = History(four, w, {})
    BY <1>4
  <2>2. four \in [1 .. 4 -> Statuses]
    <3>1. \A i \in 1 .. 4 : i = 1 \/ i = 2 \/ i = 3 \/ i = 4
      OBVIOUS
    <3>2. /\ four[1] = "inbox" /\ four[2] = "triaged" /\ four[3] = "ready" /\ four[4] = "running"
          /\ DOMAIN four = 1 .. 4
      OBVIOUS
    <3>3. QED  BY <3>1, <3>2, StatusesAre
  <2> HIDE DEF four
  <2>3. /\ h \in Seq(Events) /\ Len(h) = 4 /\ Replayed(h) \in TaskRecords
        /\ Replayed(h).version = 4
    <3>1. 4 \in Nat \ {0} /\ {} \in SUBSET Dependencies
      OBVIOUS
    <3> DEFINE n == 4
               deps == {}
    <3>2. h = History(four, w, deps) /\ n \in Nat \ {0} /\ four \in [1 .. n -> Statuses]
          /\ deps \in SUBSET Dependencies
      BY <2>1, <2>2, <3>1
    <3> HIDE DEF deps, n
    <3>3. /\ h \in Seq(Events) /\ Len(h) = n /\ Replayed(h) \in TaskRecords
          /\ Replayed(h).version = n
      BY <3>2, HistoryType
    <3>4. QED  BY <3>3 DEF n
  <2>4. QED  BY <1>2, <2>3
<1>5. QED  BY <1>1, <1>3, <1>4 DEF Histories

LEMMA InitIsInv == Init => Shape /\ BInv
<1>1. SUFFICES ASSUME Init PROVE Shape /\ BInv
  OBVIOUS
<1>2. ASSUME NEW t \in Tasks
      PROVE  /\ log[t] \in Seq(Events) /\ Durable(t) \in Boarded
             /\ Version(Durable(t)) = Len(log[t]) /\ (log[t] # <<>> => Durable(t) # NoTask)
  <2>1. log[t] \in Histories
    BY <1>1 DEF Init
  <2>2. QED  BY <2>1, HistoriesType DEF Durable
<1>3. LogNumbers
  BY <1>2 DEF LogNumbers
<1>4. log \in [Tasks -> Seq(Events)]
  BY <1>1, <1>2 DEF Init
<1>5. QED  BY <1>1, <1>3, <1>4, Rebuilt DEF Init

LEMMA NextKeeps == Shape /\ BInv /\ [Next]_vars => Shape' /\ BInv'
<1>1. SUFFICES ASSUME Shape, BInv, [Next]_vars PROVE Shape' /\ BInv'
  OBVIOUS
<1>2. ASSUME NEW p \in Clients,
             \/ Create(p) \/ Move(p) \/ Finish(p) \/ Hop(p) \/ Heartbeat(p)
             \/ Update(p) \/ Patch(p) \/ Comment(p)
             \/ ClaimNext(p) \/ ListReady(p) \/ Examine(p) \/ Claim(p)
             \/ ReclaimExpired(p) \/ Release(p) \/ Store(p) \/ Index(p)
      PROVE  Shape' /\ BInv'
  BY <1>1, <1>2, CreateKeeps, MoveKeeps, FinishKeeps, HopKeeps, HeartbeatKeeps, UpdateKeeps,
     PatchKeeps, CommentKeeps, ClaimNextKeeps, ListReadyKeeps, ExamineKeeps, ClaimKeeps,
     ReclaimExpiredKeeps, ReleaseKeeps, StoreKeeps, IndexKeeps
<1>3. QED  BY <1>1, <1>2, RestKeeps, RestartKeeps DEF Next

LEMMA InvHolds == Spec => [](Shape /\ BInv)
BY InitIsInv, NextKeeps, PTL DEF Spec

\* No other action moves a client from its append to its index.
LEMMA OnlyStoreStores ==
    ASSUME Shape, Next, NEW p \in Clients, job[p].at = "append", job'[p].at = "index"
    PROVE  Store(p)
<1>1. ASSUME NEW q \in Clients, q # p, NEW j, Becomes(q, j) PROVE FALSE
  BY <1>1 DEF Becomes, Shape
<1>2. ASSUME NEW q \in Clients, q # p, NEW j, NEW t, NEW seen, NEW event, NEW next,
             Commit(q, j, t, seen, event, next)
      PROVE  FALSE
  BY <1>1, <1>2 DEF Commit
<1>3. ASSUME NEW q \in Clients, q # p, NEW j, NEW t, NEW seen, NEW to, NEW claim,
             StartTransition(q, j, t, seen, to, claim)
      PROVE  FALSE
  BY <1>1, <1>2, <1>3 DEF StartTransition
<1>4. ASSUME NEW q \in Clients,
             \/ Create(q) \/ Move(q) \/ Finish(q) \/ Hop(q) \/ Heartbeat(q)
             \/ Update(q) \/ Patch(q) \/ Comment(q)
             \/ ClaimNext(q) \/ ListReady(q) \/ Examine(q) \/ Claim(q)
             \/ ReclaimExpired(q) \/ Release(q) \/ Store(q) \/ Index(q)
      PROVE  Store(p)
  <2>1. CASE q # p
    <3>1. CASE Create(q) \/ Move(q) \/ Finish(q) \/ Hop(q)
      BY <1>1, <1>2, <1>3, <2>1, <3>1 DEF Create, Move, Finish, Hop
    <3>2. CASE Heartbeat(q) \/ Update(q) \/ Patch(q) \/ Comment(q)
      BY <1>1, <1>2, <2>1, <3>2 DEF Heartbeat, Update, Patch, Comment
    <3>3. CASE ClaimNext(q) \/ ListReady(q) \/ Examine(q) \/ Claim(q)
      BY <1>1, <1>3, <2>1, <3>3 DEF ClaimNext, ListReady, Examine, Claim
    <3>4. CASE ReclaimExpired(q) \/ Release(q) \/ Store(q) \/ Index(q)
      BY <1>1, <1>3, <2>1, <3>4 DEF ReclaimExpired, Release, Store, Index
    <3>5. QED  BY <1>4, <3>1, <3>2, <3>3, <3>4
  <2>2. CASE q = p
    BY <1>4, <2>2 DEF Create, Move, Finish, Hop, Heartbeat, Update, Patch, Comment, Calls,
       ClaimNext, ListReady, Examine, Claim, ReclaimExpired, Release, Index
  <2>3. QED  BY <2>1, <2>2
<1>5. ~ Tick
  BY DEF Tick
<1>6. ~ Restart
  BY IdleOk DEF Restart
<1>7. QED  BY <1>4, <1>5, <1>6 DEF Next

-----------------------------------------------------------------------------
(* The theorems *)

\* Replaying a task's stream yields the task as the board shows it, or as the client
\* whose event was just stored is about to show it, up to updatedAt: nothing a worker
\* or a user relies on is lost when the process dies (ChronicleKanbanStore, #commit and
\* the rebuild), whatever was appended, refused or failed before.
THEOREM SurvivesRestart == Spec => []BoardIsReplay
<1>1. Shape /\ BInv => BoardIsReplay
  <2>1. SUFFICES ASSUME Shape, BInv PROVE BoardIsReplay
    OBVIOUS
  <2> DEFINE Shown(task) == IF task = NoTask THEN NoTask ELSE [task EXCEPT !.updatedAt = 0]
  <2>2. ASSUME NEW a \in Boarded, NEW b \in Boarded, Same(a, b)
        PROVE  Shown(a) = Shown(b)
    BY <2>2 DEF Same, Boarded, TaskRecords
  <2>3. ASSUME NEW t \in Tasks
        PROVE  IF Indexing(t) = {} THEN Shown(Durable(t)) = Shown(tasks[t])
               ELSE \A p \in Indexing(t) : Shown(Durable(t)) = Shown(job[p].next)
    <3>1. Durable(t) \in Boarded /\ tasks[t] \in Boarded
      BY <2>1 DEF Shape, BInv, LogNumbers
    <3>2. ASSUME NEW p \in Indexing(t) PROVE job[p].next \in Boarded
      BY <2>1 DEF Shape, Indexing, JobRecords
    <3> HIDE DEF Shown
    <3>3. CASE Indexing(t) = {}
      <4>1. Same(Durable(t), tasks[t])
        BY <2>1, <3>3 DEF BInv, BoardFollows
      <4>2. QED  BY <2>2, <3>1, <3>3, <4>1
    <3>4. CASE Indexing(t) # {}
      <4>1. \A p \in Indexing(t) : Same(Durable(t), job[p].next)
        BY <2>1 DEF BInv, BoardFollows
      <4>2. QED  BY <2>2, <3>1, <3>2, <3>4, <4>1
    <3>5. QED  BY <3>3, <3>4
  <2>4. QED  BY <2>3 DEF BoardIsReplay
<1>2. QED  BY <1>1, InvHolds, PTL

\* A heartbeat, a completion, a failure or a block is stored only while the durable
\* task still runs under the caller's lease, and reclaimExpired takes back only a task
\* whose present lease had lapsed when it read the clock (dispatcher.ts): the expected
\* version of the append carries what was checked on the board down to the log.
THEOREM LeasesFence == Spec => LeaseFencing
<1> DEFINE Fenced == \A p \in Clients : Stores(p) =>
                        LET task == Durable(job[p].task) IN
                        /\ job[p].op \in {"finish", "heartbeat"} =>
                              task.status = "running" /\ task.claim.lease = job[p].lease
                        /\ job[p].op = "reclaim" =>
                              task.status = "running" /\ task.claim.expires <= job[p].now
<1>1. Shape /\ BInv /\ [Next]_vars => [Fenced]_vars
  <2>1. SUFFICES ASSUME Shape, BInv, Next, NEW p \in Clients, Stores(p)
                 PROVE  LET task == Durable(job[p].task) IN
                        /\ job[p].op \in {"finish", "heartbeat"} =>
                              task.status = "running" /\ task.claim.lease = job[p].lease
                        /\ job[p].op = "reclaim" =>
                              task.status = "running" /\ task.claim.expires <= job[p].now
    OBVIOUS
  <2>2. job[p].at = "append" /\ job'[p].at = "index"
    BY <2>1 DEF Stores
  <2>3. Store(p)
    BY <2>1, <2>2, OnlyStoreStores
  <2>4. ~ Conflicts(log[job[p].task], <<job[p].event>>, job[p].seen + 1)
    <3>1. SUFFICES ASSUME Becomes(p, Idle) PROVE FALSE
      BY <2>3 DEF Store
    <3>2. job'[p] = Idle
      BY <2>1, <3>1 DEF Becomes, Shape
    <3>3. QED  BY <2>2, <3>2, IdleOk
  <2>5. Latest(job[p])
    BY <2>1, <2>2, <2>4, StoredIsLatest
  <2>6. JobOk(p, job[p])
    BY <2>1 DEF BInv
  <2>7. QED  BY <2>2, <2>5, <2>6 DEF JobOk, Holds, Lapsed
<1>2. QED  BY <1>1, InvHolds, PTL DEF Spec, LeaseFencing
-----------------------------------------------------------------------------
(* World: types, and the inductive invariant *)

Positions == Streams \X Nat
Names == Resources \union {Actor}
Times == [first : Nat, last : Nat]
EntityMaps == UNION {[D -> Times] : D \in SUBSET Names}
Worlds == [entities : EntityMaps, relations : SUBSET (Positions \X Resources)]
Scans == [world : Worlds, version : Nat, pending : Nat, drifted : Nat]
BumpEntries == [kind : {"bump"}, version : Nat, digest : Worlds \union {Bad}]
FactEntries == [kind : {"facts"}, at : Nat, relations : SUBSET (Positions \X Resources),
                entities : EntityMaps]
Entries == BumpEntries \union FactEntries

WorldShape ==
    /\ source \in [Streams -> Seq(SUBSET Resources)]
    /\ stream \in Seq(Entries)
    /\ phase \in {"down", "reading", "recording", "live"}
    /\ toRead \subseteq Streams /\ missed \subseteq Positions
    /\ world \in Worlds /\ version \in Nat
    /\ appended \in [world : Worlds, version : Nat]
    /\ Replay \in Scans /\ LastBump \in BumpEntries

\* The last bump was made of the state the stream replays to, or the replay knows
\* that something is wrong with it.
DigestsTell ==
    /\ LastBump.digest = Replay.world =>
          LastBump.version = Replay.version /\ Replay.pending = 0
    /\ LastBump.digest # Replay.world => Replay.pending # 0 \/ Replay.drifted # 0

\* Memory, or the record that is on its way there, is the replay.
MemoryFollows ==
    /\ phase = "down" \/ phase = "reading" => queue = <<>>
    /\ queue = <<>> => appended = Nothing
    /\ phase # "down" /\ appended = Nothing =>
          world = Replay.world /\ version = LastBump.version
    /\ appended # Nothing =>
          appended.world = Replay.world /\ appended.version = LastBump.version

Occurred == UNION {Wanted(s) : s \in Streams}

Covered(w, p) == Facts({p}) \subseteq w.relations /\ Named({p}) \subseteq DOMAIN w.entities

\* What waits to be recorded: the head of the queue may be on the stream already.
Waits(p) == \E i \in 1 .. Len(queue) : p \in queue[i] /\ (i = 1 => appended = Nothing)

\* Where every event of the sources is.
EventsAreKept ==
    /\ Replay.world.relations \subseteq Facts(Occurred)
    /\ caught \subseteq Occurred /\ queue \in Seq(SUBSET Occurred)
    /\ phase = "reading" =>
          \A s \in Streams : \A p \in Wanted(s) : p \in missed \/ p \in caught \/ s \in toRead
    /\ phase \in {"recording", "live"} =>
          /\ toRead = {}
          /\ \A p \in Occurred : p \in missed \/ Waits(p) \/ Covered(Replay.world, p)

WInv == WorldShape /\ DigestsTell /\ MemoryFollows /\ EventsAreKept
-----------------------------------------------------------------------------
(* World: the operators *)

\* Replaying one entry more is one more step.
LEMMA OneEntryMore ==
    ASSUME NEW s \in Seq(Entries), NEW e \in Entries
    PROVE  FoldLeft(Reread, Unread, Append(s, e)) = Reread(FoldLeft(Reread, Unread, s), e)
<1>1. \A u : FoldLeft(Reread, Unread, u) = W!Folding({}, Unread, u)
  BY DEF W!Folding, FoldLeft, W!FoldLeft, MapThenFoldSet, W!MapThenFoldSet, Max, W!Max
<1>2. W!Folding({}, Unread, Append(s, e)) = Reread(W!Folding({}, Unread, s), e)
  BY W!FoldsOneMore
<1>3. QED  BY <1>1, <1>2

\* A stream without entries replays to nothing.
LEMMA NoEntries == FoldLeft(Reread, Unread, <<>>) = Unread
<1>1. FoldLeft(Reread, Unread, <<>>) = W!Folding({}, Unread, <<>>)
  BY DEF W!Folding, FoldLeft, W!FoldLeft, MapThenFoldSet, W!MapThenFoldSet, Max, W!Max
<1>2. QED  BY <1>1, W!FoldsNothing

Bumped(s) == {i \in DOMAIN s : s[i].kind = "bump"}

\* The last entry of a stream that ends in a bump is its last bump.
LEMMA BumpIsLast ==
    ASSUME NEW s \in Seq(Entries), NEW e \in BumpEntries, NEW u, u = Append(s, e)
    PROVE  Bumped(u) # {} /\ u[Max(Bumped(u))] = e
<1> DEFINE n == Len(s) + 1
           B == Bumped(u)
<1>1. n \in Nat /\ DOMAIN u = 1 .. n /\ u[n] = e /\ e.kind = "bump"
  BY DEF BumpEntries
<1>2. n \in B /\ B \subseteq Int /\ \A y \in B : n >= y
  BY <1>1 DEF Bumped
<1> HIDE DEF n, B
<1>3. Max(B) = n
  <2>1. \A x \in B : (\A y \in B : x >= y) => x = n
    BY <1>2
  <2>2. QED  BY <1>2, <2>1 DEF Max
<1>4. QED  BY <1>1, <1>2, <1>3 DEF B

\* Merging yields entities: those there were and those named.
LEMMA MergedType ==
    ASSUME NEW entities \in EntityMaps, NEW ids \in SUBSET Names, NEW seenAt \in Nat
    PROVE  /\ Merged(entities, ids, seenAt) \in EntityMaps
           /\ DOMAIN Merged(entities, ids, seenAt) = DOMAIN entities \union ids
<1>1. PICK D \in SUBSET Names : entities \in [D -> Times]
  BY DEF EntityMaps
<1>2. \A e \in D \union ids :
        (IF e \notin ids THEN entities[e]
         ELSE [first |-> IF e \in DOMAIN entities THEN entities[e].first ELSE seenAt,
               last |-> seenAt]) \in Times
  BY <1>1 DEF Times
<1>3. Merged(entities, ids, seenAt) \in [D \union ids -> Times]
  BY <1>1, <1>2 DEF Merged
<1>4. QED  BY <1>1, <1>3 DEF EntityMaps

\* What is recorded is what folding its entry makes of the world.
LEMMA RecordedIsFolded ==
    ASSUME NEW positions, NEW at, NEW next, next = Recorded(positions, at),
           NEW entry, entry.at = at, entry.relations = Facts(positions),
           DOMAIN entry.entities = Named(positions)
    PROVE  Folded(world, entry) = next
BY DEF Folded, Recorded

\* Positions of events, and what they tell.
LEMMA EventsType ==
    ASSUME source \in [Streams -> Seq(SUBSET Resources)]
    PROVE  /\ Occurred \subseteq Positions
           /\ \A p : p \in Occurred <=>
                 \E s \in Streams : \E i \in 1 .. Len(source[s]) : p = <<s, i>> /\ source[s][i] # {}
           /\ \A P \in SUBSET Occurred :
                 Facts(P) \subseteq Positions \X Resources /\ Named(P) \subseteq Names
<1>1. \A p : p \in Occurred <=>
         \E s \in Streams : \E i \in 1 .. Len(source[s]) : p = <<s, i>> /\ source[s][i] # {}
  BY DEF Occurred, Wanted
<1>2. Occurred \subseteq Positions
  BY <1>1 DEF Positions
<1>3. ASSUME NEW P \in SUBSET Occurred
      PROVE  Facts(P) \subseteq Positions \X Resources /\ Named(P) \subseteq Names
  <2>1. \A p \in P : source[p[1]][p[2]] \subseteq Resources
    BY <1>1
  <2>2. Facts(P) \subseteq Positions \X Resources
    BY <1>2, <2>1 DEF Facts
  <2>3. \A f \in Facts(P) : f[2] \in Resources
    BY <2>2
  <2>4. QED  BY <2>2, <2>3 DEF Named, Names
<1>4. QED  BY <1>1, <1>2, <1>3

\* A record of several positions covers each of them, and covers what was covered.
LEMMA RecordCovers ==
    ASSUME NEW P, NEW at \in Nat, world \in Worlds, Named(P) \subseteq Names
    PROVE  /\ \A p \in P : Covered(Recorded(P, at), p)
           /\ \A p : Covered(world, p) => Covered(Recorded(P, at), p)
<1>1. /\ Recorded(P, at).relations = world.relations \union Facts(P)
      /\ DOMAIN Recorded(P, at).entities = DOMAIN world.entities \union Named(P)
  BY MergedType DEF Recorded, Worlds
<1>2. ASSUME NEW p \in P
      PROVE  Facts({p}) \subseteq Facts(P) /\ Named({p}) \subseteq Named(P)
  <2>1. Facts({p}) \subseteq Facts(P)
    BY DEF Facts
  <2>2. QED  BY <2>1 DEF Named
<1>3. QED  BY <1>1, <1>2 DEF Covered

-----------------------------------------------------------------------------
(* World: the steps *)

\* The replay and the last bump are the stream's.
LEMMA SameLog ==
    ASSUME UNCHANGED stream PROVE Replay' = Replay /\ LastBump' = LastBump
BY DEF Replay, LastBump, Bumps

\* Occurred, and what they tell, are the sources'.
LEMMA SameSource ==
    ASSUME UNCHANGED source
    PROVE  /\ Occurred' = Occurred /\ \A s \in Streams : Wanted(s)' = Wanted(s)
           /\ \A P : Facts(P)' = Facts(P)
           /\ \A w, p : Covered(w, p)' = Covered(w, p)
<1>1. \A s \in Streams : Wanted(s)' = Wanted(s)
  BY DEF Wanted
<1>2. Occurred' = Occurred
  BY <1>1 DEF Occurred
<1>3. \A P : Facts(P)' = Facts(P)
  BY DEF Facts
<1>4. \A P : Named(P)' = Named(P)
  BY <1>3 DEF Named
<1>5. QED  BY <1>1, <1>2, <1>3, <1>4 DEF Covered

\* An empty stream replays to an empty world.
LEMMA WorldInitHolds == WorldInit => WInv
<1> SUFFICES ASSUME WorldInit PROVE WInv
  OBVIOUS
<1>1. Empty \in Worlds /\ Empty.relations = {}
  <2>1. Nobody \in [{} -> Times]
    BY DEF Nobody
  <2>2. Nobody \in EntityMaps
    BY <2>1 DEF EntityMaps
  <2>3. QED  BY <2>2 DEF Empty, Worlds
<1>2. Replay = Unread /\ Unread \in Scans /\ Replay.world = Empty
  BY <1>1, NoEntries DEF WorldInit, Replay, Unread, Scans
<1>3. LastBump = Bump(0, Empty) /\ LastBump \in BumpEntries
  BY <1>1 DEF WorldInit, LastBump, Bumps, Bump, BumpEntries
<1>4. Nothing \in [world : Worlds, version : Nat]
  BY <1>1 DEF Nothing
<1>5. WorldShape
  BY <1>1, <1>2, <1>3, <1>4 DEF WorldInit, WorldShape
<1>6. DigestsTell
  BY <1>2, <1>3 DEF DigestsTell, Bump, Unread
<1>7. MemoryFollows
  BY DEF WorldInit, MemoryFollows
<1>8. EventsAreKept
  BY <1>1, <1>2 DEF WorldInit, EventsAreKept
<1>9. QED  BY <1>5, <1>6, <1>7, <1>8 DEF WInv

\* rebuild: the replay, corrected where its digests went wrong.
LEMMA StartKeeps == ASSUME WInv, Start PROVE WInv'
<1>1. /\ WorldShape /\ DigestsTell /\ MemoryFollows /\ EventsAreKept
      /\ phase = "down" /\ phase' = "reading" /\ queue = <<>> /\ appended = Nothing
      /\ UNCHANGED <<source, caught, queue, appended, missed>>
      /\ toRead' = {s \in Streams : source[s] # <<>>} /\ world' = Replay.world
  BY DEF WInv, Start, MemoryFollows
<1>2. Replay \in Scans /\ LastBump \in BumpEntries /\ stream \in Seq(Entries)
  BY <1>1 DEF WorldShape
<1>3. /\ stream' \in Seq(Entries) /\ version' \in Nat
      /\ Replay' \in Scans /\ LastBump' \in BumpEntries /\ DigestsTell'
      /\ Replay'.world = Replay.world /\ version' = LastBump'.version
  <2>1. CASE NeedsCorrection
    <3> DEFINE v == Corrected(Replay)
               e == Bump(v, Replay.world)
    <3>1. v \in Nat
      <4>1. ASSUME NEW a \in Nat, NEW b \in Nat, NEW c \in Nat
            PROVE  Max({a, b, c}) \in Nat
        <5>1. \E x \in {a, b, c} : \A y \in {a, b, c} : x >= y
          OBVIOUS
        <5>2. Max({a, b, c}) \in {a, b, c}
          BY <5>1 DEF Max
        <5>3. QED  BY <5>2
      <4>2. QED  BY <1>2, <4>1 DEF Corrected, Scans
    <3>2. e \in BumpEntries /\ e.kind = "bump" /\ e.version = v /\ e.digest = Replay.world
      BY <1>2, <3>1 DEF Bump, BumpEntries, Scans
    <3>3. stream' = Append(stream, e) /\ version' = v
      BY <2>1 DEF Start
    <3> HIDE DEF v, e
    <3>4. LastBump' = e
      <4>1. Bumps' = Bumped(stream')
        BY DEF Bumps, Bumped
      <4>2. Bumped(stream') # {} /\ stream'[Max(Bumped(stream'))] = e
        BY <1>2, <3>2, <3>3, BumpIsLast
      <4>3. QED  BY <4>1, <4>2 DEF LastBump
    <3>5. Replay' = Reread(Replay, e)
      BY <1>2, <3>2, <3>3, OneEntryMore DEF Replay, Entries
    <3>6. Replay' = [Replay EXCEPT !.version = v, !.pending = 0]
      BY <3>2, <3>5 DEF Reread, Verified
    <3>7. Replay' \in Scans /\ Replay'.world = Replay.world /\ Replay'.version = v
          /\ Replay'.pending = 0
      BY <1>2, <3>1, <3>6 DEF Scans
    <3>8. stream' \in Seq(Entries)
      BY <1>2, <3>2, <3>3 DEF Entries
    <3>9. QED  BY <3>1, <3>2, <3>3, <3>4, <3>7, <3>8 DEF DigestsTell
  <2>2. CASE ~ NeedsCorrection
    <3>1. version' = Replay.version /\ UNCHANGED stream
      BY <2>2 DEF Start
    <3>2. LastBump.digest = Replay.world
      BY <1>1, <2>2 DEF NeedsCorrection, DigestsTell
    <3>3. QED  BY <1>1, <1>2, <3>1, <3>2, SameLog DEF DigestsTell, Scans, WorldShape
  <2>3. QED  BY <2>1, <2>2
<1>4. WorldShape'
  BY <1>1, <1>2, <1>3 DEF WorldShape, Scans
<1>5. MemoryFollows'
  BY <1>1, <1>3 DEF MemoryFollows
<1>6. EventsAreKept'
  <2>1. \A s \in Streams : \A p \in Wanted(s) : s \in toRead'
    BY <1>1 DEF Wanted, WorldShape
  <2>2. QED  BY <1>1, <1>3, <2>1, SameSource DEF EventsAreKept
<1>7. QED  BY <1>3, <1>4, <1>5, <1>6 DEF WInv

\* The catch-up reads a stream: its events wait to be recorded.
LEMMA ReadStreamKeeps == ASSUME WInv, NEW s \in Streams, ReadStream(s) PROVE WInv'
<1>1. /\ WorldShape /\ DigestsTell /\ MemoryFollows /\ EventsAreKept
      /\ phase = "reading" /\ toRead' = toRead \ {s} /\ caught' = caught \union Wanted(s)
      /\ UNCHANGED <<source, stream, phase, queue, world, version, appended, missed>>
  BY DEF WInv, ReadStream
<1>2. Replay' = Replay /\ LastBump' = LastBump /\ Occurred' = Occurred
      /\ (\A d \in Streams : Wanted(d)' = Wanted(d)) /\ Facts(Occurred)' = Facts(Occurred)
  BY <1>1, SameLog, SameSource
<1>3. WorldShape' /\ DigestsTell' /\ MemoryFollows'
  BY <1>1, <1>2 DEF WorldShape, DigestsTell, MemoryFollows
<1>4. EventsAreKept'
  <2>1. Wanted(s) \subseteq Occurred
    BY DEF Occurred
  <2>2. QED  BY <1>1, <1>2, <2>1, SameSource DEF EventsAreKept
<1>5. QED  BY <1>3, <1>4 DEF WInv

\* One record for all that was read.
LEMMA CaughtUpKeeps == ASSUME WInv, CaughtUp PROVE WInv'
<1>1. /\ WorldShape /\ DigestsTell /\ MemoryFollows /\ EventsAreKept
      /\ phase = "reading" /\ toRead = {} /\ phase' = "recording"
      /\ queue = <<>> /\ appended = Nothing /\ queue' = Enqueued(caught)
      /\ UNCHANGED <<source, stream, toRead, caught, world, version, appended, missed>>
  BY DEF WInv, CaughtUp, MemoryFollows
<1>2. Replay' = Replay /\ LastBump' = LastBump /\ Occurred' = Occurred
      /\ Facts(Occurred)' = Facts(Occurred)
  BY <1>1, SameLog, SameSource
<1>3. queue' = IF caught = {} THEN <<>> ELSE <<caught>>
  BY <1>1 DEF Enqueued
<1>4. WorldShape' /\ DigestsTell'
  BY <1>1, <1>2 DEF WorldShape, DigestsTell
<1>5. MemoryFollows'
  BY <1>1, <1>2 DEF MemoryFollows
<1>6. ASSUME NEW p \in Occurred PROVE p \in missed \/ Waits(p)'
  <2>1. p \in missed \/ p \in caught
    BY <1>1 DEF EventsAreKept, Occurred
  <2>2. ASSUME p \in caught PROVE Waits(p)'
    <3>1. queue' = <<caught>>
      BY <1>3, <2>2
    <3>2. 1 \in 1 .. Len(queue') /\ queue'[1] = caught
      BY <3>1
    <3>3. QED  BY <1>1, <2>2, <3>2 DEF Waits
  <2>3. QED  BY <2>1, <2>2
<1>7. EventsAreKept'
  <2>1. queue' \in Seq(SUBSET Occurred)
    <3>1. caught \in SUBSET Occurred
      BY <1>1 DEF EventsAreKept
    <3>2. << >> \in Seq(SUBSET Occurred) /\ <<caught>> \in Seq(SUBSET Occurred)
      BY <3>1
    <3>3. QED  BY <1>3, <3>2
  <2>2. \A p \in Occurred : p \in missed' \/ Waits(p)' \/ Covered(Replay.world, p)'
    BY <1>1, <1>6
  <2>3. QED  BY <1>1, <1>2, <2>1, <2>2 DEF EventsAreKept
<1>8. QED  BY <1>4, <1>5, <1>7 DEF WInv

\* The subscription begins when all is recorded.
LEMMA SubscribeKeeps == ASSUME WInv, Subscribe PROVE WInv'
<1>1. /\ WorldShape /\ DigestsTell /\ MemoryFollows /\ EventsAreKept
      /\ phase = "recording" /\ phase' = "live"
      /\ UNCHANGED <<source, stream, toRead, caught, queue, world, version, appended, missed>>
  BY DEF WInv, Subscribe
<1>2. Replay' = Replay /\ LastBump' = LastBump /\ Occurred' = Occurred
      /\ Facts(Occurred)' = Facts(Occurred)
  BY <1>1, SameLog, SameSource
<1>3. \A p : Waits(p)' <=> Waits(p)
  BY <1>1 DEF Waits
<1>4. \A p : Covered(Replay.world, p)' = Covered(Replay.world, p)
  BY <1>1, <1>2, SameSource
<1>5. WorldShape' /\ DigestsTell' /\ MemoryFollows'
  BY <1>1, <1>2 DEF WorldShape, DigestsTell, MemoryFollows
<1>6. EventsAreKept'
  BY <1>1, <1>2, <1>3, <1>4 DEF EventsAreKept
<1>7. QED  BY <1>5, <1>6 DEF WInv

\* An event is appended to a source: it is heard, or read later, or missed.
LEMMA AppendSourceKeeps ==
    ASSUME WInv, NEW s \in Streams, NEW names \in SUBSET Resources, AppendSource(s, names)
    PROVE  WInv'
<1>0. PICK n : n = Len(source[s]) + 1
  OBVIOUS
<1> DEFINE e == <<s, n>>
<1>1. /\ WorldShape /\ DigestsTell /\ MemoryFollows /\ EventsAreKept /\ phase # "down"
      /\ source' = [source EXCEPT ![s] = Append(@, names)] /\ Broadcast(s, e, names)
      /\ UNCHANGED <<stream, phase, toRead, caught, world, version, appended>>
  BY <1>0 DEF WInv, AppendSource
<1>2. source \in [Streams -> Seq(SUBSET Resources)] /\ source' \in [Streams -> Seq(SUBSET Resources)]
      /\ n \in Nat /\ e \in Positions
  BY <1>0, <1>1 DEF WorldShape, Positions
<1>3. Replay' = Replay /\ LastBump' = LastBump
  BY <1>1, SameLog
<1>4. /\ \A d \in Streams : \A i \in 1 .. Len(source[d]) :
            i \in 1 .. Len(source'[d]) /\ source'[d][i] = source[d][i]
      /\ \A d \in Streams : \A i \in 1 .. Len(source'[d]) :
            i \in 1 .. Len(source[d]) \/ (d = s /\ i = n /\ source'[d][i] = names)
  BY <1>0, <1>1, <1>2
<1>5. Occurred \subseteq Occurred'
      /\ \A p \in Occurred' : p \in Occurred \/ (p = e /\ names # {})
  <2>1. \A p : p \in Occurred <=>
           \E d \in Streams : \E i \in 1 .. Len(source[d]) : p = <<d, i>> /\ source[d][i] # {}
    BY <1>2, EventsType
  <2>2. \A p : p \in Occurred' <=>
           \E d \in Streams : \E i \in 1 .. Len(source'[d]) : p = <<d, i>> /\ source'[d][i] # {}
    BY DEF Occurred, Wanted
  <2>3. QED  BY <1>4, <2>1, <2>2
<1>6. \A P \in SUBSET Occurred : Facts(P)' = Facts(P) /\ Named(P)' = Named(P)
  <2>1. ASSUME NEW P \in SUBSET Occurred PROVE Facts(P)' = Facts(P)
    <3>1. \A p \in P : source'[p[1]][p[2]] = source[p[1]][p[2]]
      BY <1>2, <1>4, EventsType
    <3>2. QED  BY <3>1 DEF Facts
  <2>2. QED  BY <2>1 DEF Named
<1>7. /\ \A p \in Occurred : Covered(Replay.world, p)' = Covered(Replay.world, p)
      /\ Facts(Occurred) \subseteq Facts(Occurred)'
  <2>1. \A p \in Occurred : Covered(Replay.world, p)' = Covered(Replay.world, p)
    BY <1>3, <1>6 DEF Covered
  <2>2. \A p \in Occurred : p \in Occurred' /\ source'[p[1]][p[2]] = source[p[1]][p[2]]
    BY <1>2, <1>4, <1>5, EventsType
  <2>3. Facts(Occurred) \subseteq Facts(Occurred)'
    BY <2>2 DEF Facts
  <2>4. QED  BY <2>1, <2>3
<1> HIDE DEF e
<1>8. CASE phase = "live" /\ names # {}
  <2>1. queue' = Append(queue, {e}) /\ missed' = missed
    BY <1>1, <1>8 DEF Broadcast
  <2>2. e \in Occurred'
    <3>1. \A p : p \in Occurred' <=>
             \E d \in Streams : \E i \in 1 .. Len(source'[d]) : p = <<d, i>> /\ source'[d][i] # {}
      BY DEF Occurred, Wanted
    <3>2. n \in 1 .. Len(source'[s]) /\ source'[s][n] = names
      BY <1>0, <1>1, <1>2
    <3>3. QED  BY <1>8, <3>1, <3>2 DEF e
  <2>3. queue \in Seq(SUBSET Occurred') /\ queue' \in Seq(SUBSET Occurred')
    <3>1. SUBSET Occurred \subseteq SUBSET Occurred' /\ queue \in Seq(SUBSET Occurred)
      BY <1>1, <1>5 DEF EventsAreKept
    <3>2. {e} \in SUBSET Occurred'
      BY <2>2
    <3>3. QED  BY <2>1, <3>1, <3>2
  <2>4. Waits(e)' /\ \A p : Waits(p) => Waits(p)'
    <3>1. /\ Len(queue') = Len(queue) + 1 /\ queue'[Len(queue')] = {e} /\ Len(queue) \in Nat
          /\ \A i \in 1 .. Len(queue) : i \in 1 .. Len(queue') /\ queue'[i] = queue[i]
      BY <2>1, <2>3
    <3>2. \A p : Waits(p) => Waits(p)'
      BY <1>1, <3>1 DEF Waits
    <3>3. Waits(e)'
      <4>1. Len(queue') \in 1 .. Len(queue') /\ e \in queue'[Len(queue')]
        BY <3>1
      <4>2. Len(queue') = 1 => queue = <<>>
        BY <2>3, <3>1
      <4>3. Len(queue') = 1 => appended' = Nothing
        BY <1>1, <4>2 DEF MemoryFollows
      <4>4. QED  BY <4>1, <4>3 DEF Waits
    <3>4. QED  BY <3>2, <3>3
  <2>5. WorldShape' /\ DigestsTell'
    BY <1>1, <1>2, <1>3, <2>1 DEF WorldShape, DigestsTell
  <2>6. MemoryFollows'
    <3>1. queue' # <<>>
      BY <2>1, <2>3
    <3>2. QED  BY <1>1, <1>3, <1>8, <3>1 DEF MemoryFollows
  <2>7. EventsAreKept'
    <3>1. toRead = {} /\ \A p \in Occurred : p \in missed \/ Waits(p) \/ Covered(Replay.world, p)
      BY <1>1, <1>8 DEF EventsAreKept
    <3>2. \A p \in Occurred' : p \in missed' \/ Waits(p)' \/ Covered(Replay.world, p)'
      BY <1>5, <1>7, <2>1, <2>4, <3>1
    <3>3. /\ Replay'.world.relations \subseteq Facts(Occurred)'
          /\ caught' \subseteq Occurred'
      BY <1>1, <1>3, <1>5, <1>7 DEF EventsAreKept
    <3>4. QED  BY <1>1, <1>8, <2>3, <3>1, <3>2, <3>3 DEF EventsAreKept
  <2>8. QED  BY <2>5, <2>6, <2>7 DEF WInv
<1>9. CASE ~ (phase = "live" /\ names # {})
  <2>1. /\ queue' = queue
        /\ missed' = IF names # {} /\ s \notin toRead THEN missed \union {e} ELSE missed
    BY <1>1, <1>9 DEF Broadcast
  <2>2. \A p : Waits(p)' <=> Waits(p)
    BY <1>1, <2>1 DEF Waits
  <2>3. WorldShape' /\ DigestsTell' /\ MemoryFollows'
    BY <1>1, <1>2, <1>3, <2>1 DEF WorldShape, DigestsTell, MemoryFollows
  <2>4. queue' \in Seq(SUBSET Occurred')
    <3>1. SUBSET Occurred \subseteq SUBSET Occurred' /\ queue \in Seq(SUBSET Occurred)
      BY <1>1, <1>5 DEF EventsAreKept
    <3>2. QED  BY <2>1, <3>1
  <2>5. ASSUME phase = "reading"
        PROVE  \A d \in Streams : \A p \in Wanted(d)' :
                  p \in missed' \/ p \in caught \/ d \in toRead
    <3>1. SUFFICES ASSUME NEW d \in Streams, NEW p \in Wanted(d)'
                   PROVE  p \in missed' \/ p \in caught \/ d \in toRead
      OBVIOUS
    <3>2. p \in Wanted(d) \/ (d = s /\ p = e /\ names # {})
      BY <1>4 DEF Wanted, e
    <3>3. QED  BY <1>1, <2>1, <2>5, <3>2 DEF EventsAreKept
  <2>6. ASSUME phase \in {"recording", "live"}
        PROVE  /\ toRead = {}
               /\ \A p \in Occurred' : p \in missed' \/ Waits(p)' \/ Covered(Replay.world, p)'
    BY <1>1, <1>5, <1>7, <2>1, <2>2, <2>6 DEF EventsAreKept
  <2>7. EventsAreKept'
    <3>1. /\ Replay'.world.relations \subseteq Facts(Occurred)'
          /\ caught' \subseteq Occurred'
      BY <1>1, <1>3, <1>5, <1>7 DEF EventsAreKept
    <3>2. QED  BY <1>1, <2>4, <2>5, <2>6, <3>1 DEF EventsAreKept
  <2>8. QED  BY <2>3, <2>7 DEF WInv
<1>10. QED  BY <1>8, <1>9

\* What waited behind the head of the queue still waits when the head is gone.
LEMMA QueueMovesOn ==
    ASSUME WInv, queue # <<>>, queue' = Tail(queue), appended' = Nothing
    PROVE  /\ queue' \in Seq(SUBSET Occurred) /\ Head(queue) \subseteq Occurred
           /\ \A p : Waits(p) => Waits(p)' \/ (p \in Head(queue) /\ appended = Nothing)
<1>1. queue \in Seq(SUBSET Occurred) /\ Head(queue) = queue[1] /\ Len(queue) \in Nat \ {0}
  BY DEF WInv, EventsAreKept
<1>2. /\ queue' \in Seq(SUBSET Occurred) /\ Head(queue) \subseteq Occurred
      /\ Len(queue') = Len(queue) - 1 /\ \A i \in 2 .. Len(queue) : queue'[i - 1] = queue[i]
  BY <1>1
<1>3. ASSUME NEW p, NEW i \in 1 .. Len(queue), p \in queue[i], i = 1 => appended = Nothing
      PROVE  Waits(p)' \/ (p \in Head(queue) /\ appended = Nothing)
  <2>1. CASE i = 1
    BY <1>1, <1>3, <2>1
  <2>2. CASE i # 1
    <3>1. i \in 2 .. Len(queue) /\ i - 1 \in 1 .. Len(queue')
      BY <1>1, <1>2, <2>2
    <3>2. p \in queue'[i - 1]
      BY <1>2, <1>3, <3>1
    <3>3. QED  BY <3>1, <3>2 DEF Waits
  <2>3. QED  BY <2>1, <2>2
<1>4. QED  BY <1>2, <1>3 DEF Waits

\* The append is refused: the input is dropped, the world stays.
LEMMA RecordFailsKeeps == ASSUME WInv, RecordFails PROVE WInv'
<1>1. /\ WorldShape /\ DigestsTell /\ MemoryFollows /\ EventsAreKept
      /\ queue # <<>> /\ appended = Nothing /\ queue' = Tail(queue)
      /\ missed' = missed \union Head(queue)
      /\ UNCHANGED <<source, stream, phase, toRead, caught, world, version, appended>>
  BY DEF WInv, RecordFails
<1>2. Replay' = Replay /\ LastBump' = LastBump /\ Occurred' = Occurred
      /\ Facts(Occurred)' = Facts(Occurred) /\ Occurred \subseteq Positions
      /\ \A p : Covered(Replay.world, p)' = Covered(Replay.world, p)
  BY <1>1, SameLog, SameSource, EventsType DEF WorldShape
<1>3. /\ queue' \in Seq(SUBSET Occurred) /\ Head(queue) \subseteq Occurred
      /\ \A p : Waits(p) => Waits(p)' \/ p \in missed'
  BY <1>1, QueueMovesOn
<1>4. WorldShape' /\ DigestsTell'
  BY <1>1, <1>2, <1>3 DEF WorldShape, DigestsTell
<1>5. MemoryFollows'
  BY <1>1, <1>2 DEF MemoryFollows
<1>6. EventsAreKept'
  <2>1. phase # "reading"
    BY <1>1 DEF MemoryFollows
  <2>2. ASSUME phase \in {"recording", "live"}
        PROVE  /\ toRead = {}
               /\ \A p \in Occurred : p \in missed' \/ Waits(p)' \/ Covered(Replay.world, p)'
    BY <1>1, <1>2, <1>3, <2>2 DEF EventsAreKept
  <2>3. QED  BY <1>1, <1>2, <1>3, <2>1, <2>2 DEF EventsAreKept
<1>7. QED  BY <1>4, <1>5, <1>6 DEF WInv

\* record() resolves: what it appended is in memory.
LEMMA RecordEndsKeeps == ASSUME WInv, RecordEnds PROVE WInv'
<1>1. /\ WorldShape /\ DigestsTell /\ MemoryFollows /\ EventsAreKept
      /\ appended # Nothing /\ appended' = Nothing /\ queue' = Tail(queue)
      /\ world' = appended.world /\ version' = appended.version
      /\ UNCHANGED <<source, stream, phase, toRead, caught, missed>>
  BY DEF WInv, RecordEnds
<1>2. Replay' = Replay /\ LastBump' = LastBump /\ Occurred' = Occurred
      /\ Facts(Occurred)' = Facts(Occurred)
      /\ \A p : Covered(Replay.world, p)' = Covered(Replay.world, p)
  BY <1>1, SameLog, SameSource
<1>3. queue # <<>>
  BY <1>1 DEF MemoryFollows
<1>4. queue' \in Seq(SUBSET Occurred) /\ \A p : Waits(p) => Waits(p)'
  BY <1>1, <1>3, QueueMovesOn
<1>5. WorldShape' /\ DigestsTell'
  <2>1. Nothing \in [world : Worlds, version : Nat]
    <3>1. Nobody \in [{} -> Times]
      BY DEF Nobody
    <3>2. Nobody \in EntityMaps
      BY <3>1 DEF EntityMaps
    <3>3. QED  BY <3>2 DEF Nothing, Empty, Worlds
  <2>2. QED  BY <1>1, <1>2, <2>1 DEF WorldShape, DigestsTell
<1>6. MemoryFollows'
  BY <1>1, <1>2, <1>3 DEF MemoryFollows
<1>7. EventsAreKept'
  <2>1. phase # "reading"
    BY <1>1, <1>3 DEF MemoryFollows
  <2>2. ASSUME phase \in {"recording", "live"}
        PROVE  /\ toRead = {}
               /\ \A p \in Occurred : p \in missed \/ Waits(p)' \/ Covered(Replay.world, p)'
    BY <1>1, <1>2, <1>4, <2>2 DEF EventsAreKept
  <2>3. QED  BY <1>1, <1>2, <1>4, <2>1, <2>2 DEF EventsAreKept
<1>8. QED  BY <1>5, <1>6, <1>7 DEF WInv

\* A record on the stream makes the replay the world that was recorded, whatever
\* its digest says.
LEMMA RecordStoredKeeps == ASSUME WInv, NEW digest, RecordStored(digest) PROVE WInv'
<1>1. /\ WorldShape /\ DigestsTell /\ MemoryFollows /\ EventsAreKept
      /\ queue # <<>> /\ appended = Nothing
      /\ UNCHANGED <<source, phase, toRead, caught, queue, world, version, missed>>
  BY DEF WInv, RecordStored
<1>2. PICK batch, at, next, sum :
        /\ batch = Head(queue) /\ at = Now /\ next = Recorded(batch, at)
        /\ sum \in {Bad, next}
        /\ stream' = stream \o <<Entry(batch, next), Bump(version + 1, sum)>>
        /\ appended' = [world |-> next, version |-> version + 1]
  BY DEF RecordStored
<1>3. /\ Replay \in Scans /\ LastBump \in BumpEntries /\ stream \in Seq(Entries)
      /\ at \in Nat /\ world \in Worlds /\ version \in Nat
      /\ world = Replay.world /\ version = LastBump.version /\ phase # "down"
  BY <1>1, <1>2 DEF WorldShape, MemoryFollows, Now
<1>4. batch \in SUBSET Occurred /\ batch = queue[1]
  BY <1>1, <1>2 DEF EventsAreKept
<1>5. Facts(batch) \subseteq Positions \X Resources /\ Named(batch) \subseteq Names
      /\ Facts(batch) \subseteq Facts(Occurred)
  <2>1. Facts(batch) \subseteq Facts(Occurred)
    BY <1>4 DEF Facts
  <2>2. QED  BY <1>1, <1>4, <2>1, EventsType DEF WorldShape
<1>6. /\ next \in Worlds /\ next.relations = world.relations \union Facts(batch)
      /\ Named(batch) \subseteq DOMAIN next.entities
  <2>1. world.entities \in EntityMaps /\ world.relations \in SUBSET (Positions \X Resources)
    BY <1>3 DEF Worlds
  <2>2. /\ Merged(world.entities, Named(batch), at) \in EntityMaps
        /\ DOMAIN Merged(world.entities, Named(batch), at) = DOMAIN world.entities \union Named(batch)
    BY <1>3, <1>5, <2>1, MergedType
  <2>3. next = [entities |-> Merged(world.entities, Named(batch), at),
                relations |-> world.relations \union Facts(batch)]
    BY <1>2 DEF Recorded
  <2>4. QED  BY <1>5, <2>1, <2>2, <2>3 DEF Worlds
<1> DEFINE f == Entry(batch, next)
           b == Bump(version + 1, sum)
<1>7. /\ f \in FactEntries /\ f.kind = "facts" /\ f.at = at /\ f.relations = Facts(batch)
      /\ DOMAIN f.entities = Named(batch)
  <2>1. [e \in Named(batch) |-> next.entities[e]] \in EntityMaps
    <3>1. PICK D \in SUBSET Names : next.entities \in [D -> Times]
      BY <1>6 DEF Worlds, EntityMaps
    <3>2. Named(batch) \subseteq D
      BY <1>6, <3>1
    <3>3. [e \in Named(batch) |-> next.entities[e]] \in [Named(batch) -> Times]
      BY <3>1, <3>2
    <3>4. QED  BY <1>5, <3>3 DEF EntityMaps
  <2>2. QED  BY <1>2, <1>3, <1>5, <2>1 DEF Entry, FactEntries
<1>8. b \in BumpEntries /\ b.kind = "bump" /\ b.version = version + 1 /\ b.digest = sum
  BY <1>2, <1>3, <1>6 DEF Bump, BumpEntries
<1>9. /\ stream' = Append(Append(stream, f), b)
      /\ Append(stream, f) \in Seq(Entries) /\ stream' \in Seq(Entries)
  <2>1. f \in Entries /\ b \in Entries
    BY <1>7, <1>8 DEF Entries
  <2> HIDE DEF f, b
  <2>2. QED  BY <1>2, <1>3, <2>1 DEF f, b
<1> HIDE DEF f, b
<1>10. Replay' = Reread([Replay EXCEPT !.world = next], b)
  <2>1. Replay' = Reread(FoldLeft(Reread, Unread, Append(stream, f)), b)
    BY <1>8, <1>9, OneEntryMore DEF Replay, Entries
  <2>2. FoldLeft(Reread, Unread, Append(stream, f)) = Reread(Replay, f)
    BY <1>3, <1>7, OneEntryMore DEF Replay, Entries
  <2>3. Reread(Replay, f) = [Replay EXCEPT !.world = Folded(Replay.world, f)]
    BY <1>7 DEF Reread
  <2>4. Folded(Replay.world, f) = next
    BY <1>2, <1>3, <1>7, RecordedIsFolded
  <2>5. QED  BY <2>1, <2>2, <2>3, <2>4
<1>11. LastBump' = b
  <2>1. Bumps' = Bumped(stream')
    BY DEF Bumps, Bumped
  <2>2. Bumped(stream') # {} /\ stream'[Max(Bumped(stream'))] = b
    BY <1>8, <1>9, BumpIsLast
  <2>3. QED  BY <2>1, <2>2 DEF LastBump
<1>12. Replay' \in Scans /\ Replay'.world = next /\ DigestsTell'
  <2> DEFINE mid == [Replay EXCEPT !.world = next]
  <2>1. /\ mid \in Scans /\ mid.world = next
        /\ mid.version = Replay.version /\ mid.pending = Replay.pending
    BY <1>3, <1>6 DEF Scans
  <2> HIDE DEF mid
  <2>2. Replay' = Verified(mid, b)
    BY <1>8, <1>10 DEF Reread, mid
  <2>3. CASE b.digest = next
    <3>1. Replay' = [mid EXCEPT !.version = b.version, !.pending = 0]
      BY <2>1, <2>2, <2>3 DEF Verified
    <3>2. ASSUME NEW r \in Scans, NEW n \in Nat, NEW u, u = [r EXCEPT !.version = n, !.pending = 0]
          PROVE  u \in Scans /\ u.world = r.world /\ u.version = n /\ u.pending = 0
      BY <3>2 DEF Scans
    <3>3. b.version \in Nat
      BY <1>3, <1>8
    <3>4. \A u : u = [mid EXCEPT !.version = b.version, !.pending = 0]
                   => u \in Scans /\ u.world = mid.world /\ u.version = b.version /\ u.pending = 0
      BY <2>1, <3>2, <3>3
    <3>5. /\ Replay' \in Scans /\ Replay'.world = next /\ Replay'.version = b.version
          /\ Replay'.pending = 0
      BY <2>1, <3>1, <3>4
    <3>6. QED  BY <1>8, <1>11, <2>3, <3>5 DEF DigestsTell
  <2>4. CASE b.digest # next /\ mid.pending = 0
    <3>1. Replay' = [mid EXCEPT !.pending = b.version]
      BY <2>1, <2>2, <2>4 DEF Verified
    <3>2. QED  BY <1>3, <1>8, <1>11, <2>1, <2>4, <3>1 DEF Scans, DigestsTell
  <2>5. CASE b.digest # next /\ mid.pending # 0
    <3> DEFINE v == Max({mid.version, b.version})
    <3>1. Replay' = [mid EXCEPT !.drifted = mid.pending, !.pending = 0, !.version = v]
      BY <2>1, <2>2, <2>5 DEF Verified
    <3>2. v \in Nat
      <4>1. ASSUME NEW x \in Nat, NEW y \in Nat PROVE Max({x, y}) \in Nat
        <5>1. \E m \in {x, y} : \A z \in {x, y} : m >= z
          OBVIOUS
        <5>2. Max({x, y}) \in {x, y}
          BY <5>1 DEF Max
        <5>3. QED  BY <5>2
      <4>2. mid.version \in Nat /\ b.version \in Nat
        BY <1>3, <1>8, <2>1 DEF Scans
      <4>3. QED  BY <4>1, <4>2
    <3> HIDE DEF v
    <3>3. QED  BY <1>3, <1>11, <2>1, <2>5, <3>1, <3>2 DEF Scans, DigestsTell
  <2>6. QED  BY <2>3, <2>4, <2>5
<1>13. /\ appended' \in [world : Worlds, version : Nat] /\ appended' # Nothing
       /\ appended'.world = next /\ appended'.version = version + 1
  BY <1>2, <1>3, <1>6 DEF Nothing
<1>14. WorldShape'
  BY <1>1, <1>8, <1>9, <1>11, <1>12, <1>13 DEF WorldShape
<1>15. MemoryFollows'
  BY <1>1, <1>8, <1>11, <1>12, <1>13 DEF MemoryFollows
<1>16. EventsAreKept'
  <2>1. Occurred' = Occurred /\ Facts(Occurred)' = Facts(Occurred)
        /\ \A w, p : Covered(w, p)' = Covered(w, p)
    BY <1>1, SameSource
  <2>2. /\ \A p \in batch : Covered(next, p)
        /\ \A p : Covered(world, p) => Covered(next, p)
    BY <1>2, <1>3, <1>5, RecordCovers
  <2>3. \A p : Waits(p) => Waits(p)' \/ p \in batch
    BY <1>1, <1>4 DEF Waits
  <2>4. next.relations \subseteq Facts(Occurred)
    BY <1>1, <1>3, <1>5, <1>6 DEF EventsAreKept
  <2>5. phase # "reading"
    BY <1>1 DEF MemoryFollows
  <2>6. \A p : Covered(Replay.world, p)' <=> Covered(next, p)
    BY <1>12, <2>1 DEF Covered
  <2>7. ASSUME phase \in {"recording", "live"}
        PROVE  /\ toRead = {}
               /\ \A p \in Occurred : p \in missed \/ Waits(p)' \/ Covered(Replay.world, p)'
    <3>1. \A p \in Occurred : p \in missed \/ Waits(p) \/ Covered(world, p)
      BY <1>1, <1>3, <2>7 DEF EventsAreKept
    <3>2. QED  BY <1>1, <2>2, <2>3, <2>6, <2>7, <3>1 DEF EventsAreKept
  <2>8. QED  BY <1>1, <1>12, <2>1, <2>4, <2>5, <2>7 DEF EventsAreKept
<1>17. QED  BY <1>12, <1>14, <1>15, <1>16 DEF WInv

\* The process ends: what a start reads is on the streams.
LEMMA WorldEndsKeeps == ASSUME WInv, Crash PROVE WInv'
<1>1. /\ WorldShape /\ DigestsTell /\ EventsAreKept
      /\ phase' = "down" /\ toRead' = {} /\ caught' = {} /\ queue' = <<>>
      /\ world' = Empty /\ version' = 0 /\ appended' = Nothing /\ missed' = {}
      /\ UNCHANGED <<source, stream>>
  BY DEF WInv, Crash
<1>2. Replay' = Replay /\ LastBump' = LastBump /\ Occurred' = Occurred
      /\ Facts(Occurred)' = Facts(Occurred)
  BY <1>1, SameLog, SameSource
<1>3. Empty \in Worlds /\ Nothing \in [world : Worlds, version : Nat]
  <2>1. Nobody \in [{} -> Times]
    BY DEF Nobody
  <2>2. Nobody \in EntityMaps
    BY <2>1 DEF EntityMaps
  <2>3. QED  BY <2>2 DEF Nothing, Empty, Worlds
<1>4. WorldShape' /\ DigestsTell'
  BY <1>1, <1>2, <1>3 DEF WorldShape, DigestsTell
<1>5. MemoryFollows'
  BY <1>1 DEF MemoryFollows
<1>6. EventsAreKept'
  BY <1>1, <1>2 DEF EventsAreKept
<1>7. QED  BY <1>4, <1>5, <1>6 DEF WInv

\* The invariant holds in every reachable state.
LEMMA WInvAlways == WorldSpec => []WInv
<1>1. WInv /\ [WorldNext]_worldVars => WInv'
  <2> SUFFICES ASSUME WInv, [WorldNext]_worldVars PROVE WInv'
    OBVIOUS
  <2>1. CASE StartFails \/ UNCHANGED worldVars
    <3>1. UNCHANGED <<source, stream, phase, toRead, caught, queue, world, version, appended,
                   missed>>
      BY <2>1 DEF StartFails, worldVars
    <3>2. Replay' = Replay /\ LastBump' = LastBump /\ Occurred' = Occurred
          /\ Facts(Occurred)' = Facts(Occurred) /\ \A s \in Streams : Wanted(s)' = Wanted(s)
      BY <3>1, SameLog, SameSource
    <3>3. \A p : (Waits(p)' <=> Waits(p)) /\ Covered(Replay.world, p)' = Covered(Replay.world, p)
      BY <3>1, <3>2, SameSource DEF Waits
    <3>4. WorldShape' /\ DigestsTell' /\ MemoryFollows'
      BY <3>1, <3>2 DEF WInv, WorldShape, DigestsTell, MemoryFollows
    <3>5. EventsAreKept'
      BY <3>1, <3>2, <3>3 DEF WInv, EventsAreKept
    <3>6. QED  BY <3>4, <3>5 DEF WInv
  <2>2. QED  BY <2>1, StartKeeps, ReadStreamKeeps, CaughtUpKeeps, SubscribeKeeps, AppendSourceKeeps,
                RecordStoredKeeps, RecordEndsKeeps, RecordFailsKeeps, WorldEndsKeeps DEF WorldNext
<1>2. QED  BY <1>1, WorldInitHolds, PTL DEF WorldSpec

\* What is in memory is what a rebuild would make of the stream now, whatever
\* failed, crashed or was mis-digested (world.ts #recordNow, rebuild).
THEOREM WorldSurvives == WorldSpec => []WorldIsReplay
<1>1. WInv => WorldIsReplay
  BY DEF WInv, MemoryFollows, WorldIsReplay
<1>2. QED  BY <1>1, WInvAlways, PTL

\* A quiet world holds the facts of every event on the streams, but for those
\* whose record failed or that nobody heard in this start, and of nothing else
\* (world-runtime.ts start, #enqueue).
THEOREM WorldProjects == WorldSpec => []WorldIsProjection
<1>1. WInv => WorldIsProjection
  <2> SUFFICES ASSUME WInv, phase = "live", queue = <<>>
               PROVE  /\ Facts(Occurred \ missed) \subseteq world.relations
                      /\ world.relations \subseteq Facts(Occurred)
                      /\ Named(Occurred \ missed) \subseteq DOMAIN world.entities
    BY DEF WorldIsProjection, Occurred
  <2>1. world = Replay.world /\ world.relations \subseteq Facts(Occurred)
    BY DEF WInv, MemoryFollows, EventsAreKept
  <2>2. \A p \in Occurred \ missed : Covered(world, p)
    BY <2>1 DEF WInv, EventsAreKept, Waits
  <2>3. Facts(Occurred \ missed) \subseteq world.relations
    BY <2>2 DEF Covered, Facts
  <2>4. ASSUME NEW x \in Named(Occurred \ missed)
        PROVE  x \in DOMAIN world.entities
    <3>1. PICK p \in Occurred \ missed : x = Actor \/ \E f \in Facts({p}) : x = f[2]
      BY <2>4 DEF Named, Facts
    <3>2. x \in Named({p})
      BY <3>1 DEF Named
    <3>3. QED  BY <2>2, <3>2 DEF Covered
  <2>5. QED  BY <2>1, <2>3, <2>4
<1>2. QED  BY <1>1, WInvAlways, PTL

=============================================================================
