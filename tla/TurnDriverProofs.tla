-------------------------- MODULE TurnDriverProofs --------------------------
(***************************************************************************)
(* What TLAPS proves of the two that start turns from outside the loop:    *)
(* Scheduler, for any triggers, interval, clock and any number of          *)
(* operations, removals and failures; and Console, with the threads it     *)
(* streams, for any threads, turns, connections, deltas and restarts.      *)
(***************************************************************************)
EXTENDS Scheduler, Console, FiniteSetTheorems, TLAPS

R == INSTANCE Folding WITH Op <- LAMBDA none, ts, e : Replayed(ts, e)
H == INSTANCE Folding WITH Op <- LAMBDA none, h, n : Sent(h, n)

-----------------------------------------------------------------------------
(* Scheduler: the types of the variables, with every bound left out *)

Entry == [type : {"registered"}, id : Ids, trigger : Trigger]
            \union [type : {"triggered"}, id : Ids, firedAt : Nat, missed : Int,
                    next : Nat \union {None}]
            \union [type : {"removed"}, id : Ids]
Operation == [kind : {"none", "tick", "event"}, phase : Phases, now : Nat,
          due : [Ids -> Trigger \union {None}], seen : SUBSET Ids,
          id : Ids \union {None}, trigger : Trigger \union {None}]

Shape ==
    /\ kinds \in Mixes /\ now \in Nat /\ up \in BOOLEAN
    /\ log \in Seq(Entry)
    /\ triggers \in [Ids -> Trigger \union {None}]
    /\ calls \in [Ids -> Call \union {None}]
    /\ queue \in Seq({"tick", "event"})
    /\ op \in Operation
    /\ op.phase \in {"read", "turn", "settle"} => op.id \in Ids /\ op.trigger \in Trigger /\ op.trigger # None
    /\ reachedAt \in Nat \union {None}
    /\ starts \in [Ids -> Nat] /\ revived \subseteq Ids /\ faults \in Nat

-----------------------------------------------------------------------------
(* Scheduler: the inductive invariant *)

\* The operation has the trigger in hand, or will.
InHand(id) == op.due[id] # None \/ (op.phase \in {"read", "turn", "settle"} /\ op.id = id)

Registering(id) == calls[id] # None /\ calls[id].does = "register"

Logged(id) == calls[id] # None /\ calls[id].logged

\* A trigger nobody registered is nowhere. One that is being registered is on the
\* stream at most, and once a removal is logged the stream says it is gone.
CallsAreLogged(id) ==
    /\ Entries("registered", id) = {} =>
          triggers[id] = None /\ ~InHand(id) /\ Rebuilt(log)[id] = None
    /\ Registering(id) =>
          /\ calls[id].logged <=> Entries("registered", id) # {}
          /\ triggers[id] = None /\ ~InHand(id)
          /\ calls[id].logged => Rebuilt(log)[id] = calls[id].trigger
    /\ Logged(id) /\ calls[id].does = "remove" => Rebuilt(log)[id] = None

\* A trigger whose run the operation has recorded and not taken over yet.
Settling(id) == op.phase = "settle" /\ op.id = id

\* What becomes of the trigger in hand once its run is recorded.
MovedOn == Ran(op.trigger, Following(op.trigger, op.now))

\* What the operation has in hand is what the stream says of it, until its run is
\* recorded; from then on it is what the stream says once that run is counted. Or
\* the stream says that it is gone. What a run puts back is gone from the stream.
HandsAreCurrent(id) ==
    /\ id \in revived => Rebuilt(log)[id] = None /\ Entries("registered", id) # {}
    /\ op.due[id] # None => Rebuilt(log)[id] \in {op.due[id], None}
    /\ op.phase \in {"read", "turn"} /\ op.id = id => Rebuilt(log)[id] \in {op.trigger, None}
    /\ Settling(id) =>
          /\ Rebuilt(log)[id] \in {MovedOn, None}
          /\ Rebuilt(log)[id] # None => triggers[id] # None
          /\ Rebuilt(log)[id] = None /\ ~Logged(id) /\ id \notin revived =>
                None \in {triggers[id], MovedOn}

\* LiveScheduleIsReplay, also while a call that has not been logged is under way.
MemoryIsReplay(id) ==
    up /\ ~Logged(id) /\ ~Settling(id) /\ id \notin revived => triggers[id] = Rebuilt(log)[id]

HandsOff == op.phase \in {"read", "turn", "settle"} => op.due[op.id] = None

\* A process that is down holds nothing.
DownIsEmpty == ~up => op = NoOp /\ calls = NoTriggers /\ queue = <<>>

SInv == /\ HandsOff /\ DownIsEmpty
        /\ \A id \in Ids : CallsAreLogged(id) /\ HandsAreCurrent(id) /\ MemoryIsReplay(id)

-----------------------------------------------------------------------------
(* The stream and its replay *)

LEMMA RanType ==
    ASSUME NEW t \in Trigger, NEW next \in Nat \union {None}
    PROVE  Ran(t, next) \in Trigger \union {None}
BY DEF Ran, Trigger

\* What one more entry makes of a schedule.
LEMMA ReplayedOnce ==
    ASSUME NEW ts \in [Ids -> Trigger \union {None}], NEW e \in Entry
    PROVE  /\ Replayed(ts, e) \in [Ids -> Trigger \union {None}]
           /\ \A h \in Ids : h # e.id => Replayed(ts, e)[h] = ts[h]
           /\ e.type = "registered" => Replayed(ts, e)[e.id] = e.trigger
           /\ e.type = "triggered" => Replayed(ts, e)[e.id] = IF ts[e.id] = None THEN None
                                                              ELSE Ran(ts[e.id], e.next)
           /\ e.type = "removed" => Replayed(ts, e)[e.id] = None
<1> DEFINE new == CASE e.type = "registered" -> e.trigger
                    [] e.type = "triggered"  -> IF ts[e.id] = None THEN None
                                                ELSE Ran(ts[e.id], e.next)
                    [] e.type = "removed"    -> None
<1>1. e.id \in Ids /\ ts[e.id] \in Trigger \union {None}
  BY DEF Entry
<1>2. /\ e.type \in {"registered", "triggered", "removed"}
      /\ e.type = "registered" => e.trigger \in Trigger
      /\ e.type = "triggered" => e.next \in Nat \union {None}
  BY DEF Entry
<1>3. new \in Trigger \union {None}
  <2>1. CASE e.type = "registered"
    BY <1>2, <2>1
  <2>2. CASE e.type = "triggered"
    BY <1>1, <1>2, <2>2, RanType
  <2>3. CASE e.type = "removed"
    BY <2>3
  <2>4. QED  BY <1>2, <2>1, <2>2, <2>3
<1>4. Replayed(ts, e) = [ts EXCEPT ![e.id] = new]
  BY DEF Replayed
<1>5. /\ e.type = "registered" => new = e.trigger
      /\ e.type = "triggered" => new = IF ts[e.id] = None THEN None ELSE Ran(ts[e.id], e.next)
      /\ e.type = "removed" => new = None
  OBVIOUS
<1> HIDE DEF new
<1>6. QED  BY <1>1, <1>3, <1>4, <1>5

LEMMA RebuiltIsFold == \A s : Rebuilt(s) = R!Folding(None, NoTriggers, s)
BY DEF Rebuilt, R!Folding, FoldLeft, R!FoldLeft, MapThenFoldSet, R!MapThenFoldSet, Max, R!Max

LEMMA NoTriggersType == NoTriggers \in [Ids -> Trigger \union {None}]
BY DEF NoTriggers

LEMMA RebuiltType ==
    ASSUME NEW s \in Seq(Entry)
    PROVE  Rebuilt(s) \in [Ids -> Trigger \union {None}]
<1>1. \A ts \in [Ids -> Trigger \union {None}] : \A e \in Entry :
          Replayed(ts, e) \in [Ids -> Trigger \union {None}]
  BY ReplayedOnce
<1>2. R!Folding(None, NoTriggers, s) \in [Ids -> Trigger \union {None}]
  BY <1>1, NoTriggersType, R!FoldsInto
<1>3. QED  BY <1>2, RebuiltIsFold

\* An append to the stream: one step more of the replay, one entry more of its kind.
LEMMA LogGrows ==
    ASSUME Shape, NEW e \in Entry, Logs(e)
    PROVE  /\ log' \in Seq(Entry)
           /\ Rebuilt(log)' = Replayed(Rebuilt(log), e)
           /\ Len(log) + 1 \notin DOMAIN log
           /\ \A type, id : Entries(type, id)' =
                  IF e.type = type /\ e.id = id THEN Entries(type, id) \union {Len(log) + 1}
                  ELSE Entries(type, id)
<1>1. log' = Append(log, e) /\ log \in Seq(Entry)
  BY DEF Shape, Logs, Appended, NextSequence
<1>2. R!Folding(None, NoTriggers, Append(log, e)) = Replayed(R!Folding(None, NoTriggers, log), e)
  BY <1>1, R!FoldsOneMore
<1>3. Rebuilt(log)' = Replayed(Rebuilt(log), e)
  BY <1>1, <1>2, RebuiltIsFold
<1>4. /\ Len(log) \in Nat /\ DOMAIN log = 1 .. Len(log) /\ DOMAIN log' = 1 .. (Len(log) + 1)
      /\ log'[Len(log) + 1] = e /\ \A i \in DOMAIN log : log'[i] = log[i]
  BY <1>1
<1>5. ASSUME NEW type, NEW id
      PROVE  Entries(type, id)' =
                  IF e.type = type /\ e.id = id THEN Entries(type, id) \union {Len(log) + 1}
                  ELSE Entries(type, id)
  BY <1>4 DEF Entries
<1>6. QED  BY <1>1, <1>3, <1>4, <1>5

-----------------------------------------------------------------------------
(* Every variable keeps its type *)

LEMMA FollowingType ==
    ASSUME NEW t \in Trigger, NEW at \in Nat
    PROVE  /\ Missed(t, at) \in Int /\ Following(t, at) \in Nat \union {None}
           /\ Following(t, at) # None => Following(t, at) >= at
<1>1. Missed(t, at) \in Int
  <2>1. CASE t.interval = 0 \/ t.next = None
    BY <2>1 DEF Missed
  <2>2. CASE ~(t.interval = 0 \/ t.next = None)
    <3>1. t.interval \in Nat \ {0} /\ at - t.next \in Int
      BY <2>2 DEF Trigger
    <3>2. (at - t.next) \div t.interval \in Int
      BY <3>1
    <3>3. QED  BY <2>2, <3>2 DEF Missed
  <2>3. QED  BY <2>1, <2>2
<1>2. CASE t.interval = 0 \/ t.next = None
  BY <1>1, <1>2 DEF Following
<1>3. CASE ~(t.interval = 0 \/ t.next = None)
  <2> DEFINE a == t.next + (Missed(t, at) + 1) * t.interval
             b == at + t.interval
  <2>1. t.interval \in Nat /\ t.next \in Nat
    BY <1>3 DEF Trigger
  <2>2. a \in Int /\ b \in Nat /\ b >= at
    <3>1. \A x, y, z \in Int : x + (y + 1) * z \in Int
      OBVIOUS
    <3>2. a \in Int
      BY <1>1, <2>1, <3>1
    <3>3. b \in Nat /\ b >= at
      BY <2>1
    <3>4. QED  BY <3>2, <3>3
  <2>3. Following(t, at) = Max({a, b})
    BY <1>3 DEF Following
  <2> HIDE DEF a, b
  <2>4. \E x \in {a, b} : \A y \in {a, b} : x >= y
    BY <2>2
  <2>5. Max({a, b}) \in {a, b} /\ Max({a, b}) >= b
    BY <2>4 DEF Max
  <2>6. QED  BY <1>1, <2>2, <2>3, <2>5
<1>4. QED  BY <1>2, <1>3

\* The steps that leave the stream, the schedule, calls and operation alone.
Outside == Tick \/ EventAppended \/ TimePasses \/ TaskReaches

\* The steps of the operation under way that append nothing.
Working == \/ StartTick \/ StartNotify \/ FireDue \/ ReadTask \/ TaskWasRead \/ EndTick
           \/ Settle

\* The steps of the calls that append nothing.
Calling == \E id \in Ids : \/ RegisterTrigger(id) \/ RemoveTrigger(id)
                           \/ CallFails(id) \/ CallSettles(id)

LEMMA NextIsOneOf ==
    ASSUME Next
    PROVE  \/ Outside \/ Working \/ Calling \/ RecordRun \/ RecordFails
           \/ (\E id \in Ids : CallLogs(id)) \/ Crash \/ Boot
BY DEF Next, Proceed, Outside, Working, Calling

LEMMA NoOpType ==
    /\ NoOp \in Operation /\ NoOp.phase = "idle" /\ NoOp.due = NoTriggers
    /\ NoOp.kind = "none" /\ NoOp.id = None /\ NoOp.trigger = None
BY NoTriggersType DEF NoOp, Operation, Phases

\* Firing a trigger that is picked.
LEMMA Firing ==
    ASSUME NEW o \in Operation, NEW id \in Ids, NEW t \in Trigger, starts \in [Ids -> Nat],
           Fires(o, id, t)
    PROVE  /\ op' \in Operation /\ op'.phase = "turn" /\ op'.id = id /\ op'.trigger = t
           /\ op'.due = o.due /\ op'.now = o.now /\ op'.kind = o.kind
           /\ starts' \in [Ids -> Nat]
           /\ \A h \in Ids : starts'[h] = IF h = id THEN starts[h] + 1 ELSE starts[h]
<1>1. op' = [o EXCEPT !.phase = "turn", !.id = id, !.trigger = t]
  BY DEF Fires
<1>2. /\ op' \in Operation /\ op'.phase = "turn" /\ op'.id = id /\ op'.trigger = t
      /\ op'.due = o.due /\ op'.now = o.now /\ op'.kind = o.kind
  BY <1>1 DEF Operation, Phases
<1>3. starts' = [starts EXCEPT ![id] = starts[id] + 1]
  BY DEF Fires
<1>4. QED  BY <1>2, <1>3

LEMMA SameStream ==
    ASSUME UNCHANGED log
    PROVE  /\ Rebuilt(log)' = Rebuilt(log)
           /\ \A type, id : Entries(type, id)' = Entries(type, id)
BY DEF Entries, Rebuilt

\* What a step of the operation can do: pick triggers from memory, fire one that
\* it holds, let one go, or take what it recorded over into memory.
Picks ==
    /\ op.phase = "idle" /\ op' \in Operation /\ op'.phase = "loop"
    /\ \A id \in Ids : op'.due[id] # None =>
          op'.due[id] = triggers[id] /\ Due(triggers[id], op'.now)
    /\ UNCHANGED <<triggers, starts, revived>>
FiresHeld ==
    \E id \in Ids, t \in Trigger \ {None} :
       /\ \/ op.due[id] = t /\ op.due[id] # None /\ op.phase = "loop" /\ op'.now = op.now
          \/ op.phase = "read" /\ op.id = id /\ op.trigger = t /\ op'.now = op.now
          \/ /\ op.phase = "idle" /\ triggers[id] = t /\ triggers[id] # None
             /\ t.when # "none" /\ op'.due = NoTriggers
       /\ op' \in Operation /\ op'.phase = "turn" /\ op'.id = id /\ op'.trigger = t
       /\ op'.due[id] = None
       /\ \A h \in Ids : op'.due[h] \in {None, op.due[h]}
       /\ starts' \in [Ids -> Nat]
       /\ \A h \in Ids : starts'[h] = IF h = id THEN starts[h] + 1 ELSE starts[h]
       /\ UNCHANGED <<triggers, revived>>
Reads ==
    \E id \in Ids :
       /\ triggers[id] \in Trigger /\ triggers[id] # None /\ triggers[id].when # "none"
       /\ op.phase = "loop" /\ op' \in Operation /\ op'.phase = "read" /\ op'.id = id
       /\ op'.trigger = triggers[id] /\ op'.due = op.due /\ op.due[id] = None
       /\ op'.now = op.now
       /\ UNCHANGED <<triggers, starts, revived>>
LetsGo ==
    /\ op.phase # "turn"
    /\ op' \in Operation /\ op'.phase \in {"idle", "loop"}
    /\ (op'.due = op.due /\ op'.now = op.now) \/ op'.due = NoTriggers
    /\ UNCHANGED starts
    /\ IF op.phase = "settle"
       THEN /\ triggers' = [triggers EXCEPT ![op.id] = MovedOn]
            /\ revived' = IF MovedOn # None /\ triggers[op.id] = None
                          THEN revived \union {op.id} ELSE revived
       ELSE UNCHANGED <<triggers, revived>>

LEMMA WorkingSteps ==
    ASSUME Shape, HandsOff, Working
    PROVE  /\ UNCHANGED <<kinds, now, up, reachedAt, faults, log, calls>>
           /\ queue' \in Seq({"tick", "event"})
           /\ op.phase = "idle" => queue # << >>
           /\ Picks \/ FiresHeld \/ Reads \/ LetsGo
<1> DEFINE Effect == Picks \/ FiresHeld \/ Reads \/ LetsGo
<1> DEFINE Frame == /\ UNCHANGED <<kinds, now, up, reachedAt, faults, log, calls>>
                    /\ queue' \in Seq({"tick", "event"})
                    /\ op.phase = "idle" => queue # << >>
<1>1. /\ op \in Operation /\ starts \in [Ids -> Nat] /\ now \in Nat
      /\ queue \in Seq({"tick", "event"}) /\ triggers \in [Ids -> Trigger \union {None}]
      /\ op.due \in [Ids -> Trigger \union {None}]
  BY DEF Shape, Operation
<1>2. ASSUME StartTick PROVE Frame /\ Effect
  <2> DEFINE due == [id \in Ids |-> IF triggers[id] # None /\ Due(triggers[id], now)
                                    THEN triggers[id] ELSE None]
  <2>1. due \in [Ids -> Trigger \union {None}] /\ \A id \in Ids :
          due[id] # None => due[id] = triggers[id] /\ Due(triggers[id], now)
    BY <1>1
  <2>2. /\ op' = [NoOp EXCEPT !.kind = "tick", !.phase = "loop", !.now = now, !.due = due]
        /\ UNCHANGED <<triggers, starts, revived>>
    BY <1>2 DEF StartTick, world
  <2> HIDE DEF due
  <2>3. op' \in Operation /\ op'.phase = "loop" /\ op'.due = due /\ op'.now = now
    BY <1>1, <2>1, <2>2, NoOpType DEF Operation, Phases
  <2>4. Picks
    BY <1>2, <2>1, <2>2, <2>3 DEF Picks, StartTick, Idle
  <2>5. Frame
    BY <1>1, <1>2 DEF StartTick, world
  <2>6. QED  BY <2>4, <2>5
<1>3. ASSUME StartNotify PROVE Frame /\ Effect
  <2>1. Frame /\ op.phase = "idle" /\ UNCHANGED <<triggers, revived>>
    BY <1>1, <1>3 DEF StartNotify, Idle, world
  <2>2. CASE UNCHANGED <<op, starts>>
    BY <1>1, <2>1, <2>2 DEF LetsGo
  <2>3. ASSUME NEW id \in Waiting("event"),
               Fires([NoOp EXCEPT !.kind = "event", !.now = now], id, triggers[id])
        PROVE  FiresHeld
    <3> DEFINE o == [NoOp EXCEPT !.kind = "event", !.now = now]
    <3>1. /\ id \in Ids /\ triggers[id] \in Trigger /\ triggers[id] # None
          /\ triggers[id].when # "none"
      BY <1>1, <2>3 DEF Waiting
    <3>2. o \in Operation /\ o.due = NoTriggers
      BY <1>1, NoOpType DEF Operation
    <3>6. Fires(o, id, triggers[id])
      BY <2>3
    <3> HIDE DEF o
    <3>3. /\ op' \in Operation /\ op'.phase = "turn" /\ op'.id = id /\ op'.trigger = triggers[id]
          /\ op'.due = NoTriggers
          /\ starts' \in [Ids -> Nat]
          /\ \A h \in Ids : starts'[h] = IF h = id THEN starts[h] + 1 ELSE starts[h]
      <4> DEFINE t == triggers[id]
      <4>1. t \in Trigger /\ Fires(o, id, t)
        BY <3>1, <3>6
      <4> HIDE DEF t
      <4>2. QED  BY <1>1, <3>1, <3>2, <4>1, Firing DEF t
    <3>4. \A h \in Ids : op'.due[h] = None
      BY <3>3 DEF NoTriggers
    <3>5. QED  BY <2>1, <3>1, <3>3, <3>4 DEF FiresHeld
  <2>4. QED  BY <1>3, <2>1, <2>2, <2>3 DEF StartNotify
<1>4. ASSUME FireDue PROVE Frame /\ Effect
  <2>1. Frame /\ op.phase = "loop" /\ UNCHANGED <<triggers, revived>>
    BY <1>1, <1>4 DEF FireDue, world
  <2>2. PICK id \in DueIds : Fires([op EXCEPT !.due[id] = None], id, op.due[id])
    BY <1>4 DEF FireDue
  <2> DEFINE o == [op EXCEPT !.due[id] = None]
  <2>3. id \in Ids /\ op.due[id] \in Trigger /\ op.due[id] # None
    BY <1>1, <2>2 DEF DueIds
  <2>4. o \in Operation /\ o.due = [op.due EXCEPT ![id] = None] /\ o.now = op.now
    BY <1>1 DEF Operation
  <2> HIDE DEF o
  <2>5. /\ op' \in Operation /\ op'.phase = "turn" /\ op'.id = id /\ op'.trigger = op.due[id]
        /\ op'.due = [op.due EXCEPT ![id] = None] /\ op'.now = op.now
        /\ starts' \in [Ids -> Nat]
        /\ \A h \in Ids : starts'[h] = IF h = id THEN starts[h] + 1 ELSE starts[h]
    <3>1. Fires(o, id, op.due[id])
      BY <2>2 DEF o
    <3> DEFINE t == op.due[id]
    <3>2. t \in Trigger /\ Fires(o, id, t)
      BY <2>3, <3>1
    <3> HIDE DEF t
    <3>3. /\ op' \in Operation /\ op'.phase = "turn" /\ op'.id = id /\ op'.trigger = t
          /\ op'.due = o.due /\ op'.now = o.now
          /\ starts' \in [Ids -> Nat]
          /\ \A h \in Ids : starts'[h] = IF h = id THEN starts[h] + 1 ELSE starts[h]
      BY <1>1, <2>3, <2>4, <3>2, Firing
    <3>4. QED  BY <2>4, <3>3 DEF t
  <2>6. op'.due[id] = None /\ \A h \in Ids : op'.due[h] \in {None, op.due[h]}
    BY <1>1, <2>3, <2>5
  <2>7. FiresHeld
    BY <2>1, <2>3, <2>5, <2>6 DEF FiresHeld
  <2>8. QED  BY <2>1, <2>7
<1>5. ASSUME ReadTask PROVE Frame /\ Effect
  <2>1. Frame /\ op.phase = "loop" /\ DueIds = {} /\ UNCHANGED <<triggers, starts, revived>>
    BY <1>1, <1>5 DEF ReadTask, world
  <2>2. PICK id \in Waiting("task") \ op.seen :
          op' = [op EXCEPT !.phase = "read", !.id = id, !.trigger = triggers[id],
                           !.seen = op.seen \union {id}]
    BY <1>5, ZenonT(40) DEF ReadTask
  <2>3. /\ id \in Ids /\ triggers[id] \in Trigger /\ triggers[id] # None /\ op.due[id] = None
        /\ triggers[id].when # "none"
    BY <1>1, <2>1, <2>2 DEF Waiting, DueIds
  <2>4. /\ op' \in Operation /\ op'.phase = "read" /\ op'.id = id /\ op'.trigger = triggers[id]
        /\ op'.due = op.due /\ op'.now = op.now
    BY <1>1, <2>2, <2>3 DEF Operation, Phases
  <2>5. Reads
    BY <2>1, <2>3, <2>4 DEF Reads
  <2>6. QED  BY <2>1, <2>5
<1>6. ASSUME TaskWasRead PROVE Frame /\ Effect
  <2>1. /\ Frame /\ op.phase = "read" /\ UNCHANGED <<triggers, revived>>
        /\ op.id \in Ids /\ op.trigger \in Trigger \ {None} /\ op.due[op.id] = None
    BY <1>1, <1>6 DEF TaskWasRead, Shape, HandsOff, world
  <2>2. CASE Fires(op, op.id, op.trigger)
    <3>1. /\ op' \in Operation /\ op'.phase = "turn" /\ op'.id = op.id /\ op'.trigger = op.trigger
          /\ op'.due = op.due /\ op'.now = op.now
          /\ starts' \in [Ids -> Nat]
          /\ \A h \in Ids : starts'[h] = IF h = op.id THEN starts[h] + 1 ELSE starts[h]
      BY <1>1, <2>1, <2>2, Firing
    <3>2. QED  BY <2>1, <3>1 DEF FiresHeld
  <2>3. CASE /\ op' = [op EXCEPT !.phase = "loop", !.id = None, !.trigger = None]
             /\ UNCHANGED starts
    <3>1. op' \in Operation /\ op'.phase = "loop" /\ op'.due = op.due /\ op'.now = op.now
      BY <1>1, <2>3 DEF Operation, Phases
    <3>2. QED  BY <2>1, <2>3, <3>1 DEF LetsGo
  <2>4. QED  BY <1>6, <2>1, <2>2, <2>3 DEF TaskWasRead
<1>7. ASSUME EndTick PROVE Frame /\ Effect
  <2>1. Frame /\ op.phase = "loop" /\ op' = NoOp /\ UNCHANGED <<triggers, starts, revived>>
    BY <1>1, <1>7 DEF EndTick, world
  <2>2. QED  BY <2>1, NoOpType DEF LetsGo
<1>8. ASSUME Settle PROVE Frame /\ Effect
  <2>1. /\ Frame /\ op.phase = "settle" /\ UNCHANGED starts
        /\ triggers' = [triggers EXCEPT ![op.id] = MovedOn]
        /\ revived' = IF MovedOn # None /\ triggers[op.id] = None
                      THEN revived \union {op.id} ELSE revived
        /\ op' \in {NoOp, [op EXCEPT !.phase = "loop", !.id = None, !.trigger = None]}
    BY <1>1, <1>8 DEF Settle, MovedOn
  <2>2. /\ op' \in Operation /\ op'.phase \in {"idle", "loop"}
        /\ (op'.due = op.due /\ op'.now = op.now) \/ op'.due = NoTriggers
    <3>1. CASE op' = NoOp
      BY <3>1, NoOpType
    <3>2. CASE op' = [op EXCEPT !.phase = "loop", !.id = None, !.trigger = None]
      BY <1>1, <3>2 DEF Operation, Phases
    <3>3. QED  BY <2>1, <3>1, <3>2
  <2>3. QED  BY <2>1, <2>2 DEF LetsGo
<1> HIDE DEF Frame, Effect
<1>9. Frame /\ Effect
  BY <1>2, <1>3, <1>4, <1>5, <1>6, <1>7, <1>8 DEF Working
<1>10. QED  BY <1>9 DEF Frame, Effect

LEMMA WorkingKeeps ==
    ASSUME Shape, SInv, Working
    PROVE  Shape' /\ SInv'
<1>1. /\ HandsOff /\ DownIsEmpty
      /\ \A id \in Ids : CallsAreLogged(id) /\ HandsAreCurrent(id) /\ MemoryIsReplay(id)
  BY DEF SInv
<1>2. /\ UNCHANGED <<kinds, now, up, reachedAt, faults, log, calls>>
      /\ queue' \in Seq({"tick", "event"})
      /\ op.phase = "idle" => queue # << >>
      /\ Picks \/ FiresHeld \/ Reads \/ LetsGo
  BY <1>1, WorkingSteps
<1>3. UNCHANGED <<kinds, now, up, reachedAt, faults, log, calls>>
  BY <1>2
<1>4. up
  BY <1>1, <1>2, NoOpType DEF DownIsEmpty
<1>5. /\ Rebuilt(log)' = Rebuilt(log)
      /\ \A type, id : Entries(type, id)' = Entries(type, id)
  BY <1>3, SameStream
<1>6. /\ op \in Operation /\ starts \in [Ids -> Nat]
      /\ triggers \in [Ids -> Trigger \union {None}] /\ revived \subseteq Ids
      /\ op.phase \in {"read", "turn", "settle"} => op.id \in Ids /\ op.trigger \in Trigger /\ op.trigger # None
      /\ op.now \in Nat /\ op.due \in [Ids -> Trigger \union {None}]
  BY DEF Shape, Operation
<1>7. DownIsEmpty'
  BY <1>3, <1>4 DEF DownIsEmpty
<1>8. SUFFICES /\ op' \in Operation /\ starts' \in [Ids -> Nat]
               /\ triggers' \in [Ids -> Trigger \union {None}] /\ revived' \subseteq Ids
               /\ op'.phase \in {"read", "turn", "settle"} =>
                     op'.id \in Ids /\ op'.trigger \in Trigger /\ op'.trigger # None
               /\ HandsOff'
               /\ \A id \in Ids : CallsAreLogged(id)' /\ HandsAreCurrent(id)' /\ MemoryIsReplay(id)'
  BY <1>2, <1>3, <1>7 DEF Shape, SInv
\* What memory holds and nobody has in hand is what the stream says, or gone from it.
<1>9. ASSUME NEW id \in Ids, triggers[id] # None, op.phase \in {"idle", "loop"}
      PROVE  /\ Entries("registered", id) # {} /\ ~Registering(id)
             /\ Rebuilt(log)[id] \in {triggers[id], None}
  <2>1. CallsAreLogged(id) /\ HandsAreCurrent(id) /\ MemoryIsReplay(id) /\ ~Settling(id)
    BY <1>1, <1>9 DEF Settling
  <2>2. Logged(id) /\ ~Registering(id) => calls[id].does = "remove"
    BY DEF Logged, Registering, Shape, Call
  <2>3. QED  BY <1>4, <1>9, <2>1, <2>2 DEF CallsAreLogged, HandsAreCurrent, MemoryIsReplay
<1>10. CASE Picks
  <2>1. ASSUME NEW id \in Ids
        PROVE  CallsAreLogged(id)' /\ HandsAreCurrent(id)' /\ MemoryIsReplay(id)'
    <3>1. CallsAreLogged(id)'
      BY <1>1, <1>3, <1>5, <1>9, <1>10 DEF Picks, CallsAreLogged, InHand, Registering, Logged
    <3>2. HandsAreCurrent(id)'
      BY <1>1, <1>3, <1>5, <1>9, <1>10 DEF Picks, HandsAreCurrent, Settling
    <3>3. MemoryIsReplay(id)'
      BY <1>1, <1>3, <1>5, <1>10 DEF Picks, MemoryIsReplay, Settling, Logged
    <3>4. QED  BY <3>1, <3>2, <3>3
  <2>2. QED  BY <1>6, <1>10, <2>1 DEF Picks, HandsOff
<1>11. CASE FiresHeld
  <2>1. PICK h \in Ids, t \in Trigger \ {None} :
       /\ \/ op.due[h] = t /\ op.due[h] # None /\ op.phase = "loop"
          \/ op.phase = "read" /\ op.id = h /\ op.trigger = t
          \/ op.phase = "idle" /\ triggers[h] = t /\ triggers[h] # None
       /\ op' \in Operation /\ op'.phase = "turn" /\ op'.id = h /\ op'.trigger = t
       /\ op'.due[h] = None
       /\ \A g \in Ids : op'.due[g] \in {None, op.due[g]}
       /\ starts' \in [Ids -> Nat]
       /\ UNCHANGED <<triggers, revived>>
    BY <1>11 DEF FiresHeld
  <2>2. /\ Entries("registered", h) # {} /\ ~Registering(h)
        /\ Rebuilt(log)[h] \in {t, None}
    <3>1. CASE op.due[h] = t /\ op.due[h] # None
      BY <1>1, <3>1 DEF CallsAreLogged, HandsAreCurrent, InHand
    <3>2. CASE op.phase = "read" /\ op.id = h /\ op.trigger = t
      BY <1>1, <3>2 DEF CallsAreLogged, HandsAreCurrent, InHand
    <3>3. CASE op.phase = "idle" /\ triggers[h] = t /\ triggers[h] # None
      BY <1>9, <3>3
    <3>4. QED  BY <2>1, <3>1, <3>2, <3>3
  <2>3. ASSUME NEW id \in Ids
        PROVE  CallsAreLogged(id)' /\ HandsAreCurrent(id)' /\ MemoryIsReplay(id)'
    <3>1. CallsAreLogged(id)'
      BY <1>1, <1>3, <1>5, <2>1, <2>2 DEF CallsAreLogged, InHand, Registering, Logged
    <3>2. HandsAreCurrent(id)'
      BY <1>1, <1>3, <1>5, <2>1, <2>2 DEF HandsAreCurrent, Settling
    <3>3. MemoryIsReplay(id)'
      BY <1>1, <1>3, <1>5, <2>1 DEF MemoryIsReplay, Settling, Logged
    <3>4. QED  BY <3>1, <3>2, <3>3
  <2>4. QED  BY <1>6, <2>1, <2>3 DEF HandsOff
<1>12. CASE Reads
  <2>1. PICK h \in Ids :
       /\ triggers[h] \in Trigger /\ triggers[h] # None
       /\ op.phase = "loop" /\ op' \in Operation /\ op'.phase = "read" /\ op'.id = h
       /\ op'.trigger = triggers[h] /\ op'.due = op.due /\ op.due[h] = None
       /\ UNCHANGED <<triggers, starts, revived>>
    BY <1>12 DEF Reads
  <2>2. /\ Entries("registered", h) # {} /\ ~Registering(h)
        /\ Rebuilt(log)[h] \in {triggers[h], None}
    BY <1>9, <2>1
  <2>3. ASSUME NEW id \in Ids
        PROVE  CallsAreLogged(id)' /\ HandsAreCurrent(id)' /\ MemoryIsReplay(id)'
    <3>1. CallsAreLogged(id)'
      BY <1>1, <1>3, <1>5, <2>1, <2>2 DEF CallsAreLogged, InHand, Registering, Logged
    <3>2. HandsAreCurrent(id)'
      BY <1>1, <1>3, <1>5, <2>1, <2>2 DEF HandsAreCurrent, Settling
    <3>3. MemoryIsReplay(id)'
      BY <1>1, <1>3, <1>5, <2>1 DEF MemoryIsReplay, Settling, Logged
    <3>4. QED  BY <3>1, <3>2, <3>3
  <2>4. QED  BY <1>6, <2>1, <2>3 DEF HandsOff
<1>13. CASE LetsGo
  <2>1. /\ op.phase # "turn" /\ op' \in Operation /\ op'.phase \in {"idle", "loop"}
        /\ \A h \in Ids : op'.due[h] \in {None, op.due[h]}
        /\ UNCHANGED starts
    BY <1>6, <1>13 DEF LetsGo, NoTriggers
  <2>2. /\ triggers' \in [Ids -> Trigger \union {None}] /\ revived' \subseteq Ids
        /\ \A h \in Ids : triggers'[h] = IF Settling(h) THEN MovedOn ELSE triggers[h]
        /\ \A h \in Ids : h \in revived' <=> \/ h \in revived
                                             \/ Settling(h) /\ MovedOn # None /\ triggers[h] = None
    <3>1. CASE op.phase = "settle"
      <4>1. MovedOn \in Trigger \union {None}
        BY <1>6, <3>1, FollowingType, RanType DEF MovedOn
      <4>2. /\ triggers' = [triggers EXCEPT ![op.id] = MovedOn]
            /\ revived' = IF MovedOn # None /\ triggers[op.id] = None
                          THEN revived \union {op.id} ELSE revived
        BY <1>13, <3>1 DEF LetsGo
      <4>3. QED  BY <1>6, <3>1, <4>1, <4>2 DEF Settling
    <3>2. CASE op.phase # "settle"
      BY <1>6, <1>13, <3>2 DEF LetsGo, Settling
    <3>3. QED  BY <3>1, <3>2
  <2>3. ASSUME NEW id \in Ids
        PROVE  CallsAreLogged(id)' /\ HandsAreCurrent(id)' /\ MemoryIsReplay(id)'
    <3>1. CallsAreLogged(id)'
      <4>1. Settling(id) => InHand(id)
        BY DEF InHand, Settling
      <4>2. InHand(id)' => InHand(id)
        BY <2>1 DEF InHand
      <4>3. InHand(id) \/ triggers'[id] = triggers[id]
        BY <2>2, <4>1
      <4>4. QED  BY <1>1, <1>3, <1>5, <4>2, <4>3 DEF CallsAreLogged, Registering, Logged
    <3>2. HandsAreCurrent(id)'
      <4>1. id \in revived' => Rebuilt(log)[id] = None /\ Entries("registered", id) # {}
        BY <1>1, <2>2 DEF HandsAreCurrent, CallsAreLogged, InHand, Settling
      <4>2. QED  BY <1>1, <1>3, <1>5, <2>1, <4>1 DEF HandsAreCurrent, Settling
    <3>3. MemoryIsReplay(id)'
      <4>1. HandsAreCurrent(id) /\ MemoryIsReplay(id) /\ ~Settling(id)'
        BY <1>1, <2>1 DEF Settling
      <4>2. CASE Settling(id)
        BY <1>3, <1>5, <2>2, <4>1, <4>2 DEF MemoryIsReplay, HandsAreCurrent, Logged
      <4>3. CASE ~Settling(id)
        BY <1>3, <1>5, <2>2, <4>1, <4>3 DEF MemoryIsReplay, Logged
      <4>4. QED  BY <4>2, <4>3
    <3>4. QED  BY <3>1, <3>2, <3>3
  <2>4. QED  BY <1>6, <2>1, <2>2, <2>3 DEF HandsOff
<1>14. QED  BY <1>2, <1>10, <1>11, <1>12, <1>13

\* The turn has ended and its run is appended: what the operation still has in
\* hand is what the stream said before that entry.
LEMMA RecordRunKeeps ==
    ASSUME Shape, SInv, RecordRun
    PROVE  Shape' /\ SInv'
<1>1. /\ HandsOff /\ DownIsEmpty
      /\ \A id \in Ids : CallsAreLogged(id) /\ HandsAreCurrent(id) /\ MemoryIsReplay(id)
  BY DEF SInv
<1>2. /\ UNCHANGED <<kinds, now, up, reachedAt, faults, triggers, calls, queue, starts,
                    revived>>
      /\ op.phase = "turn" /\ op' = [op EXCEPT !.phase = "settle"]
  BY DEF RecordRun, world
<1>3. /\ op.id \in Ids /\ op.trigger \in Trigger \ {None} /\ op.now \in Nat /\ op \in Operation
      /\ log \in Seq(Entry)
  BY <1>2 DEF Shape, Operation
<1>4. /\ op' \in Operation /\ op'.phase = "settle" /\ op'.id = op.id /\ op'.trigger = op.trigger
      /\ op'.due = op.due /\ op'.now = op.now
  BY <1>2, <1>3 DEF Operation, Phases
<1> DEFINE next == Following(op.trigger, op.now)
           e == Triggered(op.id, op.now, Missed(op.trigger, op.now), next)
<1>5. e \in Entry /\ e.id = op.id /\ e.type = "triggered" /\ e.next = next
  BY <1>3, FollowingType DEF Triggered, Entry
<1>6. Logs(e)
  BY DEF RecordRun
<1> HIDE DEF e
<1>7. /\ log' \in Seq(Entry)
      /\ Rebuilt(log)' = Replayed(Rebuilt(log), e)
      /\ \A type, id : Entries(type, id)' =
             IF e.type = type /\ e.id = id THEN Entries(type, id) \union {Len(log) + 1}
             ELSE Entries(type, id)
  BY <1>5, <1>6, LogGrows
<1>8. /\ \A h \in Ids : h # op.id => Rebuilt(log)'[h] = Rebuilt(log)[h]
      /\ Rebuilt(log)'[op.id] = IF Rebuilt(log)[op.id] = None THEN None
                                ELSE Ran(Rebuilt(log)[op.id], next)
  BY <1>3, <1>5, <1>7, ReplayedOnce, RebuiltType
<1>9. \A id : Entries("registered", id)' = Entries("registered", id)
  BY <1>5, <1>7
<1>10. DownIsEmpty'
  BY <1>1, <1>2, NoOpType DEF DownIsEmpty
<1>11. HandsOff'
  BY <1>1, <1>2, <1>4 DEF HandsOff
<1>12. ASSUME NEW id \in Ids
       PROVE  CallsAreLogged(id)' /\ HandsAreCurrent(id)' /\ MemoryIsReplay(id)'
  <2>1. CallsAreLogged(id) /\ HandsAreCurrent(id) /\ MemoryIsReplay(id)
    BY <1>1
  <2>2. InHand(id)' <=> InHand(id)
    BY <1>2, <1>4 DEF InHand
  <2>3. id = op.id => InHand(id)
    BY <1>2 DEF InHand
  <2>4. CallsAreLogged(id)'
    BY <1>2, <1>8, <1>9, <2>1, <2>2, <2>3 DEF CallsAreLogged, Registering, Logged
  <2>5. CASE id = op.id
    <3>1. up /\ ~Settling(id) /\ Settling(id)' /\ op.due[id] = None /\ MovedOn' = MovedOn
      BY <1>1, <1>2, <1>4, <2>5, NoOpType DEF HandsOff, Settling, MovedOn, DownIsEmpty, Following, Missed
    <3>2. Rebuilt(log)[id] = None /\ ~Logged(id) /\ id \notin revived => triggers[id] = None
      BY <2>1, <3>1 DEF MemoryIsReplay
    <3>3. Rebuilt(log)[id] # None => triggers[id] # None
      <4>1. Rebuilt(log)[id] # None => ~Logged(id)
        <5>1. Logged(id) => calls[id].does = "remove" \/ Registering(id)
          BY DEF Shape, Call, Registering, Logged
        <5>2. QED  BY <2>1, <2>3, <2>5, <5>1 DEF CallsAreLogged
      <4>2. QED  BY <2>1, <3>1, <4>1 DEF MemoryIsReplay, HandsAreCurrent
    <3>4. Rebuilt(log)'[id] = IF Rebuilt(log)[id] = None THEN None ELSE MovedOn
      BY <1>2, <1>8, <2>1, <2>5 DEF HandsAreCurrent, MovedOn
    <3>5. Logged(id)' <=> Logged(id)
      BY <1>2 DEF Logged
    <3>6. id \in revived => Rebuilt(log)'[id] = None
      BY <1>8, <2>1, <2>5 DEF HandsAreCurrent
    <3>7. HandsAreCurrent(id)'
      <4>1. /\ triggers' = triggers /\ revived' = revived /\ op'.phase = "settle"
            /\ Entries("registered", id)' = Entries("registered", id) /\ op'.due[id] = None
        BY <1>2, <1>4, <1>9, <3>1
      <4>3. id \in revived => Entries("registered", id) # {}
        BY <2>1 DEF HandsAreCurrent
      <4>4. QED  BY <3>1, <3>2, <3>3, <3>4, <3>5, <3>6, <4>1, <4>3 DEF HandsAreCurrent
    <3>8. MemoryIsReplay(id)'
      BY <3>1 DEF MemoryIsReplay
    <3>9. QED  BY <2>4, <3>7, <3>8
  <2>6. CASE id # op.id
    BY <1>2, <1>4, <1>8, <1>9, <2>1, <2>4, <2>6 
       DEF HandsAreCurrent, MemoryIsReplay, Settling, Logged
  <2>7. QED  BY <2>5, <2>6
<1>13. Shape'
  BY <1>2, <1>3, <1>4, <1>7 DEF Shape
<1>14. QED  BY <1>10, <1>11, <1>12, <1>13 DEF SInv

\* A registration or a removal is appended: nobody has the one in hand, and of
\* the other nothing more is claimed.
LEMMA CallLogsKeeps ==
    ASSUME Shape, SInv, NEW h \in Ids, CallLogs(h)
    PROVE  Shape' /\ SInv'
<1>1. /\ HandsOff /\ DownIsEmpty
      /\ \A id \in Ids : CallsAreLogged(id) /\ HandsAreCurrent(id) /\ MemoryIsReplay(id)
  BY DEF SInv
<1>2. /\ UNCHANGED <<kinds, now, up, reachedAt, faults, triggers, queue, op, starts,
                    revived>>
      /\ calls[h] \in Call /\ ~calls[h].logged /\ calls \in [Ids -> Call \union {None}]
      /\ calls' = [calls EXCEPT ![h] = [calls[h] EXCEPT !.logged = TRUE]]
      /\ log \in Seq(Entry)
  BY DEF CallLogs, world, Shape
<1>3. /\ calls' \in [Ids -> Call \union {None}] /\ calls'[h] \in Call
      /\ calls'[h].logged /\ calls'[h].does = calls[h].does /\ calls'[h].trigger = calls[h].trigger
      /\ \A id \in Ids : id # h => calls'[id] = calls[id]
  BY <1>2 DEF Call
<1>4. calls[h] # None /\ calls'[h] # None /\ calls # NoTriggers
  BY <1>2, <1>3, NoneAssumption DEF NoTriggers
<1> DEFINE e == IF calls[h].does = "register" THEN Registered(h, calls[h].trigger) ELSE Removed(h)
<1>5. /\ e \in Entry /\ e.id = h
      /\ e.type = IF calls[h].does = "register" THEN "registered" ELSE "removed"
      /\ calls[h].does = "register" => e.trigger = calls[h].trigger
  BY <1>2 DEF Registered, Removed, Entry, Call
<1>6. Logs(e)
  BY DEF CallLogs
<1> HIDE DEF e
<1>7. /\ log' \in Seq(Entry)
      /\ Rebuilt(log)' = Replayed(Rebuilt(log), e)
      /\ \A type, id : Entries(type, id)' =
             IF e.type = type /\ e.id = id THEN Entries(type, id) \union {Len(log) + 1}
             ELSE Entries(type, id)
  BY <1>5, <1>6, LogGrows
<1>8. /\ \A id \in Ids : id # h => Rebuilt(log)'[id] = Rebuilt(log)[id]
      /\ Rebuilt(log)'[h] = IF calls[h].does = "register" THEN calls[h].trigger ELSE None
  BY <1>2, <1>5, <1>7, ReplayedOnce, RebuiltType DEF Call
<1>9. HandsOff' /\ DownIsEmpty'
  BY <1>1, <1>2, <1>4 DEF HandsOff, DownIsEmpty
<1>10. ASSUME NEW id \in Ids
       PROVE  CallsAreLogged(id)' /\ HandsAreCurrent(id)' /\ MemoryIsReplay(id)'
  <2>1. CallsAreLogged(id) /\ HandsAreCurrent(id) /\ MemoryIsReplay(id)
    BY <1>1
  <2>2. InHand(id)' <=> InHand(id)
    BY <1>2 DEF InHand
  <2>3. CASE id # h
    <3>1. \A type : Entries(type, id)' = Entries(type, id)
      BY <1>5, <1>7, <2>3
    <3>2. calls'[id] = calls[id] /\ Rebuilt(log)'[id] = Rebuilt(log)[id]
      BY <1>3, <1>8, <2>3
    <3>3. CallsAreLogged(id)'
      BY <1>2, <2>1, <2>2, <3>1, <3>2 DEF CallsAreLogged, Registering, Logged
    <3>4. HandsAreCurrent(id)' /\ MemoryIsReplay(id)'
      BY <1>2, <2>1, <3>1, <3>2
         DEF HandsAreCurrent, MemoryIsReplay, Settling, MovedOn, Logged, Following, Missed
    <3>5. QED  BY <3>3, <3>4
  <2>4. CASE id = h /\ calls[h].does = "register"
    <3>1. Entries("registered", h)' # {} /\ triggers[h] = None /\ ~InHand(h)
      BY <1>4, <1>5, <1>7, <2>1, <2>4 DEF CallsAreLogged, Registering, Logged
    <3>2. CallsAreLogged(id)'
      BY <1>2, <1>3, <1>4, <1>8, <2>2, <2>4, <3>1 DEF CallsAreLogged, Registering, Logged
    <3>5. id \notin revived
      BY <1>2, <1>4, <2>1, <2>4 DEF HandsAreCurrent, CallsAreLogged, Registering
    <3>3. HandsAreCurrent(id)'
      <4>1. /\ id \notin revived' /\ op'.due[id] = None /\ ~Settling(id)'
            /\ ~(op'.phase \in {"read", "turn"} /\ op'.id = id)
        BY <1>2, <2>4, <3>1, <3>5 DEF InHand, Settling
      <4>2. QED  BY <4>1 DEF HandsAreCurrent
    <3>4. MemoryIsReplay(id)'
      BY <1>3, <1>4, <2>4 DEF MemoryIsReplay, Logged
    <3>6. QED  BY <3>2, <3>3, <3>4
  <2>5. CASE id = h /\ calls[h].does = "remove"
    <3>1. Entries("registered", h)' = Entries("registered", h) /\ ~Registering(h)' /\ Logged(h)'
      BY <1>3, <1>4, <1>5, <1>7, <2>5 DEF Registering, Logged
    <3>2. CallsAreLogged(id)'
      BY <1>2, <1>8, <2>1, <2>2, <2>5, <3>1 DEF CallsAreLogged, Logged
    <3>3. HandsAreCurrent(id)' /\ MemoryIsReplay(id)'
      BY <1>2, <1>8, <2>1, <2>5, <3>1 DEF HandsAreCurrent, MemoryIsReplay, Settling
    <3>4. QED  BY <3>2, <3>3
  <2>6. QED  BY <1>2, <2>3, <2>4, <2>5 DEF Call
<1>11. Shape'
  BY <1>2, <1>3, <1>7 DEF Shape
<1>12. QED  BY <1>9, <1>10, <1>11 DEF SInv

\* Neither the clock, the timer, nor the rest of the host touches the schedule.
LEMMA OutsideKeeps ==
    ASSUME Shape, SInv, Outside
    PROVE  Shape' /\ SInv'
<1>1. /\ kinds' = kinds /\ up' = up /\ log' = log /\ triggers' = triggers /\ calls' = calls
      /\ op' = op /\ starts' = starts /\ faults' = faults /\ revived' = revived
      /\ queue' = queue \/ up
  BY DEF Outside, Tick, EventAppended, TimePasses, TaskReaches, Enqueue, world
<1>2. queue' \in Seq({"tick", "event"}) /\ now' \in Nat /\ reachedAt' \in Nat \union {None}
  <2>1. /\ queue \in Seq({"tick", "event"}) /\ now \in Nat /\ reachedAt \in Nat \union {None}
    BY DEF Shape
  <2>2. queue' \in {queue, Append(queue, "tick"), Append(queue, "event")}
    BY DEF Outside, Tick, EventAppended, TimePasses, TaskReaches, Enqueue
  <2>3. queue' \in Seq({"tick", "event"})
    BY <2>1, <2>2
  <2>4. now' \in {now, now + 1} /\ reachedAt' \in {reachedAt, now}
    BY DEF Outside, Tick, EventAppended, TimePasses, TaskReaches, world
  <2>5. QED  BY <2>1, <2>3, <2>4
<1>3. Shape'
  BY <1>1, <1>2 DEF Shape
<1>4. /\ Rebuilt(log)' = Rebuilt(log)
      /\ \A type, id : Entries(type, id)' = Entries(type, id)
  BY <1>1, SameStream
<1>5. HandsOff' /\ DownIsEmpty'
  BY <1>1 DEF SInv, HandsOff, DownIsEmpty
<1>6. ASSUME NEW id \in Ids
      PROVE  CallsAreLogged(id)' /\ HandsAreCurrent(id)' /\ MemoryIsReplay(id)'
  BY <1>1, <1>4
     DEF SInv, CallsAreLogged, HandsAreCurrent, MemoryIsReplay, InHand, Registering, Logged, Settling,
         MovedOn, Following, Missed
<1>7. QED  BY <1>3, <1>5, <1>6 DEF SInv

LEMMA RegistrationType ==
    ASSUME Shape, NEW id \in Ids, kinds[id] # "unused"
    PROVE  Registration(kinds[id]) \subseteq Trigger
<1>1. kinds[id] \in {"once", "every", "task", "event"} /\ now \in Nat
  BY MixesAssumption DEF Shape
<1>2. ASSUME NEW t \in Registration(kinds[id])
      PROVE  t \in Trigger
  <2>1. t.interval \in Nat /\ t.created \in Nat \union {None}
    BY <1>1, <1>2, IntervalAssumption DEF Registration
  <2>2. t.when \in {"none", "task", "event"}
    BY <1>1, <1>2 DEF Registration
  <2>3. t.next \in Nat \union {None}
    BY <1>1, <1>2, SchedulerBounds DEF Registration
  <2>4. t = [when |-> t.when, interval |-> t.interval, next |-> t.next, created |-> t.created]
    BY <1>2 DEF Registration
  <2>5. QED  BY <2>1, <2>2, <2>3, <2>4 DEF Trigger
<1>3. QED  BY <1>2

\* A call that opens, fails before it is on the stream, or takes its entry over
\* into memory.
LEMMA CallingKeeps ==
    ASSUME Shape, SInv, Calling
    PROVE  Shape' /\ SInv'
<1>1. /\ HandsOff /\ DownIsEmpty
      /\ \A id \in Ids : CallsAreLogged(id) /\ HandsAreCurrent(id) /\ MemoryIsReplay(id)
  BY DEF SInv
<1> DEFINE Opens(h) == calls[h] = None /\ ~calls'[h].logged /\ triggers' = triggers /\ up
                       /\ calls'[h] \in Call
                       /\ (calls'[h].does = "register" => Entries("registered", h) = {})
           Fails(h) == /\ calls[h] # None /\ ~calls[h].logged /\ calls'[h] = None
                       /\ triggers' = triggers
           Settles(h) == /\ calls[h] # None /\ calls[h].logged /\ calls'[h] = None
                         /\ triggers' = [triggers EXCEPT ![h] = IF calls[h].does = "register"
                                                                THEN calls[h].trigger ELSE None]
<1>2. /\ triggers \in [Ids -> Trigger \union {None}] /\ calls \in [Ids -> Call \union {None}]
      /\ faults \in Nat /\ revived \subseteq Ids
  BY DEF Shape
<1>3. /\ kinds' = kinds /\ now' = now /\ up' = up /\ reachedAt' = reachedAt /\ log' = log
      /\ queue' = queue /\ op' = op /\ starts' = starts /\ faults' \in Nat
  BY <1>2 DEF Calling, RegisterTrigger, RemoveTrigger, CallFails, CallSettles, world
<1>4. PICK h \in Ids : /\ Opens(h) \/ Fails(h) \/ Settles(h)
                       /\ calls' \in [Ids -> Call \union {None}]
                       /\ \A id \in Ids : id # h => calls'[id] = calls[id]
                       /\ revived' = IF Settles(h) THEN revived \ {h} ELSE revived
  <2>1. PICK h \in Ids : \/ RegisterTrigger(h) \/ RemoveTrigger(h)
                         \/ CallFails(h) \/ CallSettles(h)
    BY DEF Calling
  <2>2. CASE RegisterTrigger(h)
    <3>1. PICK t \in Registration(kinds[h]) :
             calls' = [calls EXCEPT ![h] = [does |-> "register", logged |-> FALSE, trigger |-> t]]
      BY <2>2 DEF RegisterTrigger
    <3>2. t \in Trigger
      BY <2>2, RegistrationType DEF RegisterTrigger
    <3>3. [does |-> "register", logged |-> FALSE, trigger |-> t] \in Call
      BY <3>2 DEF Call
    <3>4. Opens(h)
      BY <1>2, <2>2, <3>1, <3>3 DEF RegisterTrigger, world
    <3>5. ~Settles(h) /\ revived' = revived
      BY <2>2 DEF RegisterTrigger, world
    <3>6. QED  BY <1>2, <3>1, <3>3, <3>4, <3>5
  <2>3. CASE RemoveTrigger(h)
    <3>1. calls' = [calls EXCEPT ![h] = [does |-> "remove", logged |-> FALSE, trigger |-> triggers[h]]]
      BY <2>3 DEF RemoveTrigger
    <3>2. triggers[h] \in Trigger
      BY <1>2, <2>3 DEF RemoveTrigger
    <3>3. [does |-> "remove", logged |-> FALSE, trigger |-> triggers[h]] \in Call
      BY <3>2 DEF Call
    <3>4. Opens(h)
      BY <1>2, <2>3, <3>1, <3>3 DEF RemoveTrigger, world
    <3>5. ~Settles(h) /\ revived' = revived
      BY <2>3 DEF RemoveTrigger, world
    <3>6. QED  BY <1>2, <3>1, <3>3, <3>4, <3>5
  <2>4. CASE CallFails(h)
    BY <1>2, <2>4 DEF CallFails, world
  <2>5. CASE CallSettles(h)
    BY <1>2, <2>5 DEF CallSettles
  <2> HIDE DEF Opens, Fails, Settles
  <2>6. QED  BY <2>1, <2>2, <2>3, <2>4, <2>5
<1>5. /\ triggers' \in [Ids -> Trigger \union {None}]
      /\ \A id \in Ids : id # h => triggers'[id] = triggers[id]
  <2>1. CASE triggers' = triggers
    BY <1>2, <2>1
  <2>2. CASE Settles(h)
    BY <1>2, <2>2 DEF Call
  <2>3. QED  BY <1>4, <2>1, <2>2
<1>6. Shape'
  BY <1>2, <1>3, <1>4, <1>5 DEF Shape
<1>7. /\ Rebuilt(log)' = Rebuilt(log)
      /\ \A type, id : Entries(type, id)' = Entries(type, id)
  BY <1>3, SameStream
<1>8. DownIsEmpty'
  <2>1. up \/ calls = NoTriggers
    BY <1>1 DEF DownIsEmpty
  <2>2. calls = NoTriggers => up
    BY <1>4 DEF NoTriggers
  <2>3. QED  BY <1>3, <2>1, <2>2 DEF DownIsEmpty
<1>9. HandsOff'
  BY <1>1, <1>3 DEF HandsOff
<1>10. ASSUME NEW id \in Ids
       PROVE  CallsAreLogged(id)' /\ HandsAreCurrent(id)' /\ MemoryIsReplay(id)'
  <2>1. CallsAreLogged(id) /\ HandsAreCurrent(id) /\ MemoryIsReplay(id)
    BY <1>1
  <2>2. InHand(id)' <=> InHand(id)
    BY <1>3 DEF InHand
  <2>3. HandsAreCurrent(id)'
    <3>1. Settling(id)' <=> Settling(id)
      BY <1>3 DEF Settling
    <3>2. MovedOn' = MovedOn
      BY <1>3 DEF MovedOn, Following, Missed
    <3>3. CASE triggers'[id] = triggers[id] /\ (Logged(id)' <=> Logged(id)) /\ (id \in revived' <=> id \in revived)
      BY <1>3, <1>7, <2>1, <3>1, <3>2, <3>3 DEF HandsAreCurrent
    <3>4. CASE id = h /\ Settles(h)
      <4>1. calls[h] \in Call /\ triggers'[h] = IF calls[h].does = "register"
                                                THEN calls[h].trigger ELSE None
        BY <1>2, <3>4
      <4>2. CASE calls[h].does = "remove"
        BY <1>3, <1>4, <1>7, <2>1, <3>1, <3>2, <3>4, <4>1, <4>2
           DEF HandsAreCurrent, CallsAreLogged, Logged
      <4>3. CASE calls[h].does = "register"
        <5>1. ~Settling(id)
          BY <2>1, <3>4, <4>3 DEF CallsAreLogged, Registering, InHand, Settling
        <5>2. QED  BY <1>3, <1>4, <1>7, <2>1, <3>1, <3>4, <5>1 DEF HandsAreCurrent
      <4>4. QED  BY <4>1, <4>2, <4>3 DEF Call
    <3>5. QED  BY <1>4, <1>5, <3>3, <3>4 DEF Logged
  <2>4. CASE id # h
    BY <1>3, <1>4, <1>5, <1>7, <2>1, <2>2, <2>3, <2>4
       DEF CallsAreLogged, MemoryIsReplay, Registering, Logged, Settling
  <2>5. CASE id = h /\ Opens(h)
    <3>1. revived' = revived
      BY <1>4, <2>5
    <3>2. QED  BY <1>3, <1>7, <2>1, <2>2, <2>3, <2>5, <3>1
                  DEF CallsAreLogged, MemoryIsReplay, Registering, Logged, Settling
  <2>6. CASE id = h /\ Fails(h)
    <3>1. revived' = revived
      BY <1>4, <2>6
    <3>2. QED  BY <1>3, <1>7, <2>1, <2>2, <2>3, <2>6, <3>1
                  DEF CallsAreLogged, MemoryIsReplay, Registering, Logged, Settling
  <2>7. CASE id = h /\ Settles(h)
    <3>1. calls[h] \in Call /\ triggers'[h] = IF calls[h].does = "register"
                                              THEN calls[h].trigger ELSE None
      BY <1>2, <2>7
    <3>2. CASE calls[h].does = "register"
      BY <1>3, <1>7, <2>1, <2>2, <2>3, <2>7, <3>1, <3>2
         DEF CallsAreLogged, MemoryIsReplay, Registering, Logged, Settling
    <3>3. CASE calls[h].does = "remove"
      BY <1>3, <1>7, <2>1, <2>2, <2>3, <2>7, <3>1, <3>3
         DEF CallsAreLogged, MemoryIsReplay, Registering, Logged, Settling
    <3>4. QED  BY <3>1, <3>2, <3>3 DEF Call
  <2>8. QED  BY <1>4, <2>4, <2>5, <2>6, <2>7
<1>11. QED  BY <1>6, <1>8, <1>9, <1>10 DEF SInv

\* The process is gone, and with it all it held; what the stream says stays.
LEMMA ProcessEndsKeeps ==
    ASSUME Shape, SInv, ProcessEnds, faults' \in Nat,
           UNCHANGED <<kinds, now, reachedAt, log, starts>>
    PROVE  Shape' /\ SInv'
<1>1. /\ up' = FALSE /\ op' = NoOp /\ queue' = << >>
      /\ triggers' = NoTriggers /\ calls' = NoTriggers /\ revived' = {}
  BY DEF ProcessEnds
<1>2. Shape'
  <2>1. NoTriggers \in [Ids -> Call \union {None}] /\ << >> \in Seq({"tick", "event"})
    BY DEF NoTriggers
  <2>2. QED  BY <1>1, <2>1, NoOpType, NoTriggersType DEF Shape
<1>3. HandsOff' /\ DownIsEmpty'
  BY <1>1, NoOpType DEF HandsOff, DownIsEmpty
<1>4. /\ Rebuilt(log)' = Rebuilt(log)
      /\ \A type, id : Entries(type, id)' = Entries(type, id)
  BY SameStream
<1>5. ASSUME NEW id \in Ids
      PROVE  CallsAreLogged(id)' /\ HandsAreCurrent(id)' /\ MemoryIsReplay(id)'
  <2>1. triggers'[id] = None /\ calls'[id] = None /\ op'.phase = "idle" /\ op'.due[id] = None
    BY <1>1, NoOpType DEF NoTriggers
  <2>2. CallsAreLogged(id)
    BY DEF SInv
  <2>3. QED  BY <1>1, <1>4, <2>1, <2>2
                DEF CallsAreLogged, HandsAreCurrent, MemoryIsReplay, InHand, Registering,
                    Logged, Settling
<1>6. QED  BY <1>2, <1>3, <1>5 DEF SInv

LEMMA RecordFailsKeeps ==
    ASSUME Shape, SInv, RecordFails
    PROVE  Shape' /\ SInv'
<1>1. faults' \in Nat /\ UNCHANGED <<kinds, now, reachedAt, log, starts>>
  BY DEF RecordFails, Shape
<1>2. CASE ProcessEnds
  BY <1>1, <1>2, ProcessEndsKeeps
<1>3. CASE op' = NoOp /\ UNCHANGED <<up, queue, triggers, calls, revived>>
  <2>1. op.phase = "turn"
    BY DEF RecordFails
  <2>2. Shape'
    BY <1>1, <1>3, NoOpType DEF Shape
  <2>3. HandsOff' /\ DownIsEmpty'
    BY <1>3, NoOpType DEF SInv, HandsOff, DownIsEmpty
  <2>4. /\ Rebuilt(log)' = Rebuilt(log)
        /\ \A type, id : Entries(type, id)' = Entries(type, id)
    BY <1>1, SameStream
  <2>5. ASSUME NEW id \in Ids
        PROVE  CallsAreLogged(id)' /\ HandsAreCurrent(id)' /\ MemoryIsReplay(id)'
    <3>1. op'.phase = "idle" /\ op'.due[id] = None
      BY <1>3, NoOpType DEF NoTriggers
    <3>2. CallsAreLogged(id) /\ HandsAreCurrent(id) /\ MemoryIsReplay(id)
      BY DEF SInv
    <3>3. CallsAreLogged(id)'
      BY <1>3, <2>4, <3>1, <3>2 DEF CallsAreLogged, InHand, Registering, Logged
    <3>4. HandsAreCurrent(id)'
      BY <1>3, <2>4, <3>1, <3>2 DEF HandsAreCurrent, Settling
    <3>5. MemoryIsReplay(id)'
      BY <1>3, <2>1, <2>4, <3>1, <3>2 DEF MemoryIsReplay, Logged, Settling
    <3>6. QED  BY <3>3, <3>4, <3>5
  <2>6. QED  BY <2>2, <2>3, <2>5 DEF SInv
<1>4. QED  BY <1>2, <1>3 DEF RecordFails

LEMMA CrashKeeps ==
    ASSUME Shape, SInv, Crash
    PROVE  Shape' /\ SInv'
<1>1. faults' \in Nat /\ UNCHANGED <<kinds, now, reachedAt, log, starts>> /\ ProcessEnds
  BY DEF Crash, Shape
<1>2. QED  BY <1>1, ProcessEndsKeeps

\* A boot makes the replay the schedule.
LEMMA BootKeeps ==
    ASSUME Shape, SInv, Boot
    PROVE  Shape' /\ SInv'
<1>1. /\ ~up /\ up' = TRUE /\ triggers' = Rebuilt(log)
      /\ UNCHANGED <<kinds, now, reachedAt, faults, log, calls, queue, op, starts,
                    revived>>
  BY DEF Boot
<1>2. op = NoOp /\ calls = NoTriggers
  BY <1>1 DEF SInv, DownIsEmpty
<1>3. Shape'
  <2>1. Rebuilt(log) \in [Ids -> Trigger \union {None}]
    BY RebuiltType DEF Shape
  <2>2. QED  BY <1>1, <2>1 DEF Shape
<1>4. HandsOff' /\ DownIsEmpty'
  BY <1>1 DEF SInv, HandsOff, DownIsEmpty
<1>5. /\ Rebuilt(log)' = Rebuilt(log)
      /\ \A type, id : Entries(type, id)' = Entries(type, id)
  BY <1>1, SameStream
<1>6. ASSUME NEW id \in Ids
      PROVE  CallsAreLogged(id)' /\ HandsAreCurrent(id)' /\ MemoryIsReplay(id)'
  <2>1. /\ calls'[id] = None /\ op'.phase = "idle" /\ op'.due[id] = None
        /\ op' = op /\ triggers'[id] = Rebuilt(log)[id]
    BY <1>1, <1>2, NoOpType DEF NoTriggers
  <2>2. CallsAreLogged(id) /\ HandsAreCurrent(id)
    BY DEF SInv
  <2>3. QED  BY <1>1, <1>5, <2>1, <2>2
                DEF CallsAreLogged, HandsAreCurrent, MemoryIsReplay, InHand, Registering,
                    Logged, Settling
<1>7. QED  BY <1>3, <1>4, <1>6 DEF SInv

-----------------------------------------------------------------------------
(* The invariant *)

LEMMA InitIsSInv ==
    ASSUME Init
    PROVE  Shape /\ SInv
<1>1. Shape
  <2>1. /\ NoTriggers \in [Ids -> Call \union {None}]
        /\ [id \in Ids |-> 0] \in [Ids -> Nat]
        /\ << >> \in Seq({"tick", "event"}) /\ << >> \in Seq(Entry)
    BY DEF NoTriggers
  <2>2. revived \subseteq Ids /\ op.phase = "idle"
    BY NoOpType DEF Init
  <2>3. QED  BY <2>1, <2>2, NoOpType, NoTriggersType, ZenonT(40) DEF Init, Shape
<1>2. HandsOff /\ DownIsEmpty
  BY NoOpType DEF Init, HandsOff, DownIsEmpty
<1>3. Rebuilt(log) = NoTriggers
  BY RebuiltIsFold, R!FoldsNothing DEF Init
<1>4. ASSUME NEW id \in Ids
      PROVE  CallsAreLogged(id) /\ HandsAreCurrent(id) /\ MemoryIsReplay(id)
  <2>1. /\ triggers[id] = None /\ calls[id] = None /\ revived = {} /\ op.phase = "idle" /\ op.due[id] = None
        /\ Rebuilt(log)[id] = None
    BY <1>3, NoOpType DEF Init, NoTriggers
  <2>2. QED  BY <2>1
                DEF CallsAreLogged, HandsAreCurrent, MemoryIsReplay, InHand, Registering,
                    Logged, Settling
<1>5. QED  BY <1>1, <1>2, <1>4 DEF SInv

LEMMA NextKeeps ==
    ASSUME Shape, SInv, [Next]_vars
    PROVE  Shape' /\ SInv'
<1>1. CASE Next
  BY <1>1, NextIsOneOf, OutsideKeeps, WorkingKeeps, CallingKeeps, RecordRunKeeps,
     RecordFailsKeeps, CallLogsKeeps, CrashKeeps, BootKeeps
<1>2. CASE UNCHANGED vars
  <2>1. Shape'
    BY <1>2 DEF vars, Shape
  <2>2. SInv'
    <3>1. /\ Rebuilt(log)' = Rebuilt(log)
          /\ \A type, id : Entries(type, id)' = Entries(type, id)
      BY <1>2, SameStream DEF vars
    <3>2. /\ up' = up /\ triggers' = triggers /\ calls' = calls /\ queue' = queue /\ op' = op
          /\ revived' = revived
      BY <1>2 DEF vars
    <3>3. HandsOff' /\ DownIsEmpty'
      BY <3>2 DEF SInv, HandsOff, DownIsEmpty
    <3>4. ASSUME NEW id \in Ids
          PROVE  CallsAreLogged(id)' /\ HandsAreCurrent(id)' /\ MemoryIsReplay(id)'
      BY <3>1, <3>2
         DEF SInv, CallsAreLogged, HandsAreCurrent, MemoryIsReplay, InHand, Registering, Logged,
             Settling, MovedOn, Following, Missed
    <3>5. QED  BY <3>3, <3>4 DEF SInv
  <2>3. QED  BY <2>1, <2>2
<1>3. QED  BY <1>1, <1>2

LEMMA Stays == Spec => [](Shape /\ SInv)
<1>1. Init => Shape /\ SInv
  BY InitIsSInv
<1>2. Shape /\ SInv /\ [Next]_vars => (Shape /\ SInv)'
  BY NextKeeps
<1>3. QED  BY <1>1, <1>2, PTL DEF Spec

(***************************************************************************)
(* LiveScheduleIsReplay: what AgentScheduler holds in memory is what       *)
(* rebuild would make of the `scheduler` stream, for every trigger that is *)
(* not being changed, removed ones included, but for those the end of a    *)
(* run put back after their removal.                                       *)
(***************************************************************************)
THEOREM LiveIsReplay == Spec => []LiveScheduleIsReplay
<1>1. Shape /\ SInv => LiveScheduleIsReplay
  BY DEF SInv, MemoryIsReplay, LiveScheduleIsReplay, Logged, Settling
<1>2. QED  BY <1>1, Stays, PTL

-----------------------------------------------------------------------------
(* What one recorded run says of the next *)

RunsIn(s, id) == {i \in DOMAIN s : s[i].type = "triggered" /\ s[i].id = id}

\* The first half of ExtraTurnsAreFaults.
SpacedOut(s, id) ==
    \A i, j \in RunsIn(s, id) : i < j => s[i].next # None /\ s[i].next <= s[j].firedAt

\* No run on the stream forbids the one this trigger is due for.
Ahead(s, t, id) ==
    \A i \in RunsIn(s, id) :
        t # None => /\ t.when = "none"
                    /\ t.next # None => s[i].next # None /\ s[i].next <= t.next

\* A schedule that fires at this time is due.
Fits(t, at) == t.when = "none" => t.next # None /\ t.next <= at

\* Whatever holds a trigger, memory, stream or operation, no recorded run forbids
\* it to fire; and what the operation is about to run is due.
Spaced(id) ==
    /\ Entries("registered", id) = {} \/ Registering(id) => RunsIn(log, id) = {}
    /\ SpacedOut(log, id)
    /\ ~Settling(id) => Ahead(log, triggers[id], id)
    /\ Ahead(log, Rebuilt(log)[id], id)
    /\ op.due[id] # None => Ahead(log, op.due[id], id) /\ Fits(op.due[id], op.now)
    /\ op.phase \in {"read", "turn"} /\ op.id = id => Ahead(log, op.trigger, id)
    /\ Settling(id) => Ahead(log, MovedOn, id)

HandFits ==
    /\ op.phase = "read" => op.trigger.when # "none"
    /\ op.phase = "turn" => Fits(op.trigger, op.now)

AllSpaced == HandFits /\ \A id \in Ids : Spaced(id)

\* An entry that is no run of this trigger.
LEMMA OtherEntry ==
    ASSUME NEW s \in Seq(Entry), NEW e \in Entry, NEW id,
           ~(e.type = "triggered" /\ e.id = id)
    PROVE  /\ RunsIn(Append(s, e), id) = RunsIn(s, id)
           /\ SpacedOut(s, id) => SpacedOut(Append(s, e), id)
           /\ \A t : Ahead(s, t, id) => Ahead(Append(s, e), t, id)
<1>1. /\ Len(s) \in Nat /\ DOMAIN s = 1 .. Len(s) /\ DOMAIN Append(s, e) = 1 .. (Len(s) + 1)
      /\ Append(s, e)[Len(s) + 1] = e /\ \A i \in DOMAIN s : Append(s, e)[i] = s[i]
  OBVIOUS
<1>2. RunsIn(Append(s, e), id) = RunsIn(s, id)
  BY <1>1 DEF RunsIn
<1>3. \A i \in RunsIn(s, id) : Append(s, e)[i] = s[i]
  BY <1>1 DEF RunsIn
<1>4. SpacedOut(s, id) => SpacedOut(Append(s, e), id)
  <2> DEFINE r == Append(s, e)
  <2>1. RunsIn(r, id) = RunsIn(s, id) /\ \A i \in RunsIn(s, id) : r[i] = s[i]
    BY <1>2, <1>3
  <2> HIDE DEF r
  <2>2. SpacedOut(s, id) => SpacedOut(r, id)
    BY <2>1 DEF SpacedOut
  <2>3. QED  BY <2>2 DEF r
<1>5. \A t : Ahead(s, t, id) => Ahead(Append(s, e), t, id)
  BY <1>2, <1>3 DEF Ahead
<1>6. QED  BY <1>2, <1>4, <1>5

\* A run of the trigger, fired when it was due.
LEMMA RunEntry ==
    ASSUME NEW s \in Seq(Entry), NEW e \in Entry, NEW id, NEW t \in Trigger, t # None,
           e.type = "triggered", e.id = id, SpacedOut(s, id), Ahead(s, t, id),
           Fits(t, e.firedAt), e.next # None => e.next >= e.firedAt
    PROVE  SpacedOut(Append(s, e), id) /\ Ahead(Append(s, e), Ran(t, e.next), id)
<1>1. /\ Len(s) \in Nat /\ DOMAIN s = 1 .. Len(s) /\ DOMAIN Append(s, e) = 1 .. (Len(s) + 1)
      /\ Append(s, e)[Len(s) + 1] = e /\ \A i \in DOMAIN s : Append(s, e)[i] = s[i]
  OBVIOUS
<1> DEFINE r == Append(s, e)
           n == Len(s) + 1
<1>2. /\ RunsIn(r, id) = RunsIn(s, id) \union {n} /\ n \in Nat /\ r[n] = e
      /\ \A i \in RunsIn(s, id) : i \in Nat /\ i < n /\ r[i] = s[i]
  BY <1>1 DEF RunsIn
<1>3. \A i \in RunsIn(s, id) : s[i].next \in Nat \union {None} /\ s[i].firedAt \in Nat
  <2>1. \A i \in DOMAIN s : s[i] \in Entry
    OBVIOUS
  <2>2. QED  BY <2>1 DEF RunsIn, Entry
<1>4. e.next \in Nat \union {None} /\ e.firedAt \in Nat
  BY DEF Entry
<1> HIDE DEF r, n
<1>5. ASSUME NEW i \in RunsIn(s, id)
      PROVE  t.when = "none" /\ s[i].next # None /\ s[i].next <= e.firedAt
  <2>1. t.when = "none" /\ t.next # None /\ t.next <= e.firedAt
    BY <1>5 DEF Ahead, Fits
  <2>2. s[i].next # None /\ s[i].next <= t.next
    BY <1>5, <2>1 DEF Ahead
  <2>3. s[i].next \in Nat /\ t.next \in Nat
    BY <1>3, <1>5, <2>1, <2>2 DEF Trigger
  <2>4. QED  BY <1>4, <2>1, <2>2, <2>3
<1>6. SpacedOut(r, id)
  <2>1. SUFFICES ASSUME NEW i \in RunsIn(r, id), NEW j \in RunsIn(r, id), i < j
                 PROVE  r[i].next # None /\ r[i].next <= r[j].firedAt
    BY DEF SpacedOut
  <2>2. i \in RunsIn(s, id)
    BY <1>2, <2>1
  <2>3. CASE j \in RunsIn(s, id)
    BY <1>2, <2>1, <2>2, <2>3 DEF SpacedOut
  <2>4. CASE j = n
    BY <1>2, <1>5, <2>2, <2>4
  <2>5. QED  BY <1>2, <2>3, <2>4
<1>7. Ahead(r, Ran(t, e.next), id)
  <2> DEFINE u == Ran(t, e.next)
  <2>1. SUFFICES ASSUME NEW i \in RunsIn(r, id), u # None
                 PROVE  u.when = "none" /\ (u.next # None => r[i].next # None /\ r[i].next <= u.next)
    BY DEF Ahead
  <2>2. u.when = "none" /\ u.next = e.next
    BY <2>1 DEF Ran, Trigger
  <2> HIDE DEF u
  <2>3. CASE i \in RunsIn(s, id)
    BY <1>2, <1>3, <1>4, <1>5, <2>2, <2>3
  <2>4. CASE i = n
    BY <1>2, <1>4, <2>2, <2>4
  <2>5. QED  BY <1>2, <2>3, <2>4
<1>8. QED  BY <1>6, <1>7 DEF r

LEMMA WorkingSpaces ==
    ASSUME Shape, SInv, AllSpaced, Working
    PROVE  AllSpaced'
<1>1. /\ log' = log /\ calls' = calls
      /\ Picks \/ FiresHeld \/ Reads \/ LetsGo
  BY WorkingSteps DEF SInv
<1>2. /\ Rebuilt(log)' = Rebuilt(log)
      /\ \A type, id : Entries(type, id)' = Entries(type, id)
  BY <1>1, SameStream
<1>3. HandFits /\ \A id \in Ids : Spaced(id)
  BY DEF AllSpaced
<1>4. ASSUME NEW id \in Ids
      PROVE  /\ (Entries("registered", id) = {} \/ Registering(id))' => RunsIn(log, id) = {}
             /\ SpacedOut(log, id) /\ Ahead(log, Rebuilt(log)[id], id)
  BY <1>1, <1>2, <1>3 DEF Spaced, Registering
<1>5. SUFFICES /\ HandFits'
               /\ \A id \in Ids :
                     /\ ~Settling(id)' => Ahead(log, triggers'[id], id)
                     /\ op'.due[id] # None => Ahead(log, op'.due[id], id) /\ Fits(op'.due[id], op'.now)
                     /\ op'.phase \in {"read", "turn"} /\ op'.id = id => Ahead(log, op'.trigger, id)
                     /\ ~Settling(id)'
  BY <1>1, <1>2, <1>4 DEF AllSpaced, Spaced
<1>6. CASE Picks
  BY <1>3, <1>6 DEF Picks, HandFits, Spaced, Settling, Due, Fits
<1>7. CASE FiresHeld
  <2>1. PICK h \in Ids, t \in Trigger \ {None} :
       /\ \/ op.due[h] = t /\ op.due[h] # None /\ op.phase = "loop" /\ op'.now = op.now
          \/ op.phase = "read" /\ op.id = h /\ op.trigger = t /\ op'.now = op.now
          \/ /\ op.phase = "idle" /\ triggers[h] = t /\ triggers[h] # None
             /\ t.when # "none" /\ op'.due = NoTriggers
       /\ op'.phase = "turn" /\ op'.id = h /\ op'.trigger = t
       /\ \A g \in Ids : op'.due[g] \in {None, op.due[g]}
       /\ UNCHANGED triggers
    BY <1>7 DEF FiresHeld
  <2>2. Ahead(log, t, h) /\ Fits(t, op'.now)
    BY <1>3, <2>1 DEF Spaced, HandFits, Settling, Fits
  <2>3. \A g \in Ids : op'.due[g] # None => op'.due[g] = op.due[g] /\ op'.now = op.now
    BY <2>1 DEF NoTriggers
  <2>4. QED  BY <1>3, <2>1, <2>2, <2>3 DEF Spaced, HandFits, Settling
<1>8. CASE Reads
  BY <1>3, <1>8 DEF Reads, HandFits, Spaced, Settling
<1>9. CASE LetsGo
  <2>1. /\ op'.phase \in {"idle", "loop"}
        /\ \A h \in Ids : op'.due[h] # None => op'.due[h] = op.due[h] /\ op'.now = op.now
    BY <1>9 DEF LetsGo, NoTriggers
  <2>2. ASSUME NEW h \in Ids PROVE Ahead(log, triggers'[h], h)
    <3>1. triggers \in [Ids -> Trigger \union {None}]
      BY DEF Shape
    <3>2. CASE Settling(h)
      <4>1. triggers'[h] = MovedOn
        BY <1>9, <3>1, <3>2 DEF LetsGo, Settling
      <4>2. QED  BY <1>3, <3>2, <4>1 DEF Spaced
    <3>3. CASE ~Settling(h)
      <4>1. triggers'[h] = triggers[h]
        BY <1>9, <3>1, <3>3 DEF LetsGo, Settling
      <4>2. QED  BY <1>3, <3>3, <4>1 DEF Spaced
    <3>4. QED  BY <3>2, <3>3
  <2>3. QED  BY <1>3, <2>1, <2>2 DEF Spaced, HandFits, Settling
<1>10. QED  BY <1>1, <1>6, <1>7, <1>8, <1>9

LEMMA RecordRunSpaces ==
    ASSUME Shape, SInv, AllSpaced, RecordRun
    PROVE  AllSpaced'
<1>1. /\ UNCHANGED <<triggers, calls>>
      /\ op.phase = "turn" /\ op' = [op EXCEPT !.phase = "settle"]
  BY DEF RecordRun
<1>2. /\ op.id \in Ids /\ op.trigger \in Trigger /\ op.trigger # None /\ op.now \in Nat /\ op \in Operation
      /\ log \in Seq(Entry) /\ op.due[op.id] = None
  BY <1>1 DEF Shape, Operation, SInv, HandsOff
<1>3. /\ op'.phase = "settle" /\ op'.id = op.id /\ op'.trigger = op.trigger
      /\ op'.due = op.due /\ op'.now = op.now
  BY <1>1, <1>2 DEF Operation, Phases
<1> DEFINE next == Following(op.trigger, op.now)
           e == Triggered(op.id, op.now, Missed(op.trigger, op.now), next)
<1>4. /\ e \in Entry /\ e.id = op.id /\ e.type = "triggered" /\ e.next = next
      /\ e.firedAt = op.now
  BY <1>2, FollowingType DEF Triggered, Entry
<1>5. Logs(e) /\ log' = Append(log, e)
  BY <1>2 DEF RecordRun, Logs, Appended, NextSequence
<1>6. e.next # None => e.next >= e.firedAt
  BY <1>2, <1>4, FollowingType
<1>7. MovedOn = Ran(op.trigger, e.next) /\ MovedOn' = MovedOn
  BY <1>3, <1>4 DEF MovedOn, Following, Missed
<1> HIDE DEF e
<1>8. /\ Rebuilt(log)' = Replayed(Rebuilt(log), e)
      /\ \A id : Entries("registered", id)' = Entries("registered", id)
  BY <1>4, <1>5, LogGrows
<1>9. /\ \A h \in Ids : h # op.id => Rebuilt(log)'[h] = Rebuilt(log)[h]
      /\ Rebuilt(log)'[op.id] = IF Rebuilt(log)[op.id] = None THEN None
                                ELSE Ran(Rebuilt(log)[op.id], e.next)
  BY <1>2, <1>4, <1>8, ReplayedOnce, RebuiltType
<1>10. HandFits'
  BY <1>3 DEF HandFits
<1>11. ASSUME NEW id \in Ids
       PROVE  Spaced(id)'
  <2>1. Spaced(id) /\ CallsAreLogged(id) /\ HandsAreCurrent(id)
    BY DEF SInv, AllSpaced
  <2>2. CASE id = op.id
    <3>1. SpacedOut(log, id) /\ Ahead(log, op.trigger, id) /\ Fits(op.trigger, e.firedAt)
      BY <1>1, <1>4, <2>1, <2>2 DEF Spaced, AllSpaced, HandFits
    <3>2. SpacedOut(log', id) /\ Ahead(log', MovedOn, id)
      BY <1>2, <1>4, <1>5, <1>6, <1>7, <2>2, <3>1, RunEntry
    <3>3. Rebuilt(log)'[id] \in {MovedOn, None}
      BY <1>1, <1>7, <1>9, <2>1, <2>2 DEF HandsAreCurrent
    <3>4. Ahead(log', Rebuilt(log)'[id], id)
      BY <3>2, <3>3 DEF Ahead
    <3>5. InHand(id)
      BY <1>1, <2>2 DEF InHand
    <3>6. ~(Entries("registered", id) = {} \/ Registering(id))'
      BY <1>1, <1>8, <2>1, <3>5 DEF CallsAreLogged, Registering
    <3>7. Settling(id)' /\ op'.due[id] = None /\ op'.phase \notin {"read", "turn"}
      BY <1>2, <1>3, <2>2 DEF Settling
    <3>8. QED  BY <1>7, <3>2, <3>4, <3>6, <3>7 DEF Spaced
  <2>3. CASE id # op.id
    <3>1. /\ RunsIn(log', id) = RunsIn(log, id)
          /\ SpacedOut(log, id) => SpacedOut(log', id)
          /\ \A t : Ahead(log, t, id) => Ahead(log', t, id)
      BY <1>2, <1>4, <1>5, <2>3, OtherEntry
    <3>2. ~Settling(id) /\ ~Settling(id)' /\ op'.id # id
      BY <1>1, <1>3, <2>3 DEF Settling
    <3>3. Rebuilt(log)'[id] = Rebuilt(log)[id] /\ (Registering(id)' <=> Registering(id))
      BY <1>1, <1>9, <2>3 DEF Registering
    <3>4. QED  BY <1>1, <1>3, <1>8, <2>1, <3>1, <3>2, <3>3 DEF Spaced
  <2>4. QED  BY <2>2, <2>3
<1>12. QED  BY <1>10, <1>11 DEF AllSpaced

LEMMA CallLogsSpaces ==
    ASSUME Shape, SInv, AllSpaced, NEW h \in Ids, CallLogs(h)
    PROVE  AllSpaced'
<1>1. /\ UNCHANGED <<triggers, op>>
      /\ calls[h] \in Call /\ calls[h] # None /\ ~calls[h].logged /\ calls \in [Ids -> Call \union {None}]
      /\ calls' = [calls EXCEPT ![h] = [calls[h] EXCEPT !.logged = TRUE]]
      /\ log \in Seq(Entry)
  BY DEF CallLogs, Shape
<1>2. \A id \in Ids : Registering(id)' <=> Registering(id)
  BY <1>1, NoneAssumption DEF Call, Registering
<1> DEFINE e == IF calls[h].does = "register" THEN Registered(h, calls[h].trigger) ELSE Removed(h)
<1>3. /\ e \in Entry /\ e.id = h
      /\ e.type = IF calls[h].does = "register" THEN "registered" ELSE "removed"
      /\ calls[h].does = "register" => e.trigger = calls[h].trigger
  BY <1>1 DEF Registered, Removed, Entry, Call
<1>4. Logs(e) /\ log' = Append(log, e)
  BY <1>1 DEF CallLogs, Logs, Appended, NextSequence
<1> HIDE DEF e
<1>5. /\ Rebuilt(log)' = Replayed(Rebuilt(log), e)
      /\ \A type, id : Entries(type, id) \subseteq Entries(type, id)'
  BY <1>3, <1>4, LogGrows
<1>6. /\ \A id \in Ids : id # h => Rebuilt(log)'[id] = Rebuilt(log)[id]
      /\ Rebuilt(log)'[h] = IF calls[h].does = "register" THEN calls[h].trigger ELSE None
  BY <1>1, <1>3, <1>5, ReplayedOnce, RebuiltType DEF Call
<1>7. HandFits'
  BY <1>1 DEF AllSpaced, HandFits
<1>8. ASSUME NEW id \in Ids
      PROVE  Spaced(id)'
  <2>1. Spaced(id)
    BY DEF AllSpaced
  <2>2. /\ RunsIn(log', id) = RunsIn(log, id)
        /\ SpacedOut(log, id) => SpacedOut(log', id)
        /\ \A t : Ahead(log, t, id) => Ahead(log', t, id)
    BY <1>1, <1>3, <1>4, OtherEntry
  <2>3. Ahead(log', Rebuilt(log)'[id], id)
    <3>1. CASE id # h
      BY <1>6, <2>1, <2>2, <3>1 DEF Spaced
    <3>2. CASE id = h /\ calls[h].does = "register"
      <4>1. RunsIn(log', id) = {}
        BY <1>1, <2>1, <2>2, <3>2 DEF Spaced, Registering
      <4>2. QED  BY <4>1 DEF Ahead
    <3>3. CASE id = h /\ calls[h].does = "remove"
      BY <1>1, <1>6, <3>3 DEF Ahead
    <3>4. QED  BY <1>1, <3>1, <3>2, <3>3 DEF Call
  <2>4. (Settling(id)' <=> Settling(id)) /\ MovedOn' = MovedOn
    BY <1>1 DEF Settling, MovedOn, Following, Missed
  <2>5. QED  BY <1>1, <1>2, <1>5, <2>1, <2>2, <2>3, <2>4 DEF Spaced
<1>9. QED  BY <1>7, <1>8 DEF AllSpaced

\* Neither the stream nor the operation moves.
LEMMA CallingSpaces ==
    ASSUME Shape, SInv, AllSpaced, Calling
    PROVE  AllSpaced'
<1>1. log' = log /\ op' = op
  BY DEF Calling, RegisterTrigger, RemoveTrigger, CallFails, CallSettles
<1>2. /\ Rebuilt(log)' = Rebuilt(log)
      /\ \A type, id : Entries(type, id)' = Entries(type, id)
  BY <1>1, SameStream
<1>3. /\ calls \in [Ids -> Call \union {None}] /\ triggers \in [Ids -> Trigger \union {None}]
  BY DEF Shape
<1>4. ASSUME NEW id \in Ids
      PROVE  Spaced(id)'
  <2>1. Spaced(id) /\ CallsAreLogged(id)
    BY DEF SInv, AllSpaced
  <2>2. (Settling(id)' <=> Settling(id)) /\ MovedOn' = MovedOn
    BY <1>1 DEF Settling, MovedOn, Following, Missed
  <2>3. Registering(id)' => Registering(id) \/ Entries("registered", id) = {}
    BY <1>3 DEF Calling, RegisterTrigger, RemoveTrigger, CallFails, CallSettles, Registering
  <2>4. triggers'[id] \in {triggers[id], None} \/ Registering(id)
    BY <1>3 DEF Calling, RegisterTrigger, RemoveTrigger, CallFails, CallSettles, Registering
  <2>5. ~Settling(id) => Ahead(log, triggers'[id], id)
    BY <2>1, <2>4 DEF Spaced, Ahead
  <2>6. QED  BY <1>1, <1>2, <2>1, <2>2, <2>3, <2>5 DEF Spaced
<1>5. HandFits'
  BY <1>1 DEF AllSpaced, HandFits
<1>6. QED  BY <1>4, <1>5 DEF AllSpaced

\* The operation is over, or the process; or memory is made of the stream.
LEMMA EndsSpace ==
    ASSUME Shape, SInv, AllSpaced, RecordFails \/ Crash \/ Boot
    PROVE  AllSpaced'
<1>1. log' = log /\ op' = NoOp
  BY DEF RecordFails, Crash, Boot, ProcessEnds, SInv, DownIsEmpty
<1>2. /\ Rebuilt(log)' = Rebuilt(log)
      /\ \A type, id : Entries(type, id)' = Entries(type, id)
  BY <1>1, SameStream
<1>3. /\ \/ triggers' = triggers /\ op.phase = "turn"
         \/ triggers' = NoTriggers
         \/ triggers' = Rebuilt(log)
      /\ calls' \in {calls, NoTriggers}
  BY DEF RecordFails, Crash, Boot, ProcessEnds
<1>4. ASSUME NEW id \in Ids
      PROVE  Spaced(id)'
  <2>1. Spaced(id)
    BY DEF AllSpaced
  <2>2. ~Settling(id)' /\ op'.due[id] = None /\ op'.phase = "idle"
    BY <1>1, NoOpType DEF Settling, NoTriggers
  <2>3. Registering(id)' => Registering(id)
    BY <1>3 DEF Registering, NoTriggers
  <2>4. Ahead(log, triggers'[id], id)
    BY <1>3, <2>1 DEF Spaced, Settling, Ahead, NoTriggers
  <2>5. QED  BY <1>1, <1>2, <2>1, <2>2, <2>3, <2>4 DEF Spaced
<1>5. HandFits'
  BY <1>1, NoOpType DEF HandFits
<1>6. QED  BY <1>4, <1>5 DEF AllSpaced

LEMMA SpacedRests ==
    ASSUME AllSpaced, Outside \/ UNCHANGED vars
    PROVE  AllSpaced'
<1>1. log' = log /\ op' = op /\ triggers' = triggers /\ calls' = calls
  BY DEF Outside, Tick, EventAppended, TimePasses, TaskReaches, vars
<1>2. /\ Rebuilt(log)' = Rebuilt(log)
      /\ \A type, id : Entries(type, id)' = Entries(type, id)
  BY <1>1, SameStream
<1>3. ASSUME NEW id \in Ids
      PROVE  Spaced(id)'
  BY <1>1, <1>2 DEF AllSpaced, Spaced, Settling, Registering, MovedOn, Following, Missed
<1>4. HandFits'
  BY <1>1 DEF AllSpaced, HandFits
<1>5. QED  BY <1>3, <1>4 DEF AllSpaced

LEMMA RunsAreSpaced == Spec => []AllSpaced
<1>1. Init => AllSpaced
  <2>1. ASSUME Init PROVE AllSpaced
    <3>1. log = << >> /\ op = NoOp
      BY <2>1 DEF Init
    <3>2. \A id : RunsIn(log, id) = {}
      BY <3>1 DEF RunsIn
    <3>3. op.phase = "idle" /\ op.due = NoTriggers
      BY <3>1, NoOpType
    <3>4. QED  BY <3>2, <3>3 DEF AllSpaced, Spaced, HandFits, SpacedOut, Ahead, Settling, NoTriggers
  <2>2. QED  BY <2>1
<1>2. AllSpaced /\ Shape /\ SInv /\ [Next]_vars => AllSpaced'
  BY NextIsOneOf, WorkingSpaces, RecordRunSpaces, CallLogsSpaces, CallingSpaces, EndsSpace,
     SpacedRests
<1>3. QED  BY <1>1, <1>2, Stays, PTL DEF Spec

-----------------------------------------------------------------------------
(* Turns and recorded runs *)

Runs(id) == Cardinality(Entries("triggered", id))
Running(id) == IF op.phase = "turn" /\ op.id = id THEN 1 ELSE 0

\* The second half of ExtraTurnsAreFaults.
PaidFor == \A id \in Ids : starts[id] <= Runs(id) + faults + Running(id)

LEMMA RunsType ==
    ASSUME Shape, NEW id \in Ids
    PROVE  IsFiniteSet(Entries("triggered", id)) /\ Runs(id) \in Nat
<1>1. Len(log) \in Nat /\ Entries("triggered", id) \subseteq 1 .. Len(log)
  BY DEF Shape, Entries
<1>2. IsFiniteSet(Entries("triggered", id))
  <2>1. IsFiniteSet(1 .. Len(log))
    BY <1>1, FS_Interval
  <2>2. QED  BY <1>1, <2>1, FS_Subset
<1>3. QED  BY <1>2, FS_CardinalityType DEF Runs

\* A step that starts no turn, and ends none unless by a fault.
LEMMA NoTurnStarts ==
    ASSUME Shape, Shape', NEW id \in Ids,
           starts[id] <= Runs(id) + faults + Running(id),
           starts' = starts, Runs(id)' = Runs(id),
           \/ faults' = faults /\ Running(id) <= Running(id)'
           \/ faults' = faults + 1
    PROVE  starts'[id] <= Runs(id)' + faults' + Running(id)'
<1>1. starts[id] \in Nat /\ Runs(id) \in Nat /\ faults \in Nat
  BY RunsType DEF Shape
<1>2. Running(id) \in {0, 1} /\ Running(id)' \in {0, 1}
  BY DEF Running
<1>3. QED  BY <1>1, <1>2

\* The run that ends a turn is recorded.
LEMMA RunsGrow ==
    ASSUME Shape, RecordRun, NEW id \in Ids
    PROVE  Runs(id)' = IF id = op.id THEN Runs(id) + 1 ELSE Runs(id)
<1>1. op.id \in Ids /\ op.trigger \in Trigger /\ op.now \in Nat /\ log \in Seq(Entry)
  BY DEF RecordRun, Shape, Operation
<1> DEFINE e == Triggered(op.id, op.now, Missed(op.trigger, op.now),
                          Following(op.trigger, op.now))
<1>2. e \in Entry /\ e.id = op.id /\ e.type = "triggered" /\ Logs(e)
  BY <1>1, FollowingType DEF Triggered, Entry, RecordRun
<1> HIDE DEF e
<1>3. /\ Len(log) + 1 \notin DOMAIN log
      /\ \A type, h : Entries(type, h)' =
             IF e.type = type /\ e.id = h THEN Entries(type, h) \union {Len(log) + 1}
             ELSE Entries(type, h)
  BY <1>2, LogGrows
<1>4. Entries("triggered", id)' = IF id = op.id
                                  THEN Entries("triggered", id) \union {Len(log) + 1}
                                  ELSE Entries("triggered", id)
  BY <1>2, <1>3
<1>5. Len(log) + 1 \notin Entries("triggered", id)
  BY <1>3 DEF Entries
<1>6. QED  BY <1>4, <1>5, RunsType, FS_AddElement DEF Runs

LEMMA TurnsArePaidFor ==
    ASSUME Shape, Shape', SInv, Next, PaidFor
    PROVE  PaidFor'
<1>1. SUFFICES ASSUME NEW id \in Ids
               PROVE  starts'[id] <= Runs(id)' + faults' + Running(id)'
  BY DEF PaidFor
<1>2. starts[id] <= Runs(id) + faults + Running(id)
  BY DEF PaidFor
<1>3. ASSUME log' = log PROVE Runs(id)' = Runs(id)
  BY <1>3, SameStream DEF Runs
<1>4. CASE Outside
  <2>1. starts' = starts /\ op' = op /\ faults' = faults /\ log' = log
    BY <1>4 DEF Outside, Tick, EventAppended, TimePasses, TaskReaches, world
  <2>2. Running(id)' = Running(id)
    BY <2>1 DEF Running
  <2>3. Running(id) <= Running(id)'
    BY <2>2 DEF Running
  <2>4. QED  BY <1>2, <1>3, <2>1, <2>3, NoTurnStarts
<1>5. CASE Calling \/ Boot
  <2>1. starts' = starts /\ op' = op /\ faults' \in {faults, faults + 1} /\ log' = log
    BY <1>5 DEF Calling, Boot, RegisterTrigger, RemoveTrigger, CallFails, CallSettles, world
  <2>2. Running(id)' = Running(id)
    BY <2>1 DEF Running
  <2>3. Running(id) <= Running(id)'
    BY <2>2 DEF Running
  <2>4. QED  BY <1>2, <1>3, <2>1, <2>3, NoTurnStarts
<1>6. CASE Working
  <2>1. /\ log' = log /\ faults' = faults
        /\ Picks \/ FiresHeld \/ Reads \/ LetsGo
    BY <1>6, WorkingSteps DEF SInv, world
  <2>2. CASE FiresHeld
    <3>1. PICK h \in Ids :
             /\ op.phase # "turn" /\ op'.phase = "turn" /\ op'.id = h
             /\ \A g \in Ids : starts'[g] = IF g = h THEN starts[g] + 1 ELSE starts[g]
      BY <2>2 DEF FiresHeld
    <3>2. /\ Running(id) = 0 /\ Running(id)' = IF id = h THEN 1 ELSE 0
          /\ starts'[id] = IF id = h THEN starts[id] + 1 ELSE starts[id]
      BY <3>1 DEF Running
    <3>3. starts[id] \in Nat /\ Runs(id) \in Nat /\ faults \in Nat
      BY RunsType DEF Shape
    <3>4. QED  BY <1>2, <1>3, <2>1, <3>2, <3>3
  <2>3. CASE Picks \/ Reads \/ LetsGo
    <3>1. starts' = starts /\ op.phase # "turn"
      BY <2>3 DEF Picks, Reads, LetsGo
    <3>2. Running(id) <= Running(id)'
      BY <3>1 DEF Running
    <3>3. QED  BY <1>2, <1>3, <2>1, <3>1, <3>2, NoTurnStarts
  <2>4. QED  BY <2>1, <2>2, <2>3
<1>7. CASE RecordRun
  <2>1. op.phase = "turn" /\ op'.phase = "settle" /\ starts' = starts /\ faults' = faults
    BY <1>7 DEF RecordRun, world, Shape, Operation
  <2>2. /\ Running(id) = (IF id = op.id THEN 1 ELSE 0) /\ Running(id)' = 0
        /\ Runs(id)' = IF id = op.id THEN Runs(id) + 1 ELSE Runs(id)
    BY <1>7, <2>1, RunsGrow DEF Running
  <2>3. starts[id] \in Nat /\ Runs(id) \in Nat /\ faults \in Nat
    BY RunsType DEF Shape
  <2>4. QED  BY <1>2, <2>1, <2>2, <2>3
<1>8. CASE RecordFails \/ Crash
  <2>1. starts' = starts /\ faults' = faults + 1 /\ log' = log
    BY <1>8 DEF RecordFails, Crash
  <2>2. QED  BY <1>2, <1>3, <2>1, NoTurnStarts
<1>9. CASE \E h \in Ids : CallLogs(h)
  <2>1. PICK h \in Ids : CallLogs(h)
    BY <1>9
  <2>2. starts' = starts /\ op' = op /\ faults' = faults
    BY <2>1 DEF CallLogs, world
  <2>3. Runs(id)' = Runs(id)
    <3> DEFINE e == IF calls[h].does = "register" THEN Registered(h, calls[h].trigger)
                                                  ELSE Removed(h)
    <3>1. calls[h] \in Call /\ Logs(e)
      BY <2>1 DEF CallLogs, Shape
    <3>2. e \in Entry /\ e.type # "triggered"
      BY <3>1 DEF Call, Registered, Removed, Entry
    <3> HIDE DEF e
    <3>3. Entries("triggered", id)' = Entries("triggered", id)
      BY <3>1, <3>2, LogGrows
    <3>4. QED  BY <3>3 DEF Runs
  <2>4. Running(id) <= Running(id)'
    BY <2>2 DEF Running
  <2>5. QED  BY <1>2, <2>2, <2>3, <2>4, NoTurnStarts
<1>10. QED  BY <1>4, <1>5, <1>6, <1>7, <1>8, <1>9, NextIsOneOf

(***************************************************************************)
(* ExtraTurnsAreFaults: however ticks, notifications and calls pile up, a  *)
(* recorded run of a trigger fired when the run before it said the next is *)
(* due; and tick and notify start no turn beyond the recorded runs but for *)
(* the one under way, and those a crash or a failed append took the record *)
(* of.                                                                     *)
(***************************************************************************)
THEOREM ExtraTurns == Spec => []ExtraTurnsAreFaults
<1>1. Init => PaidFor
  <2>1. ASSUME Init, NEW id \in Ids
        PROVE  starts[id] <= Runs(id) + faults + Running(id)
    <3>1. Runs(id) \in Nat /\ Running(id) \in {0, 1} /\ faults = 0 /\ starts[id] = 0
      BY <2>1, InitIsSInv, RunsType DEF Running, Init
    <3>2. QED  BY <3>1
  <2>2. QED  BY <2>1 DEF PaidFor
<1>2. PaidFor /\ (Shape /\ SInv) /\ (Shape /\ SInv)' /\ [Next]_vars => PaidFor'
  <2>1. CASE Next
    BY <2>1, TurnsArePaidFor
  <2>2. CASE UNCHANGED vars
    BY <2>2 DEF vars, PaidFor, Runs, Running, Entries
  <2>3. QED  BY <2>1, <2>2
<1>3. AllSpaced /\ PaidFor => ExtraTurnsAreFaults
  BY DEF AllSpaced, Spaced, SpacedOut, RunsIn, PaidFor, Runs, Running, Entries,
         ExtraTurnsAreFaults
<1>4. QED  BY <1>1, <1>2, <1>3, Stays, RunsAreSpaced, PTL DEF Spec

-----------------------------------------------------------------------------
(* Console: types *)

PostTypes ==
    {"thread.created", "thread.renamed", "turn.started", "item.started", "item.delta",
     "item.failed", "item.completed", "approval", "approved", "turn.completed",
     "turn.failed", "turn.cancelled"}
Posts == [type : PostTypes, turn : Writers]
Drafts == [thread : Threads, event : Posts, expected : Nat]
Broadcasts == [writer : Writers, thread : Threads, sequence : Nat]
Handlers ==
    [state : {"none", "reading", "following", "closed"}, thread : Threads \union {Nil},
     page : Nat, watermark : Nat, queue : Seq(Nat), wire : Seq(Nat), peer : BOOLEAN]
Watchers == [thread : Threads \union {Nil}, conn : Conns \union {Nil}, view : Seq(Nat)]

WireShape ==
    /\ streams \in [Threads -> Seq(Posts)]
    /\ emitting \in Seq(Broadcasts)
    /\ conn \in [Conns -> Handlers]
    /\ client \in [Clients -> Watchers]

-----------------------------------------------------------------------------
(* Console: the inductive invariant, between the streams and the clients *)

\* The broadcast of event n of thread t is still to come.
Queued(e, t, n) == \E i \in DOMAIN e : e[i].thread = t /\ e[i].sequence = n

\* Broadcasts come in the order of the stream, up to its end.
InOrder(e) ==
    /\ \A i, k \in DOMAIN e :
          i < k /\ e[i].thread = e[k].thread => e[i].sequence < e[k].sequence
    /\ \A t \in Threads, n \in Nat : Queued(e, t, n) =>
          n \in 1 .. Len(streams[t]) /\ \A m \in n .. Len(streams[t]) : Queued(e, t, m)

\* How far a handler gets without its queue.
Base(h) == IF h.state = "reading" THEN h.page ELSE h.watermark

\* What a handler at work has not sent is on its page, in its queue, or to be broadcast.
HandlerOk(h) ==
    h.state \in {"reading", "following"} =>
       /\ h.thread \in Threads
       /\ h.watermark <= Base(h) /\ Base(h) <= Len(streams[h.thread])
       /\ \A i \in DOMAIN h.queue :
             /\ h.queue[i] = h.queue[1] + i - 1
             /\ h.watermark < h.queue[i] /\ h.queue[i] <= Len(streams[h.thread])
       /\ h.queue = <<>> =>
             \A n \in 1 .. Len(streams[h.thread]) : Base(h) < n => Queued(emitting, h.thread, n)
       /\ h.queue # <<>> =>
             /\ h.queue[1] <= Base(h) + 1
             /\ \A n \in 1 .. Len(streams[h.thread]) :
                   Queued(emitting, h.thread, n) <=> h.queue[Len(h.queue)] < n

\* v events have arrived, the wire holds those up to the watermark.
Run(h, v) ==
    /\ v + Len(h.wire) = h.watermark
    /\ \A i \in DOMAIN h.wire : h.wire[i] = v + i

\* A client has the first events of its thread, and its wire brings the next.
ClientOk(x) ==
    /\ \A i \in DOMAIN client[x].view : client[x].view[i] = i
    /\ client[x].thread # Nil => Len(client[x].view) <= Len(streams[client[x].thread])
    /\ client[x].conn # Nil =>
          /\ conn[client[x].conn].state \in {"reading", "following"}
          /\ conn[client[x].conn].peer
          /\ client[x].thread # Nil /\ conn[client[x].conn].thread = client[x].thread
          /\ Run(conn[client[x].conn], Len(client[x].view))
          /\ \A y \in Clients : client[y].conn = client[x].conn => y = x

WireInv ==
    /\ WireShape /\ InOrder(emitting)
    /\ \A c \in Conns : HandlerOk(conn[c])
    /\ \A x \in Clients : ClientOk(x)

-----------------------------------------------------------------------------
(* Console: sending *)

\* Every entry of s is the next of those before it, or at most that.
Steady(w, s) == \A i \in DOMAIN s : s[i] <= w + 1 \/ \E k \in 1 .. i - 1 : s[i] <= s[k] + 1

\* What n entries of s have made of handler h.
SentUpTo(h, s, n) ==
    {g \in Handlers :
       /\ g.state = h.state /\ g.thread = h.thread /\ g.page = h.page /\ g.queue = h.queue
       /\ g.peer = h.peer /\ h.watermark <= g.watermark
       /\ \A k \in 1 .. n : s[k] <= g.watermark
       /\ g.watermark = h.watermark \/ \E k \in 1 .. n : g.watermark = s[k]
       /\ h.peer => \A v \in Nat : Run(h, v) => Run(g, v)}

LEMMA SentOneMore ==
    ASSUME NEW h \in Handlers, NEW s \in Seq(Nat), Steady(h.watermark, s),
           NEW n \in 1 .. Len(s), NEW g \in SentUpTo(h, s, n - 1)
    PROVE  Sent(g, s[n]) \in SentUpTo(h, s, n)
<1>1. /\ g \in Handlers /\ g.state = h.state /\ g.thread = h.thread /\ g.page = h.page
      /\ g.queue = h.queue /\ g.peer = h.peer /\ h.watermark <= g.watermark
      /\ \A k \in 1 .. n - 1 : s[k] <= g.watermark
      /\ g.watermark = h.watermark \/ \E k \in 1 .. n - 1 : g.watermark = s[k]
      /\ h.peer => \A v \in Nat : Run(h, v) => Run(g, v)
  BY DEF SentUpTo
<1>2. /\ n \in Nat /\ s[n] \in Nat /\ n \in DOMAIN s /\ 1 .. n - 1 \subseteq 1 .. n
      /\ \A k \in 1 .. n : k \in 1 .. n - 1 \/ k = n
      /\ \A k \in 1 .. n : s[k] \in Nat
  OBVIOUS
<1>3. g.watermark \in Nat /\ h.watermark \in Nat /\ g.wire \in Seq(Nat) /\ g.peer \in BOOLEAN
  BY <1>1 DEF Handlers
<1>4. CASE s[n] <= g.watermark
  <2>1. Sent(g, s[n]) = g
    BY <1>4 DEF Sent
  <2>2. \A k \in 1 .. n : s[k] <= g.watermark
    BY <1>1, <1>2, <1>4
  <2>3. g.watermark = h.watermark \/ \E k \in 1 .. n : g.watermark = s[k]
    BY <1>1, <1>2
  <2>4. QED  BY <1>1, <2>1, <2>2, <2>3 DEF SentUpTo
<1>5. CASE s[n] > g.watermark
  <2>1. s[n] = g.watermark + 1
    <3>1. s[n] <= h.watermark + 1 \/ \E k \in 1 .. n - 1 : s[n] <= s[k] + 1
      BY <1>2 DEF Steady
    <3>2. CASE s[n] <= h.watermark + 1
      BY <1>1, <1>2, <1>3, <1>5, <3>2
    <3>3. ASSUME NEW k \in 1 .. n - 1, s[n] <= s[k] + 1 PROVE s[n] = g.watermark + 1
      <4>1. s[k] \in Nat /\ s[k] <= g.watermark
        BY <1>1, <1>2
      <4>2. QED  BY <1>2, <1>3, <1>5, <3>3, <4>1, SMTT(30)
    <3>4. QED  BY <3>1, <3>2, <3>3
  <2>2. PICK f : f = Sent(g, s[n])
    OBVIOUS
  <2>3. /\ f = [g EXCEPT !.watermark = s[n], !.wire = IF g.peer THEN Append(g.wire, s[n]) ELSE g.wire]
    BY <1>2, <1>3, <1>5, <2>2 DEF Sent
  <2>4. /\ f \in Handlers /\ f.state = g.state /\ f.thread = g.thread /\ f.page = g.page
        /\ f.queue = g.queue /\ f.peer = g.peer /\ f.watermark = s[n]
        /\ f.wire = IF g.peer THEN Append(g.wire, s[n]) ELSE g.wire
    <3>1. (IF g.peer THEN Append(g.wire, s[n]) ELSE g.wire) \in Seq(Nat)
      BY <1>2, <1>3
    <3>2. QED  BY <1>1, <1>2, <2>3, <3>1 DEF Handlers
  <2>5. \A k \in 1 .. n : s[k] <= f.watermark
    <3>1. \A k \in 1 .. n - 1 : s[k] <= s[n]
      BY <1>1, <1>2, <1>3, <1>5
    <3>2. QED  BY <1>2, <2>4, <3>1
  <2>6. ASSUME h.peer, NEW v \in Nat, Run(h, v) PROVE Run(f, v)
    <3>1. Run(g, v) /\ f.wire = Append(g.wire, s[n])
      BY <1>1, <2>4, <2>6
    <3>2. v + Len(g.wire) = g.watermark /\ \A i \in DOMAIN g.wire : g.wire[i] = v + i
      BY <3>1 DEF Run
    <3>3. Len(f.wire) = Len(g.wire) + 1 /\ Len(g.wire) \in Nat
      BY <1>2, <1>3, <3>1
    <3>4. \A i \in DOMAIN f.wire : f.wire[i] = v + i
      <4>1. \A i \in DOMAIN f.wire : (i \in DOMAIN g.wire /\ f.wire[i] = g.wire[i])
                                     \/ (i = Len(g.wire) + 1 /\ f.wire[i] = s[n])
        BY <1>2, <1>3, <3>1
      <4>2. v + (Len(g.wire) + 1) = s[n]
        BY <1>3, <2>1, <3>2, <3>3
      <4>3. QED  BY <3>2, <4>1, <4>2
    <3>5. QED  BY <2>1, <2>4, <3>2, <3>3, <3>4, SMTT(30) DEF Run
  <2>7. n \in 1 .. n
    BY <1>2
  <2>8. h.watermark <= f.watermark
    BY <1>1, <1>2, <1>3, <1>5, <2>4
  <2>9. f \in SentUpTo(h, s, n)
    BY <1>1, <2>4, <2>5, <2>6, <2>7, <2>8 DEF SentUpTo
  <2>10. QED  BY <2>2, <2>9
<1>6. QED  BY <1>2, <1>3, <1>4, <1>5

LEMMA SentAllIs ==
    ASSUME NEW h \in Handlers, NEW s \in Seq(Nat), Steady(h.watermark, s)
    PROVE  SentAll(h, s) \in SentUpTo(h, s, Len(s))
<1> DEFINE Q == [n \in 0 .. Len(s) |-> SentUpTo(h, s, n)]
<1>1. SentAll(h, s) = H!Folding({}, h, s)
  BY DEF H!Folding, SentAll, FoldLeft, H!FoldLeft, MapThenFoldSet, H!MapThenFoldSet, Max, H!Max
<1>2. h \in Q[0]
  <2>1. h.watermark <= h.watermark
    BY DEF Handlers
  <2>2. QED  BY <2>1 DEF SentUpTo
<1>3. ASSUME NEW n \in 1 .. Len(s), NEW g \in Q[n - 1] PROVE Sent(g, s[n]) \in Q[n]
  <2>1. n - 1 \in 0 .. Len(s) /\ n \in 0 .. Len(s)
    OBVIOUS
  <2>2. QED  BY <2>1, SentOneMore
<1>4. Len(s) \in 0 .. Len(s)
  OBVIOUS
<1> HIDE DEF Q
<1>5. H!Folding({}, h, s) \in Q[Len(s)]
  BY <1>2, <1>3, H!FoldsAlong
<1>6. QED  BY <1>1, <1>4, <1>5 DEF Q

-----------------------------------------------------------------------------
(* Console: steps of the streams and their handlers *)

\* An event is stored at the end of stream t, and its broadcast is queued.
LEMMA WireStored ==
    ASSUME WireInv, NEW w \in Writers, NEW t \in Threads, NEW e \in Posts,
           streams' = [streams EXCEPT ![t] = Append(streams[t], e)],
           emitting' = Append(emitting, [writer |-> w, thread |-> t,
                                         sequence |-> Len(streams[t]) + 1]),
           UNCHANGED <<conn, client>>
    PROVE  WireInv'
<1>1. /\ streams \in [Threads -> Seq(Posts)] /\ emitting \in Seq(Broadcasts)
      /\ conn \in [Conns -> Handlers] /\ client \in [Clients -> Watchers] /\ InOrder(emitting)
  BY DEF WireInv, WireShape
<1>2. PICK b : b = [writer |-> w, thread |-> t, sequence |-> Len(streams[t]) + 1]
  OBVIOUS
<1>3. /\ b \in Broadcasts /\ b.thread = t /\ b.sequence = Len(streams[t]) + 1
      /\ emitting' = Append(emitting, b) /\ \A s \in Threads : Len(streams[s]) \in Nat
  BY <1>1, <1>2 DEF Broadcasts
<1>4. /\ streams' \in [Threads -> Seq(Posts)]
      /\ Len(streams'[t]) = Len(streams[t]) + 1
      /\ \A s \in Threads : s # t => streams'[s] = streams[s]
  BY <1>1
<1>5. \A s \in Threads : \A n : Queued(emitting', s, n) <=>
         Queued(emitting, s, n) \/ (s = t /\ n = Len(streams'[t]))
  <2>1. /\ DOMAIN emitting' = 1 .. Len(emitting) + 1 /\ DOMAIN emitting = 1 .. Len(emitting)
        /\ Len(emitting) \in Nat
        /\ \A i \in DOMAIN emitting' : emitting'[i] = IF i \in DOMAIN emitting THEN emitting[i] ELSE b
    BY <1>1, <1>3
  <2>2. /\ emitting'[Len(emitting) + 1] = b /\ Len(emitting) + 1 \in DOMAIN emitting'
        /\ \A i \in DOMAIN emitting : i \in DOMAIN emitting' /\ emitting'[i] = emitting[i]
        /\ \A i \in DOMAIN emitting' : i \notin DOMAIN emitting => emitting'[i] = b
    BY <2>1
  <2>3. QED  BY <1>3, <1>4, <2>2 DEF Queued
<1>6. WireShape'
  BY <1>1, <1>3, <1>4 DEF WireShape
<1>7. InOrder(emitting)'
  <2>1. ASSUME NEW i \in DOMAIN emitting', NEW k \in DOMAIN emitting', i < k,
               emitting'[i].thread = emitting'[k].thread
        PROVE  emitting'[i].sequence < emitting'[k].sequence
    <3>1. i \in DOMAIN emitting /\ emitting'[i] = emitting[i]
      BY <1>1, <1>3, <2>1
    <3>2. CASE k \in DOMAIN emitting
      <4>1. emitting'[k] = emitting[k]
        BY <1>1, <1>3, <3>2
      <4>2. QED  BY <1>1, <2>1, <3>1, <3>2, <4>1 DEF InOrder
    <3>3. CASE k \notin DOMAIN emitting
      <4>1. emitting'[k] = b
        BY <1>1, <1>3, <3>3
      <4>2. emitting[i] \in Broadcasts /\ emitting[i].thread = t
        BY <1>1, <1>3, <2>1, <3>1, <4>1
      <4>3. emitting[i].sequence \in Nat /\ Queued(emitting, t, emitting[i].sequence)
        BY <3>1, <4>2 DEF Queued, Broadcasts
      <4>4. emitting[i].sequence \in 1 .. Len(streams[t])
        BY <1>1, <4>3 DEF InOrder
      <4>5. QED  BY <1>3, <3>1, <4>1, <4>4
    <3>4. QED  BY <3>2, <3>3
  <2>2. ASSUME NEW s \in Threads, NEW n \in Nat, Queued(emitting', s, n)
        PROVE  n \in 1 .. Len(streams'[s]) /\ \A m \in n .. Len(streams'[s]) : Queued(emitting', s, m)
    <3>1. CASE Queued(emitting, s, n)
      <4>1. n \in 1 .. Len(streams[s]) /\ \A m \in n .. Len(streams[s]) : Queued(emitting, s, m)
        BY <1>1, <3>1 DEF InOrder
      <4>2. CASE s # t
        BY <1>4, <1>5, <4>1, <4>2
      <4>3. CASE s = t
        <5>1. \A m \in n .. Len(streams'[t]) : m \in n .. Len(streams[t]) \/ m = Len(streams'[t])
          BY <1>3, <1>4
        <5>2. n \in 1 .. Len(streams'[t])
          BY <1>3, <1>4, <4>1, <4>3
        <5>3. QED  BY <1>5, <4>1, <4>3, <5>1, <5>2
      <4>4. QED  BY <4>2, <4>3
    <3>2. CASE s = t /\ n = Len(streams'[t])
      <4>1. n \in 1 .. Len(streams'[t]) /\ \A m \in n .. Len(streams'[t]) : m = n
        BY <1>3, <1>4, <3>2
      <4>2. QED  BY <2>2, <3>2, <4>1
    <3>3. QED  BY <1>5, <2>2, <3>1, <3>2
  <2>3. QED  BY <2>1, <2>2 DEF InOrder
<1>8. ASSUME NEW c \in Conns PROVE HandlerOk(conn[c])'
  <2>1. PICK h \in Handlers : h = conn[c] /\ conn'[c] = h /\ HandlerOk(h)
    BY <1>1 DEF WireInv
  <2>2. CASE h.state \notin {"reading", "following"}
    BY <2>1, <2>2 DEF HandlerOk
  <2>3. CASE h.state \in {"reading", "following"}
    <3>1. /\ h.thread \in Threads /\ Len(streams[h.thread]) \in Nat /\ Len(streams'[h.thread]) \in Nat
          /\ Len(streams[h.thread]) <= Len(streams'[h.thread])
          /\ h.watermark <= Base(h) /\ Base(h) <= Len(streams[h.thread])
          /\ h.watermark \in Nat /\ Base(h) \in Nat /\ h.queue \in Seq(Nat)
          /\ \A i \in DOMAIN h.queue :
                /\ h.queue[i] = h.queue[1] + i - 1
                /\ h.watermark < h.queue[i] /\ h.queue[i] <= Len(streams[h.thread])
      BY <1>3, <1>4, <2>1, <2>3 DEF HandlerOk, Handlers, Base
    <3>2. \A n \in 1 .. Len(streams'[h.thread]) :
             \/ n \in 1 .. Len(streams[h.thread])
             \/ h.thread = t /\ n = Len(streams'[t]) /\ Len(streams[t]) < n
      BY <1>3, <1>4, <3>1
    <3>3. \A n \in 1 .. Len(streams[h.thread]) :
             Queued(emitting', h.thread, n) <=> Queued(emitting, h.thread, n)
      BY <1>3, <1>4, <1>5, <3>1
    <3>4. \A i \in DOMAIN h.queue : h.queue[i] <= Len(streams'[h.thread])
      BY <3>1
    <3>5. h.queue = <<>> => \A n \in 1 .. Len(streams'[h.thread]) :
                               Base(h) < n => Queued(emitting', h.thread, n)
      BY <1>5, <2>1, <2>3, <3>1, <3>2, <3>3 DEF HandlerOk
    <3>6. ASSUME h.queue # <<>>
          PROVE  /\ h.queue[1] <= Base(h) + 1
                 /\ \A n \in 1 .. Len(streams'[h.thread]) :
                       Queued(emitting', h.thread, n) <=> h.queue[Len(h.queue)] < n
      <4>1. /\ h.queue[1] <= Base(h) + 1
            /\ \A n \in 1 .. Len(streams[h.thread]) :
                  Queued(emitting, h.thread, n) <=> h.queue[Len(h.queue)] < n
        BY <2>1, <2>3, <3>6 DEF HandlerOk
      <4>2. Len(h.queue) \in DOMAIN h.queue
        BY <3>1, <3>6
      <4>3. h.queue[Len(h.queue)] \in Nat /\ h.queue[Len(h.queue)] <= Len(streams[h.thread])
        BY <3>1, <4>2
      <4>4. \A n \in 1 .. Len(streams'[h.thread]) :
               Queued(emitting', h.thread, n) <=> h.queue[Len(h.queue)] < n
        <5>1. ASSUME NEW n \in 1 .. Len(streams'[h.thread])
              PROVE  Queued(emitting', h.thread, n) <=> h.queue[Len(h.queue)] < n
          <6>1. CASE n \in 1 .. Len(streams[h.thread])
            BY <3>3, <4>1, <6>1
          <6>2. CASE h.thread = t /\ n = Len(streams'[t]) /\ Len(streams[t]) < n
            <7>1. Queued(emitting', h.thread, n)
              BY <1>5, <3>1, <6>2
            <7>2. h.queue[Len(h.queue)] < n
              BY <3>1, <4>3, <6>2
            <7>3. QED  BY <7>1, <7>2
          <6>3. QED  BY <3>2, <6>1, <6>2
        <5>2. QED  BY <5>1
      <4>5. QED  BY <4>1, <4>4
    <3>7. Base(h) <= Len(streams'[h.thread])
      BY <3>1
    <3>8. Base(h)' = Base(h)
      BY DEF Base
    <3>9. HandlerOk(h)'
      BY <3>1, <3>4, <3>5, <3>6, <3>7, <3>8 DEF HandlerOk
    <3>10. QED  BY <2>1, <3>9
  <2>4. QED  BY <2>2, <2>3
<1>9. ASSUME NEW x \in Clients PROVE ClientOk(x)'
  <2>1. ClientOk(x) /\ client[x] \in Watchers
    BY <1>1 DEF WireInv
  <2>2. client[x].thread # Nil =>
           client[x].thread \in Threads /\ Len(streams[client[x].thread]) <= Len(streams'[client[x].thread])
    BY <1>3, <1>4, <2>1 DEF Watchers
  <2>3. Len(client[x].view) \in Nat /\ \A s \in Threads : Len(streams'[s]) \in Nat
    BY <1>4, <2>1 DEF Watchers
  <2>4. client[x].thread # Nil => Len(client[x].view) <= Len(streams'[client[x].thread])
    BY <1>3, <2>1, <2>2, <2>3 DEF ClientOk
  <2>5. QED  BY <2>1, <2>4 DEF ClientOk, Run
<1>10. QED  BY <1>6, <1>7, <1>8, <1>9 DEF WireInv

\* What the invariant says of a handler.
LEMMA HandlerIs ==
    ASSUME WireInv, NEW c \in Conns
    PROVE  /\ conn[c] \in Handlers /\ HandlerOk(conn[c])
           /\ conn \in [Conns -> Handlers] /\ client \in [Clients -> Watchers]
           /\ streams \in [Threads -> Seq(Posts)] /\ emitting \in Seq(Broadcasts)
           /\ \A t \in Threads : Len(streams[t]) \in Nat
BY DEF WireInv, WireShape

\* Whether a handler is in order does not depend on its wire.
LEMMA HandlerOnlyWire ==
    ASSUME NEW h, NEW g, HandlerOk(h), g.state = h.state, g.thread = h.thread,
           g.page = h.page, g.watermark = h.watermark, g.queue = h.queue
    PROVE  HandlerOk(g)
BY DEF HandlerOk, Base

\* The connection of a client, if it has one, is a handler at work.
LEMMA ClientIs ==
    ASSUME WireInv, NEW x \in Clients
    PROVE  /\ client[x] \in Watchers /\ ClientOk(x) /\ client \in [Clients -> Watchers]
           /\ client[x].view \in Seq(Nat) /\ Len(client[x].view) \in Nat
           /\ client[x].conn # Nil => client[x].conn \in Conns
           /\ client[x].thread # Nil => client[x].thread \in Threads
BY DEF WireInv, WireShape, Watchers

\* A client that keeps its place and its connection's state is still in order.
LEMMA ClientStays ==
    ASSUME WireInv, UNCHANGED streams, NEW x \in Clients, client'[x] = client[x],
           client[x].conn # Nil => conn'[client[x].conn] = conn[client[x].conn],
           \A y \in Clients : client'[y].conn = client[x].conn /\ client[x].conn # Nil => y = x
    PROVE  ClientOk(x)'
<1>1. ClientOk(x) /\ client'[x] = client[x] /\ streams' = streams
  BY ClientIs
<1>2. CASE client[x].conn = Nil
  BY <1>1, <1>2 DEF ClientOk
<1>3. CASE client[x].conn # Nil
  BY <1>1, <1>3 DEF ClientOk, Run
<1>4. QED  BY <1>2, <1>3

\* A handler sends what it has: nothing it owes is lost, and its wire goes on.
LEMMA WireSends ==
    ASSUME WireInv, NEW c \in Conns, NEW g \in Handlers, conn' = [conn EXCEPT ![c] = g],
           UNCHANGED <<streams, emitting, client>>,
           HandlerOk(g), g.state \in {"reading", "following"}, g.thread = conn[c].thread,
           conn[c].peer => g.peer /\ \A v \in Nat : Run(conn[c], v) => Run(g, v)
    PROVE  WireInv'
<1>1. /\ WireShape /\ InOrder(emitting) /\ conn' \in [Conns -> Handlers] /\ conn'[c] = g
      /\ \A d \in Conns : d # c => conn'[d] = conn[d]
  BY HandlerIs DEF WireInv
<1>2. WireShape'
  BY <1>1 DEF WireShape
<1>3. InOrder(emitting)'
  BY <1>1 DEF InOrder
<1>4. ASSUME NEW d \in Conns PROVE HandlerOk(conn[d])'
  <2>1. PICK h \in Handlers : h = conn'[d] /\ HandlerOk(h)
    BY <1>1, HandlerIs
  <2>2. HandlerOk(h)'
    BY <2>1 DEF HandlerOk, Base
  <2>3. QED  BY <2>1, <2>2
<1>5. ASSUME NEW x \in Clients PROVE ClientOk(x)'
  <2>1. ClientOk(x) /\ client[x] \in Watchers /\ Len(client[x].view) \in Nat
    BY <1>1 DEF WireInv, WireShape, Watchers
  <2>2. CASE client[x].conn # c
    <3>1. client[x].conn # Nil => conn'[client[x].conn] = conn[client[x].conn]
      BY <1>1, <2>2, ClientIs
    <3>2. \A y \in Clients : client[y].conn = client[x].conn /\ client[x].conn # Nil => y = x
      BY ClientIs DEF ClientOk
    <3>3. QED  BY <3>1, <3>2, ClientStays
  <2>3. CASE client[x].conn = c
    <3>1. c # Nil => Run(g, Len(client[x].view)) /\ g.peer
      BY <2>1, <2>3 DEF ClientOk
    <3>2. conn'[client[x].conn] = g /\ client' = client /\ streams' = streams
      BY <1>1, <2>3
    <3>3. CASE c = Nil
      BY <2>1, <2>3, <3>2, <3>3 DEF ClientOk
    <3>4. CASE c # Nil
      <4>1. g.thread = client[x].thread
        BY <2>1, <2>3, <3>4 DEF ClientOk
      <4>2. Run(g, Len(client[x].view))' 
        BY <3>1, <3>2, <3>4 DEF Run
      <4>3. QED  BY <2>1, <3>1, <3>2, <3>4, <4>1, <4>2 DEF ClientOk
    <3>5. QED  BY <3>3, <3>4
  <2>4. QED  BY <2>2, <2>3
<1>6. QED  BY <1>2, <1>3, <1>4, <1>5 DEF WireInv

LEMMA DrainKeeps == ASSUME WireInv, NEW c \in Conns, Drain(c) PROVE WireInv'
<1>1. PICK h \in Handlers : h = conn[c] /\ HandlerOk(h)
  BY HandlerIs
<1>q. PICK q \in Seq(Nat) : q = h.queue
  BY <1>1, HandlerIs DEF Handlers
<1>2. /\ h.state = "following" /\ q # <<>> /\ UNCHANGED <<streams, emitting, client>>
      /\ conn' = [conn EXCEPT ![c] = [SentAll(h, q) EXCEPT !.queue = <<>>]]
  BY <1>1, <1>q DEF Drain
<1>3. /\ h.thread \in Threads /\ h.watermark \in Nat /\ q \in Seq(Nat) /\ <<>> \in Seq(Nat)
      /\ Len(q) \in Nat /\ DOMAIN q = 1 .. Len(q) /\ \A i \in 1 .. Len(q) : q[i] \in Nat
      /\ Len(streams[h.thread]) \in Nat /\ h.watermark <= Len(streams[h.thread])
      /\ q[1] <= h.watermark + 1
      /\ \A i \in DOMAIN q :
            q[i] = q[1] + i - 1 /\ q[i] <= Len(streams[h.thread])
      /\ \A n \in 1 .. Len(streams[h.thread]) :
            Queued(emitting, h.thread, n) <=> q[Len(q)] < n
  <2>1. /\ h.thread \in Threads /\ h.watermark \in Nat /\ q \in Seq(Nat) /\ <<>> \in Seq(Nat)
        /\ Len(q) \in Nat /\ DOMAIN q = 1 .. Len(q) /\ \A i \in 1 .. Len(q) : q[i] \in Nat
    <3>1. h.thread \in Threads
      BY <1>1, <1>2 DEF HandlerOk
    <3>2. h.watermark \in Nat
      BY <1>1 DEF Handlers
    <3>3. Len(q) \in Nat /\ DOMAIN q = 1 .. Len(q) /\ \A i \in 1 .. Len(q) : q[i] \in Nat
      OBVIOUS
    <3>4. QED  BY <3>1, <3>2, <3>3
  <2>2. Len(streams[h.thread]) \in Nat
    BY <2>1, HandlerIs
  <2>3. Base(h) = h.watermark
    BY <1>2 DEF Base
  <2>4. /\ h.watermark <= Len(streams[h.thread])
        /\ \A i \in DOMAIN q :
              q[i] = q[1] + i - 1 /\ q[i] <= Len(streams[h.thread])
    BY <1>1, <1>2, <1>q, <2>3 DEF HandlerOk
  <2>5. /\ q[1] <= h.watermark + 1
        /\ \A n \in 1 .. Len(streams[h.thread]) :
              Queued(emitting, h.thread, n) <=> q[Len(q)] < n
    BY <1>1, <1>2, <1>q, <2>3 DEF HandlerOk
  <2>6. QED  BY <2>1, <2>2, <2>4, <2>5
<1>4. Steady(h.watermark, q)
  <2>1. ASSUME NEW i \in DOMAIN q, i # 1
        PROVE  i - 1 \in 1 .. i - 1 /\ q[i] <= q[i - 1] + 1
    <3>1. i - 1 \in DOMAIN q /\ i \in Nat /\ 1 \in DOMAIN q /\ q[1] \in Nat /\ i - 1 \in 1 .. i - 1
      BY <1>3, <2>1
    <3>2. q[i] = q[1] + i - 1 /\ q[i - 1] = q[1] + (i - 1) - 1
      BY <1>3, <3>1
    <3>3. QED  BY <3>1, <3>2, SMTT(30)
  <2>2. QED  BY <1>3, <2>1 DEF Steady
<1>5. PICK f \in SentUpTo(h, q, Len(q)) : f = SentAll(h, q)
  BY <1>1, <1>3, <1>4, <1>q, HandlerIs, SentAllIs
<1>6. /\ f \in Handlers /\ f.state = h.state /\ f.thread = h.thread /\ f.peer = h.peer
      /\ \A k \in 1 .. Len(q) : q[k] <= f.watermark
      /\ f.watermark = h.watermark \/ \E k \in 1 .. Len(q) : f.watermark = q[k]
      /\ h.peer => \A v \in Nat : Run(h, v) => Run(f, v)
  BY <1>5 DEF SentUpTo
<1>7. PICK g : g = [f EXCEPT !.queue = <<>>]
  OBVIOUS
<1>8. /\ g \in Handlers /\ g.state = "following" /\ g.thread = h.thread /\ g.peer = h.peer
      /\ g.watermark = f.watermark /\ g.queue = <<>> /\ g.wire = f.wire
      /\ f.watermark \in Nat
  BY <1>2, <1>3, <1>6, <1>7 DEF Handlers
<1>9. HandlerOk(g)
  <2>1. g.watermark <= Len(streams[h.thread])
    BY <1>3, <1>6, <1>8
  <2>2. ASSUME NEW n \in 1 .. Len(streams[h.thread]), g.watermark < n
        PROVE  Queued(emitting, h.thread, n)
    <3>1. Len(q) \in 1 .. Len(q) /\ q[Len(q)] \in Nat
      BY <1>2, <1>3
    <3>2. q[Len(q)] < n
      BY <1>6, <1>8, <2>2, <3>1
    <3>3. QED  BY <1>3, <3>2
  <2>3. QED  BY <1>3, <1>8, <2>1, <2>2 DEF HandlerOk, Base
<1>10. h.peer => \A v \in Nat : Run(h, v) => Run(g, v)
  BY <1>6, <1>8 DEF Run
<1>11. conn' = [conn EXCEPT ![c] = g]
  BY <1>2, <1>5, <1>7
<1>12. QED  BY <1>1, <1>2, <1>8, <1>9, <1>10, <1>11, WireSends

\* One sequence behind another.
LEMMA Joins ==
    ASSUME NEW a \in Seq(Nat), NEW b \in Seq(Nat)
    PROVE  /\ a \o b \in Seq(Nat) /\ Len(a \o b) = Len(a) + Len(b)
           /\ DOMAIN (a \o b) = 1 .. Len(a) + Len(b)
           /\ \A i \in 1 .. Len(a) : (a \o b)[i] = a[i]
           /\ \A i \in 1 .. Len(b) : (a \o b)[Len(a) + i] = b[i]
           /\ \A i \in 1 .. Len(a) + Len(b) :
                 i \in 1 .. Len(a) \/ \E k \in 1 .. Len(b) : i = Len(a) + k
<1>1. a \o b \in Seq(Nat) /\ Len(a \o b) = Len(a) + Len(b) /\ Len(a) \in Nat /\ Len(b) \in Nat
  OBVIOUS
<1>2. \A i \in 1 .. Len(a) + Len(b) : (a \o b)[i] = IF i <= Len(a) THEN a[i] ELSE b[i - Len(a)]
  OBVIOUS
<1>3. ASSUME NEW i \in 1 .. Len(b) PROVE (a \o b)[Len(a) + i] = b[i]
  <2>1. Len(a) + i \in 1 .. Len(a) + Len(b) /\ ~ (Len(a) + i <= Len(a)) /\ (Len(a) + i) - Len(a) = i
    BY <1>1
  <2>2. QED  BY <1>2, <2>1
<1>4. ASSUME NEW i \in 1 .. Len(a) + Len(b), i \notin 1 .. Len(a)
      PROVE  \E k \in 1 .. Len(b) : i = Len(a) + k
  <2>1. i - Len(a) \in 1 .. Len(b) /\ i = Len(a) + (i - Len(a))
    BY <1>1, <1>4
  <2>2. QED  BY <2>1
<1>5. DOMAIN (a \o b) = 1 .. Len(a) + Len(b)
  BY <1>1
<1>6. \A i \in 1 .. Len(a) : (a \o b)[i] = a[i]
  BY <1>1, <1>2
<1>7. QED  BY <1>1, <1>3, <1>4, <1>5, <1>6

LEMMA ReplayKeeps == ASSUME WireInv, NEW c \in Conns, Replay(c) PROVE WireInv'
<1>1. PICK h \in Handlers : h = conn[c] /\ HandlerOk(h)
  BY HandlerIs
<1>q. PICK q \in Seq(Nat) : q = h.queue
  BY <1>1, HandlerIs DEF Handlers
<1>2. PICK page : page = Page(h, h.watermark)
  OBVIOUS
<1>3. PICK all : all = page \o q
  OBVIOUS
<1>4. /\ h.state = "reading" /\ UNCHANGED <<streams, emitting, client>>
      /\ conn' = [conn EXCEPT ![c] =
                     [SentAll(h, all) EXCEPT !.queue = <<>>, !.state = "following"]]
  BY <1>1, <1>2, <1>3, <1>q DEF Replay
<1>5. /\ h.thread \in Threads /\ h.watermark \in Nat /\ h.page \in Nat
      /\ q \in Seq(Nat) /\ <<>> \in Seq(Nat) /\ Len(q) \in Nat /\ DOMAIN q = 1 .. Len(q)
      /\ \A i \in 1 .. Len(q) : q[i] \in Nat
      /\ Len(streams[h.thread]) \in Nat /\ h.watermark <= h.page
      /\ h.page <= Len(streams[h.thread])
      /\ \A i \in DOMAIN q :
            q[i] = q[1] + i - 1 /\ q[i] <= Len(streams[h.thread])
      /\ q # <<>> => q[1] <= h.page + 1
      /\ q = <<>> => \A n \in 1 .. Len(streams[h.thread]) :
                              h.page < n => Queued(emitting, h.thread, n)
      /\ q # <<>> =>
            \A n \in 1 .. Len(streams[h.thread]) :
               Queued(emitting, h.thread, n) <=> q[Len(q)] < n
  BY <1>1, <1>4, <1>q, HandlerIs DEF HandlerOk, Base, Handlers
<1>6. /\ page \in Seq(Nat) /\ Len(page) = h.page - h.watermark /\ Len(page) \in Nat
      /\ \A i \in 1 .. Len(page) : page[i] = h.watermark + i
  <2>1. h.page - h.watermark \in Nat
    BY <1>5
  <2>2. page = [i \in 1 .. h.page - h.watermark |-> h.watermark + i]
    BY <1>2 DEF Page
  <2>3. \A i \in 1 .. h.page - h.watermark : h.watermark + i \in Nat
    BY <1>5
  <2>4. page \in [1 .. h.page - h.watermark -> Nat]
    BY <2>2, <2>3
  <2>5. page \in Seq(Nat) /\ Len(page) = h.page - h.watermark
    BY <2>1, <2>4
  <2>6. QED  BY <2>1, <2>2, <2>5
<1>7. /\ all \in Seq(Nat) /\ Len(all) = Len(page) + Len(q)
      /\ \A i \in 1 .. Len(page) : all[i] = page[i]
      /\ \A i \in 1 .. Len(q) : all[Len(page) + i] = q[i]
      /\ DOMAIN all = 1 .. Len(page) + Len(q)
  <2>1. page \in Seq(Nat) /\ q \in Seq(Nat)
    BY <1>5, <1>6
  <2>2. /\ page \o q \in Seq(Nat) /\ Len(page \o q) = Len(page) + Len(q)
        /\ DOMAIN (page \o q) = 1 .. Len(page) + Len(q)
    BY <2>1, Joins
  <2>3. /\ \A i \in 1 .. Len(page) : (page \o q)[i] = page[i]
        /\ \A i \in 1 .. Len(q) : (page \o q)[Len(page) + i] = q[i]
    BY <2>1, Joins
  <2>4. QED  BY <1>3, <2>2, <2>3
<1>8. \A i \in 1 .. Len(page) + Len(q) :
         i \in 1 .. Len(page) \/ \E k \in 1 .. Len(q) : i = Len(page) + k
  BY <1>5, <1>6, Joins
<1>a. \A i \in 1 .. Len(page) : all[i] = h.watermark + i
  BY <1>6, <1>7
<1>b. \A k \in 1 .. Len(q) : all[Len(page) + k] = q[1] + k - 1 /\ all[Len(page) + k] = q[k]
  BY <1>5, <1>7
<1>c. \A k \in 1 .. Len(q) : q[1] \in Nat /\ q[1] <= h.page + 1 /\ k \in Nat
  <2>1. ASSUME NEW k \in 1 .. Len(q) PROVE q # <<>> /\ 1 \in 1 .. Len(q) /\ k \in Nat
    BY <1>5
  <2>2. QED  BY <1>5, <2>1
<1>9. Steady(h.watermark, all)
  <2>1. ASSUME NEW i \in 1 .. Len(page)
        PROVE  all[i] <= h.watermark + 1 \/ \E k \in 1 .. i - 1 : all[i] <= all[k] + 1
    <3>1. all[i] = h.watermark + i
      BY <1>a
    <3>2. CASE i = 1
      BY <1>5, <3>1, <3>2
    <3>3. CASE i # 1
      <4>1. i - 1 \in 1 .. Len(page) /\ i - 1 \in 1 .. i - 1
        BY <1>6, <3>3
      <4>2. all[i - 1] = h.watermark + (i - 1)
        BY <1>a, <4>1
      <4>3. all[i] <= all[i - 1] + 1
        BY <1>5, <3>1, <4>1, <4>2
      <4>4. QED  BY <4>1, <4>3
    <3>4. QED  BY <3>2, <3>3
  <2>2. ASSUME NEW k \in 1 .. Len(q)
        PROVE  \/ all[Len(page) + k] <= h.watermark + 1
               \/ \E m \in 1 .. Len(page) + k - 1 : all[Len(page) + k] <= all[m] + 1
    <3>1. all[Len(page) + k] = q[1] + k - 1 /\ q[1] \in Nat /\ q[1] <= h.page + 1 /\ k \in Nat
      BY <1>b, <1>c
    <3>2. CASE k # 1
      <4>1. k - 1 \in 1 .. Len(q) /\ Len(page) + (k - 1) \in 1 .. Len(page) + k - 1
        BY <1>5, <1>6, <3>2, SMTT(30)
      <4>2. all[Len(page) + (k - 1)] = q[1] + (k - 1) - 1
        BY <1>b, <4>1
      <4>3. all[Len(page) + k] <= all[Len(page) + (k - 1)] + 1
        BY <3>1, <4>2
      <4>4. QED  BY <4>1, <4>3
    <3>3. CASE k = 1
      <4>1. all[Len(page) + k] <= h.page + 1
        BY <1>5, <3>1, <3>3
      <4>2. CASE Len(page) = 0
        <5>1. h.page = h.watermark
          BY <1>5, <1>6, <4>2
        <5>2. QED  BY <4>1, <5>1
      <4>3. CASE Len(page) # 0
        <5>1. Len(page) \in 1 .. Len(page) /\ Len(page) \in 1 .. Len(page) + k - 1
          BY <1>6, <3>3, <4>3
        <5>2. all[Len(page)] = h.watermark + Len(page)
          BY <1>a, <5>1
        <5>3. all[Len(page)] = h.page
          BY <1>5, <1>6, <5>2
        <5>4. QED  BY <4>1, <5>1, <5>3
      <4>4. QED  BY <4>2, <4>3
    <3>4. QED  BY <3>2, <3>3
  <2>3. ASSUME NEW i \in DOMAIN all
        PROVE  all[i] <= h.watermark + 1 \/ \E m \in 1 .. i - 1 : all[i] <= all[m] + 1
    <3>1. CASE i \in 1 .. Len(page)
      BY <2>1, <3>1
    <3>2. ASSUME NEW k \in 1 .. Len(q), i = Len(page) + k
          PROVE  all[i] <= h.watermark + 1 \/ \E m \in 1 .. i - 1 : all[i] <= all[m] + 1
      <4>1. i - 1 = Len(page) + k - 1
        BY <3>2
      <4>2. 1 .. i - 1 = 1 .. Len(page) + k - 1
        BY <4>1
      <4>3. QED  BY ONLY <2>2, <3>2, <4>2, k \in 1 .. Len(q)
    <3>3. i \in 1 .. Len(page) + Len(q)
      BY <1>7
    <3>4. QED  BY <1>8, <3>1, <3>2, <3>3
  <2>4. QED  BY <2>3 DEF Steady
<1>10. PICK f \in SentUpTo(h, all, Len(all)) : f = SentAll(h, all)
  BY <1>1, <1>7, <1>9, HandlerIs, SentAllIs
<1>11. /\ f \in Handlers /\ f.thread = h.thread /\ f.peer = h.peer
       /\ \A k \in 1 .. Len(all) : all[k] <= f.watermark
       /\ f.watermark = h.watermark \/ \E k \in 1 .. Len(all) : f.watermark = all[k]
       /\ h.watermark <= f.watermark
       /\ h.peer => \A v \in Nat : Run(h, v) => Run(f, v)
  BY <1>10 DEF SentUpTo
<1>12. PICK g : g = [f EXCEPT !.queue = <<>>, !.state = "following"]
  OBVIOUS
<1>13. /\ g \in Handlers /\ g.state = "following" /\ g.thread = h.thread /\ g.peer = h.peer
       /\ g.watermark = f.watermark /\ g.queue = <<>> /\ g.wire = f.wire /\ f.watermark \in Nat
  BY <1>5, <1>11, <1>12 DEF Handlers
<1>14. HandlerOk(g)
  <2>1. \A k \in 1 .. Len(all) : all[k] <= Len(streams[h.thread])
    <3>1. \A k \in 1 .. Len(page) : all[k] <= Len(streams[h.thread])
      BY <1>5, <1>6, <1>a, SMTT(30)
    <3>2. \A k \in 1 .. Len(q) : all[Len(page) + k] <= Len(streams[h.thread])
      BY <1>5, <1>7
    <3>3. QED  BY <1>7, <1>8, <3>1, <3>2
  <2>2. g.watermark <= Len(streams[h.thread])
    BY <1>5, <1>11, <1>13, <2>1
  <2>3. h.page <= f.watermark
    <3>1. CASE Len(page) = 0
      BY <1>5, <1>6, <1>11, <3>1
    <3>2. CASE Len(page) # 0
      <4>1. Len(page) \in 1 .. Len(page) /\ Len(page) \in 1 .. Len(all)
        BY <1>6, <1>7, <3>2
      <4>2. all[Len(page)] = h.watermark + Len(page)
        BY <1>a, <4>1
      <4>4. all[Len(page)] = h.page
        BY <1>5, <1>6, <4>2
      <4>3. QED  BY <1>11, <4>1, <4>4
    <3>3. QED  BY <3>1, <3>2
  <2>4. ASSUME NEW n \in 1 .. Len(streams[h.thread]), g.watermark < n
        PROVE  Queued(emitting, h.thread, n)
    <3>1. CASE q = <<>>
      <4>1. h.page < n
        BY <1>5, <1>13, <2>3, <2>4
      <4>2. QED  BY <1>5, <3>1, <4>1
    <3>2. CASE q # <<>>
      <4>1. Len(q) \in 1 .. Len(q) /\ Len(page) + Len(q) \in 1 .. Len(all)
        BY <1>5, <1>6, <1>7, <3>2
      <4>2. q[Len(q)] <= f.watermark /\ q[Len(q)] \in Nat
        BY <1>5, <1>7, <1>11, <4>1
      <4>3. q[Len(q)] < n
        BY <1>13, <2>4, <4>2
      <4>4. QED  BY <1>5, <3>2, <4>3
    <3>3. QED  BY <3>1, <3>2
  <2>5. QED  BY <1>5, <1>13, <2>2, <2>4 DEF HandlerOk, Base
<1>15. h.peer => \A v \in Nat : Run(h, v) => Run(g, v)
  BY <1>11, <1>13 DEF Run
<1>16. conn' = [conn EXCEPT ![c] = g]
  BY <1>4, <1>10, <1>12
<1>17. QED  BY <1>1, <1>4, <1>13, <1>14, <1>15, <1>16, WireSends

\* Steps that move only broadcasts and queues leave the clients as they are.
LEMMA ClientsKeep ==
    ASSUME WireInv, UNCHANGED <<streams, client>>, NEW x \in Clients,
           \A c \in Conns : /\ conn'[c].state = conn[c].state /\ conn'[c].peer = conn[c].peer
                            /\ conn'[c].thread = conn[c].thread /\ conn'[c].wire = conn[c].wire
                            /\ conn'[c].watermark = conn[c].watermark
    PROVE  ClientOk(x)'
<1>1. ClientOk(x) /\ client[x] \in Watchers /\ client' = client /\ streams' = streams
  BY DEF WireInv, WireShape
<1>2. CASE client[x].conn = Nil
  BY <1>1, <1>2 DEF ClientOk
<1>3. CASE client[x].conn # Nil
  <2>1. PICK c \in Conns : c = client[x].conn
    BY <1>1, <1>3 DEF Watchers
  <2>2. PICK g : g = conn'[c]
    OBVIOUS
  <2>3. /\ g.state = conn[c].state /\ g.peer = conn[c].peer /\ g.thread = conn[c].thread
        /\ g.wire = conn[c].wire /\ g.watermark = conn[c].watermark
    BY <2>2
  <2>4. Run(conn[c], Len(client[x].view)) => Run(g, Len(client[x].view))
    BY <2>3 DEF Run
  <2>5. Run(g, Len(client[x].view))' <=> Run(g, Len(client[x].view))
    BY <1>1 DEF Run
  <2>6. QED  BY <1>1, <1>3, <2>1, <2>2, <2>3, <2>4, <2>5 DEF ClientOk
<1>4. QED  BY <1>2, <1>3

\* What is left to be broadcast once the oldest is out.
LEMMA QueuedTail ==
    ASSUME WireInv, emitting # <<>>, NEW b, b = Head(emitting)
    PROVE  /\ b \in Broadcasts /\ Tail(emitting) \in Seq(Broadcasts)
           /\ Queued(emitting, b.thread, b.sequence)
           /\ \A n : Queued(emitting, b.thread, n) => b.sequence <= n
           /\ \A t, n : Queued(Tail(emitting), t, n) <=>
                 Queued(emitting, t, n) /\ ~ (t = b.thread /\ n = b.sequence)
<1>0. emitting \in Seq(Broadcasts) /\ InOrder(emitting)
  BY DEF WireInv, WireShape
<1>1. /\ emitting \in Seq(Broadcasts) /\ InOrder(emitting) /\ 1 \in DOMAIN emitting
      /\ b = emitting[1] /\ b \in Broadcasts /\ b.sequence \in Nat
      /\ \A i \in DOMAIN emitting : i \in Nat
  <2>1. 1 \in DOMAIN emitting /\ \A i \in DOMAIN emitting : i \in Nat
    BY <1>0
  <2>2. b = emitting[1] /\ b \in Broadcasts
    BY <1>0, <2>1
  <2>3. QED  BY <1>0, <2>1, <2>2 DEF Broadcasts
<1>2. /\ Tail(emitting) \in Seq(Broadcasts)
      /\ \A i \in DOMAIN Tail(emitting) : i + 1 \in DOMAIN emitting /\ Tail(emitting)[i] = emitting[i + 1]
      /\ \A i \in DOMAIN emitting : i # 1 => i - 1 \in DOMAIN Tail(emitting) /\ Tail(emitting)[i - 1] = emitting[i]
  BY <1>1
<1>3. \A i \in DOMAIN emitting : i # 1 /\ emitting[i].thread = b.thread => b.sequence < emitting[i].sequence
  <2>1. \A i \in DOMAIN emitting : i # 1 => 1 < i
    BY <1>1
  <2>2. QED  BY <1>1, <2>1 DEF InOrder
<1>4. Queued(emitting, b.thread, b.sequence)
  BY <1>1 DEF Queued
<1>5. ASSUME NEW n, Queued(emitting, b.thread, n) PROVE b.sequence <= n
  <2>1. PICK i \in DOMAIN emitting : emitting[i].thread = b.thread /\ emitting[i].sequence = n
    BY <1>5 DEF Queued
  <2>2. CASE i = 1
    BY <1>1, <2>1, <2>2
  <2>3. CASE i # 1
    <3>1. emitting[i] \in Broadcasts
      BY <1>1, <2>1
    <3>2. n \in Nat /\ b.sequence < n
      BY <1>3, <2>1, <2>3, <3>1 DEF Broadcasts
    <3>3. QED  BY <1>1, <3>2
  <2>4. QED  BY <2>2, <2>3
<1>6. ASSUME NEW t, NEW n
      PROVE  Queued(Tail(emitting), t, n) <=>
                Queued(emitting, t, n) /\ ~ (t = b.thread /\ n = b.sequence)
  <2>1. ASSUME Queued(Tail(emitting), t, n)
        PROVE  Queued(emitting, t, n) /\ ~ (t = b.thread /\ n = b.sequence)
    <3>1. PICK i \in DOMAIN Tail(emitting) :
             Tail(emitting)[i].thread = t /\ Tail(emitting)[i].sequence = n
      BY <2>1 DEF Queued
    <3>2. PICK k \in DOMAIN emitting : k = i + 1 /\ emitting[k] = Tail(emitting)[i]
      BY <1>2
    <3>3. k # 1 /\ emitting[k] \in Broadcasts
      BY <1>1, <1>2, <3>2
    <3>4. Queued(emitting, t, n)
      BY <3>1, <3>2 DEF Queued
    <3>5. t = b.thread => b.sequence < n /\ n \in Nat
      BY <1>3, <3>1, <3>2, <3>3 DEF Broadcasts
    <3>6. QED  BY <1>1, <3>4, <3>5
  <2>2. ASSUME Queued(emitting, t, n), ~ (t = b.thread /\ n = b.sequence)
        PROVE  Queued(Tail(emitting), t, n)
    <3>1. PICK i \in DOMAIN emitting : emitting[i].thread = t /\ emitting[i].sequence = n
      BY <2>2 DEF Queued
    <3>2. i # 1
      BY <1>1, <2>2, <3>1
    <3>3. i - 1 \in DOMAIN Tail(emitting) /\ Tail(emitting)[i - 1] = emitting[i]
      BY <1>2, <3>2
    <3>4. QED  BY <3>1, <3>3 DEF Queued
  <2>3. QED  BY <2>1, <2>2
<1>7. QED  BY <1>1, <1>2, <1>4, <1>5, <1>6

\* What a listener makes of a broadcast.
LEMMA OfferedIs ==
    ASSUME WireInv, NEW c \in Conns, NEW b \in Broadcasts
    PROVE  \E g \in Handlers :
              /\ g = Offered(c, b.thread, b.sequence)
              /\ g.state = conn[c].state /\ g.thread = conn[c].thread /\ g.peer = conn[c].peer
              /\ g.page = conn[c].page /\ g.watermark = conn[c].watermark
              /\ g.wire = conn[c].wire
              /\ g.queue = IF conn[c].state \in {"reading", "following"}
                              /\ conn[c].thread = b.thread /\ b.sequence > conn[c].watermark
                           THEN Append(conn[c].queue, b.sequence) ELSE conn[c].queue
<1>1. PICK h \in Handlers : h = conn[c]
  BY HandlerIs
<1>2. b.sequence \in Nat /\ Append(h.queue, b.sequence) \in Seq(Nat)
  BY DEF Broadcasts, Handlers
<1>3. PICK g : g = Offered(c, b.thread, b.sequence)
  OBVIOUS
<1>4. CASE h.state \in {"reading", "following"} /\ h.thread = b.thread /\ b.sequence > h.watermark
  <2>1. g = [h EXCEPT !.queue = Append(h.queue, b.sequence)]
    BY <1>1, <1>3, <1>4 DEF Offered
  <2>2. /\ g \in Handlers /\ g.state = h.state /\ g.thread = h.thread /\ g.peer = h.peer
        /\ g.page = h.page /\ g.watermark = h.watermark /\ g.wire = h.wire
        /\ g.queue = Append(h.queue, b.sequence)
    BY <1>2, <2>1 DEF Handlers
  <2>3. QED  BY <1>1, <1>3, <1>4, <2>2
<1>5. CASE ~ (h.state \in {"reading", "following"} /\ h.thread = b.thread /\ b.sequence > h.watermark)
  <2>1. g = h
    BY <1>1, <1>3, <1>5 DEF Offered
  <2>2. QED  BY <1>1, <1>3, <1>5, <2>1
<1>6. QED  BY <1>4, <1>5

\* A broadcast reaches the listeners that have not sent its event yet, in order.
LEMMA HandlerHears ==
    ASSUME WireInv, NEW b \in Broadcasts, emitting # <<>>, b = Head(emitting),
           NEW c \in Conns, NEW g \in Handlers, g = Offered(c, b.thread, b.sequence),
           UNCHANGED streams, emitting' = Tail(emitting)
    PROVE  HandlerOk(g)'
<1>1. PICK h \in Handlers : h = conn[c] /\ HandlerOk(h)
  BY HandlerIs
<1>2. /\ g.state = h.state /\ g.thread = h.thread /\ g.page = h.page
      /\ g.watermark = h.watermark
      /\ g.queue = IF h.state \in {"reading", "following"} /\ h.thread = b.thread
                      /\ b.sequence > h.watermark
                   THEN Append(h.queue, b.sequence) ELSE h.queue
  BY <1>1, OfferedIs
<1>3. CASE h.state \notin {"reading", "following"}
  BY <1>2, <1>3 DEF HandlerOk
<1>4. CASE h.state \in {"reading", "following"}
  <2>1. PICK q \in Seq(Nat), L \in Nat : q = h.queue /\ L = Len(streams[h.thread])
    BY <1>1, <1>4, HandlerIs DEF HandlerOk, Handlers
  <2>2. /\ h.thread \in Threads /\ h.watermark <= Base(h) /\ Base(h) <= L
        /\ h.watermark \in Nat /\ Base(h) \in Nat
        /\ \A i \in DOMAIN q : q[i] = q[1] + i - 1 /\ h.watermark < q[i] /\ q[i] <= L
        /\ q = <<>> => \A n \in 1 .. L : Base(h) < n => Queued(emitting, h.thread, n)
        /\ q # <<>> => /\ q[1] <= Base(h) + 1
                       /\ \A n \in 1 .. L : Queued(emitting, h.thread, n) <=> q[Len(q)] < n
    BY <1>1, <1>4, <2>1 DEF HandlerOk, Handlers, Base
  <2>3. /\ Len(q) \in Nat /\ DOMAIN q = 1 .. Len(q) /\ \A i \in DOMAIN q : q[i] \in Nat
        /\ q # <<>> => 1 \in DOMAIN q /\ Len(q) \in DOMAIN q
    OBVIOUS
  <2>4. Base(g) = Base(h)
    BY <1>2 DEF Base
  <2>5. /\ b.sequence \in Nat /\ Queued(emitting, b.thread, b.sequence)
        /\ \A n : Queued(emitting, b.thread, n) => b.sequence <= n
        /\ \A t, n : Queued(emitting', t, n) <=>
              Queued(emitting, t, n) /\ ~ (t = b.thread /\ n = b.sequence)
    BY QueuedTail DEF Broadcasts
  <2>6. PICK p \in Seq(Nat) : p = g.queue
    BY DEF Handlers
  <2>s. SUFFICES
           /\ \A i \in DOMAIN p : p[i] = p[1] + i - 1 /\ h.watermark < p[i] /\ p[i] <= L
           /\ p = <<>> => \A n \in 1 .. L : Base(h) < n => Queued(emitting', h.thread, n)
           /\ p # <<>> => /\ p[1] <= Base(h) + 1
                          /\ \A n \in 1 .. L : Queued(emitting', h.thread, n) <=> p[Len(p)] < n
    <3>1. Base(g)' = Base(h) /\ streams' = streams
      BY <2>4 DEF Base
    <3>2. /\ g.thread = h.thread /\ g.watermark = h.watermark /\ Len(streams'[g.thread]) = L
          /\ g.thread \in Threads
      BY <1>2, <2>1, <2>2, <3>1
    <3>3. g.watermark <= Base(h) /\ Base(h) <= L
      BY <2>2, <3>2
    <3>4. \A i \in DOMAIN g.queue :
             /\ g.queue[i] = g.queue[1] + i - 1
             /\ g.watermark < g.queue[i] /\ g.queue[i] <= Len(streams'[g.thread])
      BY <2>6, <3>2
    <3>5. g.queue = <<>> => \A n \in 1 .. Len(streams'[g.thread]) :
                               Base(g)' < n => Queued(emitting', g.thread, n)
      BY <2>4, <2>6, <3>1, <3>2
    <3>6. g.queue # <<>> =>
             /\ g.queue[1] <= Base(g)' + 1
             /\ \A n \in 1 .. Len(streams'[g.thread]) :
                   Queued(emitting', g.thread, n) <=> g.queue[Len(g.queue)] < n
      BY <2>4, <2>6, <3>1, <3>2
    <3>7. g.watermark <= Base(g)' /\ Base(g)' <= Len(streams'[g.thread])
      BY <2>4, <3>1, <3>2, <3>3
    <3>8. QED  BY <3>2, <3>4, <3>5, <3>6, <3>7 DEF HandlerOk
  <2>7. CASE h.thread # b.thread
    <3>1. p = q
      BY <1>2, <2>1, <2>6, <2>7
    <3>2. \A n : Queued(emitting', h.thread, n) <=> Queued(emitting, h.thread, n)
      BY <2>5, <2>7
    <3>3. QED  BY <2>2, <3>1, <3>2
  <2>8. CASE h.thread = b.thread /\ ~ (b.sequence > h.watermark)
    <3>1. p = q
      BY <1>2, <2>1, <2>6, <2>8
    <3>2. q = <<>>
      <4>1. SUFFICES ASSUME q # <<>> PROVE FALSE
        OBVIOUS
      <4>2. q[Len(q)] \in Nat /\ h.watermark < q[Len(q)] /\ q[Len(q)] <= L
        BY <2>2, <2>3, <4>1
      <4>3. b.sequence \in 1 .. L
        BY <2>1, <2>2, <2>5, <2>8 DEF WireInv, InOrder
      <4>4. q[Len(q)] < b.sequence
        BY <2>2, <2>5, <2>8, <4>1, <4>3
      <4>5. QED  BY <2>2, <2>5, <2>8, <4>2, <4>4
    <3>3. \A n \in 1 .. L : Base(h) < n => n # b.sequence
      BY <2>2, <2>5, <2>8
    <3>4. QED  BY <2>2, <2>5, <3>1, <3>2, <3>3
  <2>9. CASE h.thread = b.thread /\ b.sequence > h.watermark
    <3>1. p = Append(q, b.sequence)
      BY <1>2, <1>4, <2>1, <2>6, <2>9
    <3>2. /\ Len(p) = Len(q) + 1 /\ p[Len(p)] = b.sequence /\ p # <<>>
          /\ DOMAIN p = 1 .. Len(q) + 1
          /\ \A i \in DOMAIN q : p[i] = q[i]
          /\ \A i \in DOMAIN p : i \in DOMAIN q \/ i = Len(q) + 1
      BY <2>3, <2>5, <3>1
    <3>3. b.sequence \in 1 .. L /\ \A m \in b.sequence .. L : Queued(emitting, h.thread, m)
      BY <2>1, <2>2, <2>5, <2>9 DEF WireInv, InOrder
    <3>4. \A n \in 1 .. L : Queued(emitting', h.thread, n) <=> b.sequence < n
      <4>1. ASSUME NEW n \in 1 .. L PROVE Queued(emitting', h.thread, n) <=> b.sequence < n
        <5>1. b.sequence < n => n \in b.sequence .. L /\ n # b.sequence
          BY <2>5
        <5>2. Queued(emitting, h.thread, n) /\ n # b.sequence => b.sequence < n
          BY <2>5, <2>9
        <5>3. QED  BY <2>5, <2>9, <3>3, <5>1, <5>2
      <4>2. QED  BY <4>1
    <3>5. CASE q = <<>>
      <4>1. Len(q) = 0 /\ DOMAIN q = {}
        BY <3>5
      <4>2. p[1] = b.sequence /\ \A i \in DOMAIN p : i = 1
        BY <3>2, <4>1
      <4>3. b.sequence <= Base(h) + 1
        <5>1. SUFFICES ASSUME ~ (b.sequence <= Base(h) + 1) PROVE FALSE
          OBVIOUS
        <5>2. Base(h) + 1 \in 1 .. L /\ Base(h) < Base(h) + 1
          BY <2>2, <2>5, <3>3, <5>1
        <5>3. Queued(emitting, h.thread, Base(h) + 1)
          BY <2>2, <3>5, <5>2
        <5>4. QED  BY <2>5, <2>9, <5>1, <5>3
      <4>4. \A i \in DOMAIN p : p[i] = p[1] + i - 1 /\ h.watermark < p[i] /\ p[i] <= L
        BY <2>2, <2>5, <2>9, <3>3, <4>2
      <4>5. QED  BY <3>2, <3>4, <4>2, <4>3, <4>4
    <3>6. CASE q # <<>>
      <4>1. /\ 1 \in DOMAIN q /\ p[1] = q[1] /\ q[1] \in Nat /\ q[1] <= Base(h) + 1
            /\ q[Len(q)] \in Nat /\ q[Len(q)] = q[1] + Len(q) - 1 /\ q[Len(q)] <= L
        BY <2>2, <2>3, <3>2, <3>6
      <4>2. q[Len(q)] < b.sequence
        BY <2>2, <2>5, <2>9, <3>3, <3>6
      <4>3. b.sequence <= q[Len(q)] + 1
        <5>1. q[Len(q)] + 1 \in 1 .. L /\ q[Len(q)] < q[Len(q)] + 1
          BY <2>5, <3>3, <4>1, <4>2, SMTT(30)
        <5>2. Queued(emitting, h.thread, q[Len(q)] + 1)
          BY <2>2, <3>6, <5>1
        <5>3. QED  BY <2>5, <2>9, <5>2
      <4>4. b.sequence = q[1] + (Len(q) + 1) - 1
        BY <2>3, <2>5, <4>1, <4>2, <4>3, SMTT(30)
      <4>5. ASSUME NEW i \in DOMAIN p
            PROVE  p[i] = p[1] + i - 1 /\ h.watermark < p[i] /\ p[i] <= L
        <5>1. CASE i \in DOMAIN q
          <6>1. q[i] = q[1] + i - 1 /\ h.watermark < q[i] /\ q[i] <= L
            BY <2>2, <2>3, <5>1
          <6>2. p[i] = q[i] /\ p[1] = q[1]
            BY <3>2, <4>1, <5>1
          <6>3. QED  BY <6>1, <6>2
        <5>2. CASE i = Len(q) + 1
          <6>1. p[i] = b.sequence
            BY <3>2, <5>2
          <6>2. h.watermark < b.sequence /\ b.sequence <= L
            BY <2>2, <2>5, <2>9, <3>3
          <6>3. p[1] = q[1] /\ b.sequence = q[1] + i - 1
            BY <2>3, <4>1, <4>4, <5>2
          <6>4. QED  BY <6>1, <6>2, <6>3
        <5>3. QED  BY <3>2, <5>1, <5>2
      <4>6. QED  BY <3>2, <3>4, <4>1, <4>5
    <3>7. QED  BY <3>5, <3>6
  <2>10. QED  BY <2>7, <2>8, <2>9
<1>5. QED  BY <1>3, <1>4

LEMMA EmitKeeps == ASSUME WireInv, Emit PROVE WireInv'
<1>1. PICK b \in Broadcasts : b = Head(emitting)
  BY QueuedTail DEF Emit
<1>2. /\ emitting # <<>> /\ emitting' = Tail(emitting)
      /\ conn' = [c \in Conns |-> Offered(c, b.thread, b.sequence)]
      /\ UNCHANGED <<streams, client>>
  BY <1>1 DEF Emit
<1>3. /\ Tail(emitting) \in Seq(Broadcasts)
      /\ \A n : Queued(emitting, b.thread, n) => b.sequence <= n
      /\ \A t, n : Queued(emitting', t, n) <=>
            Queued(emitting, t, n) /\ ~ (t = b.thread /\ n = b.sequence)
  BY <1>1, <1>2, QueuedTail
<1>4. ASSUME NEW c \in Conns
      PROVE  /\ conn'[c] \in Handlers /\ HandlerOk(conn[c])'
             /\ conn'[c].state = conn[c].state /\ conn'[c].peer = conn[c].peer
             /\ conn'[c].thread = conn[c].thread /\ conn'[c].wire = conn[c].wire
             /\ conn'[c].watermark = conn[c].watermark
  <2>1. PICK g \in Handlers :
           /\ g = Offered(c, b.thread, b.sequence)
           /\ g.state = conn[c].state /\ g.peer = conn[c].peer
           /\ g.thread = conn[c].thread /\ g.wire = conn[c].wire
           /\ g.watermark = conn[c].watermark
    BY OfferedIs
  <2>2. conn'[c] = g
    BY <1>2, <2>1
  <2>3. HandlerOk(g)'
    BY <1>1, <1>2, <2>1, HandlerHears
  <2>4. QED  BY <2>1, <2>2, <2>3
<1>5. conn' \in [Conns -> Handlers]
  BY <1>2, <1>4
<1>6. WireShape'
  BY <1>2, <1>3, <1>5 DEF WireInv, WireShape
<1>7. InOrder(emitting)'
  <2>1. /\ emitting \in Seq(Broadcasts) /\ InOrder(emitting) /\ streams' = streams
        /\ b.sequence \in Nat
    BY <1>2 DEF WireInv, WireShape, Broadcasts
  <2>2. ASSUME NEW i \in DOMAIN emitting', NEW k \in DOMAIN emitting', i < k,
               emitting'[i].thread = emitting'[k].thread
        PROVE  emitting'[i].sequence < emitting'[k].sequence
    <3>1. /\ i + 1 \in DOMAIN emitting /\ emitting'[i] = emitting[i + 1]
          /\ k + 1 \in DOMAIN emitting /\ emitting'[k] = emitting[k + 1] /\ i + 1 < k + 1
      BY <1>2, <2>1, <2>2
    <3>2. QED  BY <2>1, <2>2, <3>1 DEF InOrder
  <2>3. ASSUME NEW t \in Threads, NEW n \in Nat, Queued(emitting', t, n)
        PROVE  n \in 1 .. Len(streams[t]) /\ \A m \in n .. Len(streams[t]) : Queued(emitting', t, m)
    <3>1. /\ Queued(emitting, t, n) /\ n \in 1 .. Len(streams[t])
          /\ \A m \in n .. Len(streams[t]) : Queued(emitting, t, m)
      BY <1>3, <2>1, <2>3 DEF InOrder
    <3>2. ASSUME NEW m \in n .. Len(streams[t]) PROVE ~ (t = b.thread /\ m = b.sequence)
      <4>1. t = b.thread => b.sequence <= n /\ n # b.sequence
        BY <1>3, <2>3, <3>1
      <4>2. QED  BY <2>1, <4>1
    <3>3. QED  BY <1>3, <3>1, <3>2
  <2>4. QED  BY <2>1, <2>2, <2>3 DEF InOrder
<1>8. \A x \in Clients : ClientOk(x)'
  BY <1>2, <1>4, ClientsKeep
<1>9. QED  BY <1>4, <1>6, <1>7, <1>8 DEF WireInv

\* A handler that is no longer at work has nothing to keep in order.
LEMMA Ended ==
    /\ [Unused EXCEPT !.state = "closed"] \in Handlers
    /\ HandlerOk([Unused EXCEPT !.state = "closed"])
<1>1. PICK g : g = [Unused EXCEPT !.state = "closed"]
  OBVIOUS
<1>2. g = [state |-> "closed", thread |-> Nil, page |-> 0, watermark |-> 0,
           queue |-> <<>>, wire |-> <<>>, peer |-> FALSE]
  BY <1>1 DEF Unused
<1>3. <<>> \in Seq(Nat)
  OBVIOUS
<1>4. g \in Handlers /\ HandlerOk(g)
  BY <1>2, <1>3 DEF Handlers, HandlerOk
<1>5. QED  BY <1>1, <1>4

\* The streams and the broadcasts stay: the handlers and the clients tell the rest.
LEMMA WireMoves ==
    ASSUME WireInv, UNCHANGED <<streams, emitting>>,
           conn' \in [Conns -> Handlers], client' \in [Clients -> Watchers],
           \A c \in Conns : HandlerOk(conn'[c]), \A x \in Clients : ClientOk(x)'
    PROVE  WireInv'
<1>1. WireShape /\ InOrder(emitting)
  BY DEF WireInv
<1>2. WireShape'
  BY <1>1 DEF WireShape
<1>3. InOrder(emitting)'
  BY <1>1 DEF InOrder
<1>4. ASSUME NEW c \in Conns PROVE HandlerOk(conn[c])'
  <2>1. PICK h : h = conn'[c] /\ HandlerOk(h)
    OBVIOUS
  <2>2. HandlerOk(h)'
    BY <2>1 DEF HandlerOk, Base
  <2>3. QED  BY <2>1, <2>2
<1>5. QED  BY <1>2, <1>3, <1>4 DEF WireInv

LEMMA FinishKeeps == ASSUME WireInv, NEW c \in Conns, Finish(c) PROVE WireInv'
<1>1. PICK g \in Handlers : g = [Unused EXCEPT !.state = "closed"] /\ HandlerOk(g)
  BY Ended
<1>2. /\ conn' = [conn EXCEPT ![c] = g] /\ ~ conn[c].peer
      /\ UNCHANGED <<streams, emitting, client>>
  BY <1>1 DEF Finish
<1>3. /\ conn' \in [Conns -> Handlers] /\ conn'[c] = g
      /\ \A d \in Conns : d # c => conn'[d] = conn[d]
  BY <1>1, <1>2, HandlerIs
<1>4. \A d \in Conns : HandlerOk(conn'[d])
  BY <1>1, <1>3, HandlerIs
<1>5. ASSUME NEW x \in Clients PROVE ClientOk(x)'
  <2>1. client[x].conn # Nil => client[x].conn \in Conns /\ client[x].conn # c
    BY <1>2, ClientIs DEF ClientOk
  <2>2. \A y \in Clients : client'[y].conn = client[x].conn /\ client[x].conn # Nil => y = x
    BY <1>2, ClientIs DEF ClientOk
  <2>3. QED  BY <1>2, <1>3, <2>1, <2>2, ClientStays
<1>6. client' \in [Clients -> Watchers]
  BY <1>2 DEF WireInv, WireShape
<1>7. QED  BY <1>2, <1>3, <1>4, <1>5, <1>6, WireMoves

\* A frame that arrives is the next event of the client's thread.
LEMMA ReceiveKeeps == ASSUME WireInv, NEW x \in Clients, Receive(x) PROVE WireInv'
<1>1. PICK c \in Conns : c = client[x].conn
  BY ClientIs DEF Receive
<1>2. PICK h \in Handlers : h = conn[c] /\ HandlerOk(h)
  BY HandlerIs
<1>3. PICK wire \in Seq(Nat), v \in Nat, view \in Seq(Nat) :
         wire = h.wire /\ view = client[x].view /\ v = Len(view)
  BY ClientIs DEF Handlers
<1>n. c # Nil
  BY <1>1 DEF Receive
<1>4. /\ h.state \in {"reading", "following"} /\ h.peer
      /\ client[x].thread # Nil /\ h.thread = client[x].thread
      /\ v + Len(wire) = h.watermark /\ \A i \in DOMAIN wire : wire[i] = v + i
      /\ \A y \in Clients : client[y].conn = c => y = x
      /\ \A i \in DOMAIN view : view[i] = i
  BY <1>1, <1>2, <1>3, <1>n, ClientIs DEF ClientOk, Run
<1>5. /\ wire # <<>> /\ UNCHANGED <<streams, emitting>>
      /\ client' = [client EXCEPT ![x].view = Append(view, Head(wire))]
      /\ conn' = [conn EXCEPT ![c].wire = Tail(wire)]
  BY <1>1, <1>2, <1>3 DEF Receive
<1>6. /\ Len(wire) \in Nat /\ Len(wire) > 0 /\ Head(wire) = v + 1 /\ Tail(wire) \in Seq(Nat)
      /\ Len(Tail(wire)) = Len(wire) - 1
      /\ \A i \in DOMAIN Tail(wire) : Tail(wire)[i] = v + 1 + i
  <2>1. /\ Len(wire) \in Nat /\ Len(wire) > 0 /\ 1 \in DOMAIN wire /\ Head(wire) = wire[1]
        /\ Tail(wire) \in Seq(Nat) /\ Len(Tail(wire)) = Len(wire) - 1
    BY <1>5
  <2>2. \A i \in DOMAIN Tail(wire) : i \in Nat /\ i + 1 \in DOMAIN wire /\ Tail(wire)[i] = wire[i + 1]
    BY <1>5
  <2>3. \A i \in DOMAIN Tail(wire) : Tail(wire)[i] = v + 1 + i
    BY <1>4, <2>2
  <2>4. QED  BY <1>4, <2>1, <2>3
<1>7. PICK longer \in Seq(Nat) : longer = Append(view, Head(wire))
  <2>1. \A n \in Nat : Append(view, n) \in Seq(Nat)
    OBVIOUS
  <2>2. Head(wire) \in Nat
    BY <1>6
  <2>3. QED  BY <2>1, <2>2
<1>8. Len(longer) = v + 1 /\ \A i \in DOMAIN longer : longer[i] = i
  BY <1>3, <1>4, <1>6, <1>7
<1>9. PICK g : g = [h EXCEPT !.wire = Tail(wire)]
  OBVIOUS
<1>10. /\ g \in Handlers /\ g.state = h.state /\ g.thread = h.thread /\ g.peer = h.peer
       /\ g.page = h.page /\ g.watermark = h.watermark /\ g.queue = h.queue
       /\ g.wire = Tail(wire)
  BY <1>6, <1>9 DEF Handlers
<1>11. HandlerOk(g)
  BY <1>2, <1>10, HandlerOnlyWire
<1>12. conn' = [conn EXCEPT ![c] = g]
  BY <1>2, <1>5, <1>9, HandlerIs
<1>13. /\ conn' \in [Conns -> Handlers] /\ conn'[c] = g
       /\ \A d \in Conns : d # c => conn'[d] = conn[d]
  BY <1>10, <1>12, HandlerIs
<1>14. \A d \in Conns : HandlerOk(conn'[d])
  BY <1>11, <1>13, HandlerIs
<1>15. PICK u : u = [client[x] EXCEPT !.view = longer]
  OBVIOUS
<1>16. /\ u \in Watchers /\ u.thread = client[x].thread /\ u.conn = c /\ u.view = longer
  BY <1>1, <1>7, <1>15, ClientIs DEF Watchers
<1>17. /\ client' \in [Clients -> Watchers] /\ client'[x] = u
       /\ \A y \in Clients : y # x => client'[y] = client[y]
  BY <1>5, <1>7, <1>15, <1>16, ClientIs
<1>18. ASSUME NEW y \in Clients PROVE ClientOk(y)'
  <2>1. CASE y # x
    <3>1. client[y].conn # Nil => client[y].conn \in Conns /\ client[y].conn # c
      BY <1>4, <2>1, ClientIs
    <3>2. ASSUME NEW z \in Clients, client'[z].conn = client[y].conn, client[y].conn # Nil
          PROVE  z = y
      <4>1. z # x
        BY <1>16, <1>17, <3>1, <3>2
      <4>2. client[z].conn = client[y].conn
        BY <1>17, <3>2, <4>1
      <4>3. QED  BY <3>2, <4>2, ClientIs DEF ClientOk
    <3>3. QED  BY <1>5, <1>13, <1>17, <2>1, <3>1, <3>2, ClientStays
  <2>2. CASE y = x
    <3>1. v + 1 <= Len(streams[h.thread])
      BY <1>2, <1>4, <1>6, HandlerIs, SMTT(30) DEF HandlerOk, Base, Handlers
    <3>2. Run(g, v + 1)
      BY <1>4, <1>6, <1>10 DEF Run
    <3>3. Run(g, v + 1)' /\ streams' = streams
      BY <1>5, <3>2 DEF Run
    <3>4. \A z \in Clients : client'[z].conn = c => z = x
      BY <1>4, <1>17
    <3>5. QED
      BY <1>4, <1>8, <1>10, <1>13, <1>16, <1>17, <2>2, <3>1, <3>3, <3>4 DEF ClientOk
  <2>3. QED  BY <2>1, <2>2
<1>19. QED  BY <1>5, <1>13, <1>14, <1>17, <1>18, WireMoves

\* A connection that breaks loses its wire, and its client has none any more.
LEMMA BreakKeeps == ASSUME WireInv, NEW x \in Clients, Break(x) PROVE WireInv'
<1>1. PICK c \in Conns : c = client[x].conn
  BY ClientIs DEF Break
<1>2. PICK h \in Handlers : h = conn[c] /\ HandlerOk(h)
  BY HandlerIs
<1>n. c # Nil
  BY <1>1 DEF Break
<1>3. PICK g : g = [h EXCEPT !.peer = FALSE, !.wire = <<>>]
  OBVIOUS
<1>4. <<>> \in Seq(Nat)
  OBVIOUS
<1>5. /\ g \in Handlers /\ g.state = h.state /\ g.thread = h.thread
      /\ g.page = h.page /\ g.watermark = h.watermark /\ g.queue = h.queue
  BY <1>3, <1>4 DEF Handlers
<1>6. HandlerOk(g)
  BY <1>2, <1>5, HandlerOnlyWire
<1>7. /\ conn' = [conn EXCEPT ![c] = g] /\ UNCHANGED <<streams, emitting>>
      /\ client' = [client EXCEPT ![x].conn = Nil]
  <2>1. conn' = [conn EXCEPT ![c].peer = FALSE, ![c].wire = <<>>]
    BY <1>1 DEF Break
  <2>2. QED  BY <1>2, <1>3, <2>1, HandlerIs DEF Break
<1>8. /\ conn' \in [Conns -> Handlers] /\ conn'[c] = g
      /\ \A d \in Conns : d # c => conn'[d] = conn[d]
  BY <1>5, <1>7, HandlerIs
<1>9. \A d \in Conns : HandlerOk(conn'[d])
  BY <1>6, <1>8, HandlerIs
<1>10. PICK u : u = [client[x] EXCEPT !.conn = Nil]
  OBVIOUS
<1>11. u \in Watchers /\ u.thread = client[x].thread /\ u.conn = Nil /\ u.view = client[x].view
  BY <1>10, ClientIs DEF Watchers
<1>12. /\ client' \in [Clients -> Watchers] /\ client'[x] = u
       /\ \A y \in Clients : y # x => client'[y] = client[y]
  BY <1>7, <1>10, <1>11, ClientIs
<1>13. ASSUME NEW y \in Clients PROVE ClientOk(y)'
  <2>1. CASE y # x
    <3>1. client[y].conn # Nil => client[y].conn \in Conns /\ client[y].conn # c
      BY <1>1, <1>n, <2>1, ClientIs DEF ClientOk
    <3>2. ASSUME NEW z \in Clients, client'[z].conn = client[y].conn, client[y].conn # Nil
          PROVE  z = y
      <4>1. z # x
        BY <1>11, <1>12, <3>2
      <4>2. client[z].conn = client[y].conn
        BY <1>12, <3>2, <4>1
      <4>3. QED  BY <3>2, <4>2, ClientIs DEF ClientOk
    <3>3. QED  BY <1>7, <1>8, <1>12, <2>1, <3>1, <3>2, ClientStays
  <2>2. CASE y = x
    <3>1. ClientOk(x) /\ streams' = streams
      BY <1>7, ClientIs
    <3>2. QED  BY <1>11, <1>12, <2>2, <3>1 DEF ClientOk
  <2>3. QED  BY <2>1, <2>2
<1>14. QED  BY <1>7, <1>8, <1>9, <1>12, <1>13, WireMoves

\* The connections of a dead host are over, and its clients have none.
LEMMA HostDiesKeeps == ASSUME WireInv, HostDies PROVE WireInv'
<1>1. /\ emitting' = <<>> /\ streams' = streams
      /\ conn' = [c \in Conns |-> IF conn[c].state \in {"reading", "following"}
                                  THEN [Unused EXCEPT !.state = "closed"] ELSE conn[c]]
      /\ client' = [x \in Clients |-> [client[x] EXCEPT !.conn = Nil]]
  BY DEF HostDies
<1>2. ASSUME NEW c \in Conns
      PROVE  conn'[c] \in Handlers /\ conn'[c].state \notin {"reading", "following"}
  <2>1. PICK g \in Handlers : g = [Unused EXCEPT !.state = "closed"]
    BY Ended
  <2>2. g.state = "closed"
    BY <2>1 DEF Unused
  <2>3. conn'[c] = IF conn[c].state \in {"reading", "following"} THEN g ELSE conn[c]
    BY <1>1, <2>1
  <2>4. QED  BY <2>2, <2>3, HandlerIs
<1>3. ASSUME NEW x \in Clients
      PROVE  /\ client'[x] \in Watchers /\ client'[x].conn = Nil
             /\ client'[x].view = client[x].view /\ client'[x].thread = client[x].thread
  <2>1. client'[x] = [client[x] EXCEPT !.conn = Nil]
    BY <1>1
  <2>2. QED  BY <2>1, ClientIs DEF Watchers
<1>4. WireShape'
  <2>1. <<>> \in Seq(Broadcasts) /\ streams \in [Threads -> Seq(Posts)]
    BY DEF WireInv, WireShape
  <2>2. conn' \in [Conns -> Handlers]
    BY <1>1, <1>2
  <2>3. client' \in [Clients -> Watchers]
    BY <1>1, <1>3
  <2>4. QED  BY <1>1, <2>1, <2>2, <2>3 DEF WireShape
<1>5. InOrder(emitting)'
  BY <1>1 DEF InOrder, Queued
<1>6. \A c \in Conns : HandlerOk(conn[c])'
  BY <1>2 DEF HandlerOk
<1>7. \A x \in Clients : ClientOk(x)'
  BY <1>1, <1>3, ClientIs DEF ClientOk
<1>8. QED  BY <1>4, <1>5, <1>6, <1>7 DEF WireInv

\* Of the connections that are free, the first.
LEMMA FreeConn ==
    ASSUME FreeConns # {} PROVE Min(FreeConns) \in FreeConns
<1>1. FreeConns \in SUBSET Nat
  BY StreamAssumption DEF FreeConns, Conns
<1>2. PICK n \in FreeConns : \A m \in FreeConns : n <= m
  BY <1>1, H!LeastNumber
<1>3. QED  BY <1>2 DEF Min

\* A connection that is opened is ahead of nothing, and reads what is stored.
LEMMA OpenedIs ==
    ASSUME WireInv, NEW t \in Threads, NEW after \in 0 .. Len(streams[t])
    PROVE  /\ Opened(t, after) \in Handlers /\ HandlerOk(Opened(t, after))
           /\ Opened(t, after).state = "reading" /\ Opened(t, after).thread = t
           /\ Opened(t, after).peer /\ Run(Opened(t, after), after)
<1>1. PICK g : g = Opened(t, after)
  OBVIOUS
<1>2. g = [state |-> "reading", thread |-> t, page |-> Len(streams[t]), watermark |-> after,
           queue |-> <<>>, wire |-> <<>>, peer |-> TRUE]
  BY <1>1 DEF Opened, Unused
<1>3. Len(streams[t]) \in Nat /\ <<>> \in Seq(Nat) /\ after \in Nat /\ after <= Len(streams[t])
  BY DEF WireInv, WireShape
<1>4. g \in Handlers
  BY <1>2, <1>3 DEF Handlers
<1>5. HandlerOk(g)
  BY <1>2, <1>3 DEF HandlerOk, Base
<1>6. Run(g, after)
  BY <1>2, <1>3 DEF Run
<1>7. QED  BY <1>1, <1>2, <1>4, <1>5, <1>6

\* A client that turns to a thread goes on behind what it has of it.
LEMMA SubscribeKeeps ==
    ASSUME WireInv, NEW x \in Clients, NEW t \in Threads \union {Nil},
           NEW seen \in Seq(Nat), \A i \in DOMAIN seen : seen[i] = i,
           t # Nil => Len(seen) <= Len(streams[t]),
           Subscribe(x, t, seen), UNCHANGED <<streams, emitting>>
    PROVE  WireInv'
<1> DEFINE c0 == client[x].conn
           free == Min(FreeConns)
<1>1. PICK hungUp : hungUp = [c \in Conns |-> IF c = client[x].conn
                                    THEN [conn[c] EXCEPT !.peer = FALSE, !.wire = <<>>]
                                    ELSE conn[c]]
  OBVIOUS
<1>2. PICK after : after = IF seen = <<>> THEN 0 ELSE Last(seen)
  OBVIOUS
<1>3. after = Len(seen) /\ Len(seen) \in Nat
  <2>1. seen # <<>> => Len(seen) \in DOMAIN seen
    OBVIOUS
  <2>2. seen = <<>> => Len(seen) = 0
    OBVIOUS
  <2>3. QED  BY <1>2, <2>1, <2>2 DEF Last
<1>4. /\ t = Nil => conn' = hungUp
      /\ t # Nil => FreeConns # {} /\ conn' = [hungUp EXCEPT ![free] = Opened(t, after)]
      /\ client' = [client EXCEPT ![x] = [thread |-> t, conn |-> IF t = Nil THEN Nil ELSE free,
                                          view |-> seen]]
  BY <1>1, <1>2 DEF Subscribe, Reconnected
<1>5. ASSUME NEW c \in Conns
      PROVE  /\ hungUp[c] \in Handlers /\ HandlerOk(hungUp[c])
             /\ c # c0 => hungUp[c] = conn[c]
  <2>1. CASE c # client[x].conn
    BY <1>1, <2>1, HandlerIs
  <2>2. CASE c = client[x].conn
    <3>1. PICK h \in Handlers : h = conn[c] /\ HandlerOk(h)
      BY HandlerIs
    <3>2. PICK g : g = [h EXCEPT !.peer = FALSE, !.wire = <<>>]
      OBVIOUS
    <3>3. <<>> \in Seq(Nat)
      OBVIOUS
    <3>4. /\ g \in Handlers /\ g.state = h.state /\ g.thread = h.thread
          /\ g.page = h.page /\ g.watermark = h.watermark /\ g.queue = h.queue
      BY <3>2, <3>3 DEF Handlers
    <3>5. hungUp[c] = g
      BY <1>1, <2>2, <3>1, <3>2
    <3>6. QED  BY <2>2, <3>1, <3>4, <3>5, HandlerOnlyWire
  <2>3. QED  BY <2>1, <2>2
<1>6. hungUp \in [Conns -> Handlers]
  BY <1>1, <1>5
<1>7. t # Nil => /\ free \in Conns /\ conn[free].state = "none"
                  /\ Opened(t, after) \in Handlers /\ HandlerOk(Opened(t, after))
                  /\ Opened(t, after).state = "reading" /\ Opened(t, after).thread = t
                  /\ Opened(t, after).peer /\ Run(Opened(t, after), after)
  <2>1. t # Nil => free \in FreeConns
    BY <1>4, FreeConn
  <2>2. t # Nil => t \in Threads /\ after \in 0 .. Len(streams[t])
    BY <1>3 DEF WireInv, WireShape
  <2>3. QED  BY <2>1, <2>2, OpenedIs DEF FreeConns
<1>8. PICK u : u = [thread |-> t, conn |-> IF t = Nil THEN Nil ELSE free, view |-> seen]
  OBVIOUS
<1>9. u \in Watchers /\ u.thread = t /\ u.conn = (IF t = Nil THEN Nil ELSE free) /\ u.view = seen
  BY <1>7, <1>8 DEF Watchers
<1>10. /\ client' \in [Clients -> Watchers] /\ client'[x] = u
       /\ \A y \in Clients : y # x => client'[y] = client[y]
  <2>1. client' = [client EXCEPT ![x] = u]
    BY <1>4, <1>8
  <2>2. QED  BY <1>9, <2>1, ClientIs
<1> HIDE DEF free, c0
<1>11. /\ conn' \in [Conns -> Handlers] /\ \A c \in Conns : HandlerOk(conn'[c])
       /\ t # Nil => conn'[free] = Opened(t, after)
       /\ \A c \in Conns : t = Nil \/ c # free => conn'[c] = hungUp[c]
  <2>1. CASE t = Nil
    BY <1>4, <1>5, <1>6, <2>1
  <2>2. CASE t # Nil
    <3>1. conn' = [hungUp EXCEPT ![free] = Opened(t, after)] /\ free \in Conns
      BY <1>4, <1>7, <2>2 DEF free
    <3>2. QED  BY <1>5, <1>6, <1>7, <2>2, <3>1
  <2>3. QED  BY <2>1, <2>2
<1>12. ASSUME NEW y \in Clients PROVE ClientOk(y)'
  <2>1. CASE y # x
    <3>1. client[y].conn # Nil =>
             /\ client[y].conn \in Conns /\ client[y].conn # c0
             /\ conn[client[y].conn].state \in {"reading", "following"}
      BY <2>1, ClientIs DEF ClientOk, c0
    <3>2. client[y].conn # Nil => t = Nil \/ client[y].conn # free
      BY <1>7, <3>1
    <3>3. client[y].conn # Nil => conn'[client[y].conn] = conn[client[y].conn]
      BY <1>5, <1>11, <3>1, <3>2
    <3>4. ASSUME NEW z \in Clients, client'[z].conn = client[y].conn, client[y].conn # Nil
          PROVE  z = y
      <4>1. z # x
        BY <1>9, <1>10, <3>2, <3>4
      <4>2. client[z].conn = client[y].conn
        BY <1>10, <3>4, <4>1
      <4>3. QED  BY <3>4, <4>2, ClientIs DEF ClientOk
    <3>5. QED  BY <1>10, <2>1, <3>3, <3>4, ClientStays
  <2>2. CASE y = x
    <3>1. CASE t = Nil
      BY <1>9, <1>10, <2>2, <3>1 DEF ClientOk
    <3>2. CASE t # Nil
      <4>1. ASSUME NEW z \in Clients, client'[z].conn = free PROVE z = x
        <5>1. SUFFICES ASSUME z # x PROVE FALSE
          OBVIOUS
        <5>2. client[z].conn = free /\ free # Nil
          BY <1>7, <1>10, <3>2, <4>1, <5>1, StreamAssumption DEF Conns
        <5>3. QED  BY <1>7, <3>2, <5>2, ClientIs DEF ClientOk
      <4>2. Run(Opened(t, after), Len(seen))'  /\ streams' = streams
        BY <1>3, <1>7, <3>2 DEF Run, Opened
      <4>3. PICK g : g = conn'[free] /\ g = Opened(t, after)
        BY <1>11, <3>2
      <4>4. g.state = "reading" /\ g.thread = t /\ g.peer /\ Run(g, Len(seen))
        BY <1>3, <1>7, <3>2, <4>3
      <4>5. Run(g, Len(seen))'
        BY <4>4 DEF Run
      <4>6. client'[x].view = seen /\ client'[x].thread = t /\ client'[x].conn = free
        BY <1>9, <1>10, <3>2
      <4>7. QED  BY <2>2, <3>2, <4>1, <4>2, <4>3, <4>4, <4>5, <4>6 DEF ClientOk
    <3>3. QED  BY <3>1, <3>2
  <2>3. QED  BY <2>1, <2>2
<1>13. QED  BY <1>10, <1>11, <1>12, WireMoves

LEMMA WireStarts == ASSUME StreamInit PROVE WireInv
<1>1. /\ streams = [t \in Threads |-> <<>>] /\ emitting = <<>>
      /\ conn = [c \in Conns |-> Unused] /\ client = [x \in Clients |-> Away]
  BY DEF StreamInit
<1>2. <<>> \in Seq(Posts) /\ <<>> \in Seq(Broadcasts) /\ <<>> \in Seq(Nat)
  OBVIOUS
<1>3. Unused \in Handlers /\ HandlerOk(Unused)
  BY <1>2 DEF Unused, Handlers, HandlerOk
<1>4. Away \in Watchers
  BY <1>2 DEF Away, Watchers
<1>5. WireShape
  BY <1>1, <1>2, <1>3, <1>4 DEF WireShape
<1>6. InOrder(emitting)
  BY <1>1 DEF InOrder, Queued
<1>7. \A x \in Clients : ClientOk(x)
  BY <1>1 DEF ClientOk, Away
<1>8. QED  BY <1>1, <1>3, <1>5, <1>6, <1>7 DEF WireInv

\* What the console does with its threads leaves all of this alone.
LEMMA WireRests ==
    ASSUME WireInv, UNCHANGED <<streams, emitting, conn, client>> PROVE WireInv'
<1>1. /\ conn' \in [Conns -> Handlers] /\ client' \in [Clients -> Watchers]
      /\ \A c \in Conns : HandlerOk(conn'[c])
  BY DEF WireInv, WireShape
<1>2. ASSUME NEW x \in Clients PROVE ClientOk(x)'
  <2>1. \A y \in Clients : client[y].conn = client[x].conn /\ client[x].conn # Nil => y = x
    BY ClientIs DEF ClientOk
  <2>2. QED  BY <2>1, ClientStays
<1>3. QED  BY <1>1, <1>2, WireMoves

-----------------------------------------------------------------------------
(* Console: what the invariant says of the turns and of the desk *)

TurnPhases ==
    {"none", "begun", "ready", "streaming", "acting", "failing", "suspended", "resumed",
     "over", "thrown"}
AtWork == {"begun", "ready", "streaming", "acting", "failing"}
TurnsOf == [thread : Threads \union {Nil}, phase : TurnPhases, asked : Nat, cancelled : BOOLEAN]
Prompts == [turn : Turns, approval : Nat]
Calls ==
    {NoCall} \union [op : {"start"}, thread : Threads]
      \union [op : {"send"}, thread : Threads, turn : Turns]
      \union [op : {"decide"}, thread : Threads, turn : Turns, approval : Nat,
              persist : BOOLEAN, stage : {"sent", "resumed"}]

DeskShape ==
    /\ turn \in [Turns -> TurnsOf]
    /\ draft \in [Writers -> Drafts \union {Nil}]
    /\ app.thread \in Threads \union {Nil}
    /\ app.pending \in Prompts \union {Nil}
    /\ call \in Calls
    /\ shown \subseteq Prompts /\ granted \subseteq shown
    /\ scene \in Scenes

\* An event of a turn is on the thread of that turn.
PostsOfTurns ==
    \A t \in Threads : \A i \in DOMAIN streams[t] :
       streams[t][i].turn \in Turns => turn[streams[t][i].turn].thread = t

\* What a writer w is about to append to stream s has not been stored already, and
\* its turn, which is in state u, has not gone on.
DraftIs(w, d, s, u) ==
    /\ d \in Drafts /\ d.event.turn = w
    /\ d.expected \in 1 .. Len(s) + 1
    /\ \A n \in d.expected .. Len(s) : s[n].turn # w
    /\ w = Renamer => s # <<>>
    /\ w \in Turns =>
          /\ d.thread = u.thread
          /\ u.phase \in AtWork \union {"resumed"}
          /\ d.event.type = "approved" => u.phase = "resumed"
          /\ u.phase = "resumed" => d.event.type \in {"approved", "turn.cancelled"}

DraftOk(w) ==
    draft[w] # Nil => DraftIs(w, draft[w], streams[draft[w].thread], turn[w])

Marks(s, e) == Cardinality({i \in DOMAIN s : s[i] = e})

\* A turn in state u has decided the approvals it asked for, n of them, all of which
\* were shown, and waits for the last one at most.
TurnIs(k, u, n, prompts) ==
    /\ u.phase = "none" <=> u.thread = Nil
    /\ u.thread # Nil =>
          /\ \A i \in 1 .. n : [turn |-> k, approval |-> i] \in prompts
          /\ u.phase \in AtWork => n = u.asked
          /\ u.phase \in {"suspended", "resumed"} => n + 1 = u.asked
          /\ u.phase = "resumed" => [turn |-> k, approval |-> u.asked] \in prompts

TurnOk(k) ==
    TurnIs(k, turn[k], Marks(streams[turn[k].thread], Event("approved", k)), shown)

\* What the console decides, or is about to, it was prompted for.
PromptOk ==
    /\ app.pending # Nil => app.pending \in shown
    /\ call.op = "decide" => [turn |-> call.turn, approval |-> call.approval] \in shown

DeskInv ==
    /\ DeskShape /\ PostsOfTurns /\ PromptOk
    /\ \A w \in Writers : DraftOk(w)
    /\ \A k \in Turns : TurnOk(k)

LEMMA DeskIs ==
    ASSUME DeskInv
    PROVE  /\ turn \in [Turns -> TurnsOf] /\ draft \in [Writers -> Drafts \union {Nil}]
           /\ app.thread \in Threads \union {Nil} /\ app.pending \in Prompts \union {Nil}
           /\ call \in Calls /\ shown \subseteq Prompts /\ granted \subseteq shown
           /\ PostsOfTurns /\ PromptOk
           /\ scene.turns \subseteq Turns /\ scene.threads \subseteq Threads
           /\ \A k \in Turns : k \in Writers /\ k # Renamer /\ k # Nil /\ TurnOk(k)
           /\ Renamer \in Writers /\ Writers = Turns \union {Renamer} /\ Nil \notin Writers
           /\ \A w \in Writers : DraftOk(w)
BY ConsoleAssumption DEF DeskInv, DeskShape

\* One event more at the end of a stream.
LEMMA MarksMore ==
    ASSUME NEW s \in Seq(Posts), NEW x \in Posts, NEW e
    PROVE  /\ Marks(s, e) \in Nat
           /\ Marks(Append(s, x), e) = Marks(s, e) + IF x = e THEN 1 ELSE 0
<1>1. /\ Len(s) \in Nat /\ DOMAIN s = 1 .. Len(s) /\ DOMAIN Append(s, x) = 1 .. Len(s) + 1
      /\ Append(s, x)[Len(s) + 1] = x /\ \A i \in DOMAIN s : Append(s, x)[i] = s[i]
  OBVIOUS
<1>2. PICK A, B : A = {i \in DOMAIN s : s[i] = e}
                  /\ B = {i \in DOMAIN Append(s, x) : Append(s, x)[i] = e}
  OBVIOUS
<1>3. IsFiniteSet(A) /\ Cardinality(A) \in Nat
  <2>1. IsFiniteSet(1 .. Len(s))
    BY <1>1, FS_Interval
  <2>2. A \subseteq 1 .. Len(s)
    BY <1>1, <1>2
  <2>3. QED  BY <2>1, <2>2, FS_Subset, FS_CardinalityType
<1>4. Len(s) + 1 \notin A
  BY <1>1, <1>2
<1>5. B = IF x = e THEN A \union {Len(s) + 1} ELSE A
  <2>1. \A i \in 1 .. Len(s) + 1 : i \in DOMAIN s \/ i = Len(s) + 1
    BY <1>1
  <2>2. \A i \in DOMAIN s : i \in 1 .. Len(s) + 1 /\ i # Len(s) + 1
    BY <1>1
  <2>3. Len(s) + 1 \in 1 .. Len(s) + 1
    BY <1>1
  <2>4. QED  BY <1>1, <1>2, <2>1, <2>2, <2>3
<1>6. Cardinality(B) = Cardinality(A) + IF x = e THEN 1 ELSE 0
  <2>1. Cardinality(A \union {Len(s) + 1}) = Cardinality(A) + 1
    BY <1>3, <1>4, FS_AddElement
  <2>2. CASE x = e
    BY <1>5, <2>1, <2>2
  <2>3. CASE x # e
    BY <1>3, <1>5, <2>3
  <2>4. QED  BY <2>2, <2>3
<1>7. QED  BY <1>2, <1>3, <1>6 DEF Marks

LEMMA MarksNone ==
    ASSUME NEW s, NEW e, \A i \in DOMAIN s : s[i] # e PROVE Marks(s, e) = 0
<1>1. {i \in DOMAIN s : s[i] = e} = {}
  OBVIOUS
<1>2. QED  BY <1>1, FS_EmptySet DEF Marks

\* The streams stay: the turns, the drafts and the prompts tell the rest.
LEMMA DeskMoves ==
    ASSUME DeskInv, UNCHANGED streams, DeskShape', PromptOk',
           \A k \in Turns : turn'[k].thread = turn[k].thread \/ turn[k].thread = Nil,
           \A w \in Writers : draft'[w] # Nil =>
              DraftIs(w, draft'[w], streams[draft'[w].thread], turn'[w]),
           \A k \in Turns :
              TurnIs(k, turn'[k], Marks(streams[turn'[k].thread], Event("approved", k)), shown')
    PROVE  DeskInv'
<1>1. PostsOfTurns'
  <2>1. Nil \notin Threads
    BY StreamAssumption
  <2>2. QED  BY <2>1 DEF DeskInv, PostsOfTurns
<1>2. ASSUME NEW w \in Writers PROVE DraftOk(w)'
  <2>1. streams' = streams
    OBVIOUS
  <2>2. QED  BY <2>1 DEF DraftOk, DraftIs
<1>3. ASSUME NEW k \in Turns PROVE TurnOk(k)'
  <2>1. streams' = streams
    OBVIOUS
  <2>2. QED  BY <2>1 DEF TurnOk, TurnIs, Event, Marks
<1>4. QED  BY <1>1, <1>2, <1>3 DEF DeskInv

\* More prompts, and other states of the same approvals.
LEMMA TurnGoes ==
    ASSUME NEW k, NEW u, NEW n, NEW prompts, NEW more, TurnIs(k, u, n, prompts),
           prompts \subseteq more
    PROVE  TurnIs(k, u, n, more)
BY DEF TurnIs

\* Turns, drafts and streams stay, and nothing unshown is decided.
LEMMA DeskRests ==
    ASSUME DeskInv, UNCHANGED <<streams, turn, draft, scene>>, shown \subseteq shown',
           shown' \subseteq Prompts, granted' \subseteq shown',
           app'.thread \in Threads \union {Nil}, app'.pending \in Prompts \union {Nil},
           call' \in Calls, PromptOk'
    PROVE  DeskInv'
<1>1. DeskShape'
  BY DEF DeskInv, DeskShape
<1>2. \A w \in Writers : draft'[w] # Nil =>
         DraftIs(w, draft'[w], streams[draft'[w].thread], turn'[w])
  BY DEF DeskInv, DraftOk
<1>3. \A k \in Turns :
         TurnIs(k, turn'[k], Marks(streams[turn'[k].thread], Event("approved", k)), shown')
  BY TurnGoes DEF DeskInv, TurnOk
<1>4. QED  BY <1>1, <1>2, <1>3, DeskMoves

\* The console's desk is not touched at all.
LEMMA DeskSleeps ==
    ASSUME DeskInv, UNCHANGED <<streams, turn, draft, scene, app, call, shown, granted>>
    PROVE  DeskInv'
<1>1. PromptOk'
  BY DEF DeskInv, PromptOk
<1>2. QED  BY <1>1, DeskRests, DeskIs

\* An append that is not refused goes to the end of its stream.
LEMMA StoreAppends ==
    ASSUME WireInv, DeskInv, NEW w \in Writers, Store(w)
    PROVE  /\ draft[w] # Nil /\ draft[w] \in Drafts /\ draft[w].event.turn = w
           /\ DraftIs(w, draft[w], streams[draft[w].thread], turn[w])
           /\ streams' = [streams EXCEPT ![draft[w].thread] =
                             Append(streams[draft[w].thread], draft[w].event)]
           /\ emitting' = Append(emitting, [writer |-> w, thread |-> draft[w].thread,
                                  sequence |-> Len(streams[draft[w].thread]) + 1])
           /\ draft' = [draft EXCEPT ![w] = Nil] /\ UNCHANGED <<conn, client>>
<1>1. PICK d \in Drafts : d = draft[w]
  BY DeskIs DEF Store
<1>2. d.thread \in Threads /\ d.event \in Posts /\ d.expected \in Nat
  BY DEF Drafts
<1>3. PICK s \in Seq(Posts) : s = streams[d.thread]
  BY <1>2 DEF WireInv, WireShape
<1>4. DraftIs(w, d, s, turn[w]) /\ draft[w] # Nil
  BY <1>1, <1>3, DeskIs DEF DraftOk, Store
<1>5. ~ Conflicts(s, <<d.event>>, d.expected)
  BY <1>1, <1>3 DEF Store, Refused
<1>6. /\ streams' = [streams EXCEPT ![d.thread] = Appended(s, <<d.event>>, d.expected)]
      /\ emitting' = Append(emitting, [writer |-> w, thread |-> d.thread, sequence |-> d.expected])
      /\ draft' = [draft EXCEPT ![w] = Nil] /\ UNCHANGED <<conn, client>>
  <2>1. streams' = [streams EXCEPT ![draft[w].thread] = Appended(@, <<draft[w].event>>, draft[w].expected)]
    BY DEF Store
  <2>2. streams' = [streams EXCEPT ![d.thread] = Appended(s, <<d.event>>, d.expected)]
    BY <1>1, <1>3, <2>1
  <2>3. QED  BY <1>1, <2>2 DEF Store
<1>7. d.expected = Len(s) + 1
  <2>1. SUFFICES ASSUME d.expected # Len(s) + 1 PROVE FALSE
    OBVIOUS
  <2>2. /\ d.expected \in 1 .. Len(s) + 1 /\ Len(s) \in Nat /\ d.event.turn = w
        /\ \A n \in d.expected .. Len(s) : s[n].turn # w
    BY <1>4 DEF DraftIs
  <2>3. d.expected < NextSequence(s) /\ <<d.event>> # <<>>
    BY <1>2, <2>1, <2>2 DEF NextSequence
  <2>4. IsReplay(s, <<d.event>>, d.expected)
    BY <1>5, <2>3 DEF Conflicts
  <2>5. 1 \in DOMAIN <<d.event>> /\ <<d.event>>[1] = d.event
    OBVIOUS
  <2>6. s[d.expected + 1 - 1] = d.event
    BY <2>4, <2>5 DEF IsReplay
  <2>7. s[d.expected] = d.event /\ d.expected \in d.expected .. Len(s)
    BY <1>2, <2>1, <2>2, <2>6
  <2>8. QED  BY <2>2, <2>7
<1>8. Appended(s, <<d.event>>, d.expected) = Append(s, d.event)
  <2>1. s \o <<d.event>> = Append(s, d.event)
    BY <1>2
  <2>2. QED  BY <1>7, <2>1 DEF Appended, NextSequence
<1>9. d.event.turn = w
  BY <1>4 DEF DraftIs
<1>10. QED  BY <1>1, <1>3, <1>4, <1>6, <1>7, <1>8, <1>9

LEMMA WireStores == ASSUME WireInv, DeskInv, NEW w \in Writers, Store(w) PROVE WireInv'
<1>1. PICK t \in Threads, e \in Posts : t = draft[w].thread /\ e = draft[w].event
  BY StoreAppends DEF Drafts
<1>2. /\ streams' = [streams EXCEPT ![t] = Append(streams[t], e)]
      /\ emitting' = Append(emitting, [writer |-> w, thread |-> t, sequence |-> Len(streams[t]) + 1])
      /\ UNCHANGED <<conn, client>>
  BY <1>1, StoreAppends
<1>3. QED  BY <1>2, WireStored

\* An event is stored: the drafts of the others stay behind it, and its turn goes on.
LEMMA DeskStores ==
    ASSUME WireInv, DeskInv, NEW t \in Threads, NEW e \in Posts,
           streams' = [streams EXCEPT ![t] = Append(streams[t], e)],
           DeskShape', UNCHANGED <<app, call, shown>>,
           \A w \in Writers : draft'[w] # Nil =>
              /\ draft'[w] = draft[w] /\ (w # e.turn \/ draft[w].thread # t)
              /\ w \in Turns => turn'[w] = turn[w],
           \A k \in Turns : /\ turn'[k].thread = turn[k].thread
                            /\ k # e.turn => turn'[k] = turn[k],
           e.turn \in Turns =>
              /\ turn[e.turn].thread = t
              /\ \A n \in Nat : TurnIs(e.turn, turn[e.turn], n, shown) =>
                    TurnIs(e.turn, turn'[e.turn], n + IF e.type = "approved" THEN 1 ELSE 0, shown)
    PROVE  DeskInv'
<1>1. /\ streams \in [Threads -> Seq(Posts)] /\ streams'[t] = Append(streams[t], e)
      /\ \A s \in Threads : s # t => streams'[s] = streams[s]
      /\ Nil \notin Threads /\ turn' \in [Turns -> TurnsOf]
  BY StreamAssumption DEF WireInv, WireShape, DeskShape
<1>2. PICK s \in Seq(Posts) : s = streams[t]
  BY <1>1
<1>3. /\ Len(s) \in Nat /\ DOMAIN s = 1 .. Len(s) /\ DOMAIN Append(s, e) = 1 .. Len(s) + 1
      /\ Len(Append(s, e)) = Len(s) + 1 /\ Append(s, e)[Len(s) + 1] = e
      /\ \A i \in DOMAIN s : Append(s, e)[i] = s[i]
      /\ \A i \in 1 .. Len(s) + 1 : i \in DOMAIN s \/ i = Len(s) + 1
  OBVIOUS
<1>4. PostsOfTurns'
  <2>1. ASSUME NEW r \in Threads, NEW i \in DOMAIN streams'[r], streams'[r][i].turn \in Turns
        PROVE  turn'[streams'[r][i].turn].thread = r
    <3>1. CASE r # t
      BY <1>1, <2>1, <3>1, DeskIs DEF PostsOfTurns
    <3>2. CASE r = t /\ i \in DOMAIN s
      <4>1. streams'[r][i] = s[i]
        BY <1>1, <1>2, <1>3, <3>2
      <4>2. QED  BY <1>2, <2>1, <3>2, <4>1, DeskIs DEF PostsOfTurns
    <3>3. CASE r = t /\ i = Len(s) + 1
      BY <1>1, <1>2, <1>3, <2>1, <3>3
    <3>4. QED  BY <1>1, <1>2, <1>3, <2>1, <3>1, <3>2, <3>3
  <2>2. QED  BY <2>1 DEF PostsOfTurns
<1>5. ASSUME NEW w \in Writers PROVE DraftOk(w)'
  <2>1. SUFFICES ASSUME draft'[w] # Nil PROVE DraftOk(w)'
    BY DEF DraftOk
  <2>2. PICK d \in Drafts : d = draft[w]
    BY <2>1, DeskIs
  <2>3. /\ draft'[w] = d /\ (w # e.turn \/ d.thread # t) /\ (w \in Turns => turn'[w] = turn[w])
        /\ DraftIs(w, d, streams[d.thread], turn[w]) /\ d.thread \in Threads
    BY <2>1, <2>2, DeskIs DEF DraftOk, Drafts
  <2>4. DraftIs(w, d, streams'[d.thread], turn'[w])
    <3>1. CASE d.thread # t
      BY <1>1, <2>3, <3>1 DEF DraftIs
    <3>2. CASE d.thread = t /\ w # e.turn
      <4>1. streams[d.thread] = s /\ streams'[d.thread] = Append(s, e)
        BY <1>1, <1>2, <3>2
      <4>2. d.expected \in 1 .. Len(s) + 1 /\ \A n \in d.expected .. Len(s) : s[n].turn # w
        BY <2>3, <4>1 DEF DraftIs
      <4>3. d.expected \in 1 .. Len(Append(s, e)) + 1 /\ Append(s, e) # <<>>
        BY <1>3, <4>2
      <4>4. ASSUME NEW n \in d.expected .. Len(Append(s, e)) PROVE Append(s, e)[n].turn # w
        <5>1. CASE n = Len(s) + 1
          BY <1>3, <3>2, <5>1
        <5>2. CASE n # Len(s) + 1
          <6>1. n \in d.expected .. Len(s) /\ n \in DOMAIN s
            BY <1>3, <4>2, <5>2
          <6>2. QED  BY <1>3, <4>2, <6>1
        <5>3. QED  BY <5>1, <5>2
      <4>5. QED  BY <2>3, <4>1, <4>3, <4>4 DEF DraftIs
    <3>3. QED  BY <2>3, <3>1, <3>2
  <2>5. QED  BY <2>3, <2>4 DEF DraftOk, DraftIs
<1>6. ASSUME NEW k \in Turns PROVE TurnOk(k)'
  <2>1. /\ turn'[k].thread = turn[k].thread /\ turn[k] \in TurnsOf /\ shown' = shown
        /\ TurnIs(k, turn[k], Marks(streams[turn[k].thread], Event("approved", k)), shown)
    BY DeskIs DEF TurnOk
  <2>2. CASE k # e.turn
    <3>1. turn'[k] = turn[k] /\ Event("approved", k) # e
      BY <2>2 DEF Event
    <3>2. CASE turn[k].thread = t
      <4>1. Marks(streams'[t], Event("approved", k)) = Marks(s, Event("approved", k))
        BY <1>1, <1>2, <3>1, MarksMore
      <4>2. QED  BY <1>2, <2>1, <3>1, <3>2, <4>1 DEF TurnOk
    <3>3. CASE turn[k].thread # t /\ turn[k].thread # Nil
      <4>1. turn[k].thread \in Threads
        BY <2>1, <3>3 DEF TurnsOf
      <4>2. QED  BY <1>1, <2>1, <3>1, <3>3, <4>1 DEF TurnOk
    <3>4. CASE turn[k].thread = Nil
      BY <2>1, <3>1, <3>4 DEF TurnOk, TurnIs
    <3>5. QED  BY <3>2, <3>3, <3>4
  <2>3. CASE k = e.turn
    <3>1. turn[k].thread = t /\ streams[turn[k].thread] = s
      BY <1>2, <2>3
    <3>2. Event("approved", k) = e <=> e.type = "approved"
      BY <2>3 DEF Event, Posts
    <3>3. /\ Marks(s, Event("approved", k)) \in Nat
          /\ Marks(streams'[t], Event("approved", k)) =
                Marks(s, Event("approved", k)) + IF e.type = "approved" THEN 1 ELSE 0
      BY <1>1, <1>2, <3>2, MarksMore
    <3>4. TurnIs(k, turn'[k], Marks(s, Event("approved", k)) + (IF e.type = "approved" THEN 1 ELSE 0), shown)
      BY <2>1, <2>3, <3>1, <3>3
    <3>5. QED  BY <2>1, <3>1, <3>3, <3>4 DEF TurnOk
  <2>4. QED  BY <2>2, <2>3
<1>7. PromptOk'
  BY DeskIs DEF PromptOk
<1>8. QED  BY <1>4, <1>5, <1>6, <1>7 DEF DeskInv

-----------------------------------------------------------------------------
(* Console: steps of the turns *)

\* What a turn may append, and in which phase.
LEMMA AppendableIs ==
    ASSUME NEW k \in Turns, NEW type, turn[k] \in TurnsOf,
           type \in Appendable(k) \cup
              (IF turn[k].cancelled /\ Appendable(k) # {} THEN {"turn.cancelled"} ELSE {})
    PROVE  /\ type \in PostTypes /\ turn[k].phase \in AtWork \union {"resumed"}
           /\ type = "approved" => turn[k].phase = "resumed"
           /\ turn[k].phase = "resumed" => type \in {"approved", "turn.cancelled"}
<1>1. turn[k].phase \in TurnPhases
  BY DEF TurnsOf
<1>2. CASE turn[k].phase \in {"none", "suspended", "over", "thrown"}
  <2>1. Appendable(k) = {}
    BY <1>2 DEF Appendable
  <2>2. QED  BY <2>1
<1>3. CASE turn[k].phase \in AtWork
  <2>1. Appendable(k) \subseteq {"turn.started", "item.started", "turn.failed", "item.failed",
                                 "item.completed", "item.delta", "turn.completed", "approval"}
    BY <1>3 DEF Appendable, AtWork
  <2>2. QED  BY <1>3, <2>1 DEF PostTypes, AtWork
<1>4. CASE turn[k].phase = "resumed"
  <2>1. Appendable(k) = {"approved"}
    BY <1>4 DEF Appendable
  <2>2. QED  BY <1>4, <2>1 DEF PostTypes
<1>5. QED  BY <1>1, <1>2, <1>3, <1>4 DEF TurnPhases, AtWork

\* A writer has read the tail: what it is going to append is new.
LEMMA DeskReads ==
    ASSUME WireInv, DeskInv, NEW w \in Writers, NEW t \in Threads, NEW e \in Posts,
           ReadTail(w, t, e), e.turn = w, w = Renamer => streams[t] # <<>>,
           w \in Turns =>
              /\ turn[w].thread = t /\ turn[w].phase \in AtWork \union {"resumed"}
              /\ e.type = "approved" => turn[w].phase = "resumed"
              /\ turn[w].phase = "resumed" => e.type \in {"approved", "turn.cancelled"},
           UNCHANGED <<turn, app, call, shown, granted, scene>>
    PROVE  DeskInv'
<1>1. PICK s \in Seq(Posts) : s = streams[t]
  BY DEF WireInv, WireShape
<1>2. PICK d : d = [thread |-> t, event |-> e, expected |-> Len(s) + 1]
  OBVIOUS
<1>3. /\ draft' = [draft EXCEPT ![w] = d] /\ streams' = streams
      /\ d \in Drafts /\ d.thread = t /\ d.event = e /\ d.expected = Len(s) + 1
      /\ Len(s) \in Nat
  BY <1>1, <1>2 DEF ReadTail, NextSequence, Drafts
<1>4. DraftIs(w, d, s, turn[w])
  <2>1. /\ d.expected \in 1 .. Len(s) + 1
        /\ \A n \in d.expected .. Len(s) : s[n].turn # w
    BY <1>3
  <2>2. QED  BY <1>1, <1>3, <2>1 DEF DraftIs
<1>5. /\ draft' \in [Writers -> Drafts \union {Nil}] /\ draft'[w] = d
      /\ \A v \in Writers : v # w => draft'[v] = draft[v]
  BY <1>3, DeskIs
<1>6. DeskShape'
  BY <1>5 DEF DeskInv, DeskShape
<1>7. PromptOk'
  BY DeskIs DEF PromptOk
<1>8. \A v \in Writers : draft'[v] # Nil =>
         DraftIs(v, draft'[v], streams[draft'[v].thread], turn'[v])
  BY <1>1, <1>3, <1>4, <1>5, DeskIs DEF DraftOk
<1>9. \A k \in Turns :
         TurnIs(k, turn'[k], Marks(streams[turn'[k].thread], Event("approved", k)), shown')
  BY DeskIs DEF TurnOk
<1>10. QED  BY <1>3, <1>6, <1>7, <1>8, <1>9, DeskMoves

LEMMA ReadsKeep == ASSUME WireInv, DeskInv, NEW k \in Turns, TurnReads(k) PROVE DeskInv'
<1>1. PICK type \in Appendable(k) \cup
              (IF turn[k].cancelled /\ Appendable(k) # {} THEN {"turn.cancelled"} ELSE {}) :
         ReadTail(k, turn[k].thread, Event(type, k))
  BY DEF TurnReads
<1>2. UNCHANGED <<turn, app, call, shown, granted, scene>>
  BY DEF TurnReads, appVars, quiet
<1>3. /\ turn[k] \in TurnsOf /\ TurnOk(k) /\ k \in Writers /\ k # Renamer
  BY DeskIs
<1>4. /\ type \in PostTypes /\ turn[k].phase \in AtWork \union {"resumed"}
      /\ type = "approved" => turn[k].phase = "resumed"
      /\ turn[k].phase = "resumed" => type \in {"approved", "turn.cancelled"}
  BY <1>1, <1>3, AppendableIs
<1>5. turn[k].thread \in Threads
  BY <1>3, <1>4 DEF TurnOk, TurnIs, TurnsOf, AtWork
<1>6. /\ Event(type, k) \in Posts /\ Event(type, k).turn = k /\ Event(type, k).type = type
  BY <1>3, <1>4 DEF Event, Posts
<1>7. QED  BY <1>1, <1>2, <1>3, <1>4, <1>5, <1>6, DeskReads

LEMMA RenameKeeps == ASSUME WireInv, DeskInv, NEW t \in Threads, Rename(t) PROVE DeskInv'
<1>1. /\ ReadTail(Renamer, t, Event("thread.renamed", Renamer)) /\ streams[t] # <<>>
      /\ UNCHANGED <<turn, app, call, shown, granted, scene>>
  BY DEF Rename, Listed
<1>2. /\ Event("thread.renamed", Renamer) \in Posts
      /\ Event("thread.renamed", Renamer).turn = Renamer
  BY DeskIs DEF Event, Posts, PostTypes
<1>3. Renamer \notin Turns /\ Renamer \in Writers
  BY ConsoleAssumption
<1>4. QED  BY <1>1, <1>2, <1>3, DeskReads

\* The state u of turn k once it has stored an event.
Moved(k, u, type) ==
    [u EXCEPT !.phase = NextPhase(k, type),
              !.asked = IF type = "approval" THEN u.asked + 1 ELSE u.asked]

\* The phase a turn goes to with an event that is stored.
LEMMA PhaseIs ==
    ASSUME NEW k \in Turns, NEW u \in TurnsOf, NEW type \in PostTypes, NEW n \in Nat,
           NEW prompts, TurnIs(k, u, n, prompts), u.thread # Nil,
           u.phase \in AtWork \union {"resumed"},
           type = "approved" => u.phase = "resumed",
           u.phase = "resumed" => type \in {"approved", "turn.cancelled"},
           NEW v, v = Moved(k, u, type)
    PROVE  /\ v \in TurnsOf /\ v.thread = u.thread
           /\ TurnIs(k, v, n + IF type = "approved" THEN 1 ELSE 0, prompts)
<1>1. NextPhase(k, type) \in TurnPhases \ {"none", "begun", "resumed"}
  BY DEF NextPhase, TurnPhases, PostTypes
<1>2. /\ NextPhase(k, type) = "suspended" => type = "approval"
      /\ type = "approval" => NextPhase(k, type) = "suspended"
      /\ type = "turn.cancelled" => NextPhase(k, type) = "over"
  BY DEF NextPhase, PostTypes
<1>4. u.asked \in Nat
  BY DEF TurnsOf
<1>3. /\ v \in TurnsOf /\ v.thread = u.thread /\ v.phase = NextPhase(k, type)
      /\ v.asked = IF type = "approval" THEN u.asked + 1 ELSE u.asked
  <2>1. PICK phase \in TurnPhases, asked \in Nat :
           phase = NextPhase(k, type) /\ asked = IF type = "approval" THEN u.asked + 1 ELSE u.asked
    BY <1>1, <1>4
  <2>2. v = [u EXCEPT !.phase = phase, !.asked = asked]
    BY <2>1 DEF Moved
  <2>3. v \in TurnsOf /\ v.thread = u.thread /\ v.phase = phase /\ v.asked = asked
    BY <2>2 DEF TurnsOf
  <2>4. QED  BY <2>1, <2>3
<1>5. CASE type = "approved"
  <2>1. /\ n + 1 = u.asked /\ \A i \in 1 .. n : [turn |-> k, approval |-> i] \in prompts
        /\ [turn |-> k, approval |-> u.asked] \in prompts /\ v.phase = "acting" /\ v.asked = u.asked
    BY <1>3, <1>5 DEF TurnIs, NextPhase
  <2>2. \A i \in 1 .. n + 1 : i \in 1 .. n \/ i = u.asked
    BY <2>1
  <2>3. \A i \in 1 .. n + 1 : [turn |-> k, approval |-> i] \in prompts
    BY <2>1, <2>2
  <2>4. QED  BY <1>3, <1>5, <2>1, <2>3 DEF TurnIs
<1>6. CASE type # "approved"
  <2>1. /\ \A i \in 1 .. n : [turn |-> k, approval |-> i] \in prompts
        /\ u.phase \in AtWork => n = u.asked
    BY DEF TurnIs
  <2>2. type # "turn.cancelled" => u.phase \in AtWork
    BY <1>6
  <2>3. v.phase \in AtWork => n = v.asked
    BY <1>2, <1>3, <2>1, <2>2 DEF AtWork
  <2>4. v.phase \in {"suspended", "resumed"} => n + 1 = v.asked
    BY <1>1, <1>2, <1>3, <2>1, <2>2
  <2>5. v.phase # "resumed" /\ v.phase # "none"
    BY <1>1, <1>3
  <2>6. n + (IF type = "approved" THEN 1 ELSE 0) = n
    BY <1>6
  <2>7. QED  BY <1>3, <2>1, <2>3, <2>4, <2>5, <2>6 DEF TurnIs
<1>7. QED  BY <1>3, <1>5, <1>6

LEMMA StoresKeep == ASSUME WireInv, DeskInv, NEW k \in Turns, TurnStores(k) PROVE DeskInv'
<1>1. k \in Writers /\ k # Renamer /\ k # Nil /\ turn[k] \in TurnsOf
  BY DeskIs
<1>2. PICK d \in Drafts : d = draft[k]
  BY <1>1, StoreAppends DEF TurnStores
<1>3. PICK t \in Threads, e \in Posts : t = d.thread /\ e = d.event
  BY DEF Drafts
<1>4. PICK u \in TurnsOf : u = turn[k]
  BY <1>1
<1>5. /\ streams' = [streams EXCEPT ![t] = Append(streams[t], e)]
      /\ draft' = [draft EXCEPT ![k] = Nil] /\ e.turn = k /\ t = u.thread
      /\ u.phase \in AtWork \union {"resumed"}
      /\ e.type = "approved" => u.phase = "resumed"
      /\ u.phase = "resumed" => e.type \in {"approved", "turn.cancelled"}
  BY <1>1, <1>2, <1>3, <1>4, StoreAppends DEF TurnStores, DraftIs
<1>6. PICK v : v = Moved(k, u, e.type)
  OBVIOUS
<1>7. /\ turn' = [turn EXCEPT ![k] = v] /\ UNCHANGED <<app, call, shown, granted, scene>>
  <2>1. turn' = [turn EXCEPT ![k].phase = NextPhase(k, e.type),
                             ![k].asked = IF e.type = "approval" THEN @ + 1 ELSE @]
    BY <1>2, <1>3 DEF TurnStores
  <2>2. QED  BY <1>1, <1>4, <1>6, <2>1, DeskIs DEF TurnStores, quiet, Moved
<1>8. t # Nil /\ e.type \in PostTypes
  BY StreamAssumption DEF Posts
<1>9. /\ v \in TurnsOf /\ v.thread = u.thread
      /\ \A n \in Nat : TurnIs(k, u, n, shown) =>
            TurnIs(k, v, n + IF e.type = "approved" THEN 1 ELSE 0, shown)
  <2>1. PICK type \in PostTypes : type = e.type
    BY <1>8
  <2>2. ASSUME NEW n \in Nat, TurnIs(k, u, n, shown)
        PROVE  /\ v \in TurnsOf /\ v.thread = u.thread
               /\ TurnIs(k, v, n + IF type = "approved" THEN 1 ELSE 0, shown)
    <3>1. v = Moved(k, u, type)
      BY <1>6, <2>1
    <3>2. /\ u.phase \in AtWork \union {"resumed"} /\ u.thread # Nil
          /\ type = "approved" => u.phase = "resumed"
          /\ u.phase = "resumed" => type \in {"approved", "turn.cancelled"}
      BY <1>5, <1>8, <2>1
    <3>3. QED  BY <2>2, <3>1, <3>2, PhaseIs
  <2>3. \E n \in Nat : TurnIs(k, u, n, shown)
    <3>1. PICK s \in Seq(Posts) : s = streams[t]
      BY DEF WireInv, WireShape
    <3>2. Marks(s, Event("approved", k)) \in Nat
      BY <3>1, MarksMore
    <3>3. QED  BY <1>4, <1>5, <3>1, <3>2, DeskIs DEF TurnOk
  <2>4. QED  BY <2>1, <2>2, <2>3
<1>10. /\ turn' \in [Turns -> TurnsOf] /\ turn'[k] = v
       /\ \A j \in Turns : j # k => turn'[j] = turn[j]
       /\ draft' \in [Writers -> Drafts \union {Nil}] /\ draft'[k] = Nil
       /\ \A w \in Writers : w # k => draft'[w] = draft[w]
  BY <1>1, <1>5, <1>7, <1>9, DeskIs
<1>11. DeskShape'
  BY <1>7, <1>10 DEF DeskInv, DeskShape
<1>12. \A w \in Writers : draft'[w] # Nil =>
          /\ draft'[w] = draft[w] /\ (w # e.turn \/ draft[w].thread # t)
          /\ w \in Turns => turn'[w] = turn[w]
  BY <1>5, <1>10
<1>13. \A j \in Turns : turn'[j].thread = turn[j].thread /\ (j # e.turn => turn'[j] = turn[j])
  BY <1>4, <1>5, <1>9, <1>10
<1>14. UNCHANGED <<app, call, shown>>
  BY <1>7
<1>15. e.turn \in Turns =>
          /\ turn[e.turn].thread = t
          /\ \A n \in Nat : TurnIs(e.turn, turn[e.turn], n, shown) =>
                TurnIs(e.turn, turn'[e.turn], n + IF e.type = "approved" THEN 1 ELSE 0, shown)
  BY <1>4, <1>5, <1>9, <1>10
<1>16. streams' = [streams EXCEPT ![t] = Append(streams[t], e)]
  BY <1>5
<1>17. QED  BY <1>11, <1>12, <1>13, <1>14, <1>15, <1>16, DeskStores

\* A new title, stored; and the first event of a thread.
LEMMA RenamedKeeps == ASSUME WireInv, DeskInv, Store(Renamer), UNCHANGED appVars PROVE DeskInv'
<1>1. Renamer \in Writers /\ Renamer \notin Turns
  BY ConsoleAssumption
<1>2. PICK t \in Threads, e \in Posts : t = draft[Renamer].thread /\ e = draft[Renamer].event
  BY <1>1, StoreAppends DEF Drafts
<1>3. /\ streams' = [streams EXCEPT ![t] = Append(streams[t], e)]
      /\ draft' = [draft EXCEPT ![Renamer] = Nil] /\ e.turn = Renamer
      /\ UNCHANGED <<turn, app, call, shown, granted, scene>>
  BY <1>1, <1>2, StoreAppends DEF appVars, quiet
<1>4. /\ draft' \in [Writers -> Drafts \union {Nil}] /\ draft'[Renamer] = Nil
      /\ \A w \in Writers : w # Renamer => draft'[w] = draft[w]
  BY <1>1, <1>3, DeskIs
<1>5. DeskShape'
  BY <1>3, <1>4 DEF DeskInv, DeskShape
<1>6. \A w \in Writers : draft'[w] # Nil =>
         /\ draft'[w] = draft[w] /\ (w # e.turn \/ draft[w].thread # t)
         /\ w \in Turns => turn'[w] = turn[w]
  BY <1>3, <1>4
<1>7. QED  BY <1>1, <1>3, <1>5, <1>6, DeskStores

LEMMA CreateKeeps == ASSUME WireInv, DeskInv, Create PROVE WireInv' /\ DeskInv'
<1>1. Renamer \in Writers /\ Renamer \notin Turns
  BY ConsoleAssumption
<1>2. PICK t : t = call.thread
  OBVIOUS
<1>n. "start" # "none" /\ call.op = "start"
  BY DEF Create
<1>3. t \in Threads
  BY <1>2, <1>n, DeskIs DEF Calls, NoCall
<1>4. PICK e : e = Event("thread.created", Renamer)
  OBVIOUS
<1>5. e \in Posts /\ e.turn = Renamer
  BY <1>1, <1>4 DEF Event, Posts, PostTypes
<1>6. /\ streams[t] = <<>> /\ streams' = [streams EXCEPT ![t] = <<e>>]
      /\ emitting' = Append(emitting, [writer |-> Renamer, thread |-> t, sequence |-> 1])
      /\ UNCHANGED <<draft, conn, client, turn, app, call, shown, granted, scene>>
  BY <1>2, <1>4 DEF Create, Listed, appVars, quiet
<1>7. /\ streams' = [streams EXCEPT ![t] = Append(streams[t], e)]
      /\ emitting' = Append(emitting, [writer |-> Renamer, thread |-> t,
                                       sequence |-> Len(streams[t]) + 1])
  <2>1. Append(<<>>, e) = <<e>> /\ Len(<<>>) + 1 = 1
    OBVIOUS
  <2>2. QED  BY <1>6, <2>1
<1>8. WireInv'
  BY <1>1, <1>3, <1>5, <1>6, <1>7, WireStored
<1>9. DeskShape'
  BY <1>6 DEF DeskInv, DeskShape
<1>10. \A w \in Writers : draft'[w] # Nil =>
          /\ draft'[w] = draft[w] /\ (w # e.turn \/ draft[w].thread # t)
          /\ w \in Turns => turn'[w] = turn[w]
  <2>1. draft[Renamer] # Nil => streams[draft[Renamer].thread] # <<>>
    BY <1>1, DeskIs DEF DraftOk, DraftIs
  <2>2. QED  BY <1>5, <1>6, <2>1
<1>11. DeskInv'
  BY <1>1, <1>3, <1>5, <1>6, <1>7, <1>9, <1>10, DeskStores
<1>12. QED  BY <1>8, <1>11

\* What is left of a turn that has thrown, or whose host has died.
LEMMA AbandonedIs ==
    ASSUME NEW k \in Turns, NEW u \in TurnsOf, u = turn[k], NEW n, NEW prompts,
           TurnIs(k, u, n, prompts), u.phase \in AtWork \union {"resumed"}, NEW v,
           v = [u EXCEPT !.phase = Abandoned(k)]
    PROVE  v \in TurnsOf /\ v.thread = u.thread /\ TurnIs(k, v, n, prompts)
<1>1. PICK phase \in {"suspended", "thrown"} :
         /\ phase = Abandoned(k)
         /\ phase = "suspended" <=> u.phase = "resumed"
  BY DEF Abandoned
<1>2. v = [u EXCEPT !.phase = phase]
  BY <1>1
<1>3. /\ v \in TurnsOf /\ v.thread = u.thread /\ v.phase = phase /\ v.asked = u.asked
  BY <1>2 DEF TurnsOf, TurnPhases
<1>4. TurnIs(k, v, n, prompts)
  BY <1>1, <1>3 DEF TurnIs, AtWork
<1>5. QED  BY <1>3, <1>4

\* Streams and shown approvals stay, turns change each on its own, drafts end.
LEMMA DeskTurns ==
    ASSUME DeskInv, UNCHANGED <<streams, scene>>, DeskShape', PromptOk',
           shown \subseteq shown',
           \A w \in Writers : draft'[w] = draft[w] \/ draft'[w] = Nil,
           \A k \in Turns :
              /\ turn'[k].thread = turn[k].thread
              /\ draft'[k] # Nil => turn'[k].phase = turn[k].phase
              /\ \A n : TurnIs(k, turn[k], n, shown) => TurnIs(k, turn'[k], n, shown')
    PROVE  DeskInv'
<1>1. \A w \in Writers : draft'[w] # Nil =>
         DraftIs(w, draft'[w], streams[draft'[w].thread], turn'[w])
  <2>1. ASSUME NEW w \in Writers, draft'[w] # Nil
        PROVE  DraftIs(w, draft'[w], streams[draft'[w].thread], turn'[w])
    <3>1. draft'[w] = draft[w] /\ DraftIs(w, draft[w], streams[draft[w].thread], turn[w])
      BY <2>1, DeskIs DEF DraftOk
    <3>2. QED  BY <2>1, <3>1 DEF DraftIs
  <2>2. QED  BY <2>1
<1>2. \A k \in Turns :
         TurnIs(k, turn'[k], Marks(streams[turn'[k].thread], Event("approved", k)), shown')
  BY DeskIs DEF TurnOk
<1>3. QED  BY <1>1, <1>2, DeskMoves

\* A turn whose attempt was refused goes on to fail.
LEMMA FailingIs ==
    ASSUME NEW k \in Turns, NEW u \in TurnsOf, NEW n, NEW prompts,
           TurnIs(k, u, n, prompts), u.phase \in AtWork, NEW v,
           v = [u EXCEPT !.phase = "failing"]
    PROVE  v \in TurnsOf /\ v.thread = u.thread /\ TurnIs(k, v, n, prompts)
<1>1. v.thread = u.thread /\ v.phase = "failing" /\ v.asked = u.asked /\ v \in TurnsOf
  BY DEF TurnsOf, TurnPhases
<1>2. TurnIs(k, v, n, prompts)
  BY <1>1 DEF TurnIs, AtWork
<1>3. QED  BY <1>1, <1>2

LEMMA ThrowsKeep == ASSUME WireInv, DeskInv, NEW k \in Turns, TurnThrows(k) PROVE DeskInv'
<1>1. k \in Writers /\ turn[k] \in TurnsOf /\ TurnOk(k) /\ DraftOk(k)
  BY DeskIs
<1>2. /\ draft[k] # Nil /\ draft' = [draft EXCEPT ![k] = Nil]
      /\ UNCHANGED <<streams, app, shown, granted, scene>>
      /\ call' \in {NoCall, call}
  BY DEF TurnThrows, Refuse, Refused, quiet
<1>3. /\ turn[k].phase \in AtWork \union {"resumed"}
      /\ turn[k].phase = "resumed" => draft[k].event.type \in {"approved", "turn.cancelled"}
  BY <1>1, <1>2 DEF DraftOk, DraftIs
<1>4. PICK v :
         /\ turn' = [turn EXCEPT ![k] = v]
         /\ \/ v = [turn[k] EXCEPT !.phase = Abandoned(k)]
            \/ v = [turn[k] EXCEPT !.phase = "failing"] /\ turn[k].phase \in AtWork
  <2>1. CASE /\ draft[k].event.type \in {"item.started", "item.delta", "item.failed"}
             /\ turn' = [turn EXCEPT ![k].phase = "failing"]
    <3>1. turn[k].phase # "resumed"
      BY <1>3, <2>1
    <3>2. turn[k].phase \in AtWork
      BY <1>3, <3>1
    <3>3. QED  BY <2>1, <3>2
  <2>2. CASE turn' = [turn EXCEPT ![k].phase = Abandoned(k)]
    BY <2>2
  <2>3. QED  BY <2>1, <2>2 DEF TurnThrows
<1>5. /\ v \in TurnsOf /\ v.thread = turn[k].thread
      /\ \A n : TurnIs(k, turn[k], n, shown) => TurnIs(k, v, n, shown)
  <2>1. PICK n : TurnIs(k, turn[k], n, shown)
    BY <1>1 DEF TurnOk
  <2>2. QED  BY <1>1, <1>3, <1>4, <2>1, AbandonedIs, FailingIs
<1>6. /\ turn' \in [Turns -> TurnsOf] /\ turn'[k] = v
      /\ \A j \in Turns : j # k => turn'[j] = turn[j]
      /\ draft' \in [Writers -> Drafts \union {Nil}] /\ draft'[k] = Nil
      /\ \A w \in Writers : w # k => draft'[w] = draft[w]
  BY <1>1, <1>2, <1>4, <1>5, DeskIs
<1>7. call' \in Calls /\ PromptOk'
  BY <1>2, DeskIs DEF Calls, NoCall, PromptOk
<1>8. DeskShape'
  BY <1>2, <1>6, <1>7 DEF DeskInv, DeskShape
<1>9. QED  BY <1>2, <1>5, <1>6, <1>7, <1>8, DeskTurns

\* A new title that is refused.
LEMMA RefusedKeeps == ASSUME WireInv, DeskInv, Refuse(Renamer), UNCHANGED appVars PROVE DeskInv'
<1>1. Renamer \in Writers /\ Renamer \notin Turns
  BY ConsoleAssumption
<1>2. /\ draft' = [draft EXCEPT ![Renamer] = Nil]
      /\ UNCHANGED <<streams, turn, app, call, shown, granted, scene>>
  BY DEF Refuse, appVars, quiet
<1>3. /\ draft' \in [Writers -> Drafts \union {Nil}]
      /\ \A w \in Writers : draft'[w] = draft[w] \/ draft'[w] = Nil
  BY <1>1, <1>2, DeskIs
<1>4. DeskShape' /\ PromptOk'
  BY <1>2, <1>3, DeskIs DEF DeskInv, DeskShape, PromptOk
<1>5. QED  BY <1>2, <1>3, <1>4, DeskTurns

-----------------------------------------------------------------------------
(* Console: steps of the desk *)

\* The console turns to another thread, or away.
LEMMA ShowKeeps ==
    ASSUME WireInv, NEW t \in Threads \union {Nil}, ShowThread(t), UNCHANGED <<streams, emitting>>
    PROVE  WireInv'
<1>1. CASE Web \in scene.clients
  <2>1. Web \in Clients
    BY ConsoleAssumption
  <2>2. PICK seen \in Seq(Nat) : seen = <<>>
    <3>1. <<>> \in Seq(Nat)
      OBVIOUS
    <3>2. QED  BY <3>1
  <2>3. Len(seen) = 0 /\ \A i \in DOMAIN seen : seen[i] = i
    BY <2>2
  <2>4. t # Nil => Len(seen) <= Len(streams[t])
    BY <2>3 DEF WireInv, WireShape
  <2>5. Subscribe(Web, t, seen)
    BY <1>1, <2>2 DEF ShowThread
  <2>6. QED  BY <2>1, <2>3, <2>4, <2>5, SubscribeKeeps
<1>2. CASE Web \notin scene.clients
  BY <1>2, WireRests DEF ShowThread
<1>3. QED  BY <1>1, <1>2

LEMMA OpenKeeps ==
    ASSUME WireInv, DeskInv, NEW t \in Threads, Open(t) PROVE WireInv' /\ DeskInv'
<1>1. /\ app' = [app EXCEPT !.thread = t] /\ ShowThread(t)
      /\ UNCHANGED <<streams, draft, emitting, turn, call, shown, granted, scene>>
  BY DEF Open, quiet
<1>2. WireInv'
  BY <1>1, ShowKeeps
<1>3. app'.pending = app.pending /\ (app'.thread = t \/ app'.thread = app.thread)
  BY <1>1
<1>4. PromptOk'
  BY <1>1, <1>3, DeskIs DEF PromptOk
<1>5. QED  BY <1>1, <1>2, <1>3, <1>4, DeskIs, DeskRests

LEMMA LeaveKeeps == ASSUME WireInv, DeskInv, Leave PROVE WireInv' /\ DeskInv'
<1>1. /\ app' = [app EXCEPT !.thread = Nil] /\ ShowThread(Nil)
      /\ UNCHANGED <<streams, draft, emitting, turn, call, shown, granted, scene>>
  BY DEF Leave, quiet
<1>2. WireInv'
  BY <1>1, ShowKeeps
<1>3. app'.pending = app.pending /\ (app'.thread = Nil \/ app'.thread = app.thread)
  BY <1>1
<1>4. PromptOk'
  BY <1>1, <1>3, DeskIs DEF PromptOk
<1>5. QED  BY <1>1, <1>2, <1>3, <1>4, DeskIs, DeskRests

LEMMA StartKeeps ==
    ASSUME WireInv, DeskInv, NEW t \in Threads, Start(t) PROVE WireInv' /\ DeskInv'
<1>1. /\ call' = [op |-> "start", thread |-> t]
      /\ UNCHANGED <<streamVars, turn, app, shown, granted, scene>>
  BY DEF Start, quiet
<1>2. call' \in Calls /\ call'.op = "start"
  BY <1>1 DEF Calls
<1>3. PromptOk'
  BY <1>1, <1>2, DeskIs DEF PromptOk
<1>4. WireInv'
  BY <1>1, WireRests DEF streamVars
<1>5. UNCHANGED <<streams, draft>>
  BY <1>1 DEF streamVars
<1>6. QED  BY <1>1, <1>2, <1>3, <1>4, <1>5, DeskIs, DeskRests

LEMMA NoCallIs == NoCall \in Calls /\ NoCall.op = "none"
BY DEF NoCall, Calls

LEMMA StartedKeeps == ASSUME WireInv, DeskInv, Started PROVE WireInv' /\ DeskInv'
<1>1. /\ call.op = "start" /\ app' = [app EXCEPT !.thread = call.thread] /\ call' = NoCall
      /\ UNCHANGED <<streams, draft, emitting, turn, shown, granted, scene>>
      /\ \/ UNCHANGED <<conn, client>>
         \/ ShowThread(call.thread)
  BY DEF Started, quiet
<1>2. call.thread \in Threads
  BY <1>1, DeskIs DEF Calls, NoCall
<1>3. WireInv'
  BY <1>1, <1>2, ShowKeeps, WireRests
<1>4. app'.pending = app.pending /\ (app'.thread = call.thread \/ app'.thread = app.thread)
  BY <1>1
<1>5. PromptOk'
  BY <1>1, <1>4, DeskIs, NoCallIs DEF PromptOk
<1>6. QED  BY <1>1, <1>2, <1>3, <1>4, <1>5, DeskIs, DeskRests, NoCallIs

LEMMA SendKeeps ==
    ASSUME WireInv, DeskInv, NEW k \in Turns, Send(k) PROVE WireInv' /\ DeskInv'
<1>1. PICK t \in Threads : t = app.thread
  BY DeskIs DEF Send
<1>2. PICK u : u = [thread |-> t, phase |-> "begun", asked |-> 0, cancelled |-> FALSE]
  OBVIOUS
<1>3. /\ turn[k].phase = "none" /\ turn' = [turn EXCEPT ![k] = u]
      /\ call' = [op |-> "send", thread |-> t, turn |-> k]
      /\ UNCHANGED <<streamVars, app, shown, granted, scene>>
  BY <1>1, <1>2 DEF Send, quiet
<1>4. /\ u \in TurnsOf /\ u.thread = t /\ u.phase = "begun" /\ u.asked = 0
  BY <1>2 DEF TurnsOf, TurnPhases
<1>5. /\ turn' \in [Turns -> TurnsOf] /\ turn'[k] = u
      /\ \A j \in Turns : j # k => turn'[j] = turn[j]
  BY <1>3, <1>4, DeskIs
<1>6. UNCHANGED <<streams, draft, emitting, conn, client>>
  BY <1>3 DEF streamVars
<1>7. WireInv'
  BY <1>6, WireRests
<1>8. turn[k].thread = Nil /\ Nil \notin Threads
  BY <1>3, DeskIs, StreamAssumption DEF TurnOk, TurnIs
<1>9. draft[k] = Nil
  BY <1>3, DeskIs DEF DraftOk, DraftIs, AtWork
<1>10. call' \in Calls /\ call'.op = "send"
  BY <1>3 DEF Calls
<1>11. PromptOk'
  BY <1>3, <1>10, DeskIs DEF PromptOk
<1>12. DeskShape'
  BY <1>3, <1>5, <1>6, <1>10 DEF DeskInv, DeskShape
<1>13. \A w \in Writers : draft'[w] # Nil =>
          DraftIs(w, draft'[w], streams[draft'[w].thread], turn'[w])
  <2>1. ASSUME NEW w \in Writers, draft'[w] # Nil
        PROVE  DraftIs(w, draft'[w], streams[draft'[w].thread], turn'[w])
    <3>1. w # k /\ draft'[w] = draft[w] /\ DraftIs(w, draft[w], streams[draft[w].thread], turn[w])
      BY <1>6, <1>9, <2>1, DeskIs DEF DraftOk
    <3>2. w \in Turns => turn'[w] = turn[w]
      BY <1>5, <3>1
    <3>3. QED  BY <3>1, <3>2 DEF DraftIs
  <2>2. QED  BY <2>1
<1>14. ASSUME NEW j \in Turns
       PROVE  TurnIs(j, turn'[j], Marks(streams[turn'[j].thread], Event("approved", j)), shown')
  <2>1. CASE j # k
    BY <1>3, <1>5, <2>1, DeskIs DEF TurnOk
  <2>2. CASE j = k
    <3>1. PICK s \in Seq(Posts) : s = streams[t]
      BY DEF WireInv, WireShape
    <3>2. \A i \in DOMAIN s : s[i] # Event("approved", k)
      <4>1. \A i \in DOMAIN s : s[i].turn # k
        BY <1>8, <3>1, DeskIs DEF PostsOfTurns
      <4>2. QED  BY <4>1 DEF Event
    <3>3. Marks(s, Event("approved", k)) = 0
      BY <3>2, MarksNone
    <3>4. TurnIs(k, u, 0, shown)
      BY <1>4, <1>8 DEF TurnIs, AtWork
    <3>5. QED  BY <1>3, <1>4, <1>5, <2>2, <3>1, <3>3, <3>4
  <2>3. QED  BY <2>1, <2>2
<1>15. \A j \in Turns : turn'[j].thread = turn[j].thread \/ turn[j].thread = Nil
  BY <1>5, <1>8
<1>16. QED  BY <1>6, <1>7, <1>11, <1>12, <1>13, <1>14, <1>15, DeskMoves

\* The answer to a message: the prompt that is set has been shown.
LEMMA AnswersKeep ==
    ASSUME WireInv, DeskInv, SendAnswered \/ DecideAnswered \/ AnswerLost
    PROVE  WireInv' /\ DeskInv'
<1>1. /\ call' = NoCall /\ UNCHANGED <<streamVars, turn, granted, scene>>
      /\ shown \subseteq shown' /\ shown' \subseteq Prompts
      /\ app'.thread = app.thread
      /\ app'.pending = Nil \/ app'.pending \in shown'
  <2>1. CASE SendAnswered
    <3>1. PICK k \in Turns : k = call.turn
      <4>1. call.op = "send"
        BY <2>1 DEF SendAnswered
      <4>2. QED  BY <4>1, DeskIs DEF Calls, NoCall
    <3>2. Prompt(k) \in Prompts
      BY DeskIs DEF Prompt, Prompts, TurnsOf
    <3>3. /\ app' = [app EXCEPT !.pending =
                        IF turn[k].phase = "suspended" THEN Prompt(k) ELSE Nil]
          /\ shown' = shown \cup (IF turn[k].phase = "suspended" THEN {Prompt(k)} ELSE {})
          /\ call' = NoCall /\ UNCHANGED <<streamVars, turn, granted, scene>>
      BY <2>1, <3>1 DEF SendAnswered, quiet
    <3>4. app'.thread = app.thread
      BY <3>3
    <3>5. app'.pending = app.pending \/ app'.pending = IF turn[k].phase = "suspended" THEN Prompt(k) ELSE Nil
      BY <3>3
    <3>6. QED  BY <3>2, <3>3, <3>4, <3>5, DeskIs DEF PromptOk
  <2>2. CASE DecideAnswered
    <3>1. /\ app' = [app EXCEPT !.pending = Nil] /\ call' = NoCall
          /\ UNCHANGED <<streamVars, turn, shown, granted, scene>>
      BY <2>2 DEF DecideAnswered, quiet
    <3>2. app'.thread = app.thread /\ (app'.pending = Nil \/ app'.pending = app.pending)
      BY <3>1
    <3>3. QED  BY <3>1, <3>2, DeskIs DEF PromptOk
  <2>3. CASE AnswerLost
    BY <2>3, DeskIs DEF AnswerLost, Fault, PromptOk
  <2>4. QED  BY <2>1, <2>2, <2>3
<1>2. UNCHANGED <<streams, draft, emitting, conn, client>>
  BY <1>1 DEF streamVars
<1>3. WireInv'
  BY <1>2, WireRests
<1>4. PromptOk'
  BY <1>1, NoCallIs DEF PromptOk
<1>5. app'.pending \in Prompts \union {Nil} /\ app'.thread \in Threads \union {Nil}
  BY <1>1, DeskIs
<1>6. granted' \subseteq shown'
  BY <1>1, DeskIs
<1>7. QED  BY <1>1, <1>2, <1>3, <1>4, <1>5, <1>6, DeskIs, DeskRests, NoCallIs

\* A decision is one on what the prompt shows.
LEMMA DecideKeeps ==
    ASSUME WireInv, DeskInv, NEW persist \in BOOLEAN, Decide(persist) PROVE WireInv' /\ DeskInv'
<1>1. PICK p \in Prompts, t \in Threads : p = app.pending /\ t = app.thread
  BY DeskIs DEF Decide
<1>2. /\ app.pending # Nil /\ UNCHANGED <<streamVars, turn, app, shown, granted, scene>>
      /\ call' = [op |-> "decide", thread |-> t, turn |-> p.turn, approval |-> p.approval,
                  persist |-> persist, stage |-> "sent"]
  BY <1>1 DEF Decide, quiet
<1>3. /\ p.turn \in Turns /\ p.approval \in Nat /\ p = [turn |-> p.turn, approval |-> p.approval]
  BY DEF Prompts
<1>4. /\ call' \in Calls /\ call'.turn = p.turn /\ call'.approval = p.approval
  BY <1>2, <1>3 DEF Calls
<1>5. PromptOk'
  BY <1>1, <1>2, <1>3, <1>4, DeskIs DEF PromptOk
<1>6. UNCHANGED <<streams, draft, emitting, conn, client>>
  BY <1>2 DEF streamVars
<1>7. QED  BY <1>2, <1>4, <1>5, <1>6, DeskIs, DeskRests, WireRests

\* The approvals route resumes a turn for the approval it waits for, if at all.
LEMMA ResolveKeeps == ASSUME WireInv, DeskInv, Resolve PROVE WireInv' /\ DeskInv'
<1>1. PICK c \in Calls : c = call
  BY DeskIs
<1>2. /\ c.op = "decide" /\ UNCHANGED <<streamVars, app, shown, scene>>
      /\ granted' = granted \/ granted' = granted \cup {[turn |-> c.turn, approval |-> c.approval]}
      /\ \/ /\ Resumable(c) /\ call' = [c EXCEPT !.stage = "resumed"]
            /\ turn' = [turn EXCEPT ![c.turn].phase = "resumed", ![c.turn].cancelled = FALSE]
         \/ call' = NoCall /\ turn' = turn
  BY <1>1 DEF Resolve, quiet
<1>3. c \in [op : {"decide"}, thread : Threads, turn : Turns, approval : Nat,
             persist : BOOLEAN, stage : {"sent", "resumed"}]
  BY <1>1, <1>2, NoCallIs DEF Calls
<1>4. PICK k \in Turns, a \in Nat : k = c.turn /\ a = c.approval
  BY <1>3
<1>5. [turn |-> k, approval |-> a] \in shown
  BY <1>1, <1>2, <1>4, DeskIs DEF PromptOk
<1>6. granted' \subseteq shown' /\ shown' \subseteq Prompts
  BY <1>2, <1>4, <1>5, DeskIs
<1>7. UNCHANGED <<streams, draft, emitting, conn, client>>
  BY <1>2 DEF streamVars
<1>8. WireInv'
  BY <1>7, WireRests
<1>9. CASE call' = NoCall /\ turn' = turn
  <2>1. PromptOk'
    BY <1>2, <1>9, NoCallIs, DeskIs DEF PromptOk
  <2>2. QED  BY <1>2, <1>6, <1>7, <1>8, <1>9, <2>1, NoCallIs, DeskIs, DeskRests
<1>10. CASE /\ Resumable(c) /\ call' = [c EXCEPT !.stage = "resumed"]
            /\ turn' = [turn EXCEPT ![c.turn].phase = "resumed", ![c.turn].cancelled = FALSE]
  <2>1. turn[k].phase = "suspended" /\ turn[k].asked = a
    BY <1>4, <1>10 DEF Resumable
  <2>2. PICK v : v = [turn[k] EXCEPT !.phase = "resumed", !.cancelled = FALSE]
    OBVIOUS
  <2>3. /\ v \in TurnsOf /\ v.thread = turn[k].thread /\ v.phase = "resumed" /\ v.asked = a
    <3>1. PICK u \in TurnsOf : u = turn[k]
      BY DeskIs
    <3>2. v = [u EXCEPT !.phase = "resumed", !.cancelled = FALSE]
      BY <2>2, <3>1
    <3>3. /\ v \in TurnsOf /\ v.thread = u.thread /\ v.phase = "resumed" /\ v.asked = u.asked
      BY <3>2 DEF TurnsOf, TurnPhases
    <3>4. QED  BY <2>1, <3>1, <3>3
  <2>4. turn' = [turn EXCEPT ![k] = v]
    BY <1>4, <1>10, <2>2, DeskIs
  <2>5. /\ turn' \in [Turns -> TurnsOf] /\ turn'[k] = v
        /\ \A j \in Turns : j # k => turn'[j] = turn[j]
    BY <2>3, <2>4, DeskIs
  <2>6. \A n : TurnIs(k, turn[k], n, shown) => TurnIs(k, v, n, shown')
    BY <1>2, <1>5, <2>1, <2>3 DEF TurnIs, AtWork
  <2>7. draft'[k] = Nil
    BY <1>7, <2>1, DeskIs DEF DraftOk, DraftIs, AtWork
  <2>8. call' \in Calls /\ call'.op = "decide" /\ call'.turn = k /\ call'.approval = a
    <3>1. call' \in [op : {"decide"}, thread : Threads, turn : Turns, approval : Nat,
                     persist : BOOLEAN, stage : {"sent", "resumed"}]
      BY <1>3, <1>10
    <3>2. call'.op = "decide" /\ call'.turn = c.turn /\ call'.approval = c.approval
      BY <1>2, <1>3, <1>10
    <3>3. QED  BY <1>4, <3>1, <3>2 DEF Calls
  <2>9. PromptOk'
    BY <1>2, <1>5, <2>8, DeskIs DEF PromptOk
  <2>10. DeskShape'
    BY <1>2, <1>6, <1>7, <2>5, <2>8 DEF DeskInv, DeskShape
  <2>11. \A j \in Turns :
            /\ turn'[j].thread = turn[j].thread
            /\ draft'[j] # Nil => turn'[j].phase = turn[j].phase
            /\ \A n : TurnIs(j, turn[j], n, shown) => TurnIs(j, turn'[j], n, shown')
    BY <1>2, <2>3, <2>5, <2>6, <2>7
  <2>12. QED  BY <1>2, <1>7, <1>8, <2>9, <2>10, <2>11, DeskTurns
<1>11. QED  BY <1>2, <1>9, <1>10

LEMMA StopKeeps == ASSUME WireInv, DeskInv, Stop PROVE WireInv' /\ DeskInv'
<1>1. /\ turn' = [k \in Turns |->
                    IF turn[k].thread = app.thread /\ Driven(k)
                    THEN [turn[k] EXCEPT !.cancelled = TRUE] ELSE turn[k]]
      /\ UNCHANGED <<streamVars, app, call, shown, granted, scene>>
  BY DEF Stop, quiet
<1>2. UNCHANGED <<streams, draft, emitting, conn, client>>
  BY <1>1 DEF streamVars
<1>3. WireInv'
  BY <1>2, WireRests
<1>4. ASSUME NEW k \in Turns
      PROVE  /\ turn'[k] \in TurnsOf /\ turn'[k].thread = turn[k].thread
             /\ turn'[k].phase = turn[k].phase /\ turn'[k].asked = turn[k].asked
  <2>1. PICK u \in TurnsOf : u = turn[k]
    BY DeskIs
  <2>2. turn'[k] = u \/ turn'[k] = [u EXCEPT !.cancelled = TRUE]
    BY <1>1, <2>1
  <2>3. QED  BY <2>1, <2>2 DEF TurnsOf
<1>5. turn' \in [Turns -> TurnsOf]
  BY <1>1, <1>4
<1>6. DeskShape' /\ PromptOk'
  BY <1>1, <1>2, <1>5, DeskIs DEF DeskInv, DeskShape, PromptOk
<1>7. \A k \in Turns : \A n : TurnIs(k, turn[k], n, shown) => TurnIs(k, turn'[k], n, shown')
  BY <1>1, <1>4 DEF TurnIs
<1>8. QED  BY <1>1, <1>2, <1>3, <1>4, <1>6, <1>7, DeskTurns

LEMMA RestartKeeps == ASSUME WireInv, DeskInv, Restart PROVE WireInv' /\ DeskInv'
<1>1. /\ HostDies /\ call' = NoCall /\ UNCHANGED <<streams, app, shown, granted, scene>>
      /\ draft' = [w \in Writers |-> Nil]
      /\ turn' = [k \in Turns |->
                    IF Driven(k) THEN [turn[k] EXCEPT !.phase = Abandoned(k)] ELSE turn[k]]
  BY DEF Restart, HostDies, Fault
<1>2. WireInv'
  BY <1>1, HostDiesKeeps
<1>3. ASSUME NEW k \in Turns
      PROVE  /\ turn'[k] \in TurnsOf /\ turn'[k].thread = turn[k].thread
             /\ \A n : TurnIs(k, turn[k], n, shown) => TurnIs(k, turn'[k], n, shown')
  <2>1. PICK u \in TurnsOf : u = turn[k]
    BY DeskIs
  <2>2. CASE Driven(k)
    <3>1. u.phase \in AtWork \union {"resumed"}
      BY <2>1, <2>2 DEF Driven, TurnsOf, TurnPhases, AtWork
    <3>2. turn'[k] = [u EXCEPT !.phase = Abandoned(k)]
      BY <1>1, <2>1, <2>2
    <3>3. PICK n : TurnIs(k, u, n, shown)
      BY <2>1, DeskIs DEF TurnOk
    <3>4. PICK v : v = [u EXCEPT !.phase = Abandoned(k)]
      OBVIOUS
    <3>5. /\ v \in TurnsOf /\ v.thread = u.thread
          /\ \A m : TurnIs(k, u, m, shown) => TurnIs(k, v, m, shown)
      BY <2>1, <3>1, <3>3, <3>4, AbandonedIs
    <3>6. QED  BY <1>1, <2>1, <3>2, <3>4, <3>5
  <2>3. CASE ~ Driven(k)
    BY <1>1, <2>1, <2>3
  <2>4. QED  BY <2>2, <2>3
<1>4. turn' \in [Turns -> TurnsOf]
  BY <1>1, <1>3
<1>5. /\ draft' \in [Writers -> Drafts \union {Nil}]
      /\ \A w \in Writers : draft'[w] = Nil
      /\ \A k \in Turns : draft'[k] = Nil
  BY <1>1, DeskIs
<1>6. DeskShape' /\ PromptOk'
  BY <1>1, <1>4, <1>5, DeskIs, NoCallIs DEF DeskInv, DeskShape, PromptOk
<1>7. QED  BY <1>1, <1>2, <1>3, <1>5, <1>6, DeskTurns

-----------------------------------------------------------------------------
(* Console: the theorems *)

\* Another client comes back for what it has not seen of a thread.
LEMMA FollowKeeps ==
    ASSUME WireInv, DeskInv, NEW t \in Threads, Follow(t) PROVE WireInv' /\ DeskInv'
<1>1. Follower \in Clients
  BY ConsoleAssumption
<1>2. PICK seen : seen = IF client[Follower].thread = t THEN client[Follower].view ELSE <<>>
  OBVIOUS
<1>3. /\ Subscribe(Follower, t, seen) /\ UNCHANGED <<streams, draft, emitting>>
      /\ UNCHANGED <<turn, app, call, shown, granted, scene>>
  BY <1>2 DEF Follow, appVars, quiet
<1>4. <<>> \in Seq(Nat) /\ Len(<<>>) = 0 /\ Len(streams[t]) \in Nat
  BY DEF WireInv, WireShape
<1>5. /\ seen \in Seq(Nat) /\ \A i \in DOMAIN seen : seen[i] = i
      /\ Len(seen) <= Len(streams[t])
  <2>1. CASE client[Follower].thread = t
    <3>1. t # Nil
      BY StreamAssumption
    <3>2. QED  BY <1>1, <1>2, <2>1, <3>1, ClientIs DEF ClientOk
  <2>2. CASE client[Follower].thread # t
    BY <1>2, <1>4, <2>2
  <2>3. QED  BY <2>1, <2>2
<1>6. WireInv'
  BY <1>1, <1>3, <1>5, SubscribeKeeps
<1>7. QED  BY <1>3, <1>6, DeskSleeps

LEMMA ConsoleStarts == ASSUME ConsoleInit PROVE WireInv /\ DeskInv
<1>1. /\ StreamInit /\ scene \in Scenes /\ call = NoCall /\ shown = {} /\ granted = {}
      /\ turn = [k \in Turns |-> [thread |-> Nil, phase |-> "none", asked |-> 0, cancelled |-> FALSE]]
      /\ app = [thread |-> Nil, pending |-> Nil]
      /\ draft = [w \in Writers |-> Nil] /\ streams = [t \in Threads |-> <<>>]
  BY DEF ConsoleInit, StreamInit
<1>2. WireInv
  BY <1>1, WireStarts
<1>3. DeskShape
  BY <1>1, NoCallIs DEF DeskShape, TurnsOf, TurnPhases
<1>4. PostsOfTurns
  BY <1>1 DEF PostsOfTurns
<1>5. PromptOk
  BY <1>1, NoCallIs DEF PromptOk
<1>6. \A w \in Writers : DraftOk(w)
  BY <1>1 DEF DraftOk
<1>7. \A k \in Turns : TurnOk(k)
  BY <1>1 DEF TurnOk, TurnIs
<1>8. QED  BY <1>2, <1>3, <1>4, <1>5, <1>6, <1>7 DEF DeskInv

LEMMA ConsoleSteps ==
    ASSUME WireInv, DeskInv, [ConsoleNext]_consoleVars PROVE WireInv' /\ DeskInv'
<1>0. scene.turns \subseteq Turns /\ scene.threads \subseteq Threads
  BY DeskIs
<1>1. CASE UNCHANGED consoleVars
  BY <1>1, WireRests, DeskSleeps DEF consoleVars, streamVars, appVars, quiet
<1>2. CASE Deliver
  <2>1. WireInv'
    BY <1>2, EmitKeeps, ReplayKeeps, DrainKeeps DEF Deliver
  <2>2. UNCHANGED <<streams, turn, draft, scene, app, call, shown, granted>>
    BY <1>2 DEF Deliver, Emit, Replay, Drain, appVars, quiet
  <2>3. QED  BY <2>1, <2>2, DeskSleeps
<1>3. ASSUME NEW c \in Conns, Finish(c) /\ UNCHANGED appVars PROVE WireInv' /\ DeskInv'
  <2>1. UNCHANGED <<streams, turn, draft, scene, app, call, shown, granted>>
    BY <1>3 DEF Finish, appVars, quiet
  <2>2. QED  BY <1>3, <2>1, FinishKeeps, DeskSleeps
<1>4. ASSUME NEW x \in Clients, Receive(x), UNCHANGED <<turn, scene, app, call, shown, granted>>
      PROVE  WireInv' /\ DeskInv'
  <2>1. UNCHANGED <<streams, draft>>
    BY <1>4 DEF Receive
  <2>2. QED  BY <1>4, <2>1, ReceiveKeeps, DeskSleeps
<1>5. CASE WebReceives
  BY <1>4, <1>5, ConsoleAssumption DEF WebReceives, quiet
<1>6. CASE FollowerReceives
  BY <1>4, <1>6, ConsoleAssumption DEF FollowerReceives, appVars, quiet
<1>7. CASE OldStreamEnds
  BY <1>7, WireRests, DeskSleeps DEF OldStreamEnds, streamVars, quiet
<1>8. ASSUME NEW k \in Turns, TurnReads(k) PROVE WireInv' /\ DeskInv'
  <2>1. UNCHANGED <<streams, emitting, conn, client>>
    BY <1>8 DEF TurnReads, ReadTail
  <2>2. QED  BY <1>8, <2>1, WireRests, ReadsKeep
<1>9. ASSUME NEW k \in Turns, TurnStores(k) PROVE WireInv' /\ DeskInv'
  BY <1>9, WireStores, StoresKeep, DeskIs DEF TurnStores
<1>10. ASSUME NEW k \in Turns, TurnThrows(k) PROVE WireInv' /\ DeskInv'
  <2>1. UNCHANGED <<streams, emitting, conn, client>>
    BY <1>10 DEF TurnThrows, Refuse
  <2>2. QED  BY <1>10, <2>1, WireRests, ThrowsKeep
<1>11. ASSUME NEW t \in Threads, Rename(t) PROVE WireInv' /\ DeskInv'
  <2>1. UNCHANGED <<streams, emitting, conn, client>>
    BY <1>11 DEF Rename, ReadTail
  <2>2. QED  BY <1>11, <2>1, WireRests, RenameKeeps
<1>12. CASE Renamed
  <2>1. CASE Store(Renamer) /\ UNCHANGED appVars
    BY <2>1, WireStores, RenamedKeeps, DeskIs
  <2>2. CASE Refuse(Renamer) /\ UNCHANGED appVars
    <3>1. UNCHANGED <<streams, emitting, conn, client>>
      BY <2>2 DEF Refuse
    <3>2. QED  BY <2>2, <3>1, WireRests, RefusedKeeps
  <2>3. QED  BY <1>12, <2>1, <2>2 DEF Renamed
<1>13. ASSUME NEW x \in Clients, StreamBreaks(x) PROVE WireInv' /\ DeskInv'
  <2>1. UNCHANGED <<streams, turn, draft, scene, app, call, shown, granted>>
    BY <1>13 DEF StreamBreaks, Break, Fault
  <2>2. QED  BY <1>13, <2>1, BreakKeeps, DeskSleeps DEF StreamBreaks
<1>14. QED
  BY <1>0, <1>1, <1>2, <1>3, <1>5, <1>6, <1>7, <1>8, <1>9, <1>10, <1>11, <1>12, <1>13,
     OpenKeeps, LeaveKeeps, StartKeeps, StartedKeeps, CreateKeeps, SendKeeps, AnswersKeep,
     DecideKeeps, ResolveKeeps, StopKeeps, RestartKeeps, FollowKeeps
  DEF ConsoleNext

LEMMA ConsoleInvariant == ConsoleSpec => [](WireInv /\ DeskInv)
<1>1. ConsoleInit => WireInv /\ DeskInv
  BY ConsoleStarts
<1>2. (WireInv /\ DeskInv) /\ [ConsoleNext]_consoleVars => (WireInv /\ DeskInv)'
  BY ConsoleSteps
<1>3. QED  BY <1>1, <1>2, PTL DEF ConsoleSpec

\* Whatever is appended while a client replays a thread or follows it, and however
\* often it reconnects, it has seen a gapless beginning of that thread, each event
\* once and in order (routes/threads.ts: replay after the watermark, then follow;
\* streamItems resumes behind the last event it has).
THEOREM ViewsArePrefixes == ConsoleSpec => []ViewIsPrefix
<1>1. WireInv => ViewIsPrefix
  <2>1. ASSUME WireInv, NEW x \in Clients
        PROVE  /\ client[x].view = [i \in DOMAIN client[x].view |-> i]
               /\ client[x].thread # Nil => Len(client[x].view) <= Len(streams[client[x].thread])
    <3>1. PICK view \in Seq(Nat) : view = client[x].view
      BY <2>1, ClientIs
    <3>2. \A i \in DOMAIN view : view[i] = i
      BY <2>1, <3>1, ClientIs DEF ClientOk
    <3>3. view = [i \in DOMAIN view |-> view[i]]
      OBVIOUS
    <3>4. view = [i \in DOMAIN view |-> i]
      BY <3>2, <3>3
    <3>5. QED  BY <2>1, <3>1, <3>4, ClientIs DEF ClientOk
  <2>2. QED  BY <2>1 DEF ViewIsPrefix
<1>2. QED  BY <1>1, ConsoleInvariant, PTL

\* Once nothing is under way any more, each connected client has seen all of its
\* thread: no event is lost between the read of the page and the subscription, in
\* the filter of the watermark, or on a reconnection (routes/threads.ts: the
\* listener is registered before the page is read, and queues what it has not sent).
THEOREM EventsArrive == ConsoleSpec => []AllDelivered
<1>1. WireInv => AllDelivered
  <2>1. ASSUME WireInv, AtRest, NEW x \in Clients, client[x].conn # Nil
        PROVE  Len(client[x].view) = Len(streams[client[x].thread])
    <3>1. PICK c \in Conns : c = client[x].conn
      BY <2>1, ClientIs
    <3>2. PICK h \in Handlers : h = conn[c] /\ HandlerOk(h)
      BY <2>1, HandlerIs
    <3>3. /\ h.state = "following" /\ h.queue = <<>> /\ h.wire = <<>> /\ emitting = <<>>
          /\ h.thread = client[x].thread /\ Run(h, Len(client[x].view))
      BY <2>1, <3>1, <3>2, ClientIs DEF AtRest, ClientOk
    <3>4. PICK L \in Nat : L = Len(streams[h.thread])
      BY <2>1, <3>2, <3>3, HandlerIs DEF HandlerOk
    <3>5. \A n : ~ Queued(emitting, h.thread, n)
      BY <3>3 DEF Queued
    <3>6. h.watermark \in Nat /\ h.watermark <= L /\ \A n \in 1 .. L : ~ (h.watermark < n)
      BY <3>2, <3>3, <3>4, <3>5 DEF HandlerOk, Base, Handlers
    <3>7. h.watermark = L
      <4>1. SUFFICES ASSUME h.watermark < L PROVE FALSE
        BY <3>6
      <4>2. L \in 1 .. L
        BY <3>6, <4>1
      <4>3. QED  BY <3>6, <4>1, <4>2
    <3>8. Len(client[x].view) \in Nat /\ Len(h.wire) = 0
      BY <2>1, <3>3, ClientIs
    <3>9. QED  BY <3>3, <3>4, <3>7, <3>8 DEF Run
  <2>2. QED  BY <2>1 DEF AllDelivered
<1>2. QED  BY <1>1, ConsoleInvariant, PTL

\* The approvals a turn has recorded as decided, and the grants the host has
\* recorded, are ones the console was prompted for: a prompt whose answer was lost,
\* or that stayed while another thread was opened, decides nothing else (resumeTurn
\* goes on only for the approval the turn waits for).
THEOREM DecisionsWereShown == ConsoleSpec => []DecidedAsShown
<1>1. WireInv /\ DeskInv => DecidedAsShown
  <2>1. ASSUME DeskInv, NEW k \in Turns, turn[k].thread # Nil, NEW n \in 1 .. Approvals(k)
        PROVE  [turn |-> k, approval |-> n] \in shown
    <3>1. Approvals(k) = Marks(streams[turn[k].thread], Event("approved", k))
      BY DEF Approvals, Marks
    <3>2. QED  BY <2>1, <3>1, DeskIs DEF TurnOk, TurnIs
  <2>2. QED  BY <2>1, DeskIs DEF DecidedAsShown
<1>2. QED  BY <1>1, ConsoleInvariant, PTL

=============================================================================
