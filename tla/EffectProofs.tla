---------------------------- MODULE EffectProofs ----------------------------
(***************************************************************************)
(* What TLAPS proves of the two components that put an effect outside on   *)
(* record: ExecutionWorld, whose calls act on the world, and Learning,     *)
(* whose activations write to the user's memory.                           *)
(*                                                                         *)
(* ExecutionWorld: for any number of calls, keys, requests and permission  *)
(* layers, its safety properties, and that it implements DurableAction.    *)
(* Learning: for any number of proposals, targets and jobs, that its       *)
(* invariant LInv is inductive, and the three safety properties it gives.  *)
(***************************************************************************)
EXTENDS ExecutionWorld, Learning, FiniteSetTheorems, TLAPS

(* Learning's folds, by the events and proposals they have taken. *)
P == INSTANCE Folding WITH Op <- LAMBDA none, m, e : Applied(m, e)
B == INSTANCE Folding WITH Op <- LAMBDA none, m, e : Bound(m, e)
G == INSTANCE Folding WITH Op <- LAMBDA s, events, p : events \o Begun(s, p)

-----------------------------------------------------------------------------
(* Streams *)

\* A stored batch adds its own events and keeps those already there.
LEMMA HasConcat ==
    ASSUME NEW s \in Seq(Events), NEW e \in Seq(Events), NEW type
    PROVE  Has(s \o e, type) <=> (Has(s, type) \/ Has(e, type))
<1>1. ASSUME NEW i \in DOMAIN s, s[i].type = type
      PROVE  Has(s \o e, type)
  BY <1>1 DEF Has
<1>2. ASSUME NEW i \in DOMAIN e, e[i].type = type
      PROVE  Has(s \o e, type)
  <2>1. /\ Len(s) + i \in DOMAIN (s \o e)
        /\ (s \o e)[Len(s) + i] = e[i]
    OBVIOUS
  <2>2. QED  BY <1>2, <2>1 DEF Has
<1>3. ASSUME NEW i \in DOMAIN (s \o e), (s \o e)[i].type = type
      PROVE  Has(s, type) \/ Has(e, type)
  <2>1. CASE i \in DOMAIN s
    BY <1>3, <2>1 DEF Has
  <2>2. CASE i \notin DOMAIN s
    <3>1. /\ i - Len(s) \in DOMAIN e
          /\ (s \o e)[i] = e[i - Len(s)]
      BY <2>2
    <3>2. QED  BY <1>3, <3>1 DEF Has
  <2>3. QED  BY <2>1, <2>2
<1>4. QED  BY <1>1, <1>2, <1>3 DEF Has

LEMMA HasBatch ==
    ASSUME NEW c \in Calls, NEW batch \in Batches, NEW type
    PROVE  Has(BatchEvents(c, batch), type) <=> \E i \in DOMAIN batch : batch[i] = type
BY DEF Has, BatchEvents, Batches

LEMMA BatchEventsType ==
    ASSUME NEW c \in Calls, NEW batch \in Batches, request[c] \in Requests
    PROVE  BatchEvents(c, batch) \in Seq(Events)
<1>1. batch \in Seq(EventTypes)
  <2>1. \A e \in EventTypes : <<e>> \in Seq(EventTypes)
    OBVIOUS
  <2>2. <<"authorized", "started">> \in Seq(EventTypes)
    BY DEF EventTypes
  <2>3. QED  BY <2>1, <2>2 DEF Batches, EventTypes
<1>2. \A i \in DOMAIN batch :
         [type |-> batch[i], call |-> c, digest |-> request[c].digest] \in Events
  BY <1>1 DEF Requests, Events
<1>3. DOMAIN batch = 1 .. Len(batch) /\ Len(batch) \in Nat
  BY <1>1
<1>4. QED  BY <1>2, <1>3 DEF BatchEvents

LEMMA FindType ==
    ASSUME NEW s \in Seq(Events), NEW type, Has(s, type)
    PROVE  Find(s, type) \in Events /\ Find(s, type).type = type
BY DEF Has, Find

-----------------------------------------------------------------------------
(* Type correctness *)

LEMMA InitType == Init => TypeOK
BY NoCallAssumption
   DEF Init, TypeOK, EmptyFrame, Frames, Decisions, Outcome, Outcomes,
       OutcomeKinds, Locations, Executing

\* What every continuation of call c leaves: well-typed control, and the other
\* calls where they were.
Continued(c) ==
    /\ pc' \in [Calls -> Locations]
    /\ frame' \in [Calls -> Frames]
    /\ outcome' \in [Calls -> Outcomes]
    /\ pc'[c] # "waiting"
    /\ pc'[c] \in {"tail", "write"} => frame'[c].pending \in Batches
    /\ \A d \in Calls \ {c} : pc'[d] = pc[d] /\ frame'[d] = frame[d]

LEMMA GoToContinues ==
    ASSUME TypeOK, NEW c \in Calls, NEW f \in Frames,
           NEW l \in Locations \ {"waiting"},
           l \in {"tail", "write"} => f.pending \in Batches,
           GoTo(c, f, l)
    PROVE  Continued(c) /\ pc'[c] = l /\ frame'[c] = f
BY DEF TypeOK, GoTo, Continued

LEMMA ToAppendContinues ==
    ASSUME TypeOK, NEW c \in Calls, NEW f \in Frames, NEW batch \in Batches,
           ToAppend(c, f, batch)
    PROVE  Continued(c) /\ pc'[c] = "tail" /\ frame'[c].pending = batch
<1> DEFINE g == [f EXCEPT !.pending = batch]
<1>1. g \in Frames /\ g.pending = batch
  BY DEF Frames
<1>2. "tail" \in Locations \ {"waiting"}
  BY DEF Locations, Executing
<1>3. GoTo(c, g, "tail")
  BY DEF ToAppend
<1> HIDE DEF g
<1>4. Continued(c) /\ pc'[c] = "tail" /\ frame'[c] = g
  BY <1>1, <1>2, <1>3, GoToContinues
<1>5. QED  BY <1>1, <1>4

LEMMA ToReturnContinues ==
    ASSUME TypeOK, NEW c \in Calls, NEW r \in Outcomes, ToReturn(c, r)
    PROVE  Continued(c) /\ pc'[c] = "return"
<1>1. EmptyFrame \in Frames
  BY DEF EmptyFrame, Frames, Decisions
<1>2. "return" \in Locations
  BY DEF Locations, Executing
<1>3. QED  BY <1>1, <1>2 DEF TypeOK, ToReturn, Continued

LEMMA OutcomeType == \A kind \in OutcomeKinds : Outcome(kind) \in Outcomes
BY DEF Outcome, Outcomes

\* The appends that Gate may ask for.
Verdicts == {<<"denied">>, <<"approval_required">>, <<"authorized", "started">>}

LEMMA GateContinues ==
    ASSUME TypeOK, NEW c \in Calls, NEW f \in Frames, Gate(c, f)
    PROVE  /\ Continued(c)
           /\ \/ pc'[c] = "return"
              \/ pc'[c] = "tail" /\ frame'[c].pending \in Verdicts
<1>1. Verdicts \subseteq Batches
  BY DEF Verdicts, Batches
<1>2. \/ ToReturn(c, Outcome("approval_required"))
      \/ \E batch \in Verdicts : ToAppend(c, f, batch)
  BY DEF Gate, Verdicts
<1>3. Outcome("approval_required") \in Outcomes
  BY OutcomeType DEF OutcomeKinds
<1>4. QED  BY <1>1, <1>2, <1>3, ToReturnContinues, ToAppendContinues

LEMMA ThrowsContinues ==
    ASSUME TypeOK, NEW c \in Calls, Throws(c)
    PROVE  /\ Continued(c)
           /\ \/ pc'[c] = "return"
              \/ /\ pc'[c] = "tail" /\ frame'[c].pending = <<"failed">>
                 /\ \/ pc[c] \in {"run", "observe"}
                    \/ pc[c] \in {"tail", "write"} /\ frame[c].pending = <<"completed">>
<1>1. frame[c] \in Frames /\ <<"failed">> \in Batches
  BY DEF TypeOK, Batches
<1>2. Outcome("rejected") \in Outcomes
  BY OutcomeType DEF OutcomeKinds
<1>3. QED  BY <1>1, <1>2, ToReturnContinues, ToAppendContinues DEF Throws

LEMMA AfterAppendContinues ==
    ASSUME TypeOK, NEW c \in Calls, NEW f \in Frames, AfterAppend(c, f)
    PROVE  /\ Continued(c)
           /\ \/ pc'[c] = "return"
              \/ pc'[c] = "decide" /\ f.pending = <<"requested">>
              \/ /\ pc'[c] = "tail" /\ frame'[c].pending \in Verdicts
                 /\ f.pending = <<"permission_snapshot">>
              \/ pc'[c] = "run" /\ f.pending = <<"authorized", "started">>
<1>1. CASE f.pending = <<"requested">> /\ GoTo(c, f, "decide")
  BY <1>1, GoToContinues DEF Locations, Executing
<1>2. CASE f.pending = <<"permission_snapshot">> /\ Gate(c, f)
  BY <1>2, GateContinues
<1>3. CASE f.pending = <<"authorized", "started">> /\ GoTo(c, f, "run")
  BY <1>3, GoToContinues DEF Locations, Executing
<1>4. CASE \E r \in Outcomes : ToReturn(c, r)
  BY <1>4, ToReturnContinues
<1>5. /\ Outcome("denied") \in Outcomes
      /\ Outcome("approval_required") \in Outcomes
      /\ Outcome("error") \in Outcomes
      /\ [kind |-> "fresh", by |-> c] \in Outcomes
  BY OutcomeType DEF OutcomeKinds, Outcomes
<1>6. QED  BY <1>1, <1>2, <1>3, <1>4, <1>5 DEF AfterAppend

LEMMA ResumeContinues ==
    ASSUME TypeOK, NEW c \in Calls, NEW f \in Frames, Resume(c, f)
    PROVE  /\ Continued(c)
           /\ \/ pc'[c] = "return"
              \/ pc'[c] = "decide" /\ ~ Has(f.existing, "started")
<1>1. Has(f.existing, "completed") =>
         [kind |-> "replayed", by |-> Find(f.existing, "completed").call] \in Outcomes
  BY FindType DEF Frames, Events, Outcomes, OutcomeKinds
<1>2. Outcome("reconciliation_required") \in Outcomes /\ Outcome("denied") \in Outcomes
  BY OutcomeType DEF OutcomeKinds
<1>3. "decide" \in Locations \ {"waiting", "tail", "write"}
  BY DEF Locations, Executing
<1>4. QED  BY <1>1, <1>2, <1>3, ToReturnContinues, GoToContinues DEF Resume

LEMMA ContinuedType ==
    ASSUME TypeOK, NEW c \in Calls, Continued(c), pc[c] \in Executing,
           log' \in [Keys -> Seq(Events)],
           effects' \in [Keys -> SUBSET Calls],
           UNCHANGED <<inflight, request, waitsFor>>
    PROVE  TypeOK'
BY DEF TypeOK, Continued, Executing

\* What a step of an executing call does to the log: nothing, or its batch.
LEMMA AppendedType ==
    ASSUME TypeOK, NEW c \in Calls, pc[c] = "write", NEW expect \in Nat
    PROVE  LET written == streamOf(c)
               events == BatchEvents(c, frame[c].pending)
           IN  /\ request[c].key \in Keys
               /\ written \in Seq(Events)
               /\ events \in Seq(Events)
               /\ Appended(written, events, expect) \in {written, written \o events}
               /\ Appended(written, events, expect) \in Seq(Events)
<1>1. request[c] \in Requests /\ frame[c].pending \in Batches
  BY DEF TypeOK
<1>2. request[c].key \in Keys /\ streamOf(c) \in Seq(Events)
  BY <1>1 DEF TypeOK, Requests, streamOf
<1>3. BatchEvents(c, frame[c].pending) \in Seq(Events)
  BY <1>1, BatchEventsType
<1>4. QED  BY <1>2, <1>3 DEF Appended

LEMMA FrameType ==
    ASSUME TypeOK, NEW c \in Calls
    PROVE  /\ frame[c] \in Frames
           /\ pc[c] \notin {"idle", "lost"} => streamOf(c) \in Seq(Events)
           /\ \A s \in Seq(Events) : [frame[c] EXCEPT !.existing = s] \in Frames
           /\ \A n \in Nat : [frame[c] EXCEPT !.expected = n] \in Frames
           /\ \A d \in Decisions, b \in BOOLEAN :
                 [frame[c] EXCEPT !.decision = d, !.enforced = b] \in Frames
<1>1. frame[c] \in Frames
  BY DEF TypeOK
<1>2. pc[c] \notin {"idle", "lost"} => streamOf(c) \in Seq(Events)
  BY DEF TypeOK, streamOf, Requests
<1>3. QED  BY <1>1, <1>2 DEF Frames

LEMMA PolicyType == \A rules \in [Layers -> SUBSET Decisions] : Policy(rules) \in Decisions
BY DEF Policy, Intersection, Decisions

-----------------------------------------------------------------------------
(* Where each action of an executing call leads *)

LEMMA ReadContinues ==
    ASSUME TypeOK, NEW c \in Calls, Read(c)
    PROVE  /\ Continued(c) /\ pc[c] = "read"
           /\ \/ pc'[c] = "return"
              \/ /\ pc'[c] = "tail" /\ frame'[c].pending = <<"requested">>
                 /\ ~ Has(streamOf(c), "requested")
              \/ /\ pc'[c] = "decide"
                 /\ Has(streamOf(c), "requested") /\ ~ Has(streamOf(c), "started")
<1> DEFINE f == [frame[c] EXCEPT !.existing = streamOf(c)]
<1>1. f \in Frames
  BY FrameType DEF Read
<1>2. f.existing = streamOf(c)
  BY DEF TypeOK, Frames
<1>3. <<"requested">> \in Batches /\ Outcome("rejected") \in Outcomes
  BY OutcomeType DEF Batches, OutcomeKinds
<1>4. /\ pc[c] = "read"
      /\ \/ ~ Has(f.existing, "requested") /\ ToAppend(c, f, <<"requested">>)
         \/ ToReturn(c, Outcome("rejected"))
         \/ Has(f.existing, "requested") /\ Resume(c, f)
  BY DEF Read
<1> HIDE DEF f
<1>5. CASE ~ Has(f.existing, "requested") /\ ToAppend(c, f, <<"requested">>)
  BY <1>1, <1>2, <1>3, <1>4, <1>5, ToAppendContinues
<1>6. CASE ToReturn(c, Outcome("rejected"))
  BY <1>3, <1>4, <1>6, ToReturnContinues
<1>7. CASE Has(f.existing, "requested") /\ Resume(c, f)
  BY <1>1, <1>2, <1>4, <1>7, ResumeContinues
<1>8. QED  BY <1>4, <1>5, <1>6, <1>7

LEMMA DecideContinues ==
    ASSUME TypeOK, NEW c \in Calls, Decide(c)
    PROVE  /\ Continued(c) /\ pc[c] = "decide"
           /\ \/ pc'[c] = "return"
              \/ /\ pc'[c] = "tail"
                 /\ frame'[c].pending \in Verdicts \union {<<"permission_snapshot">>}
<1>1. PICK rules \in [Layers -> SUBSET Decisions], supported \in BOOLEAN :
         LET f == [frame[c] EXCEPT !.decision = Policy(rules), !.enforced = supported] IN
         \/ Gate(c, f)
         \/ ToAppend(c, f, <<"permission_snapshot">>)
  BY DEF Decide
<1> DEFINE f == [frame[c] EXCEPT !.decision = Policy(rules), !.enforced = supported]
<1>2. f \in Frames
  BY PolicyType, FrameType
<1>3. <<"permission_snapshot">> \in Batches /\ pc[c] = "decide"
  BY DEF Batches, Decide
<1>4. Gate(c, f) \/ ToAppend(c, f, <<"permission_snapshot">>)
  BY <1>1
<1> HIDE DEF f
<1>5. CASE Gate(c, f)
  BY <1>2, <1>3, <1>5, GateContinues
<1>6. CASE ToAppend(c, f, <<"permission_snapshot">>)
  BY <1>2, <1>3, <1>6, ToAppendContinues
<1>7. QED  BY <1>4, <1>5, <1>6

LEMMA ReadTailContinues ==
    ASSUME TypeOK, NEW c \in Calls, ReadTail(c)
    PROVE  /\ Continued(c) /\ pc[c] = "tail" /\ pc'[c] = "write"
           /\ frame'[c].pending = frame[c].pending
<1> DEFINE f == [frame[c] EXCEPT !.expected = NextSequence(streamOf(c))]
<1>1. pc[c] = "tail" /\ GoTo(c, f, "write") /\ frame[c].pending \in Batches
  BY DEF ReadTail, TypeOK
<1>2. NextSequence(streamOf(c)) \in Nat
  <2>1. streamOf(c) \in Seq(Events)
    BY <1>1, FrameType
  <2>2. QED  BY <2>1 DEF NextSequence
<1>3. f \in Frames /\ f.pending = frame[c].pending
  BY <1>2, FrameType DEF TypeOK, Frames
<1>4. "write" \in Locations \ {"waiting"}
  BY DEF Locations, Executing
<1> HIDE DEF f
<1>5. Continued(c) /\ pc'[c] = "write" /\ frame'[c] = f
  BY <1>1, <1>3, <1>4, GoToContinues
<1>6. QED  BY <1>1, <1>3, <1>5

LEMMA WriteContinues ==
    ASSUME TypeOK, NEW c \in Calls, Write(c)
    PROVE  /\ Continued(c) /\ pc[c] = "write"
           /\ \/ /\ UNCHANGED log
                 /\ \/ pc'[c] = "return"
                    \/ /\ pc'[c] = "tail" /\ frame'[c].pending = <<"failed">>
                       /\ frame[c].pending = <<"completed">>
              \/ /\ ~ Conflicts(streamOf(c), BatchEvents(c, frame[c].pending),
                                 frame[c].expected)
                 /\ log' = [log EXCEPT ![request[c].key] =
                               Appended(streamOf(c), BatchEvents(c, frame[c].pending),
                                        frame[c].expected)]
                 /\ \/ pc'[c] = "return"
                    \/ pc'[c] = "decide" /\ frame[c].pending = <<"requested">>
                    \/ /\ pc'[c] = "tail" /\ frame'[c].pending \in Verdicts
                       /\ frame[c].pending = <<"permission_snapshot">>
                    \/ pc'[c] = "run" /\ frame[c].pending = <<"authorized", "started">>
<1> DEFINE f == [frame[c] EXCEPT !.expected = 0]
           events == BatchEvents(c, frame[c].pending)
           next == frame[c].expected
<1>1. f \in Frames /\ f.pending = frame[c].pending
  BY FrameType DEF TypeOK, Frames
<1>2. /\ pc[c] = "write"
      /\ \/ Throws(c) /\ UNCHANGED log
         \/ /\ ~ Conflicts(streamOf(c), events, next)
            /\ log' = [log EXCEPT ![request[c].key] =
                         Appended(streamOf(c), events, next)]
            /\ AfterAppend(c, f)
  BY DEF Write
<1> HIDE DEF f
<1>3. CASE Throws(c) /\ UNCHANGED log
  BY <1>2, <1>3, ThrowsContinues
<1>4. CASE /\ ~ Conflicts(streamOf(c), events, next)
           /\ log' = [log EXCEPT ![request[c].key] = Appended(streamOf(c), events, next)]
           /\ AfterAppend(c, f)
  BY <1>1, <1>2, <1>4, AfterAppendContinues
<1>5. QED  BY <1>2, <1>3, <1>4

LEMMA ExecuteContinues ==
    ASSUME TypeOK, NEW c \in Calls, Execute(c)
    PROVE  Continued(c) /\ pc[c] = "run" /\ pc'[c] = "observe"
<1>1. frame[c] \in Frames /\ "observe" \in Locations \ {"waiting"}
  BY DEF TypeOK, Locations, Executing
<1>2. QED  BY <1>1, GoToContinues DEF Execute

LEMMA ObserveContinues ==
    ASSUME TypeOK, NEW c \in Calls, Observe(c)
    PROVE  /\ Continued(c) /\ pc[c] = "observe"
           /\ pc'[c] = "tail" /\ frame'[c].pending = <<"completed">>
<1>1. frame[c] \in Frames /\ <<"completed">> \in Batches
  BY DEF TypeOK, Batches
<1>2. QED  BY <1>1, ToAppendContinues DEF Observe

LEMMA FailContinues ==
    ASSUME TypeOK, NEW c \in Calls, Fail(c)
    PROVE  /\ Continued(c) /\ pc[c] \in Executing
           /\ \/ pc'[c] = "return"
              \/ /\ pc'[c] = "tail" /\ frame'[c].pending = <<"failed">>
                 /\ \/ pc[c] \in {"run", "observe"}
                    \/ pc[c] \in {"tail", "write"} /\ frame[c].pending = <<"completed">>
<1>1. Throws(c) /\ pc[c] \in Executing
  BY DEF Fail
<1>2. QED  BY <1>1, ThrowsContinues

-----------------------------------------------------------------------------
(* Type correctness of every step *)

LEMMA CallType == ASSUME TypeOK, NEW c \in Calls, Call(c) PROVE TypeOK'
BY DEF TypeOK, Call, Locations, Executing

LEMMA EnterType == ASSUME TypeOK, NEW c \in Calls, Enter(c) PROVE TypeOK'
<1>1. pc[c] = "entry" /\ UNCHANGED <<log, effects, request, frame, outcome>>
  BY DEF Enter
<1>2. request[c].key \in Keys
  BY <1>1 DEF TypeOK, Requests
<1>3. CASE /\ inflight' = [inflight EXCEPT ![request[c].key] = c]
           /\ pc' = [pc EXCEPT ![c] = "read"]
           /\ UNCHANGED waitsFor
  BY <1>1, <1>3 DEF TypeOK, Locations, Executing
<1>4. CASE /\ inflight[request[c].key] # NoCall
           /\ waitsFor' = [waitsFor EXCEPT ![c] = inflight[request[c].key]]
           /\ pc' = [pc EXCEPT ![c] = "waiting"]
           /\ UNCHANGED inflight
  <2>1. inflight[request[c].key] \in Calls
    BY <1>2, <1>4 DEF TypeOK
  <2>2. QED  BY <1>1, <1>4, <2>1 DEF TypeOK, Locations
<1>5. QED  BY <1>3, <1>4 DEF Enter

LEMMA WakeType == ASSUME TypeOK, NEW c \in Calls, Wake(c) PROVE TypeOK'
<1>1. Outcome("rejected") \in Outcomes
  BY OutcomeType DEF OutcomeKinds
<1>2. QED  BY <1>1, ZenonT(60) DEF TypeOK, Wake, Locations, Executing

LEMMA WriteType == ASSUME TypeOK, NEW c \in Calls, Write(c) PROVE TypeOK'
<1>1. Continued(c) /\ pc[c] = "write"
  BY WriteContinues
<1>2. log' \in [Keys -> Seq(Events)]
  <2>1. CASE UNCHANGED log
    BY <2>1 DEF TypeOK
  <2>2. CASE log' = [log EXCEPT ![request[c].key] =
                       Appended(streamOf(c), BatchEvents(c, frame[c].pending),
                                frame[c].expected)]
    <3>1. frame[c].expected \in Nat
      BY DEF TypeOK, Frames
    <3>2. Appended(streamOf(c), BatchEvents(c, frame[c].pending), frame[c].expected)
             \in Seq(Events)
      BY <1>1, <3>1, AppendedType
    <3>3. QED  BY <2>2, <3>2 DEF TypeOK
  <2>3. QED  BY <2>1, <2>2, WriteContinues
<1>3. UNCHANGED <<inflight, effects, request, waitsFor>>
  BY DEF Write
<1>4. effects' \in [Keys -> SUBSET Calls] /\ pc[c] \in Executing
  BY <1>1, <1>3 DEF TypeOK, Executing
<1>5. QED  BY <1>1, <1>2, <1>3, <1>4, ContinuedType

LEMMA ExecuteType == ASSUME TypeOK, NEW c \in Calls, Execute(c) PROVE TypeOK'
<1>1. Continued(c) /\ pc[c] \in Executing
  BY ExecuteContinues DEF Executing
<1>2. UNCHANGED <<log, inflight, request, waitsFor>>
  BY DEF Execute
<1>3. effects' \in [Keys -> SUBSET Calls] /\ log' \in [Keys -> Seq(Events)]
  BY <1>1, <1>2 DEF TypeOK, Execute
<1>4. QED  BY <1>1, <1>2, <1>3, ContinuedType

LEMMA QuietType ==
    ASSUME TypeOK, NEW c \in Calls,
           Read(c) \/ Decide(c) \/ ReadTail(c) \/ Observe(c) \/ Fail(c)
    PROVE  /\ Continued(c) /\ pc[c] \in Executing
           /\ UNCHANGED <<log, inflight, effects, request, waitsFor>>
           /\ TypeOK'
<1>1. Continued(c) /\ pc[c] \in Executing
  BY ReadContinues, DecideContinues, ReadTailContinues, ObserveContinues,
     FailContinues DEF Executing
<1>2. UNCHANGED <<log, inflight, effects, request, waitsFor>>
  BY DEF Read, Decide, ReadTail, Observe, Fail
<1>3. effects' \in [Keys -> SUBSET Calls] /\ log' \in [Keys -> Seq(Events)]
  BY <1>2 DEF TypeOK
<1>4. QED  BY <1>1, <1>2, <1>3, ContinuedType

LEMMA ReturnType == ASSUME TypeOK, NEW c \in Calls, Return(c) PROVE TypeOK'
<1>1. Outcome("rejected") \in Outcomes
  BY OutcomeType DEF OutcomeKinds
<1>2. outcome' \in [Calls -> Outcomes]
  BY <1>1 DEF TypeOK, Return
<1>3. pc[c] = "return" /\ pc' = [pc EXCEPT ![c] = "done"]
  BY DEF Return
<1>4. pc' \in [Calls -> Locations]
  BY <1>3 DEF TypeOK, Locations
<1>5. inflight' \in [Keys -> Calls \union {NoCall}]
  BY DEF TypeOK, Return
<1>6. UNCHANGED <<log, effects, request, waitsFor, frame>>
  BY DEF Return
<1>7. QED  BY <1>2, <1>3, <1>4, <1>5, <1>6 DEF TypeOK

LEMMA CrashType == ASSUME TypeOK, Crash PROVE TypeOK'
<1>1. Outcome("none") \in Outcomes
  BY OutcomeType DEF OutcomeKinds
<1>2. EmptyFrame \in Frames
  BY DEF EmptyFrame, Frames, Decisions
<1>3. "lost" \in Locations /\ "idle" # "lost" /\ "done" # "lost"
  BY DEF Locations
<1>4. QED  BY <1>1, <1>2, <1>3 DEF TypeOK, Crash, Executing

\* Whatever happens in #execute, the variables keep their types.
LEMMA NextType == TypeOK /\ [Next]_vars => TypeOK'
<1>1. SUFFICES ASSUME TypeOK, [Next]_vars PROVE TypeOK'
  OBVIOUS
<1>2. ASSUME NEW c \in Calls, Call(c) \/ Step(c) \/ Fail(c) PROVE TypeOK'
  BY <1>1, <1>2, CallType, EnterType, WakeType, WriteType, ExecuteType, QuietType,
     ReturnType DEF Step
<1>3. CASE UNCHANGED vars
  BY <1>1, <1>3 DEF vars, TypeOK
<1>4. QED  BY <1>1, <1>2, <1>3, CrashType DEF Next

THEOREM TypeCorrect == Spec => []TypeOK
<1>1. QED  BY InitType, NextType, PTL DEF Spec

-----------------------------------------------------------------------------
(* At most once *)

\* An append that is not refused, stored now or found to be a replay, leaves a
\* stream with what it held and the batch.
LEMMA HasAppended ==
    ASSUME NEW s \in Seq(Events), NEW e \in Seq(Events), NEW n \in Nat, NEW type,
           e # <<>>, ~ Conflicts(s, e, n)
    PROVE  Has(Appended(s, e, n), type) <=> (Has(s, type) \/ Has(e, type))
<1>1. CASE n = NextSequence(s)
  BY <1>1, HasConcat DEF Appended
<1>2. CASE n # NextSequence(s)
  <2>1. n >= 1 /\ IsReplay(s, e, n) /\ Appended(s, e, n) = s
    BY <1>2 DEF Conflicts, NextSequence, Appended
  <2>2. ASSUME NEW i \in DOMAIN e, e[i].type = type PROVE Has(s, type)
    <3>1. n + i - 1 \in DOMAIN s /\ s[n + i - 1] = e[i]
      BY <2>1 DEF IsReplay, NextSequence
    <3>2. QED  BY <2>2, <3>1 DEF Has
  <2>3. QED  BY <2>1, <2>2 DEF Has
<1>3. QED  BY <1>1, <1>2

\* What a successful write adds to its stream, and to that stream only.
LEMMA WriteStores ==
    ASSUME TypeOK, NEW c \in Calls, pc[c] = "write", NEW type,
           ~ Conflicts(streamOf(c), BatchEvents(c, frame[c].pending), frame[c].expected),
           log' = [log EXCEPT ![request[c].key] =
                      Appended(streamOf(c), BatchEvents(c, frame[c].pending),
                               frame[c].expected)]
    PROVE  Has(log'[request[c].key], type) <=>
              \/ Has(streamOf(c), type)
              \/ \E i \in DOMAIN frame[c].pending : frame[c].pending[i] = type
<1> DEFINE events == BatchEvents(c, frame[c].pending)
<1>1. frame[c].pending \in Batches /\ frame[c].expected \in Nat
  BY DEF TypeOK, Frames
<1>2. /\ request[c].key \in Keys
      /\ streamOf(c) \in Seq(Events)
      /\ events \in Seq(Events)
  BY <1>1, AppendedType
<1>3. events # <<>>
  BY <1>1 DEF BatchEvents, Batches
<1>4. log'[request[c].key] = Appended(streamOf(c), events, frame[c].expected)
  BY <1>2 DEF TypeOK
<1> HIDE DEF events
<1>5. Has(log'[request[c].key], type) <=> (Has(streamOf(c), type) \/ Has(events, type))
  BY <1>1, <1>2, <1>3, <1>4, HasAppended DEF events
<1>6. Has(events, type) <=>
         \E i \in DOMAIN frame[c].pending : frame[c].pending[i] = type
  BY <1>1, HasBatch DEF events
<1>7. QED  BY <1>5, <1>6

\* A step of the running call leaves every other call's knowledge intact: no
\* other executing call works on its stream.
LEMMA OthersKeep ==
    ASSUME IInv, NEW c \in Calls, Continued(c),
           pc[c] \in Executing, pc'[c] \in Executing,
           UNCHANGED <<inflight, request>>,
           \A k \in Keys \ {request[c].key} :
              log'[k] = log[k] /\ effects'[k] = effects[k],
           Position(c)'
    PROVE  Exclusive' /\ (\A d \in Calls : Position(d)')
<1>1. Exclusive'
  BY DEF IInv, Exclusive, Continued
<1>2. ASSUME NEW d \in Calls, d # c PROVE Position(d)'
  <2>1. pc'[d] = pc[d] /\ frame'[d] = frame[d] /\ request' = request
    BY <1>2 DEF Continued
  <2>2. CASE pc[d] \in Executing
    <3>1. request[d].key # request[c].key
      BY <1>2, <2>2 DEF IInv, Exclusive
    <3>2. request[d].key \in Keys
      BY <2>2 DEF IInv, TypeOK, Requests, Executing
    <3>3. log'[request[d].key] = log[request[d].key]
          /\ effects'[request[d].key] = effects[request[d].key]
      BY <3>1, <3>2
    <3>4. QED  BY <2>1, <3>3 DEF IInv, Position, streamOf
  <2>3. CASE pc[d] \notin Executing
    BY <2>1, <2>3 DEF Position, Executing
  <2>4. QED  BY <2>2, <2>3
<1>3. QED  BY <1>1, <1>2

\* The invariant holds initially.
LEMMA InitInv == Init => IInv
<1>1. SUFFICES ASSUME Init PROVE IInv
  OBVIOUS
<1>2. TypeOK
  BY <1>1, InitType
<1>3. Exclusive /\ (\A c \in Calls : Position(c))
  BY <1>1 DEF Init, Exclusive, Position, Executing
<1>4. Logged /\ AtMostOnce
  BY <1>1 DEF Init, Logged, AtMostOnce, Has
<1>5. QED  BY <1>2, <1>3, <1>4 DEF IInv

\* The steps that touch neither the log nor the world.
LEMMA QuietInv ==
    ASSUME IInv, NEW c \in Calls,
           Read(c) \/ Decide(c) \/ ReadTail(c) \/ Observe(c) \/ Fail(c)
    PROVE  IInv'
<1>1. TypeOK /\ Position(c) /\ Logged /\ AtMostOnce
  BY DEF IInv
<1>2. /\ Continued(c) /\ pc[c] \in Executing /\ TypeOK'
      /\ UNCHANGED <<log, inflight, effects, request, waitsFor>>
  BY <1>1, QuietType
<1>3. streamOf(c)' = streamOf(c) /\ request[c].key \in Keys
  BY <1>1, <1>2 DEF streamOf, TypeOK, Requests, Executing
<1>4. Has(streamOf(c), "started") => Has(streamOf(c), "requested")
  BY <1>1, <1>3 DEF Logged, streamOf
<1>5. pc'[c] \in Executing /\ Position(c)'
  <2>1. CASE Read(c)
    BY <1>1, <1>3, <1>4, <2>1, ReadContinues DEF Position, Executing
  <2>2. CASE Decide(c)
    BY <1>1, <1>3, <2>2, DecideContinues DEF Position, Executing, Verdicts
  <2>3. CASE ReadTail(c)
    BY <1>1, <1>3, <2>3, ReadTailContinues DEF Position, Executing
  <2>4. CASE Observe(c)
    BY <1>1, <1>3, <1>4, <2>4, ObserveContinues DEF Position, Executing
  <2>5. CASE Fail(c)
    BY <1>1, <1>3, <1>4, <2>5, FailContinues, SMTT(30) DEF Position, Executing
  <2>6. QED  BY <2>1, <2>2, <2>3, <2>4, <2>5
<1>6. Exclusive' /\ (\A d \in Calls : Position(d)')
  BY <1>2, <1>5, OthersKeep
<1>7. Logged' /\ AtMostOnce'
  BY <1>1, <1>2 DEF Logged, AtMostOnce
<1>8. QED  BY <1>2, <1>6, <1>7 DEF IInv

\* The write of the authorization is what opens the way to the sandbox, and it
\* is stored only while nothing was started.
LEMMA WriteInv == ASSUME IInv, NEW c \in Calls, Write(c) PROVE IInv'
<1> DEFINE k == request[c].key
           batch == frame[c].pending
<1>1. TypeOK /\ Position(c) /\ Logged /\ AtMostOnce
  BY DEF IInv
<1>2. Continued(c) /\ pc[c] = "write"
  BY <1>1, WriteContinues
<1>3. UNCHANGED <<inflight, effects, request, waitsFor>>
  BY DEF Write
<1>4. k \in Keys /\ batch \in Batches
  BY <1>1, <1>2 DEF TypeOK, Requests
<1>5. /\ \A j \in Keys \ {k} : log'[j] = log[j]
      /\ streamOf(c) = log[k] /\ streamOf(c)' = log'[k]
  BY <1>1, <1>3, WriteContinues DEF TypeOK, streamOf
<1>6. CASE /\ UNCHANGED log
           /\ \/ pc'[c] = "return"
              \/ /\ pc'[c] = "tail" /\ frame'[c].pending = <<"failed">>
                 /\ batch = <<"completed">>
  <2>1. pc'[c] \in Executing /\ Position(c)'
    BY <1>1, <1>2, <1>3, <1>5, <1>6 DEF Position, Executing
  <2>2. Exclusive' /\ (\A d \in Calls : Position(d)')
    BY <1>2, <1>3, <1>5, <2>1, OthersKeep DEF Executing
  <2>3. Logged' /\ AtMostOnce'
    BY <1>1, <1>3, <1>6 DEF Logged, AtMostOnce
  <2>4. QED  BY <1>1, <2>2, <2>3, WriteType DEF IInv
<1>7. CASE /\ ~ Conflicts(streamOf(c), BatchEvents(c, batch), frame[c].expected)
           /\ log' = [log EXCEPT ![k] = Appended(streamOf(c), BatchEvents(c, batch),
                                                 frame[c].expected)]
           /\ \/ pc'[c] = "return"
              \/ pc'[c] = "decide" /\ batch = <<"requested">>
              \/ /\ pc'[c] = "tail" /\ frame'[c].pending \in Verdicts
                 /\ batch = <<"permission_snapshot">>
              \/ pc'[c] = "run" /\ batch = <<"authorized", "started">>
  <2>1. \A type : Has(log'[k], type) <=>
           (Has(log[k], type) \/ \E i \in DOMAIN batch : batch[i] = type)
    BY <1>1, <1>2, <1>5, <1>7, WriteStores, ZenonT(60)
  <2>2. /\ Has(log'[k], "requested") <=> (Has(log[k], "requested") \/ batch = <<"requested">>)
        /\ Has(log'[k], "started") <=>
              (Has(log[k], "started") \/ batch = <<"authorized", "started">>)
    BY <1>4, <2>1 DEF Batches
  <2>3. /\ batch # <<"requested">> => Has(log[k], "requested")
        /\ batch \notin {<<"completed">>, <<"failed">>} => ~ Has(log[k], "started")
    BY <1>1, <1>2, <1>5 DEF Position
  <2>4. ~ Has(log[k], "started") => effects[k] = {}
    BY <1>1, <1>4 DEF Logged
  <2>5. pc'[c] \in Executing /\ Position(c)'
    BY <1>3, <1>5, <1>7, <2>2, <2>3, <2>4 DEF Position, Executing, Verdicts
  <2>6. Exclusive' /\ (\A d \in Calls : Position(d)')
    BY <1>2, <1>3, <1>5, <2>5, OthersKeep DEF Executing
  <2>7. Logged'
    BY <1>1, <1>3, <1>5, <2>2, <2>3 DEF Logged
  <2>8. AtMostOnce'
    BY <1>1, <1>3 DEF AtMostOnce
  <2>9. QED  BY <1>1, <2>6, <2>7, <2>8, WriteType DEF IInv
<1>8. QED  BY <1>1, <1>6, <1>7, WriteContinues

\* The sandbox runs: its key was untouched until now.
LEMMA ExecuteInv == ASSUME IInv, NEW c \in Calls, Execute(c) PROVE IInv'
<1> DEFINE k == request[c].key
<1>1. TypeOK /\ Position(c) /\ Logged /\ AtMostOnce
  BY DEF IInv
<1>2. Continued(c) /\ pc[c] = "run" /\ pc'[c] = "observe"
  BY <1>1, ExecuteContinues
<1>3. /\ UNCHANGED <<log, inflight, request, waitsFor>>
      /\ effects' = [effects EXCEPT ![k] = @ \union {c}]
  BY DEF Execute
<1>4. k \in Keys
  BY <1>1, <1>2 DEF TypeOK, Requests
<1>5. effects[k] = {} /\ Has(log[k], "started")
  BY <1>1, <1>2 DEF Position, streamOf
<1>6. effects'[k] = {c} /\ (\A j \in Keys \ {k} : effects'[j] = effects[j])
  BY <1>1, <1>3, <1>4, <1>5 DEF TypeOK
<1>7. Position(c)'
  BY <1>2, <1>3, <1>5 DEF Position, streamOf
<1>8. Exclusive' /\ (\A d \in Calls : Position(d)')
  BY <1>2, <1>3, <1>6, <1>7, OthersKeep DEF Executing
<1>9. Logged' /\ AtMostOnce'
  BY <1>1, <1>3, <1>5, <1>6 DEF Logged, AtMostOnce
<1>10. QED  BY <1>1, <1>8, <1>9, ExecuteType DEF IInv

\* A call is made: it is not running yet, and knows nothing.
LEMMA CallInv == ASSUME IInv, NEW c \in Calls, Call(c) PROVE IInv'
<1>1. TypeOK /\ TypeOK'
  BY CallType DEF IInv
<1>2. /\ pc[c] = "idle" /\ pc' = [pc EXCEPT ![c] = "entry"]
      /\ \A d \in Calls \ {c} : request'[d] = request[d]
      /\ UNCHANGED <<log, inflight, effects, waitsFor, frame, outcome>>
  BY <1>1 DEF Call, TypeOK
<1>3. \A d \in Calls \ {c} : pc'[d] = pc[d]
  BY <1>1, <1>2 DEF TypeOK
<1>4. pc'[c] = "entry"
  BY <1>1, <1>2 DEF TypeOK
<1>5. Exclusive'
  BY <1>2, <1>3, <1>4 DEF IInv, Exclusive, Executing
<1>6. \A d \in Calls : Position(d)'
  BY <1>2, <1>3, <1>4 DEF IInv, Position, streamOf
<1>7. Logged' /\ AtMostOnce'
  BY <1>2 DEF IInv, Logged, AtMostOnce
<1>8. QED  BY <1>1, <1>5, <1>6, <1>7 DEF IInv

\* A call enters: it takes its key's free entry, or waits.
LEMMA EnterInv == ASSUME IInv, NEW c \in Calls, Enter(c) PROVE IInv'
<1> DEFINE k == request[c].key
<1>1. TypeOK /\ TypeOK'
  BY EnterType DEF IInv
<1>2. /\ pc[c] = "entry"
      /\ UNCHANGED <<log, effects, request, frame, outcome>>
      /\ \/ /\ inflight[k] = NoCall
            /\ inflight' = [inflight EXCEPT ![k] = c]
            /\ pc' = [pc EXCEPT ![c] = "read"]
         \/ UNCHANGED inflight /\ pc' = [pc EXCEPT ![c] = "waiting"]
  BY DEF Enter
<1>3. k \in Keys
  BY <1>1, <1>2 DEF TypeOK, Requests
<1>4. /\ \A d \in Calls \ {c} : pc'[d] = pc[d]
      /\ pc'[c] \in {"read", "waiting"}
  BY <1>1, <1>2 DEF TypeOK
<1>5. Exclusive'
  <2>1. CASE inflight[k] = NoCall /\ inflight' = [inflight EXCEPT ![k] = c]
    <3>1. \A d \in Calls : pc[d] \in Executing => request[d].key # k
      BY <2>1, NoCallAssumption DEF IInv, Exclusive
    <3>2. /\ inflight'[k] = c
          /\ \A j \in Keys \ {k} : inflight'[j] = inflight[j]
      BY <1>1, <1>3, <2>1 DEF TypeOK
    <3>3. \A d \in Calls : pc[d] \in Executing => request[d].key \in Keys
      BY <1>1 DEF TypeOK, Requests, Executing
    <3>4. QED  BY <1>2, <1>4, <3>1, <3>2, <3>3 DEF IInv, Exclusive
  <2>2. CASE UNCHANGED inflight /\ pc' = [pc EXCEPT ![c] = "waiting"]
    <3>1. pc'[c] = "waiting"
      BY <1>1, <2>2 DEF TypeOK
    <3>2. QED  BY <1>2, <1>4, <2>2, <3>1 DEF IInv, Exclusive, Executing
  <2>3. QED  BY <1>2, <2>1, <2>2
<1>6. \A d \in Calls : Position(d)'
  BY <1>2, <1>4 DEF IInv, Position, streamOf
<1>7. Logged' /\ AtMostOnce'
  BY <1>2 DEF IInv, Logged, AtMostOnce
<1>8. QED  BY <1>1, <1>5, <1>6, <1>7 DEF IInv

\* A waiting call resumes: it is not running either way.
LEMMA WakeInv == ASSUME IInv, NEW c \in Calls, Wake(c) PROVE IInv'
<1>1. TypeOK /\ TypeOK'
  BY WakeType DEF IInv
<1>2. UNCHANGED <<log, inflight, effects, request, frame>>
  BY DEF Wake
<1>3. /\ \A d \in Calls \ {c} : pc'[d] = pc[d]
      /\ pc'[c] \in {"entry", "done"}
  BY <1>1 DEF TypeOK, Wake
<1>4. Exclusive'
  BY <1>2, <1>3 DEF IInv, Exclusive, Executing
<1>5. \A d \in Calls : Position(d)'
  BY <1>2, <1>3 DEF IInv, Position, streamOf
<1>6. Logged' /\ AtMostOnce'
  BY <1>2 DEF IInv, Logged, AtMostOnce
<1>7. QED  BY <1>1, <1>4, <1>5, <1>6 DEF IInv

\* The running call ends: it frees no entry but its own.
LEMMA ReturnInv == ASSUME IInv, NEW c \in Calls, Return(c) PROVE IInv'
<1>1. TypeOK /\ TypeOK'
  BY ReturnType DEF IInv
<1>2. /\ pc[c] = "return" /\ pc' = [pc EXCEPT ![c] = "done"]
      /\ UNCHANGED <<log, effects, request, waitsFor, frame>>
      /\ inflight' = [inflight EXCEPT ![request[c].key] = IF @ = c THEN NoCall ELSE @]
  BY DEF Return
<1>3. \A d \in Calls \ {c} : pc'[d] = pc[d]
  BY <1>1, <1>2 DEF TypeOK
<1>4. pc'[c] = "done"
  BY <1>1, <1>2 DEF TypeOK
<1>5. Exclusive'
  <2>1. ASSUME NEW d \in Calls, pc'[d] \in Executing
        PROVE  inflight'[request'[d].key] = d
    <3>1. d # c /\ inflight[request[d].key] = d /\ request[d].key \in Keys
      BY <1>1, <1>3, <1>4, <2>1 DEF IInv, Exclusive, TypeOK, Requests, Executing
    <3>2. QED  BY <1>1, <1>2, <3>1 DEF TypeOK
  <2>2. QED  BY <2>1 DEF Exclusive
<1>6. \A d \in Calls : Position(d)'
  BY <1>2, <1>3, <1>4 DEF IInv, Position, streamOf
<1>7. Logged' /\ AtMostOnce'
  BY <1>2 DEF IInv, Logged, AtMostOnce
<1>8. QED  BY <1>1, <1>5, <1>6, <1>7 DEF IInv

\* After a crash nobody runs; what is durable is what it was.
LEMMA CrashInv == ASSUME IInv, Crash PROVE IInv'
<1>1. TypeOK /\ TypeOK'
  BY CrashType DEF IInv
<1>2. \A c \in Calls : pc'[c] \in {"idle", "done", "lost"}
  BY <1>1 DEF Crash, TypeOK
<1>3. Exclusive' /\ (\A c \in Calls : Position(c)')
  BY <1>2 DEF Exclusive, Position, Executing
<1>4. Logged' /\ AtMostOnce'
  BY DEF Crash, IInv, Logged, AtMostOnce
<1>5. QED  BY <1>1, <1>3, <1>4 DEF IInv

\* IInv is inductive.
LEMMA NextInv == IInv /\ [Next]_vars => IInv'
<1>1. SUFFICES ASSUME IInv, [Next]_vars PROVE IInv'
  OBVIOUS
<1>2. ASSUME NEW c \in Calls, Call(c) \/ Step(c) \/ Fail(c) PROVE IInv'
  BY <1>1, <1>2, CallInv, EnterInv, WakeInv, QuietInv, WriteInv, ExecuteInv, ReturnInv
     DEF Step
<1>3. CASE UNCHANGED vars
  <2>1. TypeOK'
    BY <1>1, <1>3, NextType DEF IInv
  <2>2. QED  BY <1>1, <1>3, <2>1
             DEF vars, IInv, Exclusive, Position, streamOf, Logged, AtMostOnce
<1>4. QED  BY <1>1, <1>2, <1>3, CrashInv DEF Next

\* However calls race, fail, are retried or die with their process, the sandbox
\* performs the action of an idempotency key at most once (execute, #execute).
THEOREM PerformedAtMostOnce == Spec => []AtMostOnce
<1>1. IInv => AtMostOnce
  BY DEF IInv
<1>2. QED  BY <1>1, InitInv, NextInv, PTL DEF Spec

-----------------------------------------------------------------------------
(* Nobody waits for nothing *)

\* A step of a call that stays in #execute takes nothing from those behind it.
LEMMA ContinuedServes ==
    ASSUME TypeOK, WaitersAreServed, NEW c \in Calls, Continued(c),
           pc'[c] \in Executing, UNCHANGED <<inflight, request, waitsFor>>
    PROVE  WaitersAreServed'
<1>1. ASSUME NEW k \in Keys, inflight'[k] # NoCall
      PROVE  pc'[inflight'[k]] \in Executing /\ request'[inflight'[k]].key = k
  <2>1. inflight[k] \in Calls /\ inflight'[k] = inflight[k]
    BY <1>1 DEF TypeOK
  <2>2. QED  BY <1>1, <2>1 DEF WaitersAreServed, Continued
<1>2. ASSUME NEW d \in Calls, pc'[d] = "waiting"
      PROVE  pc'[waitsFor'[d]] \in Executing \union {"done"}
  <2>1. d # c /\ pc[d] = "waiting"
    BY <1>2 DEF Continued, Executing
  <2>2. waitsFor[d] \in Calls /\ waitsFor'[d] = waitsFor[d]
    BY <2>1 DEF TypeOK
  <2>3. QED  BY <2>1, <2>2 DEF WaitersAreServed, Continued
<1>3. QED  BY <1>1, <1>2 DEF WaitersAreServed

LEMMA StepServes ==
    ASSUME TypeOK, WaitersAreServed, NEW c \in Calls,
           \/ Read(c) \/ Decide(c) \/ ReadTail(c) \/ Write(c)
           \/ Execute(c) \/ Observe(c) \/ Fail(c)
    PROVE  WaitersAreServed'
<1>1. Continued(c) /\ pc'[c] \in Executing
  BY ReadContinues, DecideContinues, ReadTailContinues, WriteContinues,
     ExecuteContinues, ObserveContinues, FailContinues DEF Executing
<1>2. UNCHANGED <<inflight, request, waitsFor>>
  <2>1. CASE Read(c)      BY <2>1, Zenon DEF Read
  <2>2. CASE Decide(c)    BY <2>2, Zenon DEF Decide
  <2>3. CASE ReadTail(c)  BY <2>3, Zenon DEF ReadTail
  <2>4. CASE Write(c)     BY <2>4, Zenon DEF Write
  <2>5. CASE Execute(c)   BY <2>5, Zenon DEF Execute
  <2>6. CASE Observe(c)   BY <2>6, Zenon DEF Observe
  <2>7. CASE Fail(c)      BY <2>7, Zenon DEF Fail
  <2>8. QED  BY <2>1, <2>2, <2>3, <2>4, <2>5, <2>6, <2>7
<1>3. QED  BY <1>1, <1>2, ContinuedServes

LEMMA CallServes ==
    ASSUME TypeOK, WaitersAreServed, NEW c \in Calls, Call(c)
    PROVE  WaitersAreServed'
<1>1. /\ pc[c] = "idle" /\ pc' = [pc EXCEPT ![c] = "entry"]
      /\ \A d \in Calls \ {c} : pc'[d] = pc[d] /\ request'[d] = request[d]
      /\ UNCHANGED <<inflight, waitsFor>>
  BY DEF Call, TypeOK
<1>2. ASSUME NEW k \in Keys, inflight'[k] # NoCall
      PROVE  pc'[inflight'[k]] \in Executing /\ request'[inflight'[k]].key = k
  <2>1. inflight[k] \in Calls /\ inflight[k] # NoCall
    BY <1>1, <1>2 DEF TypeOK
  <2>2. inflight[k] # c
    BY <1>1, <2>1 DEF WaitersAreServed, Executing
  <2>3. QED  BY <1>1, <2>1, <2>2 DEF WaitersAreServed
<1>3. ASSUME NEW d \in Calls, pc'[d] = "waiting"
      PROVE  pc'[waitsFor'[d]] \in Executing \union {"done"}
  <2>1. d # c /\ pc[d] = "waiting" /\ waitsFor[d] \in Calls
    BY <1>1, <1>3 DEF TypeOK
  <2>2. waitsFor[d] # c
    BY <1>1, <2>1 DEF WaitersAreServed, Executing
  <2>3. QED  BY <1>1, <2>1, <2>2 DEF WaitersAreServed
<1>4. QED  BY <1>2, <1>3 DEF WaitersAreServed

\* Who finds an entry waits for a call that is in #execute.
LEMMA EnterServes ==
    ASSUME TypeOK, WaitersAreServed, NEW c \in Calls, Enter(c)
    PROVE  WaitersAreServed'
<1> DEFINE k == request[c].key
<1>1. pc[c] = "entry" /\ UNCHANGED request /\ k \in Keys
  BY DEF Enter, TypeOK, Requests
<1>2. /\ \A j \in Keys : inflight[j] # c
      /\ \A d \in Calls : pc[d] = "waiting" => waitsFor[d] # c /\ waitsFor[d] \in Calls
  <2>1. c # NoCall
    BY NoCallAssumption
  <2>2. \A d \in Calls : pc[d] = "waiting" => waitsFor[d] \in Calls
    BY DEF TypeOK
  <2>3. QED  BY <1>1, <2>1, <2>2 DEF WaitersAreServed, Executing
<1>3. \A j \in Keys : inflight[j] \in Calls \union {NoCall}
  BY DEF TypeOK
<1>4. CASE /\ inflight' = [inflight EXCEPT ![k] = c]
           /\ pc' = [pc EXCEPT ![c] = "read"]
           /\ UNCHANGED waitsFor
  <2>1. pc'[c] = "read" /\ \A d \in Calls \ {c} : pc'[d] = pc[d]
    BY <1>4 DEF TypeOK
  <2>2. inflight'[k] = c /\ \A j \in Keys \ {k} : inflight'[j] = inflight[j]
    BY <1>1, <1>4 DEF TypeOK
  <2>3. QED  BY <1>1, <1>2, <1>3, <1>4, <2>1, <2>2 DEF WaitersAreServed, Executing
<1>5. CASE /\ inflight[k] # NoCall
           /\ waitsFor' = [waitsFor EXCEPT ![c] = inflight[k]]
           /\ pc' = [pc EXCEPT ![c] = "waiting"]
           /\ UNCHANGED inflight
  <2>1. pc'[c] = "waiting" /\ \A d \in Calls \ {c} : pc'[d] = pc[d]
    BY <1>5 DEF TypeOK
  <2>2. waitsFor'[c] = inflight[k] /\ \A d \in Calls \ {c} : waitsFor'[d] = waitsFor[d]
    BY <1>5 DEF TypeOK
  <2>3. inflight[k] \in Calls \ {c} /\ pc[inflight[k]] \in Executing
    BY <1>1, <1>2, <1>3, <1>5 DEF WaitersAreServed
  <2>4. QED  BY <1>1, <1>2, <1>3, <1>5, <2>1, <2>2, <2>3 DEF WaitersAreServed
<1>6. QED  BY <1>4, <1>5 DEF Enter

LEMMA WakeServes ==
    ASSUME TypeOK, WaitersAreServed, NEW c \in Calls, Wake(c)
    PROVE  WaitersAreServed'
<1>1. /\ pc[c] = "waiting" /\ pc'[c] \in {"entry", "done"}
      /\ \A d \in Calls \ {c} : pc'[d] = pc[d] /\ waitsFor'[d] = waitsFor[d]
      /\ UNCHANGED <<inflight, request>>
  BY DEF Wake, TypeOK
<1>2. \A k \in Keys : inflight[k] \in (Calls \ {c}) \union {NoCall}
  BY <1>1, NoCallAssumption DEF WaitersAreServed, Executing, TypeOK
<1>3. \A d \in Calls : pc[d] = "waiting" => waitsFor[d] \in Calls \ {c}
  BY <1>1 DEF WaitersAreServed, Executing, TypeOK
<1>4. QED  BY <1>1, <1>2, <1>3 DEF WaitersAreServed

\* The running call ends and takes its entry off the map: it is its key's.
LEMMA ReturnServes ==
    ASSUME TypeOK, WaitersAreServed, NEW c \in Calls, Return(c)
    PROVE  WaitersAreServed'
<1> DEFINE k == request[c].key
<1>1. /\ pc[c] = "return" /\ pc'[c] = "done"
      /\ \A d \in Calls \ {c} : pc'[d] = pc[d]
      /\ inflight' = [inflight EXCEPT ![k] = IF @ = c THEN NoCall ELSE @]
      /\ UNCHANGED <<request, waitsFor>> /\ k \in Keys
  BY DEF Return, TypeOK, Requests
<1>2. ASSUME NEW j \in Keys, inflight'[j] # NoCall
      PROVE  pc'[inflight'[j]] \in Executing /\ request'[inflight'[j]].key = j
  <2>1. inflight'[j] = inflight[j] /\ inflight[j] \in Calls
    BY <1>1, <1>2 DEF TypeOK
  <2>2. inflight[j] # c
    BY <1>1, <1>2, <2>1, NoCallAssumption DEF WaitersAreServed, TypeOK
  <2>3. QED  BY <1>1, <1>2, <2>1, <2>2 DEF WaitersAreServed
<1>3. ASSUME NEW d \in Calls, pc'[d] = "waiting"
      PROVE  pc'[waitsFor'[d]] \in Executing \union {"done"}
  <2>1. pc[d] = "waiting" /\ waitsFor[d] \in Calls
    BY <1>1, <1>3 DEF TypeOK
  <2>2. QED  BY <1>1, <2>1 DEF WaitersAreServed
<1>4. QED  BY <1>2, <1>3 DEF WaitersAreServed

LEMMA CrashServes == ASSUME TypeOK, Crash PROVE WaitersAreServed'
<1>1. \A k \in Keys : inflight'[k] = NoCall
  BY DEF Crash
<1>2. \A c \in Calls : pc'[c] \in {"idle", "done", "lost"}
  BY DEF Crash, TypeOK
<1>3. QED  BY <1>1, <1>2 DEF WaitersAreServed

\* However calls race, throw and die, nobody waits behind an entry or a promise
\* that no running call will settle, for any number of calls (execute).
THEOREM NobodyWaitsForNothing == Spec => []WaitersAreServed
<1> DEFINE Inv == TypeOK /\ WaitersAreServed
<1>1. Init => Inv
  BY InitType DEF Init, WaitersAreServed
<1>2. Inv /\ [Next]_vars => Inv'
  <2> SUFFICES ASSUME Inv, [Next]_vars PROVE WaitersAreServed'
    BY NextType
  <2>1. ASSUME NEW c \in Calls, Call(c) \/ Step(c) \/ Fail(c) PROVE WaitersAreServed'
    BY <2>1, CallServes, EnterServes, WakeServes, StepServes, ReturnServes DEF Step
  <2>2. CASE UNCHANGED vars
    BY <2>2 DEF vars, WaitersAreServed
  <2>3. QED  BY <2>1, <2>2, CrashServes DEF Next
<1>3. QED  BY <1>1, <1>2, PTL DEF Spec

-----------------------------------------------------------------------------
(* Authorized effects *)

\* An append leaves what the stream held and the batch, nothing else.
LEMMA EventAppended ==
    ASSUME NEW s \in Seq(Events), NEW e \in Seq(Events), NEW n \in Nat,
           NEW i \in DOMAIN Appended(s, e, n)
    PROVE  \/ i \in DOMAIN s /\ Appended(s, e, n)[i] = s[i]
           \/ \E j \in DOMAIN e : Appended(s, e, n)[i] = e[j]
<1>1. CASE Appended(s, e, n) = s
  BY <1>1
<1>2. CASE Appended(s, e, n) = s \o e
  <2>1. CASE i \in DOMAIN s
    BY <1>2, <2>1
  <2>2. CASE i \notin DOMAIN s
    <3>1. /\ i - Len(s) \in DOMAIN e
          /\ (s \o e)[i] = e[i - Len(s)]
      BY <1>2, <2>2
    <3>2. QED  BY <1>2, <3>1
  <2>3. QED  BY <2>1, <2>2
<1>3. QED  BY <1>1, <1>2 DEF Appended

\* The events of a stream after a write: those it held, and the writer's own.
LEMMA WriteEvents ==
    ASSUME TypeOK, NEW c \in Calls, pc[c] = "write",
           log' = [log EXCEPT ![request[c].key] =
                      Appended(streamOf(c), BatchEvents(c, frame[c].pending),
                               frame[c].expected)],
           NEW i \in DOMAIN log'[request[c].key]
    PROVE  LET k == request[c].key IN
           \/ i \in DOMAIN log[k] /\ log'[k][i] = log[k][i]
           \/ /\ log'[k][i].call = c /\ log'[k][i].digest = request[c].digest
              /\ \E j \in DOMAIN frame[c].pending : log'[k][i].type = frame[c].pending[j]
<1> DEFINE k == request[c].key
           events == BatchEvents(c, frame[c].pending)
           next == frame[c].expected
<1>1. next \in Nat
  BY DEF TypeOK, Frames
<1>2. k \in Keys /\ streamOf(c) \in Seq(Events) /\ events \in Seq(Events)
  BY <1>1, AppendedType
<1>3. log'[k] = Appended(log[k], events, next) /\ streamOf(c) = log[k]
  BY <1>2 DEF TypeOK, streamOf
<1>4. ASSUME NEW j \in DOMAIN events
      PROVE  /\ j \in DOMAIN frame[c].pending
             /\ events[j] = [type |-> frame[c].pending[j], call |-> c,
                             digest |-> request[c].digest]
  BY <1>4 DEF BatchEvents
<1> HIDE DEF events, next
<1>5. \/ i \in DOMAIN log[k] /\ log'[k][i] = log[k][i]
      \/ \E j \in DOMAIN events : log'[k][i] = events[j]
  BY <1>1, <1>2, <1>3, EventAppended
<1>6. QED  BY <1>4, <1>5

\* The grant a call carries to an append is the one its frame had.
LEMMA ToAppendKeeps ==
    ASSUME TypeOK, NEW c \in Calls, NEW f \in Frames, NEW batch \in Batches,
           ToAppend(c, f, batch)
    PROVE  /\ pc'[c] = "tail" /\ frame'[c].pending = batch
           /\ frame'[c].decision = f.decision /\ frame'[c].enforced = f.enforced
<1>1. frame' = [frame EXCEPT ![c] = [f EXCEPT !.pending = batch]]
  BY DEF ToAppend, GoTo
<1>2. frame'[c] = [f EXCEPT !.pending = batch]
  BY <1>1 DEF TypeOK
<1>3. QED  BY <1>2, ToAppendContinues DEF Frames

LEMMA GateGrants ==
    ASSUME TypeOK, NEW c \in Calls, NEW f \in Frames, Gate(c, f), UNCHANGED request
    PROVE  Appending(c, <<"authorized", "started">>)' => Granted(c)'
<1>1. Verdicts \subseteq Batches
  BY DEF Verdicts, Batches
<1>2. CASE ToReturn(c, Outcome("approval_required"))
  <2>1. Outcome("approval_required") \in Outcomes
    BY OutcomeType DEF OutcomeKinds
  <2>2. QED  BY <1>2, <2>1, ToReturnContinues DEF Appending
<1>3. CASE \E batch \in Verdicts \ {<<"authorized", "started">>} : ToAppend(c, f, batch)
  BY <1>1, <1>3, ToAppendKeeps DEF Appending
<1>4. CASE /\ f.decision = "allow" \/ (f.decision = "ask" /\ request[c].approval = "approved")
           /\ request[c].approval # "rejected" /\ f.enforced
           /\ ToAppend(c, f, <<"authorized", "started">>)
  <2>1. frame'[c].decision = f.decision /\ frame'[c].enforced = f.enforced
    BY <1>1, <1>4, ToAppendKeeps DEF Verdicts
  <2>2. QED  BY <1>4, <2>1 DEF Granted
<1>5. /\ <<"denied">> \in Verdicts \ {<<"authorized", "started">>}
      /\ <<"approval_required">> \in Verdicts \ {<<"authorized", "started">>}
  BY DEF Verdicts
<1>6. QED  BY <1>2, <1>3, <1>4, <1>5 DEF Gate

LEMMA DecideGrants ==
    ASSUME TypeOK, NEW c \in Calls, Decide(c)
    PROVE  Appending(c, <<"authorized", "started">>)' => Granted(c)'
<1>1. PICK rules \in [Layers -> SUBSET Decisions], supported \in BOOLEAN :
         LET f == [frame[c] EXCEPT !.decision = Policy(rules), !.enforced = supported] IN
         \/ Gate(c, f)
         \/ ToAppend(c, f, <<"permission_snapshot">>)
  BY DEF Decide
<1> DEFINE f == [frame[c] EXCEPT !.decision = Policy(rules), !.enforced = supported]
<1>2. f \in Frames /\ <<"permission_snapshot">> \in Batches
  BY PolicyType, FrameType DEF Batches
<1>3. UNCHANGED request /\ (Gate(c, f) \/ ToAppend(c, f, <<"permission_snapshot">>))
  BY <1>1 DEF Decide
<1> HIDE DEF f
<1>4. QED  BY <1>2, <1>3, GateGrants, ToAppendKeeps DEF Appending

\* A successful write leads on with the grant it had, or with a new one.
LEMMA WriteGrants ==
    ASSUME TypeOK, NEW c \in Calls, Write(c)
    PROVE  /\ Appending(c, <<"authorized", "started">>)' => Granted(c)'
           /\ pc'[c] = "run" /\ Granted(c) => Granted(c)'
<1> DEFINE f == [frame[c] EXCEPT !.expected = 0]
<1>1. /\ f \in Frames /\ f.pending = frame[c].pending
      /\ f.decision = frame[c].decision /\ f.enforced = frame[c].enforced
  BY FrameType DEF TypeOK, Frames
<1>2. UNCHANGED request /\ (Throws(c) \/ AfterAppend(c, f))
  BY DEF Write
<1> HIDE DEF f
<1>3. CASE Throws(c)
  BY <1>3, ThrowsContinues DEF Appending
<1>4. CASE f.pending = <<"permission_snapshot">> /\ Gate(c, f)
  BY <1>1, <1>2, <1>4, GateGrants, GateContinues
<1>5. CASE f.pending = <<"authorized", "started">> /\ GoTo(c, f, "run")
  <2>1. pc'[c] = "run" /\ frame'[c] = f
    BY <1>1, <1>5, GoToContinues DEF Locations, Executing
  <2>2. QED  BY <1>1, <1>2, <2>1 DEF Granted, Appending
<1>6. CASE AfterAppend(c, f) /\ f.pending \notin {<<"permission_snapshot">>,
                                                  <<"authorized", "started">>}
  BY <1>1, <1>6, AfterAppendContinues DEF Appending
<1>7. CASE AfterAppend(c, f) /\ f.pending \in {<<"permission_snapshot">>,
                                               <<"authorized", "started">>}
  BY <1>4, <1>5, <1>7 DEF AfterAppend
<1>8. QED  BY <1>2, <1>3, <1>6, <1>7

\* The other executing calls work on other streams.
LEMMA OthersReady ==
    ASSUME AInv, NEW c \in Calls, Continued(c), pc[c] \in Executing,
           UNCHANGED request,
           \A k \in Keys \ {request[c].key} : log'[k] = log[k],
           NEW d \in Calls \ {c}
    PROVE  Ready(d)'
<1>1. pc'[d] = pc[d] /\ frame'[d] = frame[d] /\ request' = request
  BY DEF Continued
<1>2. CASE pc[d] \in Executing
  <2>1. request[d].key # request[c].key /\ request[d].key \in Keys
    BY <1>2 DEF AInv, IInv, Exclusive, TypeOK, Requests, Executing
  <2>2. streamOf(d)' = streamOf(d)
    BY <1>1, <2>1 DEF streamOf
  <2>3. Ready(d)
    BY DEF AInv
  <2>4. QED  BY <1>1, <2>2, <2>3
             DEF Ready, Confirmed, Appending, SameRequest, StartedByItself, Granted
<1>3. CASE pc[d] \notin Executing
  BY <1>1, <1>3 DEF Ready, Confirmed, Appending, Executing
<1>4. QED  BY <1>2, <1>3

\* A stream with one request holds the digest that Find reports.
LEMMA FoundSame ==
    ASSUME TypeOK, OneRequest, NEW c \in Calls, request[c].key \in Keys,
           Has(streamOf(c), "requested"),
           Find(streamOf(c), "requested").digest = request[c].digest
    PROVE  SameRequest(c)
<1>1. PICK i \in DOMAIN streamOf(c) :
         streamOf(c)[i].type = "requested" /\ streamOf(c)[i].digest = request[c].digest
  BY DEF Has, Find
<1>2. QED  BY <1>1 DEF OneRequest, SameRequest, streamOf

LEMMA QuietReady ==
    ASSUME AInv, NEW c \in Calls,
           Read(c) \/ Decide(c) \/ ReadTail(c) \/ Observe(c) \/ Fail(c)
    PROVE  AInv'
<1>1. IInv /\ TypeOK /\ OneRequest /\ Ready(c)
  BY DEF AInv, IInv
<1>2. /\ IInv' /\ Continued(c) /\ pc[c] \in Executing
      /\ UNCHANGED <<log, inflight, effects, request, waitsFor>>
  BY <1>1, QuietInv, QuietType
<1>3. OneRequest'
  BY <1>1, <1>2 DEF OneRequest
<1>4. /\ streamOf(c)' = streamOf(c) /\ request[c].key \in Keys
      /\ SameRequest(c) => SameRequest(c)'
  BY <1>1, <1>2 DEF streamOf, SameRequest, TypeOK, Requests, Executing
<1>5. Ready(c)'
  <2>1. CASE Read(c)
    <3>1. pc'[c] = "decide" => Find(streamOf(c), "requested").digest = request[c].digest
      <4> DEFINE f == [frame[c] EXCEPT !.existing = streamOf(c)]
      <4>1. f \in Frames /\ f.existing = streamOf(c)
        BY <2>1, <1>1, FrameType, ZenonT(60) DEF Read, TypeOK, Frames
      <4>2. \/ ToAppend(c, f, <<"requested">>)
            \/ ToReturn(c, Outcome("rejected"))
            \/ Find(f.existing, "requested").digest = request[c].digest
        BY <2>1 DEF Read
      <4>3. <<"requested">> \in Batches /\ Outcome("rejected") \in Outcomes
        BY OutcomeType DEF Batches, OutcomeKinds
      <4> HIDE DEF f
      <4>4. QED  BY <1>1, <4>1, <4>2, <4>3, ToAppendContinues, ToReturnContinues
    <3>2. pc'[c] = "decide" => SameRequest(c)
      BY <1>1, <1>4, <2>1, <3>1, ReadContinues, FoundSame
    <3>3. QED  BY <1>1, <1>4, <2>1, <3>2, ReadContinues DEF Ready, Confirmed, Appending
  <2>2. CASE Decide(c)
    <3>1. SameRequest(c)
      BY <1>1, <2>2, DecideContinues DEF Ready, Confirmed
    <3>2. /\ pc'[c] \in {"return", "tail"}
          /\ pc'[c] = "tail" => frame'[c].pending # <<"requested">>
      BY <1>1, <2>2, DecideContinues DEF Verdicts
    <3>3. QED  BY <1>1, <1>4, <2>2, <3>1, <3>2, DecideGrants DEF Ready, Appending
  <2>3. CASE ReadTail(c)
    <3>1. /\ pc[c] = "tail" /\ pc'[c] = "write"
          /\ frame'[c].pending = frame[c].pending
      BY <1>1, <2>3, ReadTailContinues
    <3>2. frame'[c].decision = frame[c].decision /\ frame'[c].enforced = frame[c].enforced
      BY <1>1, <2>3 DEF ReadTail, GoTo, TypeOK, Frames
    <3>3. QED  BY <1>1, <1>2, <1>4, <3>1, <3>2 DEF Ready, Confirmed, Appending, Granted
  <2>4. CASE Observe(c)
    BY <1>1, <2>4, ObserveContinues DEF Ready, Confirmed, Appending
  <2>5. CASE Fail(c)
    BY <1>1, <2>5, FailContinues DEF Ready, Confirmed, Appending
  <2>6. QED  BY <2>1, <2>2, <2>3, <2>4, <2>5
<1>6. \A d \in Calls : Ready(d)'
  BY <1>2, <1>5, OthersReady
<1>7. QED  BY <1>2, <1>3, <1>6 DEF AInv

\* The one write that opens a stream names its request; no other names one, and
\* only the authorization names a start, while none is there.
LEMMA WriteReady == ASSUME AInv, NEW c \in Calls, Write(c) PROVE AInv'
<1> DEFINE k == request[c].key
           batch == frame[c].pending
<1>1. IInv /\ TypeOK /\ Position(c) /\ OneRequest /\ Ready(c)
  BY DEF AInv, IInv
<1>2. IInv' /\ Continued(c) /\ pc[c] = "write" /\ UNCHANGED request
  BY <1>1, WriteInv, WriteContinues DEF Write
<1>3. /\ k \in Keys /\ batch \in Batches
      /\ streamOf(c) = log[k] /\ streamOf(c)' = log'[k]
  BY <1>1, <1>2 DEF TypeOK, Requests, streamOf
<1>4. \A j \in Keys \ {k} : log'[j] = log[j]
  BY <1>1, <1>3, WriteContinues DEF TypeOK
<1>5. OneRequest' /\ Ready(c)'
  <2>1. CASE /\ UNCHANGED log
             /\ \/ pc'[c] = "return"
                \/ pc'[c] = "tail" /\ frame'[c].pending = <<"failed">>
    BY <1>1, <2>1 DEF OneRequest, Ready, Confirmed, Appending
  <2>2. CASE /\ log' = [log EXCEPT ![k] = Appended(streamOf(c), BatchEvents(c, batch),
                                                   frame[c].expected)]
             /\ \/ pc'[c] = "return"
                \/ pc'[c] = "decide" /\ batch = <<"requested">>
                \/ /\ pc'[c] = "tail" /\ frame'[c].pending \in Verdicts
                   /\ batch = <<"permission_snapshot">>
                \/ pc'[c] = "run" /\ batch = <<"authorized", "started">>
    <3>1. \A i \in DOMAIN log'[k] :
             \/ i \in DOMAIN log[k] /\ log'[k][i] = log[k][i]
             \/ /\ log'[k][i].call = c /\ log'[k][i].digest = request[c].digest
                /\ \E j \in DOMAIN batch : log'[k][i].type = batch[j]
      BY <1>1, <1>2, <2>2, WriteEvents
    <3>2. /\ \A j \in DOMAIN batch : batch[j] = "requested" => batch = <<"requested">>
          /\ \A j \in DOMAIN batch :
                batch[j] = "started" => batch = <<"authorized", "started">>
      BY <1>3 DEF Batches
    <3>3. batch = <<"requested">> => ~ Has(log[k], "requested")
      BY <1>1, <1>2, <1>3 DEF Ready, Appending
    <3>4. batch = <<"authorized", "started">> => ~ Has(log[k], "started")
      BY <1>1, <1>2, <1>3 DEF Position
    <3>5. \A i \in DOMAIN log'[k] : log'[k][i].type = "requested" =>
             \/ i \in DOMAIN log[k] /\ log'[k][i] = log[k][i]
                /\ batch # <<"requested">>
             \/ log'[k][i].digest = request[c].digest /\ batch = <<"requested">>
      BY <3>1, <3>2, <3>3 DEF Has
    <3>6. OneRequest'
      BY <1>1, <1>3, <1>4, <3>5 DEF OneRequest
    <3>7. batch \in {<<"permission_snapshot">>, <<"authorized", "started">>}
             => SameRequest(c)
      BY <1>1, <1>2 DEF Ready, Confirmed, Appending
    <3>8. batch \in {<<"requested">>, <<"permission_snapshot">>,
                     <<"authorized", "started">>} => SameRequest(c)'
      BY <1>2, <1>3, <3>5, <3>7 DEF SameRequest
    <3>9. batch = <<"authorized", "started">> => StartedByItself(c)'
      BY <1>3, <3>1, <3>4 DEF StartedByItself, Has
    <3>10. batch = <<"authorized", "started">> => Granted(c)
      BY <1>1, <1>2 DEF Ready, Appending
    <3>11. /\ Appending(c, <<"authorized", "started">>)' => Granted(c)'
           /\ pc'[c] = "run" /\ Granted(c) => Granted(c)'
      BY <1>1, WriteGrants
    <3>12. ~ Appending(c, <<"requested">>)'
      BY <2>2 DEF Appending, Verdicts
    <3>13. Confirmed(c)' => SameRequest(c)'
      BY <2>2, <3>8 DEF Confirmed, Appending
    <3>14. QED  BY <2>2, <3>6, <3>9, <3>10, <3>11, <3>12, <3>13 DEF Ready
  <2>3. QED  BY <1>1, <2>1, <2>2, WriteContinues
<1>6. \A d \in Calls : Ready(d)'
  BY <1>2, <1>4, <1>5, OthersReady DEF Executing
<1>7. QED  BY <1>2, <1>5, <1>6 DEF AInv

\* The steps that leave the log alone and the call outside #execute, or past its
\* effect, have nothing to be ready for.
LEMMA IdleReady ==
    ASSUME AInv, IInv', NEW c \in Calls,
           pc'[c] \notin {"decide", "run", "tail", "write"},
           \A d \in Calls \ {c} :
              pc'[d] = pc[d] /\ frame'[d] = frame[d] /\ request'[d] = request[d],
           UNCHANGED log
    PROVE  AInv'
<1>1. OneRequest'
  BY DEF AInv, OneRequest
<1>2. Ready(c)'
  BY DEF Ready, Confirmed, Appending
<1>3. ASSUME NEW d \in Calls \ {c} PROVE Ready(d)'
  <2>1. streamOf(d)' = streamOf(d) /\ Ready(d)
    BY <1>3 DEF streamOf, AInv
  <2>2. QED  BY <1>3, <2>1
             DEF Ready, Confirmed, Appending, SameRequest, StartedByItself, Granted
<1>4. QED  BY <1>1, <1>2, <1>3 DEF AInv

LEMMA OtherReady ==
    ASSUME AInv, NEW c \in Calls,
           Call(c) \/ Enter(c) \/ Wake(c) \/ Execute(c) \/ Return(c)
    PROVE  AInv'
<1>1. IInv /\ TypeOK
  BY DEF AInv, IInv
<1>2. IInv' /\ UNCHANGED log
  BY <1>1, CallInv, EnterInv, WakeInv, ExecuteInv, ReturnInv
     DEF Call, Enter, Wake, Execute, Return
<1>3. CASE Execute(c)
  <2>1. UNCHANGED request
    BY <1>3 DEF Execute
  <2>2. QED  BY <1>1, <1>2, <1>3, <2>1, ExecuteContinues, IdleReady DEF Continued
<1>4. CASE Call(c) \/ Enter(c) \/ Wake(c) \/ Return(c)
  <2>1. /\ pc'[c] \in {"entry", "read", "waiting", "done"}
        /\ \A d \in Calls \ {c} : pc'[d] = pc[d] /\ request'[d] = request[d]
        /\ UNCHANGED frame
    BY <1>1, <1>4 DEF Call, Enter, Wake, Return, TypeOK
  <2>2. QED  BY <1>2, <2>1, IdleReady
<1>5. QED  BY <1>3, <1>4

LEMMA CrashReady == ASSUME AInv, Crash PROVE AInv'
<1>1. IInv' /\ UNCHANGED log
  BY CrashInv DEF AInv, Crash
<1>2. \A c \in Calls : pc'[c] \in {"idle", "done", "lost"}
  BY DEF Crash, AInv, IInv, TypeOK
<1>3. OneRequest' /\ \A c \in Calls : Ready(c)'
  BY <1>1, <1>2 DEF AInv, OneRequest, Ready, Confirmed, Appending
<1>4. QED  BY <1>1, <1>3 DEF AInv

LEMMA NextReady == AInv /\ [Next]_vars => AInv'
<1>1. SUFFICES ASSUME AInv, [Next]_vars PROVE AInv'
  OBVIOUS
<1>2. ASSUME NEW c \in Calls, Call(c) \/ Step(c) \/ Fail(c) PROVE AInv'
  BY <1>1, <1>2, QuietReady, WriteReady, OtherReady DEF Step
<1>3. CASE UNCHANGED vars
  <2>1. IInv'
    BY <1>1, <1>3, NextInv DEF AInv
  <2>2. QED  BY <1>1, <1>3, <2>1
             DEF vars, AInv, OneRequest, Ready, Confirmed, Appending, SameRequest,
                 StartedByItself, Granted, streamOf
<1>4. QED  BY <1>1, <1>2, <1>3, CrashReady DEF Next

LEMMA InitReady == Init => AInv
<1>1. SUFFICES ASSUME Init PROVE AInv
  OBVIOUS
<1>2. IInv /\ TypeOK
  BY <1>1, InitInv DEF IInv
<1>3. OneRequest /\ \A c \in Calls : Ready(c)
  BY <1>1 DEF Init, OneRequest, Ready, Confirmed, Appending
<1>4. QED  BY <1>2, <1>3 DEF AInv

\* A call at the sandbox is authorized, and the stream says so.
LEMMA RunAuthorized ==
    ASSUME AInv, NEW c \in Calls, pc[c] = "run" PROVE Authorized(c)
<1>1. TypeOK /\ Ready(c) /\ Position(c) /\ Logged
  BY DEF AInv, IInv
<1>2. request[c].key \in Keys
  BY <1>1 DEF TypeOK, Requests
<1>3. Has(streamOf(c), "started") /\ Has(streamOf(c), "requested")
  BY <1>1, <1>2 DEF Position, Logged, streamOf
<1>4. Granted(c) /\ SameRequest(c) /\ StartedByItself(c)
  BY <1>1 DEF Ready, Confirmed
<1>5. Find(streamOf(c), "started").call = c
  BY <1>3, <1>4 DEF Has, Find, StartedByItself
<1>6. Find(streamOf(c), "requested").digest = request[c].digest
  BY <1>3, <1>4 DEF Has, Find, SameRequest
<1>7. QED  BY <1>3, <1>4, <1>5, <1>6 DEF Authorized

\* The only step that touches the world is an authorized call's.
LEMMA EffectAuthorized ==
    ASSUME AInv, [Next]_vars, NEW c \in Calls, NEW k \in Keys,
           c \in effects'[k] \ effects[k]
    PROVE  k = request[c].key /\ Authorized(c)
<1>1. PICK d \in Calls : Execute(d)
  <2>1. ASSUME NEW d \in Calls, Call(d) \/ Step(d) \/ Fail(d)
        PROVE  Execute(d) \/ UNCHANGED effects
    BY <2>1 DEF Step, Call, Fail, Enter, Wake, Read, Decide, ReadTail, Write,
                Observe, Return
  <2>2. Crash \/ UNCHANGED vars => UNCHANGED effects
    BY DEF Crash, vars
  <2>3. QED  BY <2>1, <2>2 DEF Next
<1>2. /\ pc[d] = "run"
      /\ effects' = [effects EXCEPT ![request[d].key] = @ \union {d}]
  BY <1>1 DEF Execute
<1>3. d = c /\ k = request[d].key
  BY <1>2 DEF AInv, IInv, TypeOK
<1>4. QED  BY <1>2, <1>3, RunAuthorized

\* Whatever calls race, replay and change their approval, sandbox.execute is
\* reached only by a call that was granted this very request and whose
\* authorization and start are already durable (#execute).
THEOREM EffectsAreAuthorized == Spec => EffectsAuthorized
<1>1. AInv /\ [Next]_vars =>
         [\A c \in Calls : \A k \in Keys :
             c \in effects'[k] \ effects[k] => (k = request[c].key /\ Authorized(c))]_vars
  BY EffectAuthorized
<1>2. QED  BY <1>1, InitReady, NextReady, PTL DEF Spec, EffectsAuthorized

-----------------------------------------------------------------------------
(***************************************************************************)
(* ExecutionWorld implements DurableAction: every step of a call is one    *)
(* step of the action its key names, one answer to a caller, or a stutter. *)
(***************************************************************************)

-----------------------------------------------------------------------------
(* What a call that leaves #execute is about to answer *)

LEMMA ReturnOutcome ==
    ASSUME TypeOK, NEW c \in Calls, NEW r \in Outcomes, ToReturn(c, r)
    PROVE  pc'[c] = "return" /\ outcome'[c] = r
BY DEF TypeOK, ToReturn

LEMMA OutcomeKind ==
    ASSUME NEW kind \in OutcomeKinds
    PROVE  Outcome(kind) \in Outcomes /\ Outcome(kind).kind = kind
BY DEF Outcome, Outcomes

\* An answer of Gate, which sends the call on to an append otherwise.
LEMMA GateAnswers ==
    ASSUME TypeOK, NEW c \in Calls, NEW f \in Frames, Gate(c, f)
    PROVE  \/ pc'[c] = "return" /\ outcome'[c].kind = "approval_required"
           \/ pc'[c] = "tail" /\ frame'[c].pending \in Verdicts
<1>1. Verdicts \subseteq Batches
  BY DEF Verdicts, Batches
<1>2. \/ ToReturn(c, Outcome("approval_required"))
      \/ \E batch \in Verdicts : ToAppend(c, f, batch)
  BY DEF Gate, Verdicts
<1>3. Outcome("approval_required") \in Outcomes
      /\ Outcome("approval_required").kind = "approval_required"
  BY OutcomeKind DEF OutcomeKinds
<1>4. QED  BY <1>1, <1>2, <1>3, ReturnOutcome, ToAppendContinues

LEMMA ThrowsAnswers ==
    ASSUME TypeOK, NEW c \in Calls, Throws(c)
    PROVE  pc'[c] = "return" => outcome'[c].kind = "rejected"
<1>1. frame[c] \in Frames /\ <<"failed">> \in Batches
  BY DEF TypeOK, Batches
<1>2. Outcome("rejected") \in Outcomes /\ Outcome("rejected").kind = "rejected"
  BY OutcomeKind DEF OutcomeKinds
<1>3. QED  BY <1>1, <1>2, ReturnOutcome, ToAppendContinues DEF Throws

\* The answer that follows the append of a batch.
LEMMA AfterAppendAnswers ==
    ASSUME TypeOK, NEW c \in Calls, NEW f \in Frames, AfterAppend(c, f),
           pc'[c] = "return"
    PROVE  \/ /\ f.pending \in {<<"permission_snapshot">>, <<"approval_required">>}
              /\ outcome'[c].kind = "approval_required"
           \/ f.pending = <<"denied">> /\ outcome'[c].kind = "denied"
           \/ f.pending = <<"completed">> /\ outcome'[c].kind = "fresh"
           \/ f.pending = <<"failed">> /\ outcome'[c].kind = "error"
<1>1. \A kind \in {"denied", "approval_required", "error"} :
         Outcome(kind) \in Outcomes /\ Outcome(kind).kind = kind
  BY OutcomeKind DEF OutcomeKinds
<1>2. [kind |-> "fresh", by |-> c] \in Outcomes
  BY DEF OutcomeKinds, Outcomes
<1>3. CASE f.pending = <<"requested">> /\ GoTo(c, f, "decide")
  BY <1>3, GoToContinues DEF Locations, Executing
<1>4. CASE f.pending = <<"permission_snapshot">> /\ Gate(c, f)
  BY <1>4, GateAnswers
<1>5. CASE f.pending = <<"denied">> /\ ToReturn(c, Outcome("denied"))
  BY <1>1, <1>5, ReturnOutcome
<1>6. CASE f.pending = <<"approval_required">>
           /\ ToReturn(c, Outcome("approval_required"))
  BY <1>1, <1>6, ReturnOutcome
<1>7. CASE f.pending = <<"authorized", "started">> /\ GoTo(c, f, "run")
  BY <1>7, GoToContinues DEF Locations, Executing
<1>8. CASE f.pending = <<"completed">> /\ ToReturn(c, [kind |-> "fresh", by |-> c])
  BY <1>2, <1>8, ReturnOutcome
<1>9. CASE f.pending = <<"failed">> /\ ToReturn(c, Outcome("error"))
  BY <1>1, <1>9, ReturnOutcome
<1>10. QED  BY <1>3, <1>4, <1>5, <1>6, <1>7, <1>8, <1>9 DEF AfterAppend

\* A stream that holds the request settles it in its own phase, or is open.
LEMMA ResumeAnswers ==
    ASSUME TypeOK, NEW c \in Calls, NEW f \in Frames, Resume(c, f)
    PROVE  \/ /\ pc'[c] = "return" /\ Has(f.existing, "completed")
              /\ outcome'[c].kind = "replayed"
           \/ /\ pc'[c] = "return" /\ outcome'[c].kind = "reconciliation_required"
              /\ Has(f.existing, "started") /\ ~ Has(f.existing, "completed")
           \/ /\ pc'[c] = "return" /\ outcome'[c].kind = "denied"
              /\ Has(f.existing, "denied")
              /\ ~ Has(f.existing, "started") /\ ~ Has(f.existing, "completed")
           \/ /\ pc'[c] = "decide"
              /\ ~ Has(f.existing, "denied")
              /\ ~ Has(f.existing, "started") /\ ~ Has(f.existing, "completed")
<1> DEFINE replayed == [kind |-> "replayed", by |-> Find(f.existing, "completed").call]
<1>1. Has(f.existing, "completed") => replayed \in Outcomes /\ replayed.kind = "replayed"
  BY FindType DEF Frames, Events, Outcomes, OutcomeKinds
<1>2. \A kind \in {"denied", "reconciliation_required"} :
         Outcome(kind) \in Outcomes /\ Outcome(kind).kind = kind
  BY OutcomeKind DEF OutcomeKinds
<1>3. "decide" \in Locations \ {"waiting", "tail", "write"}
  BY DEF Locations, Executing
<1>4. \/ Has(f.existing, "completed") /\ ToReturn(c, replayed)
      \/ /\ ~ Has(f.existing, "completed") /\ Has(f.existing, "started")
         /\ ToReturn(c, Outcome("reconciliation_required"))
      \/ /\ ~ Has(f.existing, "completed") /\ ~ Has(f.existing, "started")
         /\ Has(f.existing, "denied") /\ ToReturn(c, Outcome("denied"))
      \/ /\ ~ Has(f.existing, "completed") /\ ~ Has(f.existing, "started")
         /\ ~ Has(f.existing, "denied") /\ GoTo(c, f, "decide")
  BY DEF Resume
<1> HIDE DEF replayed
<1>5. QED  BY <1>1, <1>2, <1>3, <1>4, ReturnOutcome, GoToContinues

\* Where a call goes after #read.
LEMMA ReadAnswers ==
    ASSUME TypeOK, NEW c \in Calls, Read(c)
    PROVE  LET written == streamOf(c) IN
           \/ /\ pc'[c] = "tail" /\ frame'[c].pending = <<"requested">>
              /\ ~ Has(written, "requested")
           \/ pc'[c] = "return" /\ outcome'[c].kind = "rejected"
           \/ /\ pc'[c] = "return" /\ Has(written, "completed")
              /\ outcome'[c].kind = "replayed"
           \/ /\ pc'[c] = "return" /\ outcome'[c].kind = "reconciliation_required"
              /\ Has(written, "started") /\ ~ Has(written, "completed")
           \/ /\ pc'[c] = "return" /\ outcome'[c].kind = "denied"
              /\ Has(written, "denied")
              /\ ~ Has(written, "started") /\ ~ Has(written, "completed")
           \/ /\ pc'[c] = "decide" /\ Has(written, "requested") /\ ~ Has(written, "denied")
              /\ ~ Has(written, "started") /\ ~ Has(written, "completed")
<1> DEFINE f == [frame[c] EXCEPT !.existing = streamOf(c)]
<1>1. f \in Frames /\ f.existing = streamOf(c)
  BY FrameType DEF Read, TypeOK, Frames
<1>2. \/ ~ Has(f.existing, "requested") /\ ToAppend(c, f, <<"requested">>)
      \/ ToReturn(c, Outcome("rejected"))
      \/ Has(f.existing, "requested") /\ Resume(c, f)
  BY DEF Read
<1>3. /\ <<"requested">> \in Batches
      /\ Outcome("rejected") \in Outcomes /\ Outcome("rejected").kind = "rejected"
  BY OutcomeKind DEF Batches, OutcomeKinds
<1> HIDE DEF f
<1>4. CASE ~ Has(f.existing, "requested") /\ ToAppend(c, f, <<"requested">>)
  BY <1>1, <1>3, <1>4, ToAppendContinues
<1>5. CASE ToReturn(c, Outcome("rejected"))
  BY <1>3, <1>5, ReturnOutcome
<1>6. CASE Has(f.existing, "requested") /\ Resume(c, f)
  BY <1>1, <1>6, ResumeAnswers
<1>7. QED  BY <1>2, <1>4, <1>5, <1>6

LEMMA DecideAnswers ==
    ASSUME TypeOK, NEW c \in Calls, Decide(c)
    PROVE  \/ pc'[c] = "return" /\ outcome'[c].kind = "approval_required"
           \/ pc'[c] = "tail" /\ frame'[c].pending \in Openings
<1>1. PICK rules \in [Layers -> SUBSET Decisions], supported \in BOOLEAN :
         LET f == [frame[c] EXCEPT !.decision = Policy(rules), !.enforced = supported] IN
         \/ Gate(c, f)
         \/ ToAppend(c, f, <<"permission_snapshot">>)
  BY DEF Decide
<1> DEFINE f == [frame[c] EXCEPT !.decision = Policy(rules), !.enforced = supported]
<1>2. f \in Frames /\ <<"permission_snapshot">> \in Batches
  BY PolicyType, FrameType DEF Batches
<1>3. Gate(c, f) \/ ToAppend(c, f, <<"permission_snapshot">>)
  BY <1>1
<1> HIDE DEF f
<1>4. QED  BY <1>2, <1>3, GateAnswers, ToAppendContinues DEF Openings, Verdicts

\* Where a call goes after an append that was stored, or had been before.
LEMMA WriteAnswers ==
    ASSUME TypeOK, NEW c \in Calls, Write(c)
    PROVE  LET batch == frame[c].pending
               events == BatchEvents(c, batch)
               next == frame[c].expected
           IN
           \/ UNCHANGED log /\ Throws(c)
           \/ /\ ~ Conflicts(streamOf(c), events, next)
              /\ log' = [log EXCEPT ![request[c].key] =
                            Appended(streamOf(c), events, next)]
              /\ \/ pc'[c] = "decide" /\ batch = <<"requested">>
                 \/ /\ pc'[c] = "tail" /\ frame'[c].pending \in Verdicts
                    /\ batch = <<"permission_snapshot">>
                 \/ pc'[c] = "run" /\ batch = <<"authorized", "started">>
                 \/ /\ pc'[c] = "return" /\ outcome'[c].kind = "approval_required"
                    /\ batch \in {<<"permission_snapshot">>, <<"approval_required">>}
                 \/ /\ pc'[c] = "return" /\ outcome'[c].kind = "denied"
                    /\ batch = <<"denied">>
                 \/ /\ pc'[c] = "return" /\ outcome'[c].kind = "fresh"
                    /\ batch = <<"completed">>
                 \/ /\ pc'[c] = "return" /\ outcome'[c].kind = "error"
                    /\ batch = <<"failed">>
<1> DEFINE f == [frame[c] EXCEPT !.expected = 0]
           events == BatchEvents(c, frame[c].pending)
           next == frame[c].expected
<1>1. f \in Frames /\ f.pending = frame[c].pending
  BY FrameType DEF TypeOK, Frames
<1>2. \/ UNCHANGED log /\ Throws(c)
      \/ /\ ~ Conflicts(streamOf(c), events, next)
         /\ log' = [log EXCEPT ![request[c].key] = Appended(streamOf(c), events, next)]
         /\ AfterAppend(c, f)
  BY DEF Write
<1> HIDE DEF f, events, next
<1>3. CASE AfterAppend(c, f) /\ pc'[c] = "return"
  BY <1>1, <1>2, <1>3, AfterAppendAnswers DEF events, next
<1>4. CASE AfterAppend(c, f) /\ pc'[c] # "return"
  BY <1>1, <1>2, <1>4, AfterAppendContinues DEF events, next
<1>5. QED  BY <1>2, <1>3, <1>4 DEF events, next

-----------------------------------------------------------------------------
(* Phases *)

\* What a batch makes of the phase of its stream.
LEMMA PhaseWritten ==
    ASSUME NEW s, NEW t, NEW batch \in Batches,
           \A type : Has(t, type) <=>
              (Has(s, type) \/ \E i \in DOMAIN batch : batch[i] = type)
    PROVE  /\ batch = <<"requested">> /\ phaseOf(s) = "absent" => phaseOf(t) = "open"
           /\ batch \in {<<"permission_snapshot">>, <<"approval_required">>}
                 => phaseOf(t) = phaseOf(s)
           /\ batch = <<"denied">> /\ phaseOf(s) = "open" => phaseOf(t) = "denied"
           /\ batch = <<"authorized", "started">> /\ phaseOf(s) = "open"
                 => phaseOf(t) = "started"
           /\ batch = <<"completed">> /\ phaseOf(s) = "started"
                 => phaseOf(t) = "succeeded"
           /\ batch = <<"failed">> /\ phaseOf(s) = "started" => phaseOf(t) = "failed"
<1> DEFINE adds(type) == \E i \in DOMAIN batch : batch[i] = type
<1>1. /\ adds("requested") <=> batch = <<"requested">>
      /\ adds("denied") <=> batch = <<"denied">>
      /\ adds("started") <=> batch = <<"authorized", "started">>
      /\ adds("completed") <=> batch = <<"completed">>
      /\ adds("failed") <=> batch = <<"failed">>
  BY DEF Batches
<1>2. \A type \in {"requested", "denied", "started", "completed", "failed"} :
         Has(t, type) <=> Has(s, type) \/ adds(type)
  OBVIOUS
<1> HIDE DEF adds
<1>3. /\ Has(t, "requested") <=> Has(s, "requested") \/ batch = <<"requested">>
      /\ Has(t, "denied") <=> Has(s, "denied") \/ batch = <<"denied">>
      /\ Has(t, "started") <=> Has(s, "started") \/ batch = <<"authorized", "started">>
      /\ Has(t, "completed") <=> Has(s, "completed") \/ batch = <<"completed">>
      /\ Has(t, "failed") <=> Has(s, "failed") \/ batch = <<"failed">>
  BY <1>1, <1>2
<1>4. QED  BY <1>3 DEF phaseOf

\* Nothing of a stream that was not asked for is there.
LEMMA AbsentPhase ==
    ASSUME Logged, Ordered, NEW k \in Keys, ~ Has(log[k], "requested")
    PROVE  phaseOf(log[k]) = "absent"
BY DEF Logged, Ordered, phaseOf

\* "rejected" is true of every action.
LEMMA RejectedIsTrue ==
    ASSUME NEW phase PROVE "rejected" \in Durable!TrueOf(phase)
BY DEF Durable!TrueOf

LEMMA TruePhases ==
    /\ "approval_required" \in Durable!TrueOf("open")
    /\ "denied" \in Durable!TrueOf("denied")
    /\ "reconciliation_required" \in Durable!TrueOf("started")
    /\ "reconciliation_required" \in Durable!TrueOf("failed")
    /\ "result" \in Durable!TrueOf("succeeded")
    /\ "error" \in Durable!TrueOf("failed")
BY DEF Durable!TrueOf

-----------------------------------------------------------------------------
(* The invariant of the refinement *)

\* A step of the running call changes no other call's answer.
LEMMA OutcomesKept ==
    ASSUME TypeOK, NEW c \in Calls,
           \/ Read(c) \/ Decide(c) \/ ReadTail(c) \/ Write(c)
           \/ Execute(c) \/ Observe(c) \/ Fail(c),
           NEW d \in Calls \ {c}
    PROVE  outcome'[d] = outcome[d]
<1> DEFINE Kept == outcome'[d] = outcome[d]
<1>1. ASSUME NEW f, NEW location, GoTo(c, f, location) PROVE Kept
  BY <1>1 DEF GoTo
<1>2. ASSUME NEW r, ToReturn(c, r) PROVE Kept
  BY <1>2 DEF ToReturn, TypeOK
<1>3. ASSUME NEW f, NEW batch, ToAppend(c, f, batch) PROVE Kept
  BY <1>1, <1>3 DEF ToAppend
<1> HIDE DEF Kept
<1>4. ASSUME NEW f, Gate(c, f) PROVE Kept
  BY <1>2, <1>3, <1>4, Zenon DEF Gate
<1>5. Throws(c) => Kept
  BY <1>2, <1>3, Zenon DEF Throws
<1>6. ASSUME NEW f, AfterAppend(c, f) PROVE Kept
  BY <1>1, <1>2, <1>4, <1>6, Zenon DEF AfterAppend
<1>7. ASSUME NEW f, Resume(c, f) PROVE Kept
  BY <1>1, <1>2, <1>7, Zenon DEF Resume
<1>8. Read(c) => Kept
  BY <1>2, <1>3, <1>7, Zenon DEF Read
<1>9. Decide(c) => Kept
  BY <1>3, <1>4, Zenon DEF Decide
<1>10. Write(c) => Kept
  BY <1>5, <1>6, Zenon DEF Write
<1>11. ReadTail(c) \/ Execute(c) \/ Observe(c) \/ Fail(c) => Kept
  BY <1>1, <1>3, <1>5, Zenon DEF ReadTail, Execute, Observe, Fail
<1>12. QED  BY <1>8, <1>9, <1>10, <1>11 DEF Kept

LEMMA OthersStage ==
    ASSUME RInv, NEW c \in Calls, Continued(c), pc[c] \in Executing,
           UNCHANGED request,
           \A k \in Keys \ {request[c].key} :
              log'[k] = log[k] /\ effects'[k] = effects[k],
           NEW d \in Calls \ {c}, outcome'[d] = outcome[d]
    PROVE  Stage(d)'
<1>1. pc'[d] = pc[d] /\ frame'[d] = frame[d] /\ request' = request
  BY DEF Continued
<1>2. CASE pc[d] \in Executing
  <2>1. request[d].key # request[c].key /\ request[d].key \in Keys
    BY <1>2 DEF RInv, AInv, IInv, Exclusive, TypeOK, Requests, Executing
  <2>2. streamOf(d)' = streamOf(d) /\ effects'[request[d].key] = effects[request[d].key]
    BY <1>1, <2>1 DEF streamOf
  <2>3. Stage(d) /\ answerKind(d)' = answerKind(d)
    BY DEF RInv, answerKind
  <2>4. QED  BY <1>1, <2>2, <2>3 DEF Stage, Appending
<1>3. CASE pc[d] \notin Executing
  BY <1>1, <1>3 DEF Stage, Appending, Executing
<1>4. QED  BY <1>2, <1>3

LEMMA QuietStage ==
    ASSUME RInv, NEW c \in Calls,
           Read(c) \/ Decide(c) \/ ReadTail(c) \/ Observe(c) \/ Fail(c)
    PROVE  RInv'
<1> DEFINE phase == phaseOf(streamOf(c))
<1>1. AInv /\ TypeOK /\ Logged /\ Ordered /\ Stage(c)
  BY DEF RInv, AInv, IInv
<1>2. /\ AInv' /\ Continued(c) /\ pc[c] \in Executing
      /\ UNCHANGED <<log, inflight, effects, request, waitsFor>>
  BY <1>1, QuietReady, QuietType
<1>3. Ordered'
  BY <1>1, <1>2 DEF Ordered
<1>4. /\ phaseOf(streamOf(c))' = phase
      /\ request[c].key \in Keys /\ streamOf(c) = log[request[c].key]
  BY <1>1, <1>2 DEF streamOf, TypeOK, Requests, Executing
<1>5. Stage(c)'
  <2>1. CASE Read(c)
    <3>1. CASE /\ pc'[c] = "tail" /\ frame'[c].pending = <<"requested">>
               /\ ~ Has(streamOf(c), "requested")
      <4>1. phase = "absent"
        BY <1>1, <1>4, <3>1, AbsentPhase
      <4>2. QED  BY <1>4, <3>1, <4>1 DEF Stage, Appending, Openings, Endings
    <3>2. CASE pc'[c] = "return" /\ outcome'[c].kind = "rejected"
      BY <1>4, <3>2, RejectedIsTrue DEF Stage, Appending, answerKind
    <3>3. CASE /\ pc'[c] = "return" /\ Has(streamOf(c), "completed")
               /\ outcome'[c].kind = "replayed"
      <4>1. phase = "succeeded"
        BY <3>3 DEF phaseOf
      <4>2. QED  BY <1>4, <3>3, <4>1, TruePhases DEF Stage, Appending, answerKind
    <3>4. CASE /\ pc'[c] = "return" /\ outcome'[c].kind = "reconciliation_required"
               /\ Has(streamOf(c), "started") /\ ~ Has(streamOf(c), "completed")
      <4>1. phase \in {"started", "failed"}
        BY <3>4 DEF phaseOf
      <4>2. QED  BY <1>4, <3>4, <4>1, TruePhases DEF Stage, Appending, answerKind
    <3>5. CASE /\ pc'[c] = "return" /\ outcome'[c].kind = "denied"
               /\ Has(streamOf(c), "denied")
               /\ ~ Has(streamOf(c), "started") /\ ~ Has(streamOf(c), "completed")
      <4>1. phase = "denied"
        BY <1>1, <1>4, <3>5 DEF Ordered, phaseOf
      <4>2. QED  BY <1>4, <3>5, <4>1, TruePhases DEF Stage, Appending, answerKind
    <3>6. CASE /\ pc'[c] = "decide" /\ Has(streamOf(c), "requested")
               /\ ~ Has(streamOf(c), "denied")
               /\ ~ Has(streamOf(c), "started") /\ ~ Has(streamOf(c), "completed")
      <4>1. phase = "open"
        BY <1>1, <1>4, <3>6 DEF Ordered, phaseOf
      <4>2. QED  BY <1>4, <3>6, <4>1 DEF Stage, Appending
    <3>7. QED  BY <1>1, <2>1, <3>1, <3>2, <3>3, <3>4, <3>5, <3>6, ReadAnswers
  <2>2. CASE Decide(c)
    <3>1. phase = "open"
      BY <1>1, <2>2 DEF Decide, Stage
    <3>2. CASE pc'[c] = "return" /\ outcome'[c].kind = "approval_required"
      BY <1>4, <3>1, <3>2, TruePhases DEF Stage, Appending, answerKind
    <3>3. CASE pc'[c] = "tail" /\ frame'[c].pending \in Openings
      <4>1. frame'[c].pending \notin Endings \union {<<"requested">>}
        BY <3>3 DEF Openings, Endings
      <4>2. QED  BY <1>4, <3>1, <3>3, <4>1 DEF Stage, Appending, Endings
    <3>4. QED  BY <1>1, <2>2, <3>2, <3>3, DecideAnswers
  <2>3. CASE ReadTail(c)
    <3>1. /\ pc[c] = "tail" /\ pc'[c] = "write"
          /\ frame'[c].pending = frame[c].pending
      BY <1>1, <2>3, ReadTailContinues
    <3>2. QED  BY <1>1, <1>2, <1>4, <3>1 DEF Stage, Appending
  <2>4. CASE Observe(c)
    <3>1. /\ pc[c] = "observe" /\ pc'[c] = "tail"
          /\ frame'[c].pending = <<"completed">>
      BY <1>1, <2>4, ObserveContinues
    <3>2. phase = "started" /\ effects[request[c].key] # {}
      BY <1>1, <3>1 DEF Stage
    <3>3. QED  BY <1>2, <1>4, <3>1, <3>2 DEF Stage, Appending, Openings
  <2>5. CASE Fail(c)
    <3>1. CASE pc'[c] = "return"
      <4>1. outcome'[c].kind = "rejected"
        BY <1>1, <2>5, <3>1, ThrowsAnswers DEF Fail
      <4>2. QED  BY <1>4, <3>1, <4>1, RejectedIsTrue DEF Stage, Appending, answerKind
    <3>2. CASE /\ pc'[c] = "tail" /\ frame'[c].pending = <<"failed">>
               /\ \/ pc[c] \in {"run", "observe"}
                  \/ pc[c] \in {"tail", "write"} /\ frame[c].pending = <<"completed">>
      <4>1. phase = "started"
        BY <1>1, <3>2 DEF Stage, Appending, Endings
      <4>2. QED  BY <1>4, <3>2, <4>1 DEF Stage, Appending, Openings
    <3>3. QED  BY <1>1, <2>5, <3>1, <3>2, FailContinues
  <2>6. QED  BY <2>1, <2>2, <2>3, <2>4, <2>5
<1>6. ASSUME NEW d \in Calls \ {c} PROVE Stage(d)'
  BY <1>1, <1>2, OutcomesKept, OthersStage
<1>7. QED  BY <1>2, <1>3, <1>5, <1>6 DEF RInv

\* What a stored batch adds to its stream, and what that makes of the phase.
LEMMA WritePhase ==
    ASSUME RInv, NEW c \in Calls, pc[c] = "write",
           ~ Conflicts(streamOf(c), BatchEvents(c, frame[c].pending), frame[c].expected),
           log' = [log EXCEPT ![request[c].key] =
                      Appended(streamOf(c), BatchEvents(c, frame[c].pending),
                               frame[c].expected)]
    PROVE  LET k == request[c].key
               batch == frame[c].pending
           IN  /\ batch = <<"requested">>
                     => phaseOf(log[k]) = "absent" /\ phaseOf(log'[k]) = "open"
               /\ batch \in {<<"permission_snapshot">>, <<"approval_required">>}
                     => phaseOf(log[k]) = "open" /\ phaseOf(log'[k]) = "open"
               /\ batch = <<"denied">>
                     => phaseOf(log[k]) = "open" /\ phaseOf(log'[k]) = "denied"
               /\ batch = <<"authorized", "started">>
                     => phaseOf(log[k]) = "open" /\ phaseOf(log'[k]) = "started"
               /\ batch = <<"completed">>
                     => /\ phaseOf(log[k]) = "started" /\ phaseOf(log'[k]) = "succeeded"
                        /\ effects[k] # {}
               /\ batch = <<"failed">>
                     => phaseOf(log[k]) = "started" /\ phaseOf(log'[k]) = "failed"
               /\ batch \in Batches
               /\ \A type : Has(log'[k], type) <=>
                     (Has(log[k], type) \/ \E i \in DOMAIN batch : batch[i] = type)
<1> DEFINE k == request[c].key
           batch == frame[c].pending
<1>1. TypeOK /\ Stage(c)
  BY DEF RInv, AInv, IInv
<1>2. batch \in Batches /\ streamOf(c) = log[k]
  BY <1>1 DEF TypeOK, streamOf
<1>3. \A type : Has(log'[k], type) <=>
         (Has(log[k], type) \/ \E i \in DOMAIN batch : batch[i] = type)
  BY <1>1, <1>2, WriteStores
<1>4. /\ batch = <<"requested">> => phaseOf(log[k]) = "absent"
      /\ batch \in Openings => phaseOf(log[k]) = "open"
      /\ batch \in Endings => phaseOf(log[k]) = "started"
      /\ batch = <<"completed">> => effects[k] # {}
  BY <1>1, <1>2 DEF Stage, Appending
<1> HIDE DEF k, batch
<1>5. /\ batch = <<"requested">> /\ phaseOf(log[k]) = "absent" => phaseOf(log'[k]) = "open"
      /\ batch \in {<<"permission_snapshot">>, <<"approval_required">>}
            => phaseOf(log'[k]) = phaseOf(log[k])
      /\ batch = <<"denied">> /\ phaseOf(log[k]) = "open" => phaseOf(log'[k]) = "denied"
      /\ batch = <<"authorized", "started">> /\ phaseOf(log[k]) = "open"
            => phaseOf(log'[k]) = "started"
      /\ batch = <<"completed">> /\ phaseOf(log[k]) = "started"
            => phaseOf(log'[k]) = "succeeded"
      /\ batch = <<"failed">> /\ phaseOf(log[k]) = "started"
            => phaseOf(log'[k]) = "failed"
  BY <1>2, <1>3, PhaseWritten
<1>6. QED  BY <1>2, <1>3, <1>4, <1>5 DEF k, batch, Openings, Endings

LEMMA WriteStage == ASSUME RInv, NEW c \in Calls, Write(c) PROVE RInv'
<1> DEFINE k == request[c].key
           batch == frame[c].pending
<1>1. AInv /\ TypeOK /\ Logged /\ Ordered /\ Stage(c)
  BY DEF RInv, AInv, IInv
<1>2. /\ AInv' /\ Continued(c) /\ pc[c] = "write"
      /\ UNCHANGED <<inflight, effects, request, waitsFor>>
  BY <1>1, WriteReady, WriteContinues DEF Write
<1>3. k \in Keys /\ streamOf(c) = log[k] /\ streamOf(c)' = log'[k]
  BY <1>1, <1>2 DEF TypeOK, Requests, streamOf
<1>4. \A j \in Keys \ {k} : log'[j] = log[j]
  BY <1>1, <1>3, WriteContinues DEF TypeOK
<1>5. Ordered' /\ Stage(c)'
  <2>1. CASE UNCHANGED log /\ Throws(c)
    <3>1. Ordered'
      BY <1>1, <2>1 DEF Ordered
    <3>2. CASE pc'[c] = "return"
      <4>1. outcome'[c].kind = "rejected"
        BY <1>1, <2>1, <3>2, ThrowsAnswers
      <4>2. QED  BY <3>1, <3>2, <4>1, RejectedIsTrue DEF Stage, Appending, answerKind
    <3>3. CASE /\ pc'[c] = "tail" /\ frame'[c].pending = <<"failed">>
               /\ \/ pc[c] \in {"run", "observe"}
                  \/ pc[c] \in {"tail", "write"} /\ frame[c].pending = <<"completed">>
      <4>1. phaseOf(log[k]) = "started"
        BY <1>1, <1>3, <3>3 DEF Stage, Appending, Endings
      <4>2. QED  BY <1>3, <2>1, <3>1, <3>3, <4>1 DEF Stage, Appending, Openings
    <3>4. QED  BY <1>1, <2>1, <3>2, <3>3, ThrowsContinues
  <2>2. CASE /\ ~ Conflicts(streamOf(c), BatchEvents(c, batch), frame[c].expected)
             /\ log' = [log EXCEPT ![k] = Appended(streamOf(c), BatchEvents(c, batch),
                                                   frame[c].expected)]
             /\ \/ pc'[c] = "decide" /\ batch = <<"requested">>
                \/ /\ pc'[c] = "tail" /\ frame'[c].pending \in Verdicts
                   /\ batch = <<"permission_snapshot">>
                \/ pc'[c] = "run" /\ batch = <<"authorized", "started">>
                \/ /\ pc'[c] = "return" /\ outcome'[c].kind = "approval_required"
                   /\ batch \in {<<"permission_snapshot">>, <<"approval_required">>}
                \/ /\ pc'[c] = "return" /\ outcome'[c].kind = "denied"
                   /\ batch = <<"denied">>
                \/ /\ pc'[c] = "return" /\ outcome'[c].kind = "fresh"
                   /\ batch = <<"completed">>
                \/ /\ pc'[c] = "return" /\ outcome'[c].kind = "error"
                   /\ batch = <<"failed">>
    <3>1. /\ batch = <<"requested">> => phaseOf(log'[k]) = "open"
          /\ batch \in {<<"permission_snapshot">>, <<"approval_required">>}
                => phaseOf(log'[k]) = "open"
          /\ batch = <<"denied">>
                => phaseOf(log[k]) = "open" /\ phaseOf(log'[k]) = "denied"
          /\ batch = <<"authorized", "started">> => phaseOf(log'[k]) = "started"
          /\ batch = <<"completed">>
                => phaseOf(log[k]) = "started" /\ phaseOf(log'[k]) = "succeeded"
          /\ batch = <<"failed">>
                => phaseOf(log[k]) = "started" /\ phaseOf(log'[k]) = "failed"
          /\ batch \in Batches
          /\ \A type : Has(log'[k], type) <=>
                (Has(log[k], type) \/ \E i \in DOMAIN batch : batch[i] = type)
      BY <1>2, <2>2, WritePhase
    <3>2. Ordered'
      <4>1. /\ phaseOf(log[k]) = "started" => Has(log[k], "started")
            /\ phaseOf(log[k]) = "open" => Has(log[k], "requested")
        BY DEF phaseOf
      <4>2. /\ Has(log'[k], "completed") \/ Has(log'[k], "failed") => Has(log'[k], "started")
            /\ Has(log'[k], "denied") => Has(log'[k], "requested")
        <5>1. /\ (\E i \in DOMAIN batch : batch[i] = "completed") => batch = <<"completed">>
              /\ (\E i \in DOMAIN batch : batch[i] = "failed") => batch = <<"failed">>
              /\ (\E i \in DOMAIN batch : batch[i] = "denied") => batch = <<"denied">>
          BY <3>1 DEF Batches
        <5> HIDE DEF batch, k
        <5>2. /\ Has(log'[k], "completed") => Has(log[k], "completed") \/ batch = <<"completed">>
              /\ Has(log'[k], "failed") => Has(log[k], "failed") \/ batch = <<"failed">>
              /\ Has(log'[k], "denied") => Has(log[k], "denied") \/ batch = <<"denied">>
              /\ Has(log[k], "started") => Has(log'[k], "started")
              /\ Has(log[k], "requested") => Has(log'[k], "requested")
          BY <3>1, <5>1
        <5>3. QED  BY <1>1, <1>3, <3>1, <4>1, <5>2 DEF Ordered
      <4>3. QED  BY <1>1, <1>4, <4>2 DEF Ordered
    <3>3. phaseOf(streamOf(c))' = phaseOf(log'[k])
      BY <1>3
    <3>4. CASE pc'[c] = "return"
      <4>1. answerKind(c)' \in Durable!TrueOf(phaseOf(log'[k]))
        BY <2>2, <3>1, <3>4, TruePhases DEF answerKind
      <4>2. QED  BY <3>2, <3>3, <3>4, <4>1 DEF Stage, Appending
    <3>5. CASE pc'[c] = "decide" /\ batch = <<"requested">>
      BY <3>1, <3>2, <3>3, <3>5 DEF Stage, Appending
    <3>6. CASE pc'[c] = "run" /\ batch = <<"authorized", "started">>
      BY <3>1, <3>2, <3>3, <3>6 DEF Stage, Appending
    <3>7. CASE /\ pc'[c] = "tail" /\ frame'[c].pending \in Verdicts
               /\ batch = <<"permission_snapshot">>
      <4>1. frame'[c].pending \notin Endings \union {<<"requested">>}
        BY <3>7 DEF Verdicts, Endings
      <4>2. QED  BY <3>1, <3>2, <3>3, <3>7, <4>1 DEF Stage, Appending, Endings
    <3>8. QED  BY <2>2, <3>4, <3>5, <3>6, <3>7
  <2>3. QED  BY <1>1, <2>1, <2>2, WriteAnswers
<1>6. ASSUME NEW d \in Calls \ {c} PROVE Stage(d)'
  BY <1>1, <1>2, <1>4, OutcomesKept, OthersStage DEF Executing
<1>7. QED  BY <1>2, <1>5, <1>6 DEF RInv

LEMMA ExecuteStage == ASSUME RInv, NEW c \in Calls, Execute(c) PROVE RInv'
<1> DEFINE k == request[c].key
<1>1. AInv /\ TypeOK /\ Ordered /\ Stage(c)
  BY DEF RInv, AInv, IInv
<1>2. AInv' /\ Continued(c) /\ pc[c] = "run" /\ pc'[c] = "observe"
  BY <1>1, OtherReady, ExecuteContinues
<1>3. /\ UNCHANGED <<log, inflight, request, waitsFor>>
      /\ effects' = [effects EXCEPT ![k] = @ \union {c}]
  BY DEF Execute
<1>4. /\ k \in Keys /\ effects'[k] # {}
      /\ \A j \in Keys \ {k} : effects'[j] = effects[j]
  BY <1>1, <1>2, <1>3 DEF TypeOK, Requests
<1>5. phaseOf(streamOf(c))' = "started"
  BY <1>1, <1>2, <1>3 DEF Stage, streamOf
<1>6. Stage(c)'
  BY <1>2, <1>3, <1>4, <1>5 DEF Stage, Appending
<1>7. ASSUME NEW d \in Calls \ {c} PROVE Stage(d)'
  BY <1>1, <1>2, <1>3, <1>4, OutcomesKept, OthersStage DEF Executing
<1>8. Ordered'
  BY <1>1, <1>3 DEF Ordered
<1>9. QED  BY <1>2, <1>6, <1>7, <1>8 DEF RInv

\* A call outside #execute knows nothing of its stream.
LEMMA OutsideStage ==
    ASSUME RInv, NEW c \in Calls,
           Call(c) \/ Enter(c) \/ Wake(c) \/ Return(c)
    PROVE  /\ RInv'
           /\ UNCHANGED <<log, effects>> /\ pc[c] # "done"
           /\ \A d \in Calls \ {c} :
                 pc'[d] = pc[d] /\ request'[d] = request[d] /\ outcome'[d] = outcome[d]
<1>1. AInv /\ TypeOK /\ Ordered
  BY DEF RInv, AInv, IInv
<1>2. /\ pc[c] # "done" /\ pc'[c] \in {"entry", "read", "waiting", "done"}
      /\ \A d \in Calls \ {c} :
            pc'[d] = pc[d] /\ request'[d] = request[d] /\ outcome'[d] = outcome[d]
      /\ UNCHANGED <<log, effects, frame>>
  BY <1>1 DEF Call, Enter, Wake, Return, TypeOK
<1>3. AInv'
  BY <1>1, OtherReady
<1>4. Stage(c)'
  BY <1>2 DEF Stage, Appending
<1>5. ASSUME NEW d \in Calls \ {c} PROVE Stage(d)'
  <2>1. /\ streamOf(d)' = streamOf(d) /\ answerKind(d)' = answerKind(d)
        /\ request'[d] = request[d] /\ Stage(d)
    BY <1>2 DEF streamOf, answerKind, RInv
  <2>2. QED  BY <1>2, <2>1 DEF Stage, Appending
<1>6. Ordered'
  BY <1>1, <1>2 DEF Ordered
<1>7. QED  BY <1>2, <1>3, <1>4, <1>5, <1>6 DEF RInv

LEMMA CrashStage == ASSUME RInv, Crash PROVE RInv'
<1>1. AInv' /\ UNCHANGED log
  BY CrashReady DEF RInv, Crash
<1>2. \A c \in Calls : pc'[c] \in {"idle", "done", "lost"}
  BY DEF Crash, RInv, AInv, IInv, TypeOK
<1>3. Ordered' /\ \A c \in Calls : Stage(c)'
  BY <1>1, <1>2 DEF RInv, Ordered, Stage, Appending
<1>4. QED  BY <1>1, <1>3 DEF RInv

LEMMA NextStage == RInv /\ [Next]_vars => RInv'
<1>1. SUFFICES ASSUME RInv, [Next]_vars PROVE RInv'
  OBVIOUS
<1>2. ASSUME NEW c \in Calls, Call(c) \/ Step(c) \/ Fail(c) PROVE RInv'
  BY <1>1, <1>2, QuietStage, WriteStage, ExecuteStage, OutsideStage DEF Step
<1>3. CASE UNCHANGED vars
  <2>1. AInv'
    BY <1>1, <1>3, NextReady DEF RInv
  <2>2. QED  BY <1>1, <1>3, <2>1
             DEF vars, RInv, Ordered, Stage, Appending, streamOf, answerKind
<1>4. QED  BY <1>1, <1>2, <1>3, CrashStage DEF Next

LEMMA InitStage == Init => RInv
<1>1. SUFFICES ASSUME Init PROVE RInv
  OBVIOUS
<1>2. AInv
  BY <1>1, InitReady
<1>3. Ordered /\ \A c \in Calls : Stage(c)
  BY <1>1 DEF Init, Ordered, Stage, Appending, Has
<1>4. QED  BY <1>2, <1>3 DEF RInv

-----------------------------------------------------------------------------
(* Every step is a step of the durable action *)

phases == [k \in Keys |-> phaseOf(log[k])]

given == {<<c, request[c].key, answerKind(c)>> : c \in {d \in Calls : pc[d] = "done"}}

LEMMA AnswersKept ==
    ASSUME \A d \in Calls :
              /\ pc'[d] = "done" <=> pc[d] = "done"
              /\ pc[d] = "done" => request'[d] = request[d] /\ outcome'[d] = outcome[d]
    PROVE  UNCHANGED given
<1>1. \A d \in Calls : pc[d] = "done" =>
         /\ answerKind(d)' = answerKind(d)
         /\ request'[d].key = request[d].key
  BY DEF answerKind
<1>2. QED  BY <1>1 DEF given

LEMMA AnswerGiven ==
    ASSUME NEW c \in Calls, pc[c] # "done", pc'[c] = "done",
           \A d \in Calls \ {c} :
              pc'[d] = pc[d] /\ request'[d] = request[d] /\ outcome'[d] = outcome[d]
    PROVE  /\ given' = given \union {<<c, request'[c].key, answerKind(c)'>>}
           /\ \A g \in given : g[1] # c
<1>1. \A d \in Calls \ {c} :
         answerKind(d)' = answerKind(d) /\ request'[d].key = request[d].key
  BY DEF answerKind
<1>2. QED  BY <1>1 DEF given

\* A step that touches neither log nor world, and answers nobody.
LEMMA Stutters ==
    ASSUME UNCHANGED <<log, effects, given>>
    PROVE  UNCHANGED Durable!avars
BY DEF Durable!avars, given

\* The writes: each batch moves its action one phase on, or not at all.
LEMMA WriteAdvances ==
    ASSUME RInv, NEW c \in Calls, Write(c), UNCHANGED given
    PROVE  Durable!ANext \/ UNCHANGED Durable!avars
<1> DEFINE k == request[c].key
           batch == frame[c].pending
<1>1. TypeOK /\ pc[c] = "write" /\ UNCHANGED effects
  BY DEF RInv, AInv, IInv, Write
<1>2. k \in Keys
  BY <1>1 DEF TypeOK, Requests
<1>3. CASE UNCHANGED log
  BY <1>1, <1>3, Stutters
<1>4. CASE /\ ~ Conflicts(streamOf(c), BatchEvents(c, batch), frame[c].expected)
           /\ log' = [log EXCEPT ![k] = Appended(streamOf(c), BatchEvents(c, batch),
                                                 frame[c].expected)]
  <2>1. /\ batch = <<"requested">>
              => phaseOf(log[k]) = "absent" /\ phaseOf(log'[k]) = "open"
        /\ batch \in {<<"permission_snapshot">>, <<"approval_required">>}
              => phaseOf(log[k]) = "open" /\ phaseOf(log'[k]) = "open"
        /\ batch = <<"denied">>
              => phaseOf(log[k]) = "open" /\ phaseOf(log'[k]) = "denied"
        /\ batch = <<"authorized", "started">>
              => phaseOf(log[k]) = "open" /\ phaseOf(log'[k]) = "started"
        /\ batch = <<"completed">>
              => /\ phaseOf(log[k]) = "started" /\ phaseOf(log'[k]) = "succeeded"
                 /\ effects[k] # {}
        /\ batch = <<"failed">>
              => phaseOf(log[k]) = "started" /\ phaseOf(log'[k]) = "failed"
        /\ batch \in Batches
    BY <1>1, <1>4, WritePhase
  <2>2. \A j \in Keys \ {k} : log'[j] = log[j]
    BY <1>1, <1>2, <1>4 DEF TypeOK
  <2>3. /\ phases' = [phases EXCEPT ![k] = phaseOf(log'[k])]
        /\ phases[k] = phaseOf(log[k])
    BY <1>2, <2>2 DEF phases
  <2>4. UNCHANGED <<effects, given>>
    BY <1>1
  <2> HIDE DEF k, batch
  <2>5. CASE batch \in {<<"permission_snapshot">>, <<"approval_required">>}
    <3>1. UNCHANGED phases
      BY <2>1, <2>3, <2>5 DEF phases
    <3>2. QED  BY <2>4, <3>1 DEF Durable!avars, phases, given
  <2>6. CASE batch = <<"requested">>
    <3>1. Durable!Request(k)
      BY <2>1, <2>3, <2>4, <2>6
         DEF Durable!Request, Durable!Advance, phases, given
    <3>2. QED  BY <1>2, <3>1 DEF Durable!ANext, k
  <2>7. CASE batch = <<"denied">>
    <3>1. Durable!Deny(k)
      BY <2>1, <2>3, <2>4, <2>7 DEF Durable!Deny, Durable!Advance, phases, given
    <3>2. QED  BY <1>2, <3>1 DEF Durable!ANext, k
  <2>8. CASE batch = <<"authorized", "started">>
    <3>1. Durable!Start(k)
      BY <2>1, <2>3, <2>4, <2>8 DEF Durable!Start, Durable!Advance, phases, given
    <3>2. QED  BY <1>2, <3>1 DEF Durable!ANext, k
  <2>9. CASE batch = <<"completed">>
    <3>1. Durable!Succeed(k)
      BY <2>1, <2>3, <2>4, <2>9 DEF Durable!Succeed, Durable!Advance, phases, given
    <3>2. QED  BY <1>2, <3>1 DEF Durable!ANext, k
  <2>10. CASE batch = <<"failed">>
    <3>1. Durable!Break(k)
      BY <2>1, <2>3, <2>4, <2>10 DEF Durable!Break, Durable!Advance, phases, given
    <3>2. QED  BY <1>2, <3>1 DEF Durable!ANext, k
  <2>11. QED  BY <2>1, <2>5, <2>6, <2>7, <2>8, <2>9, <2>10 DEF Batches
<1>5. QED  BY <1>1, <1>3, <1>4, WriteAnswers

\* The sandbox performs the action of a started key, for the first time.
LEMMA ExecutePerforms ==
    ASSUME RInv, NEW c \in Calls, Execute(c), UNCHANGED given
    PROVE  Durable!ANext
<1> DEFINE k == request[c].key
<1>1. TypeOK /\ Position(c) /\ Stage(c) /\ pc[c] = "run"
  BY DEF RInv, AInv, IInv, Execute
<1>2. k \in Keys /\ effects[k] = {} /\ phaseOf(log[k]) = "started"
  BY <1>1 DEF TypeOK, Requests, Position, Stage, streamOf
<1>3. effects' = [effects EXCEPT ![k] = {c}] /\ UNCHANGED log
  BY <1>1, <1>2 DEF Execute, TypeOK
<1> HIDE DEF k
<1>4. Durable!Perform(c, k)
  BY <1>2, <1>3 DEF Durable!Perform, given
<1>5. QED  BY <1>2, <1>4 DEF Durable!ANext

\* What an answer is.
LEMMA AnswerIsNext ==
    ASSUME NEW d \in Calls, NEW j \in Keys,
           NEW a \in Durable!TrueOf(phaseOf(log[j])),
           given' = given \union {<<d, j, a>>}, \A g \in given : g[1] # d,
           UNCHANGED <<log, effects>>
    PROVE  Durable!ANext
<1>1. Durable!Answer(d, j)
  BY DEF Durable!Answer, given
<1>2. \E e \in Calls : Durable!Perform(e, j) \/ Durable!Answer(e, j)
  BY <1>1
<1>3. QED  BY <1>2 DEF Durable!ANext

\* A call that ends answers the truth about its action, as it is at that moment.
LEMMA EndAnswers ==
    ASSUME RInv, NEW c \in Calls, Return(c) \/ Wake(c), pc'[c] = "done"
    PROVE  Durable!ANext
<1> DEFINE k == request[c].key
           a == answerKind(c)'
<1>1. TypeOK /\ Stage(c) /\ UNCHANGED <<log, effects, request>>
  BY DEF RInv, AInv, IInv, Return, Wake
<1>2. k \in Keys /\ phaseOf(log[k]) = phaseOf(streamOf(c))
  BY <1>1 DEF Return, Wake, TypeOK, Requests, streamOf
<1>3. a \in Durable!TrueOf(phaseOf(log[k]))
  <2>1. CASE Wake(c)
    <3>1. outcome'[c] = Outcome("rejected")
      BY <1>1, <2>1 DEF Wake, TypeOK
    <3>2. QED  BY <3>1, RejectedIsTrue DEF answerKind, Outcome
  <2>2. CASE Return(c) /\ UNCHANGED outcome
    BY <1>1, <1>2, <2>2 DEF Return, Stage, answerKind
  <2>3. CASE Return(c) /\ outcome' = [outcome EXCEPT ![c] = Outcome("rejected")]
    <3>1. outcome'[c] = Outcome("rejected")
      BY <1>1, <2>3 DEF TypeOK
    <3>2. QED  BY <3>1, RejectedIsTrue DEF answerKind, Outcome
  <2>4. QED  BY <2>1, <2>2, <2>3 DEF Return
<1>4. /\ given' = given \union {<<c, k, a>>}
      /\ \A g \in given : g[1] # c
  BY <1>1, OutsideStage, AnswerGiven
<1> HIDE DEF k, a
<1>5. QED  BY <1>1, <1>2, <1>3, <1>4, AnswerIsNext

\* Nobody is answered by a step inside #execute, a call, an entry or a crash.
LEMMA StepsAnswerNobody ==
    ASSUME RInv, NEW c \in Calls,
           \/ Read(c) \/ Decide(c) \/ ReadTail(c) \/ Write(c) \/ Execute(c)
           \/ Observe(c) \/ Fail(c)
    PROVE  UNCHANGED given
<1>1. TypeOK
  BY DEF RInv, AInv, IInv
<1>2. Continued(c) /\ pc[c] # "done" /\ pc'[c] # "done" /\ UNCHANGED request
  BY <1>1, ReadContinues, DecideContinues, ReadTailContinues, WriteContinues,
     ExecuteContinues, ObserveContinues, FailContinues
     DEF Read, Decide, ReadTail, Write, Execute, Observe, Fail, Executing
<1>3. \A d \in Calls \ {c} : pc'[d] = pc[d] /\ outcome'[d] = outcome[d]
  BY <1>1, <1>2, OutcomesKept DEF Continued
<1>4. QED  BY <1>2, <1>3, AnswersKept

LEMMA CrashAnswersNobody == ASSUME RInv, Crash PROVE UNCHANGED given
<1>1. \A d \in Calls :
         /\ pc'[d] = "done" <=> pc[d] = "done"
         /\ pc[d] = "done" => request'[d] = request[d] /\ outcome'[d] = outcome[d]
  BY DEF Crash
<1>2. QED  BY <1>1, AnswersKept

LEMMA StepRefines ==
    RInv /\ [Next]_vars => [Durable!ANext]_Durable!avars
<1>1. SUFFICES ASSUME RInv, [Next]_vars
               PROVE  Durable!ANext \/ UNCHANGED Durable!avars
  OBVIOUS
<1>2. ASSUME NEW c \in Calls, Read(c) \/ Decide(c) \/ ReadTail(c) \/ Observe(c) \/ Fail(c)
      PROVE  UNCHANGED Durable!avars
  <2>1. UNCHANGED <<log, effects>>
    BY <1>2 DEF Read, Decide, ReadTail, Observe, Fail
  <2>2. QED  BY <1>1, <1>2, <2>1, StepsAnswerNobody, Stutters
<1>3. ASSUME NEW c \in Calls, Write(c)
      PROVE  Durable!ANext \/ UNCHANGED Durable!avars
  BY <1>1, <1>3, StepsAnswerNobody, WriteAdvances
<1>4. ASSUME NEW c \in Calls, Execute(c) PROVE Durable!ANext
  BY <1>1, <1>4, StepsAnswerNobody, ExecutePerforms
<1>5. ASSUME NEW c \in Calls, Call(c) \/ Enter(c) \/ Wake(c) \/ Return(c)
      PROVE  Durable!ANext \/ UNCHANGED Durable!avars
  <2>1. CASE pc'[c] = "done"
    <3>1. Return(c) \/ Wake(c)
      BY <1>1, <1>5, <2>1 DEF Call, Enter, RInv, AInv, IInv, TypeOK
    <3>2. QED  BY <1>1, <2>1, <3>1, EndAnswers
  <2>2. CASE pc'[c] # "done"
    <3>1. UNCHANGED <<log, effects>> /\ UNCHANGED given
      BY <1>1, <1>5, <2>2, OutsideStage, AnswersKept
    <3>2. QED  BY <3>1, Stutters
  <2>3. QED  BY <2>1, <2>2
<1>6. CASE Crash
  <2>1. UNCHANGED <<log, effects>>
    BY <1>6 DEF Crash
  <2>2. QED  BY <1>1, <1>6, <2>1, CrashAnswersNobody, Stutters
<1>7. CASE UNCHANGED vars
  BY <1>7 DEF vars, Durable!avars, answerKind
<1>8. QED  BY <1>1, <1>2, <1>3, <1>4, <1>5, <1>6, <1>7 DEF Next, Step

LEMMA InitRefines == Init => Durable!AInit
BY DEF Init, Durable!AInit, phaseOf, Has

\* The execution boundary keeps the promise of the durable action: however calls
\* race, fail, retry and crash, each is answered once, with what is true of the
\* one action its key names, and that action only ever moves on (execute).
THEOREM ImplementsTheDurableAction == Spec => ImplementsDurableAction
<1>1. Spec => []RInv
  BY InitStage, NextStage, PTL DEF Spec
<1>2. QED  BY <1>1, InitRefines, StepRefines, PTL
           DEF Spec, ImplementsDurableAction, Durable!ASpec

-----------------------------------------------------------------------------
(* Learning: types *)

Places == {"idle", "absent", "done", "refused", "failed", "lost", "looked", "appending", "apply",
           "ingest", "ingested", "registering", "revert", "retracting", "retracted", "enter",
           "evaluate", "rejected", "review", "expiring", "proposing", "checking", "reverting"}
ProposalStatuses ==
    {"none", "draft", "testing", "review", "trial", "promoted", "rejected", "rolled-back"}
ProposalStates == [status : ProposalStatuses, version : Nat]
LearningEntries ==
    [type : {"created"}, p : Proposals]
    \union [type : {"changed"}, p : Proposals, from : ProposalStatuses, to : ProposalStatuses]
    \union [type : {"activated", "reverted"}, p : Proposals, claim : Claims]
    \union {Report}
Due == Proposals \X Nat
PatternTargets == {Target[p] : p \in Proposals}
JobRecords ==
    [pc : Places, p : Proposals \union {None}, version : Nat, ev : LearningEntries, seen : Nat,
     then : Places, claim : Claims \union {None},
     todo : Seq(Proposals \union Due \union PatternTargets), made : SUBSET Proposals]

LearningShape ==
    /\ stream \in Seq(LearningEntries)
    /\ prop \in [Proposals -> ProposalStates]
    /\ claims \in [Proposals -> Claims \union {None}]
    /\ memory \in [Claims -> Memory!Statuses]
    /\ up \in BOOLEAN
    /\ job \in [Jobs -> JobRecords]

-----------------------------------------------------------------------------
(* Learning: the inductive invariant *)

\* Where a job is, or will be once its append has come back.
Place(r) == IF r.pc = "appending" THEN r.then ELSE r.pc

\* A job that may still give memory its claim; a claim whose job may not is spent.
MayIngest(r) == Place(r) \in {"idle", "looked", "apply", "ingest"}
Spent(c) == ~MayIngest(job[c[2]])

OnRecord(events, c) ==
    \E i \in DOMAIN events : events[i].type = "activated" /\ events[i].claim = c

OneOpen(m) ==
    \A p, q \in Proposals :
       p # q /\ m[p].status \in Open /\ m[q].status \in Open => Target[p] # Target[q]

\* What was checked when the tail was read holds now.
Fits(e) ==
    /\ e.type = "created" =>
          \A q \in Proposals : prop[q].status \in Open => Target[q] # Target[e.p]
    /\ e.type = "changed" => <<prop[e.p].status, e.to>> \in Edges

\* What a job works on is there when it needs it.
Provided(j, r) ==
    /\ Place(r) \in {"looked", "revert"} => Asks[j].kind = "transition"
    /\ Place(r) \in {"looked", "apply", "ingest", "ingested", "registering", "revert",
                     "retracting", "retracted", "enter", "evaluate", "rejected", "review"} =>
          r.p \in Proposals
    /\ (Place(r) \in {"checking", "reverting"}
           \/ (Place(r) \in {"retracting", "retracted"} /\ Asks[j].kind = "drift")) =>
          \A i \in DOMAIN r.todo : r.todo[i] \in Proposals
    /\ Place(r) = "expiring" =>
          Asks[j].kind = "run" /\ \A i \in DOMAIN r.todo : r.todo[i] \in Due
    /\ Place(r) = "proposing" => \A i \in DOMAIN r.todo : r.todo[i] \in PatternTargets

\* An append on its way: an activation is that of the job's claim, a reversal that of
\* a claim that is out of memory, and nothing else is stored unless it fits.
Underway(j, r) ==
    r.pc = "appending" =>
       /\ r.then \notin {"appending", "retracting", "retracted"}
       /\ r.then = "ingest" \/ r.ev.type = "activated" =>
             r.then = "ingest" /\ r.p \in Proposals /\ r.ev = Activated(r.p, <<r.p, j>>)
       /\ r.ev.type = "reverted" => memory[r.ev.claim] = "retracted" /\ Spent(r.ev.claim)
       /\ r.seen = Len(stream) => Fits(r.ev)

ErrandOk(j, r) ==
    /\ Provided(j, r) /\ Underway(j, r)
    /\ r.seen <= Len(stream)
    /\ r.pc = "ingest" => OnRecord(stream, <<r.p, j>>)
    /\ r.pc \in {"retracting", "retracted"} => r.claim \in Claims /\ Spent(r.claim)
    /\ r.pc = "retracted" => memory[r.claim] = "retracted"
    /\ ~up => r.pc \in Settled

\* What is on the stream: an activation whose job may still ingest is just stored, a
\* reversal is of a claim that is out of memory and stays there.
StreamTold ==
    /\ OneOpen(Replay(stream))
    /\ up => prop = Replay(stream)
    /\ \A i \in DOMAIN stream :
          /\ stream[i].type = "activated" =>
                Spent(stream[i].claim) \/ job[stream[i].claim[2]].pc = "ingest"
          /\ stream[i].type = "reverted" =>
                memory[stream[i].claim] = "retracted" /\ Spent(stream[i].claim)
    /\ \A p \in Proposals : claims[p] # None => Spent(claims[p])
    /\ \A c \in Claims : memory[c] # "none" => OnRecord(stream, c)

LInv == LearningShape /\ StreamTold /\ \A j \in Jobs : ErrandOk(j, job[j])

-----------------------------------------------------------------------------
(* Learning: the operators *)

LEMMA EntriesAre ==
    /\ \A p \in Proposals : Created(p) \in LearningEntries
    /\ \A p \in Proposals, from, to \in ProposalStatuses : Changed(p, from, to) \in LearningEntries
    /\ \A p \in Proposals, c \in Claims :
          Activated(p, c) \in LearningEntries /\ Reverted(p, c) \in LearningEntries
    /\ Report \in LearningEntries
BY DEF LearningEntries, Created, Changed, Activated, Reverted

\* An entry by its type.
LEMMA EntryFields ==
    ASSUME NEW e \in LearningEntries
    PROVE  /\ e.type \in {"created", "changed", "activated", "reverted", "report"}
           /\ e.type = "created" => e.p \in Proposals
           /\ e.type = "changed" => e.p \in Proposals /\ e.to \in ProposalStatuses
           /\ e.type \in {"activated", "reverted"} => e.p \in Proposals /\ e.claim \in Claims
BY DEF LearningEntries, Report

LEMMA AppliedType ==
    ASSUME NEW m \in [Proposals -> ProposalStates], NEW e \in LearningEntries
    PROVE  Applied(m, e) \in [Proposals -> ProposalStates]
<1>1. ASSUME NEW p \in Proposals, NEW x \in ProposalStates
      PROVE  [m EXCEPT ![p] = x] \in [Proposals -> ProposalStates]
  OBVIOUS
<1>2. CASE e.type = "created"
  <2>1. [status |-> "draft", version |-> 1] \in ProposalStates
    BY DEF ProposalStates, ProposalStatuses
  <2>2. QED  BY <1>1, <1>2, <2>1, EntryFields DEF Applied
<1>3. CASE e.type = "changed"
  <2>1. [status |-> e.to, version |-> m[e.p].version + 1] \in ProposalStates
    BY <1>3, EntryFields DEF ProposalStates
  <2>2. QED  BY <1>1, <1>3, <2>1, EntryFields DEF Applied
<1>4. QED  BY <1>2, <1>3 DEF Applied

LEMMA BoundType ==
    ASSUME NEW m \in [Proposals -> Claims \union {None}], NEW e \in LearningEntries
    PROVE  Bound(m, e) \in [Proposals -> Claims \union {None}]
BY EntryFields DEF Bound

\* What the two projections are of one entry more, and of none.
LEMMA ReplayGrows ==
    ASSUME NEW s \in Seq(LearningEntries), NEW e \in LearningEntries
    PROVE  Replay(Append(s, e)) = Applied(Replay(s), e)
<1>1. \A u : Replay(u) = P!Folding({}, NoProposals, u)
  BY DEF P!Folding, Replay, FoldLeft, P!FoldLeft, MapThenFoldSet, P!MapThenFoldSet, Max, P!Max
<1>2. P!Folding({}, NoProposals, Append(s, e)) = Applied(P!Folding({}, NoProposals, s), e)
  BY P!FoldsOneMore
<1>3. QED  BY <1>1, <1>2

LEMMA ReplayStarts == Replay(<<>>) = NoProposals
<1>1. Replay(<<>>) = P!Folding({}, NoProposals, <<>>)
  BY DEF P!Folding, Replay, FoldLeft, P!FoldLeft, MapThenFoldSet, P!MapThenFoldSet, Max, P!Max
<1>2. QED  BY <1>1, P!FoldsNothing

\* A replay is typed, whatever the stream.
LEMMA ReplayType ==
    ASSUME NEW s \in Seq(LearningEntries)
    PROVE  Replay(s) \in [Proposals -> ProposalStates]
<1>1. Replay(s) = P!Folding({}, NoProposals, s)
  BY DEF P!Folding, Replay, FoldLeft, P!FoldLeft, MapThenFoldSet, P!MapThenFoldSet, Max, P!Max
<1>2. NoProposals \in [Proposals -> ProposalStates]
  BY DEF NoProposals, ProposalStates, ProposalStatuses
<1> DEFINE T == [Proposals -> ProposalStates]
<1>3. \A m \in T : \A e \in LearningEntries : Applied(m, e) \in T
  BY AppliedType
<1> HIDE DEF T
<1>4. P!Folding({}, NoProposals, s) \in T
  BY <1>2, <1>3, P!FoldsInto DEF T
<1>5. QED  BY <1>1, <1>4 DEF T

\* Every claim a rebuild finds in force has its activation on the stream.
LEMMA ActivationsAreTold ==
    ASSUME NEW s \in Seq(LearningEntries)
    PROVE  /\ Activations(s) \in [Proposals -> Claims \union {None}]
           /\ \A p \in Proposals : Activations(s)[p] # None => OnRecord(s, Activations(s)[p])
<1> DEFINE base == [p \in Proposals |-> None]
           Told(n) == {m \in [Proposals -> Claims \union {None}] :
                         \A p \in Proposals : m[p] # None =>
                            \E i \in 1 .. n : s[i].type = "activated" /\ s[i].claim = m[p]}
           Q == [n \in 0 .. Len(s) |-> Told(n)]
<1>1. Activations(s) = B!Folding({}, base, s)
  BY DEF B!Folding, Activations, FoldLeft, B!FoldLeft, MapThenFoldSet, B!MapThenFoldSet, Max, B!Max
<1>2. base \in Q[0]
  OBVIOUS
<1>3. ASSUME NEW n \in 1 .. Len(s), NEW m \in Q[n - 1]
      PROVE  Bound(m, s[n]) \in Q[n]
  <2>1. /\ n - 1 \in 0 .. Len(s) /\ n \in 0 .. Len(s) /\ n \in Nat /\ s[n] \in LearningEntries
        /\ 1 .. n - 1 \subseteq 1 .. n /\ n \in 1 .. n
    OBVIOUS
  <2>2. m \in Told(n - 1)
    BY <2>1
  <2>3. Bound(m, s[n]) \in [Proposals -> Claims \union {None}]
    BY <2>1, <2>2, BoundType
  <2>4. ASSUME NEW p \in Proposals, Bound(m, s[n])[p] # None
        PROVE  \E i \in 1 .. n : s[i].type = "activated" /\ s[i].claim = Bound(m, s[n])[p]
    <3>1. CASE s[n].type = "activated" /\ s[n].p = p
      <4>1. Bound(m, s[n])[p] = s[n].claim
        BY <2>2, <3>1 DEF Bound
      <4>2. QED  BY <2>1, <3>1, <4>1
    <3>2. CASE ~(s[n].type = "activated" /\ s[n].p = p)
      <4>1. Bound(m, s[n])[p] = m[p]
        BY <2>1, <2>2, <2>4, <3>2, EntryFields DEF Bound
      <4>2. QED  BY <2>1, <2>2, <2>4, <4>1
    <3>3. QED  BY <3>1, <3>2
  <2>5. Bound(m, s[n]) \in Told(n)
    BY <2>3, <2>4
  <2>6. QED  BY <2>1, <2>5
<1> HIDE DEF Q, base
<1>4. B!Folding({}, base, s) \in Q[Len(s)]
  BY <1>2, <1>3, B!FoldsAlong
<1>5. Len(s) \in 0 .. Len(s) /\ DOMAIN s = 1 .. Len(s)
  OBVIOUS
<1>6. Activations(s) \in Told(Len(s))
  BY <1>1, <1>4, <1>5 DEF Q
<1>7. QED  BY <1>5, <1>6 DEF OnRecord

\* What is on record stays there.
LEMMA RecordGrows ==
    ASSUME NEW s \in Seq(LearningEntries), NEW e \in LearningEntries, NEW c, OnRecord(s, c)
    PROVE  OnRecord(Append(s, e), c)
BY DEF OnRecord

\* A finite set listed as a sequence: all of it and nothing else.
LEMMA ProposalsListed ==
    ASSUME NEW S, IsFiniteSet(S)
    PROVE  /\ SetToSeq(S) \in Seq(S)
           /\ \A c \in S : \E k \in DOMAIN SetToSeq(S) : SetToSeq(S)[k] = c
<1> DEFINE n == Cardinality(S)
           f == SetToSeq(S)
<1>1. n \in Nat /\ Bijection(1 .. n, S) # {}
  BY FS_CardinalityType DEF ExistsBijection
<1>2. \E g \in [1 .. n -> S] : IsInjective(g)
  BY <1>1 DEF Bijection, Injection
<1> HIDE DEF n
<1>3. f \in [1 .. n -> S] /\ IsInjective(f)
  BY <1>2, Zenon DEF SetToSeq, n
<1> HIDE DEF f
<1>4. f \in Injection(1 .. n, S)
  BY <1>3 DEF Injection
<1>5. Cardinality(1 .. n) = n
  <2>1. 1 \in Int /\ n \in Int
    BY <1>1
  <2>2. Cardinality(1 .. n) = IF 1 > n THEN 0 ELSE n - 1 + 1
    BY <2>1, FS_Interval
  <2>3. QED  BY <1>1, <2>2
<1>6. f \in Surjection(1 .. n, S)
  BY <1>4, <1>5, FS_Injection DEF n
<1>7. \A c \in S : \E k \in 1 .. n : f[k] = c
  BY <1>6 DEF Surjection
<1>8. QED  BY <1>1, <1>3, <1>7 DEF f

-----------------------------------------------------------------------------
(* Learning: the initial states *)

\* A history leads a proposal to its status, and touches no other and no claim.
LEMMA HistoryReplays ==
    ASSUME NEW p \in Proposals, NEW n \in 1 .. 5, NEW m \in [Proposals -> ProposalStates]
    PROVE  /\ History(p, Steps[n]) \in Seq(LearningEntries)
           /\ \A i \in DOMAIN History(p, Steps[n]) :
                 History(p, Steps[n])[i].type \in {"created", "changed"}
           /\ FoldLeft(Applied, m, History(p, Steps[n])) =
                 [m EXCEPT ![p] = [status |-> Steps[n], version |-> n]]
<1> DEFINE h == History(p, Steps[n])
           Reached(k) == [m EXCEPT ![p] = [status |-> Steps[k], version |-> k]]
           Q == [k \in 0 .. n |-> IF k = 0 THEN {m} ELSE {Reached(k)}]
<1>1. DOMAIN Steps = 1 .. 5 /\ \A i, k \in 1 .. 5 : Steps[i] = Steps[k] => i = k
  BY DEF Steps
<1>2. \A k \in 1 .. 5 : Steps[k] \in ProposalStatuses /\ Steps[k] # "none"
  BY DEF Steps, ProposalStatuses
<1>3. (CHOOSE i \in DOMAIN Steps : Steps[i] = Steps[n]) = n
  BY <1>1
<1> DEFINE moves == [i \in 1 .. n - 1 |-> Changed(p, Steps[i], Steps[i + 1])]
<1>4. h = <<Created(p)>> \o moves
  <2>1. Steps[n] # "none" /\ n # 0
    BY <1>2
  <2> DEFINE c == CHOOSE i \in DOMAIN Steps : Steps[i] = Steps[n]
             H(k) == IF k = 0 THEN <<>>
                     ELSE <<Created(p)>> \o [i \in 1 .. k - 1 |-> Changed(p, Steps[i], Steps[i + 1])]
  <2>2. h = H(IF Steps[n] = "none" THEN 0 ELSE c)
    BY DEF History
  <2>3. c = n
    BY <1>3
  <2> HIDE DEF c
  <2>4. h = H(n)
    BY <2>1, <2>2, <2>3
  <2>5. QED  BY <2>1, <2>4
<1>5. /\ moves \in Seq(LearningEntries) /\ Len(moves) = n - 1
      /\ \A i \in 1 .. n - 1 : moves[i] = Changed(p, Steps[i], Steps[i + 1])
  <2>1. \A i \in 1 .. n - 1 : Changed(p, Steps[i], Steps[i + 1]) \in LearningEntries
    BY <1>2, EntriesAre
  <2>2. QED  BY <2>1
<1>6. /\ h \in Seq(LearningEntries) /\ Len(h) = n /\ h[1] = Created(p)
      /\ \A k \in 2 .. n : h[k] = Changed(p, Steps[k - 1], Steps[k])
  <2> HIDE DEF moves, h
  <2>1. <<Created(p)>> \in Seq(LearningEntries) /\ Len(<<Created(p)>>) = 1
    BY EntriesAre
  <2>2. h \in Seq(LearningEntries) /\ Len(h) = n /\ h[1] = Created(p)
    BY <1>4, <1>5, <2>1
  <2>3. ASSUME NEW k \in 2 .. n PROVE h[k] = Changed(p, Steps[k - 1], Steps[k])
    <3>1. k - 1 \in 1 .. n - 1 /\ (k - 1) + 1 = k /\ h[k] = moves[k - 1]
      BY <1>4, <1>5, <2>1
    <3>2. QED  BY <1>5, <3>1
  <2>4. QED  BY <2>2, <2>3
<1> HIDE DEF h, moves
<1>7. FoldLeft(Applied, m, h) = P!Folding({}, m, h)
  BY DEF P!Folding, FoldLeft, P!FoldLeft, MapThenFoldSet, P!MapThenFoldSet, Max, P!Max
<1>8. ASSUME NEW k \in 1 .. n, NEW x \in Q[k - 1]
      PROVE  Applied(x, h[k]) \in Q[k]
  <2>1. k - 1 \in 0 .. n /\ k \in 0 .. n /\ k # 0 /\ k \in Nat
    OBVIOUS
  <2>2. CASE k = 1
    <3>1. x = m /\ h[k] = Created(p) /\ Steps[1] = "draft"
      BY <1>6, <2>1, <2>2 DEF Steps
    <3>2. Applied(x, h[k]) = Reached(1)
      BY <3>1 DEF Applied, Created
    <3>3. QED  BY <2>1, <2>2, <3>2
  <2>3. CASE k # 1
    <3>1. x = Reached(k - 1) /\ h[k] = Changed(p, Steps[k - 1], Steps[k])
      BY <1>6, <2>1, <2>3
    <3>2. /\ x[p].version = k - 1
          /\ x \in [Proposals -> [status : {Steps[k - 1]}, version : {k - 1}] \union ProposalStates]
      BY <3>1
    <3>3. Applied(x, h[k]) = [x EXCEPT ![p] = [status |-> Steps[k], version |-> k]]
      BY <2>1, <3>1, <3>2 DEF Applied, Changed
    <3>4. Applied(x, h[k]) = Reached(k)
      BY <3>1, <3>3
    <3>5. QED  BY <2>1, <3>4
  <2>4. QED  BY <2>2, <2>3
<1>9. m \in Q[0] /\ Q[n] = {Reached(n)}
  OBVIOUS
<1> HIDE DEF Q
<1>10. P!Folding({}, m, h) \in Q[Len(h)]
  BY <1>6, <1>8, <1>9, P!FoldsAlong
<1>11. \A i \in DOMAIN h : h[i].type \in {"created", "changed"}
  <2>1. \A i \in DOMAIN h : i = 1 \/ i \in 2 .. n
    BY <1>6
  <2>2. h[1].type \in {"created", "changed"}
    BY <1>6 DEF Created
  <2>3. ASSUME NEW k \in 2 .. n PROVE h[k].type \in {"created", "changed"}
    <3>1. h[k] = Changed(p, Steps[k - 1], Steps[k])
      BY <1>6
    <3>2. QED  BY <3>1 DEF Changed
  <2>4. QED  BY <2>1, <2>2, <2>3
<1>12. QED  BY <1>6, <1>7, <1>9, <1>10, <1>11 DEF h

\* The streams on which the proposals of D have begun.
BegunStreams(s, D) ==
    {a \in Seq(LearningEntries) :
       /\ \A q \in Proposals : Replay(a)[q].status = IF q \in D THEN s.at[q] ELSE "none"
       /\ \A i \in DOMAIN a : /\ a[i].type # "reverted"
                              /\ a[i].type = "activated" => a[i].claim[2] = s.before
       /\ \A q \in D : s.at[q] = "promoted" => OnRecord(a, <<q, s.before>>)}

\* One proposal more.
LEMMA BeginsOneMore ==
    ASSUME NEW s \in Scenes, NEW D \in SUBSET Proposals, NEW a \in BegunStreams(s, D),
           NEW p \in Proposals
    PROVE  a \o Begun(s, p) \in BegunStreams(s, D \union {p})
<1> DEFINE h == History(p, s.at[p])
           c == <<p, s.before>>
           b == a \o h
<1>1. /\ a \in Seq(LearningEntries) /\ Replay(a) \in [Proposals -> ProposalStates]
      /\ s.at \in [Proposals -> {"none"} \union {Steps[i] : i \in DOMAIN Steps}]
      /\ c \in Claims /\ DOMAIN Steps = 1 .. 5
  BY ReplayType, ScenesAssumption DEF BegunStreams, Claims, Steps
<1>2. /\ h \in Seq(LearningEntries)
      /\ \A i \in DOMAIN h : h[i].type \in {"created", "changed"}
      /\ \A q \in Proposals :
            FoldLeft(Applied, Replay(a), h)[q].status =
               IF q = p /\ s.at[p] # "none" THEN s.at[p] ELSE Replay(a)[q].status
  <2>1. CASE s.at[p] = "none"
    <3>1. h = <<>>
      BY <2>1 DEF History
    <3>2. FoldLeft(Applied, Replay(a), <<>>) = Replay(a)
      <4>1. FoldLeft(Applied, Replay(a), <<>>) = P!Folding({}, Replay(a), <<>>)
        BY DEF P!Folding, FoldLeft, P!FoldLeft, MapThenFoldSet, P!MapThenFoldSet, Max, P!Max
      <4>2. QED  BY <4>1, P!FoldsNothing
    <3> HIDE DEF h
    <3>3. h \in Seq(LearningEntries) /\ \A i \in DOMAIN h : h[i].type \in {"created", "changed"}
      BY <3>1
    <3>4. FoldLeft(Applied, Replay(a), h) = Replay(a)
      BY <3>1, <3>2
    <3>5. QED  BY <2>1, <3>3, <3>4
  <2>2. CASE s.at[p] # "none"
    <3>1. PICK n \in 1 .. 5 : s.at[p] = Steps[n]
      BY <1>1, <2>2
    <3>2. /\ h \in Seq(LearningEntries)
          /\ \A i \in DOMAIN h : h[i].type \in {"created", "changed"}
          /\ FoldLeft(Applied, Replay(a), h) =
                [Replay(a) EXCEPT ![p] = [status |-> Steps[n], version |-> n]]
      BY <1>1, <3>1, HistoryReplays
    <3>3. QED  BY <1>1, <2>2, <3>1, <3>2
  <2>3. QED  BY <2>1, <2>2
<1> HIDE DEF h
<1>3. b \in Seq(LearningEntries) /\ Replay(b) = FoldLeft(Applied, Replay(a), h)
  <2>1. /\ \A u : Replay(u) = P!Folding({}, NoProposals, u)
        /\ \A m, u : FoldLeft(Applied, m, u) = P!Folding({}, m, u)
    BY DEF P!Folding, Replay, FoldLeft, P!FoldLeft, MapThenFoldSet, P!MapThenFoldSet, Max, P!Max
  <2>2. P!Folding({}, NoProposals, a \o h) = P!Folding({}, P!Folding({}, NoProposals, a), h)
    BY <1>1, <1>2, P!FoldsInTurn
  <2>3. QED  BY <1>1, <1>2, <2>1, <2>2
<1>4. /\ \A i \in DOMAIN b : i \in DOMAIN a \/ b[i].type \in {"created", "changed"}
      /\ \A i \in DOMAIN a : i \in DOMAIN b /\ b[i] = a[i]
  <2>1. \A i \in DOMAIN b : i \in DOMAIN a \/ (i - Len(a) \in DOMAIN h /\ b[i] = h[i - Len(a)])
    BY <1>1, <1>2
  <2>2. \A i \in DOMAIN a : i \in DOMAIN b /\ b[i] = a[i]
    BY <1>1, <1>2
  <2>3. QED  BY <1>2, <2>1, <2>2
<1>5. /\ \A q \in Proposals : Replay(b)[q].status = IF q \in D \union {p} THEN s.at[q] ELSE "none"
      /\ \A i \in DOMAIN b : /\ b[i].type # "reverted"
                             /\ b[i].type = "activated" => b[i].claim[2] = s.before
      /\ \A q \in D : s.at[q] = "promoted" => OnRecord(b, <<q, s.before>>)
  <2>1. ASSUME NEW q \in Proposals
        PROVE  Replay(b)[q].status = IF q \in D \union {p} THEN s.at[q] ELSE "none"
    BY <1>2, <1>3 DEF BegunStreams
  <2>2. ASSUME NEW i \in DOMAIN b
        PROVE  b[i].type # "reverted" /\ (b[i].type = "activated" => b[i].claim[2] = s.before)
    BY <1>4 DEF BegunStreams
  <2>3. ASSUME NEW q \in D, s.at[q] = "promoted" PROVE OnRecord(b, <<q, s.before>>)
    BY <1>4, <2>3 DEF BegunStreams, OnRecord
  <2>4. QED  BY <2>1, <2>2, <2>3
<1> HIDE DEF b
<1>6. CASE s.at[p] # "promoted"
  <2>1. a \o Begun(s, p) = b
    BY <1>1, <1>2, <1>6 DEF Begun, h, b
  <2>2. QED  BY <1>3, <1>5, <1>6, <2>1 DEF BegunStreams
<1>7. CASE s.at[p] = "promoted"
  <2> DEFINE e == Activated(p, c)
  <2>1. e \in LearningEntries /\ e.type = "activated" /\ e.claim = c
    BY <1>1, EntriesAre DEF Activated
  <2> HIDE DEF e
  <2>2. a \o Begun(s, p) = Append(b, e)
    <3>1. Begun(s, p) = h \o <<e>>
      BY <1>7 DEF Begun, h, e
    <3>2. QED  BY <1>1, <1>2, <2>1, <3>1 DEF b
  <2>3. Append(b, e) \in Seq(LearningEntries)
    BY <1>3, <2>1
  <2>4. Replay(Append(b, e)) = Replay(b)
    BY <1>3, <2>1, ReplayGrows DEF Applied
  <2>5. \A i \in DOMAIN Append(b, e) :
           (i \in DOMAIN b /\ Append(b, e)[i] = b[i]) \/ Append(b, e)[i] = e
    BY <1>3
  <2>6. OnRecord(Append(b, e), c)
    <3>1. Len(b) + 1 \in DOMAIN Append(b, e) /\ Append(b, e)[Len(b) + 1] = e
      BY <1>3
    <3>2. QED  BY <2>1, <3>1 DEF OnRecord
  <2>7. \A q \in D \union {p} : s.at[q] = "promoted" => OnRecord(Append(b, e), <<q, s.before>>)
    BY <1>3, <1>5, <2>1, <2>6, RecordGrows
  <2>8. \A i \in DOMAIN Append(b, e) :
           /\ Append(b, e)[i].type # "reverted"
           /\ Append(b, e)[i].type = "activated" => Append(b, e)[i].claim[2] = s.before
    BY <1>5, <2>1, <2>5
  <2>9. Append(b, e) \in BegunStreams(s, D \union {p})
    BY <1>5, <2>3, <2>4, <2>7, <2>8 DEF BegunStreams
  <2>10. QED  BY <2>2, <2>9
<1>8. QED  BY <1>6, <1>7

\* A host starts with the histories of all proposals.
LEMMA PastIsBegun == ASSUME NEW s \in Scenes PROVE Past(s) \in BegunStreams(s, Proposals)
<1> DEFINE all == SetToSeq(Proposals)
           First(n) == {all[i] : i \in 1 .. n}
           Q == [n \in 0 .. Len(all) |-> BegunStreams(s, First(n))]
<1>1. all \in Seq(Proposals) /\ \A p \in Proposals : \E k \in DOMAIN all : all[k] = p
  BY ProposalsListed, LearningAssumption
<1> HIDE DEF all
<1>2. Past(s) = G!Folding(s, <<>>, all)
  BY DEF G!Folding, Past, FoldLeft, G!FoldLeft, MapThenFoldSet, G!MapThenFoldSet, Max, G!Max, all
<1>3. <<>> \in Q[0]
  <2>1. First(0) = {} /\ 0 \in 0 .. Len(all) /\ <<>> \in Seq(LearningEntries)
    BY <1>1
  <2>2. \A q \in Proposals : Replay(<<>>)[q].status = "none"
    BY ReplayStarts DEF NoProposals
  <2>3. QED  BY <2>1, <2>2 DEF BegunStreams
<1>4. ASSUME NEW n \in 1 .. Len(all), NEW a \in Q[n - 1]
      PROVE  a \o Begun(s, all[n]) \in Q[n]
  <2>1. /\ n - 1 \in 0 .. Len(all) /\ n \in 0 .. Len(all) /\ all[n] \in Proposals
        /\ First(n - 1) \in SUBSET Proposals /\ First(n) = First(n - 1) \union {all[n]}
    BY <1>1
  <2>2. a \in BegunStreams(s, First(n - 1))
    BY <2>1
  <2> HIDE DEF First
  <2>3. a \o Begun(s, all[n]) \in BegunStreams(s, First(n))
    BY <2>1, <2>2, BeginsOneMore
  <2>4. QED  BY <2>1, <2>3
<1>5. First(Len(all)) = Proposals /\ Len(all) \in 0 .. Len(all)
  BY <1>1
<1>6. G!Folding(s, <<>>, all) \in Q[Len(all)]
  <2> HIDE DEF Q
  <2>1. QED  BY <1>1, <1>3, <1>4, G!FoldsAlong
<1>7. QED  BY <1>2, <1>5, <1>6

LEMMA IdleType == Idle \in JobRecords /\ [Idle EXCEPT !.pc = "absent"] \in JobRecords
<1>1. Report \in LearningEntries /\ <<>> \in Seq(Proposals \union Due \union PatternTargets)
  BY EntriesAre
<1>2. {"idle", "done", "absent"} \subseteq Places
  BY DEF Places
<1> HIDE DEF Idle
<1>3. Idle \in JobRecords
  BY <1>1, <1>2 DEF Idle, JobRecords
<1>4. QED  BY <1>2, <1>3 DEF JobRecords

\* A job that has not begun, or will not, or has ended, has nothing to keep.
LEMMA RestOk ==
    ASSUME NEW j, NEW r \in JobRecords, r.pc \in Settled, r.seen <= Len(stream)
    PROVE  ErrandOk(j, r)
BY DEF ErrandOk, Provided, Underway, Place, Settled

LEMMA LearningInitHolds == LearningInit => LInv
<1> SUFFICES ASSUME LearningInit PROVE LInv
  OBVIOUS
<1>1. PICK s \in Scenes :
         /\ stream = Past(s)
         /\ memory = [c \in Claims |->
               IF c[1] \in {p \in Proposals : s.at[p] = "promoted"} /\ c[2] = s.before
               THEN "active" ELSE "none"]
         /\ job = [j \in Jobs |-> IF j \in s.jobs THEN Idle ELSE [Idle EXCEPT !.pc = "absent"]]
  BY DEF LearningInit
<1>2. up = TRUE /\ prop = Replay(stream) /\ claims = Activations(stream)
  BY DEF LearningInit
<1>3. /\ s.at \in [Proposals -> {"none"} \union {Steps[i] : i \in DOMAIN Steps}]
      /\ s.jobs \subseteq Jobs /\ s.before \in Jobs \ s.jobs
      /\ \A p, q \in Proposals :
            p # q /\ s.at[p] \in Open /\ s.at[q] \in Open => Target[p] # Target[q]
  BY ScenesAssumption
<1>4. /\ stream \in Seq(LearningEntries)
      /\ \A q \in Proposals : Replay(stream)[q].status = s.at[q]
      /\ \A i \in DOMAIN stream : /\ stream[i].type # "reverted"
                                  /\ stream[i].type = "activated" => stream[i].claim[2] = s.before
      /\ \A q \in Proposals : s.at[q] = "promoted" => OnRecord(stream, <<q, s.before>>)
  BY <1>1, PastIsBegun DEF BegunStreams
<1>5. LearningShape
  <2>1. job \in [Jobs -> JobRecords]
    BY <1>1, IdleType
  <2>2. memory \in [Claims -> Memory!Statuses]
    BY <1>1 DEF Memory!Statuses
  <2>3. QED  BY <1>2, <1>4, <2>1, <2>2, ReplayType, ActivationsAreTold DEF LearningShape
<1>6. job[s.before].pc = "absent" /\ \A c : c[2] = s.before => Spent(c)
  <2>1. job[s.before].pc = "absent"
    BY <1>1, <1>3 DEF Idle
  <2>2. QED  BY <2>1 DEF Spent, MayIngest, Place
<1>7. \A i \in DOMAIN stream : stream[i].type = "activated" => Spent(stream[i].claim)
  BY <1>4, <1>6
<1>8. StreamTold
  <2>1. OneOpen(Replay(stream))
    BY <1>3, <1>4 DEF OneOpen
  <2>2. \A p \in Proposals : claims[p] # None => Spent(claims[p])
    BY <1>2, <1>4, <1>7, ActivationsAreTold DEF OnRecord
  <2>3. \A c \in Claims : memory[c] # "none" => OnRecord(stream, c)
    <3>1. \A c \in Claims : c = <<c[1], c[2]>>
      BY DEF Claims
    <3>2. QED  BY <1>1, <1>4, <3>1
  <2>4. QED  BY <1>2, <1>4, <1>7, <2>1, <2>2, <2>3 DEF StreamTold
<1>9. \A j \in Jobs : ErrandOk(j, job[j])
  <2>1. \A j \in Jobs : job[j] \in JobRecords /\ job[j].pc \in Settled /\ job[j].seen = 0
    BY <1>1, IdleType DEF Idle, Settled
  <2>2. 0 <= Len(stream)
    BY <1>4
  <2>3. QED  BY <2>1, <2>2, RestOk
<1>10. QED  BY <1>5, <1>8, <1>9 DEF LInv

-----------------------------------------------------------------------------
(* Learning: steps that leave the stream alone *)

\* Job j goes on, memory or a claim may change with it; a claim out of memory stays
\* out, a claim in memory is on record, and the other jobs keep what they had.
LEMMA StepKeeps ==
    ASSUME LInv, NEW j \in Jobs, NEW r \in JobRecords, job' = [job EXCEPT ![j] = r],
           UNCHANGED <<stream, up, prop>>,
           claims' \in [Proposals -> Claims \union {None}],
           \A p \in Proposals : claims'[p] # None => claims'[p] = claims[p] \/ Spent(claims[p])',
           memory' \in [Claims -> Memory!Statuses],
           \A c \in Claims : memory[c] = "retracted" => memory'[c] = "retracted",
           \A c \in Claims : memory'[c] # "none" => memory[c] # "none" \/ OnRecord(stream, c),
           MayIngest(r) => MayIngest(job[j]) /\ job[j].pc # "ingest",
           ErrandOk(j, r)'
    PROVE  LInv'
<1>1. /\ LearningShape /\ StreamTold /\ \A i \in Jobs : ErrandOk(i, job[i])
      /\ stream \in Seq(LearningEntries) /\ job \in [Jobs -> JobRecords]
  BY DEF LInv, LearningShape
<1>2. /\ job' \in [Jobs -> JobRecords] /\ job'[j] = r
      /\ \A i \in Jobs : i # j => job'[i] = job[i]
  BY <1>1
<1>3. \A c \in Claims : Spent(c) => Spent(c)'
  <2>1. \A c \in Claims : c[2] \in Jobs
    BY DEF Claims
  <2>2. QED  BY <1>2, <2>1 DEF Spent
<1>4. LearningShape'
  BY <1>1, <1>2 DEF LearningShape
<1>5. ASSUME NEW i \in Jobs, i # j PROVE ErrandOk(i, job[i])'
  <2>1. PICK l \in JobRecords : l = job[i]
    BY <1>1
  <2>2. ErrandOk(i, l) /\ job'[i] = l
    BY <1>1, <1>2, <1>5, <2>1
  <2>3. Provided(i, l)' = Provided(i, l)
    BY DEF Provided, Place
  <2>4. l.ev.type = "reverted" => l.ev.claim \in Claims
    BY EntryFields DEF JobRecords
  <2>5. \A e : Fits(e)' = Fits(e)
    BY DEF Fits
  <2>6. Underway(i, l)'
    BY <1>3, <2>2, <2>4, <2>5 DEF ErrandOk, Underway
  <2>7. ErrandOk(i, l)'
    BY <1>3, <2>2, <2>3, <2>6 DEF ErrandOk
  <2>8. QED  BY <2>2, <2>7
<1>6. \A i \in Jobs : ErrandOk(i, job[i])'
  BY <1>2, <1>5
<1>7. StreamTold'
  <2>1. ASSUME NEW i \in DOMAIN stream
        PROVE  /\ stream[i].type = "activated" =>
                     Spent(stream[i].claim)' \/ job'[stream[i].claim[2]].pc = "ingest"
               /\ stream[i].type = "reverted" =>
                     memory'[stream[i].claim] = "retracted" /\ Spent(stream[i].claim)'
    <3> DEFINE c == stream[i].claim
    <3>1. stream[i] \in LearningEntries
      BY <1>1
    <3>2. stream[i].type \in {"activated", "reverted"} => c \in Claims /\ c[2] \in Jobs
      BY <3>1, EntryFields DEF Claims
    <3>3. CASE stream[i].type = "activated"
      <4>1. Spent(c) \/ job[c[2]].pc = "ingest"
        BY <1>1, <3>3 DEF StreamTold
      <4>2. CASE c[2] # j
        BY <1>2, <1>3, <3>2, <3>3, <4>1, <4>2
      <4>3. CASE c[2] = j
        <5>1. MayIngest(r) => FALSE
          BY <4>1, <4>3 DEF Spent
        <5>2. Spent(c)'
          BY <1>2, <4>3, <5>1 DEF Spent
        <5>3. QED  BY <3>3, <5>2
      <4>4. QED  BY <4>2, <4>3
    <3>4. CASE stream[i].type = "reverted"
      BY <1>1, <1>3, <3>2, <3>4 DEF StreamTold
    <3>5. QED  BY <3>3, <3>4
  <2>2. \A p \in Proposals : claims'[p] # None => Spent(claims[p])'
    <3>1. \A p \in Proposals : claims'[p] # None => claims'[p] \in Claims
      OBVIOUS
    <3>2. QED  BY <1>1, <1>3, <3>1 DEF StreamTold
  <2>3. \A c \in Claims : memory'[c] # "none" => OnRecord(stream, c)
    BY <1>1 DEF StreamTold
  <2>4. OneOpen(Replay(stream)) /\ (up => prop = Replay(stream))
    BY <1>1 DEF StreamTold
  <2>5. QED  BY <2>1, <2>2, <2>3, <2>4 DEF StreamTold
<1>8. QED  BY <1>4, <1>6, <1>7 DEF LInv

\* A step of a job that changes nothing else.
LEMMA MoveKeeps ==
    ASSUME LInv, NEW j \in Jobs, NEW r \in JobRecords, job' = [job EXCEPT ![j] = r],
           UnchangedButJob, ErrandOk(j, r),
           MayIngest(r) => MayIngest(job[j]) /\ job[j].pc # "ingest"
    PROVE  LInv'
<1>1. /\ claims \in [Proposals -> Claims \union {None}] /\ memory \in [Claims -> Memory!Statuses]
      /\ job \in [Jobs -> JobRecords] /\ StreamTold
      /\ UNCHANGED <<stream, up, prop, claims, memory>>
  BY DEF LInv, LearningShape, UnchangedButJob
<1>2. \A c \in Claims : Spent(c) => Spent(c)'
  <2>1. \A c \in Claims : c[2] \in Jobs
    BY DEF Claims
  <2>2. QED  BY <1>1, <2>1 DEF Spent
<1>3. ErrandOk(j, r)'
  <2>1. Provided(j, r)' = Provided(j, r)
    BY DEF Provided, Place
  <2>2. r.ev.type = "reverted" => r.ev.claim \in Claims
    BY EntryFields DEF JobRecords
  <2>3. \A e : Fits(e)' = Fits(e)
    BY <1>1 DEF Fits
  <2>4. Underway(j, r)'
    BY <1>1, <1>2, <2>2, <2>3 DEF ErrandOk, Underway
  <2>5. QED  BY <1>1, <1>2, <2>1, <2>4 DEF ErrandOk
<1>4. QED  BY <1>1, <1>2, <1>3, StepKeeps

\* What the invariant says of one job.
LEMMA JobIs ==
    ASSUME LInv, NEW j \in Jobs
    PROVE  /\ job[j] \in JobRecords /\ ErrandOk(j, job[j]) /\ StreamTold
           /\ stream \in Seq(LearningEntries) /\ prop \in [Proposals -> ProposalStates]
           /\ claims \in [Proposals -> Claims \union {None}]
           /\ memory \in [Claims -> Memory!Statuses] /\ job \in [Jobs -> JobRecords]
           /\ Len(stream) \in Nat
BY DEF LInv, LearningShape

\* A job ends.
LEMMA EndKeeps ==
    ASSUME LInv, NEW j \in Jobs, NEW x \in {"done", "refused", "failed"}, Goto(j, x),
           UnchangedButJob
    PROVE  LInv'
<1>1. PICK l \in JobRecords : l = job[j] /\ l.seen <= Len(stream) /\ job \in [Jobs -> JobRecords]
  BY JobIs DEF ErrandOk
<1>2. PICK r : r = [l EXCEPT !.pc = x]
  OBVIOUS
<1>3. r \in JobRecords /\ r.pc = x /\ r.seen = l.seen
  BY <1>2 DEF JobRecords, Places
<1>4. job' = [job EXCEPT ![j] = r]
  BY <1>1, <1>2 DEF Goto
<1>5. ErrandOk(j, r) /\ ~MayIngest(r)
  BY <1>1, <1>3, RestOk DEF Settled, MayIngest, Place
<1>6. QED  BY <1>3, <1>4, <1>5, MoveKeeps

\* An append is sent.
LEMMA SendingIs ==
    ASSUME LInv, NEW l \in JobRecords, NEW e \in LearningEntries, NEW t \in Places,
           NEW r, r = Sending(l, e, t)
    PROVE  /\ r \in JobRecords /\ r.pc = "appending" /\ r.ev = e /\ r.then = t
           /\ r.seen = Len(stream) /\ Place(r) = t
           /\ r.p = l.p /\ r.version = l.version /\ r.claim = l.claim /\ r.todo = l.todo
           /\ r.made = l.made
<1>1. Len(stream) \in Nat /\ "appending" \in Places
  BY DEF LInv, LearningShape, Places
<1>2. QED  BY <1>1 DEF Sending, JobRecords, Place

\* An append that is neither of an activation nor of a reversal.
LEMMA SendKeeps ==
    ASSUME LInv, up, NEW j \in Jobs, NEW r \in JobRecords, job' = [job EXCEPT ![j] = r],
           UnchangedButJob, r.pc = "appending", r.seen = Len(stream),
           r.ev.type \notin {"activated", "reverted"}, Fits(r.ev),
           r.then \notin {"ingest", "appending", "retracting", "retracted"},
           Provided(j, r), MayIngest(r) => MayIngest(job[j]) /\ job[j].pc # "ingest"
    PROVE  LInv'
<1>1. Len(stream) \in Nat
  BY JobIs
<1>2. Underway(j, r)
  BY DEF Underway
<1>3. ErrandOk(j, r)
  BY <1>1, <1>2 DEF ErrandOk
<1>4. QED  BY <1>3, MoveKeeps

\* A transition that is allowed fits.
LEMMA MovedFits ==
    ASSUME LInv, NEW p \in Proposals, NEW v, NEW to, MayMove(p, v, to)
    PROVE  /\ Moved(p, to) \in LearningEntries /\ Moved(p, to).type = "changed"
           /\ Fits(Moved(p, to))
<1>1. prop[p].status \in ProposalStatuses
  BY DEF LInv, LearningShape, ProposalStates
<1>2. <<prop[p].status, to>> \in Edges /\ to \in ProposalStatuses
  BY DEF MayMove, Edges, ProposalStatuses
<1>3. QED  BY <1>1, <1>2, EntriesAre DEF Moved, Changed, Fits

LEMMA ReportFits == Report \in LearningEntries /\ Report.type = "report" /\ Fits(Report)
BY EntriesAre DEF Report, Fits

LEMMA LookKeeps == ASSUME LInv, NEW j \in Jobs, Look(j) PROVE LInv'
<1>1. PICK l \in JobRecords : l = job[j] /\ ErrandOk(j, l) /\ job \in [Jobs -> JobRecords]
  BY JobIs
<1>2. /\ l.pc = "idle" /\ Asks[j].kind = "transition" /\ Asks[j].p \in Proposals
      /\ prop[Asks[j].p].version \in Nat /\ UnchangedButJob /\ up
  BY <1>1, AsksAssumption, JobIs DEF Look, At, ProposalStates
<1>3. PICK r : r = [l EXCEPT !.pc = "looked", !.p = Asks[j].p, !.version = prop[Asks[j].p].version]
  OBVIOUS
<1>4. r \in JobRecords /\ r.pc = "looked" /\ r.p = Asks[j].p /\ r.seen = l.seen
  BY <1>2, <1>3 DEF JobRecords, Places
<1>5. job' = [job EXCEPT ![j] = r]
  BY <1>1, <1>3 DEF Look
<1>6. ErrandOk(j, r)
  BY <1>1, <1>2, <1>4 DEF ErrandOk, Provided, Underway, Place
<1>7. MayIngest(job[j]) /\ job[j].pc # "ingest"
  BY <1>1, <1>2 DEF MayIngest, Place
<1>8. QED  BY <1>2, <1>4, <1>5, <1>6, <1>7, MoveKeeps

LEMMA TransitionKeeps == ASSUME LInv, NEW j \in Jobs, Transition(j) PROVE LInv'
<1>1. PICK l \in JobRecords : l = job[j] /\ ErrandOk(j, l) /\ job \in [Jobs -> JobRecords]
  BY JobIs
<1>2. /\ l.pc = "looked" /\ Asks[j].kind = "transition" /\ l.p \in Proposals /\ up
      /\ UnchangedButJob
  BY <1>1 DEF Transition, At, ErrandOk, Provided, Place
<1>3. PICK t \in {"apply", "revert", "done"} :
         \/ /\ MayMove(l.p, l.version, Asks[j].to)
            /\ job' = [job EXCEPT ![j] = Sending(l, Moved(l.p, Asks[j].to), t)]
         \/ Goto(j, "refused")
  BY <1>1 DEF Transition
<1>4. CASE Goto(j, "refused")
  BY <1>2, <1>4, EndKeeps
<1>5. CASE /\ MayMove(l.p, l.version, Asks[j].to)
           /\ job' = [job EXCEPT ![j] = Sending(l, Moved(l.p, Asks[j].to), t)]
  <2>1. PICK e \in LearningEntries :
           e = Moved(l.p, Asks[j].to) /\ e.type = "changed" /\ Fits(e)
    BY <1>2, <1>5, MovedFits
  <2>2. PICK r : r = Sending(l, e, t)
    OBVIOUS
  <2>3. t \in Places
    BY DEF Places
  <2>4. /\ r \in JobRecords /\ r.pc = "appending" /\ r.ev = e /\ r.then = t
        /\ r.seen = Len(stream) /\ Place(r) = t /\ r.p = l.p
    BY <2>2, <2>3, SendingIs
  <2>5. Provided(j, r)
    BY <1>2, <2>4 DEF Provided
  <2>6. MayIngest(job[j]) /\ job[j].pc # "ingest"
    BY <1>1, <1>2 DEF MayIngest, Place
  <2>7. QED  BY <1>2, <1>5, <2>1, <2>2, <2>4, <2>5, <2>6, SendKeeps
<1>6. QED  BY <1>3, <1>4, <1>5

LEMMA ActivateKeeps == ASSUME LInv, NEW j \in Jobs, Activate(j) PROVE LInv'
<1>1. PICK l \in JobRecords : l = job[j] /\ ErrandOk(j, l) /\ job \in [Jobs -> JobRecords]
  BY JobIs
<1>2. l.pc = "idle" /\ Asks[j].p \in Proposals /\ UnchangedButJob /\ up
  BY <1>1, AsksAssumption DEF Activate, At
<1>3. PICK x \in {"apply", "refused"} :
         job' = [job EXCEPT ![j].p = Asks[j].p, ![j].pc = x]
  BY DEF Activate
<1>4. PICK r : r = [l EXCEPT !.p = Asks[j].p, !.pc = x]
  OBVIOUS
<1>5. r \in JobRecords /\ r.pc = x /\ r.p = Asks[j].p /\ r.seen = l.seen
  BY <1>2, <1>4 DEF JobRecords, Places
<1>6. job' = [job EXCEPT ![j] = r]
  BY <1>1, <1>3, <1>4
<1>7. ErrandOk(j, r)
  BY <1>1, <1>2, <1>5 DEF ErrandOk, Provided, Underway, Place
<1>8. MayIngest(job[j]) /\ job[j].pc # "ingest"
  BY <1>1, <1>2 DEF MayIngest, Place
<1>9. QED  BY <1>2, <1>5, <1>6, <1>7, <1>8, MoveKeeps

LEMMA ApplyKeeps == ASSUME LInv, NEW j \in Jobs, Apply(j) PROVE LInv'
<1>1. PICK l \in JobRecords : l = job[j] /\ ErrandOk(j, l) /\ job \in [Jobs -> JobRecords]
  BY JobIs
<1>2. l.pc = "apply" /\ l.p \in Proposals /\ UnchangedButJob /\ up
  BY <1>1 DEF Apply, At, ErrandOk, Provided, Place
<1>3. \/ Goto(j, "refused") \/ Goto(j, "done")
      \/ job' = [job EXCEPT ![j] = Sending(l, Activated(l.p, <<l.p, j>>), "ingest")]
  BY <1>1 DEF Apply
<1>4. CASE Goto(j, "refused") \/ Goto(j, "done")
  BY <1>2, <1>4, EndKeeps
<1>5. CASE job' = [job EXCEPT ![j] = Sending(l, Activated(l.p, <<l.p, j>>), "ingest")]
  <2>1. PICK e \in LearningEntries : e = Activated(l.p, <<l.p, j>>)
    BY <1>2, EntriesAre DEF Claims
  <2>2. PICK r : r = Sending(l, e, "ingest")
    OBVIOUS
  <2>3. "ingest" \in Places
    BY DEF Places
  <2>4. /\ r \in JobRecords /\ r.pc = "appending" /\ r.ev = e /\ r.then = "ingest"
        /\ r.seen = Len(stream) /\ Place(r) = "ingest" /\ r.p = l.p
    BY <2>2, <2>3, SendingIs
  <2>5. Provided(j, r)
    BY <1>2, <2>4 DEF Provided
  <2>6. e.type = "activated" /\ Fits(e)
    BY <2>1 DEF Activated, Fits
  <2>7. Underway(j, r)
    BY <1>2, <2>1, <2>4, <2>6 DEF Underway
  <2>8. ErrandOk(j, r)
    BY <1>2, <2>4, <2>5, <2>7, JobIs DEF ErrandOk
  <2>9. MayIngest(job[j]) /\ job[j].pc # "ingest"
    BY <1>1, <1>2 DEF MayIngest, Place
  <2>10. QED  BY <1>2, <1>5, <2>1, <2>2, <2>4, <2>8, <2>9, MoveKeeps
<1>6. QED  BY <1>3, <1>4, <1>5

\* Memory records the claim of job j: it was not there before.
LEMMA RecordIs ==
    ASSUME LInv, NEW c \in Claims, Memory!Record({c}, {})
    PROVE  /\ memory[c] = "none" /\ memory' \in [Claims -> Memory!Statuses]
           /\ \A d \in Claims : d # c => memory'[d] = memory[d]
<1>1. memory \in [Claims -> Memory!Statuses]
  BY DEF LInv, LearningShape
<1>2. QED  BY <1>1 DEF Memory!Record, Memory!Statuses

LEMMA RetractIs ==
    ASSUME LInv, NEW c \in Claims, Memory!Retract(c)
    PROVE  /\ memory[c] # "none" /\ memory'[c] = "retracted"
           /\ memory' \in [Claims -> Memory!Statuses]
           /\ \A d \in Claims : d # c => memory'[d] = memory[d]
<1>1. memory \in [Claims -> Memory!Statuses]
  BY DEF LInv, LearningShape
<1>2. QED  BY <1>1 DEF Memory!Retract, Memory!Statuses

\* Whatever a call of memory did: job j's ingest records its claim, its retraction
\* retracts the claim it was given.
LEMMA CallKeeps ==
    ASSUME LInv, NEW j \in Jobs, NEW x \in {"ingested", "retracted", "failed"},
           job' = [job EXCEPT ![j].pc = x], UNCHANGED <<stream, up, prop, claims>>,
           \/ /\ job[j].pc = "ingest" /\ x # "retracted"
              /\ UNCHANGED memory \/ Memory!Record({<<job[j].p, j>>}, {})
           \/ /\ job[j].pc = "retracting" /\ x # "ingested"
              /\ (UNCHANGED memory /\ x = "failed") \/ Memory!Retract(job[j].claim)
    PROVE  LInv'
<1>1. PICK l \in JobRecords : l = job[j] /\ ErrandOk(j, l) /\ job \in [Jobs -> JobRecords]
  BY JobIs
<1>2. PICK r : r = [l EXCEPT !.pc = x]
  OBVIOUS
<1>3. /\ r \in JobRecords /\ r.pc = x /\ r.p = l.p /\ r.seen = l.seen /\ r.claim = l.claim
      /\ r.todo = l.todo /\ Place(r) = x
  BY <1>2 DEF JobRecords, Places, Place
<1>4. job' = [job EXCEPT ![j] = r]
  BY <1>1, <1>2
<1>5. /\ memory' \in [Claims -> Memory!Statuses]
      /\ \A c \in Claims : memory[c] = "retracted" => memory'[c] = "retracted"
      /\ \A c \in Claims : memory'[c] # "none" => memory[c] # "none" \/ OnRecord(stream, c)
      /\ x = "retracted" => memory'[l.claim] = "retracted"
  <2>1. CASE UNCHANGED memory /\ x # "retracted"
    BY <2>1, JobIs
  <2>2. CASE l.pc = "ingest" /\ Memory!Record({<<l.p, j>>}, {}) /\ x # "retracted"
    <3>1. <<l.p, j>> \in Claims /\ OnRecord(stream, <<l.p, j>>)
      BY <1>1, <2>2 DEF ErrandOk, Provided, Place, Claims
    <3>2. QED  BY <2>2, <3>1, RecordIs
  <2>3. CASE l.pc = "retracting" /\ Memory!Retract(l.claim)
    <3>1. l.claim \in Claims
      BY <1>1, <2>3 DEF ErrandOk
    <3>2. QED  BY <2>3, <3>1, RetractIs
  <2>4. QED  BY <1>1, <2>1, <2>2, <2>3
<1>6. ~MayIngest(r)
  BY <1>3 DEF MayIngest
<1>7. \A c : c \in Claims /\ Spent(c) => Spent(c)'
  <2>1. \A c \in Claims : c[2] \in Jobs
    BY DEF Claims
  <2>2. QED  BY <1>1, <1>4, <1>6, <2>1 DEF Spent
<1>8. ErrandOk(j, r)'
  <2>1. Provided(j, r)'
    <3>1. Provided(j, l) /\ (x = "retracted" => Place(l) = "retracting")
          /\ (x = "ingested" => Place(l) = "ingest")
      BY <1>1 DEF ErrandOk, Place
    <3>2. Provided(j, r)
      BY <1>3, <3>1 DEF Provided
    <3>3. QED  BY <3>2 DEF Provided, Place
  <2>2. Underway(j, r)'
    BY <1>3 DEF Underway
  <2>3. x = "retracted" => l.claim \in Claims /\ Spent(l.claim)
    BY <1>1 DEF ErrandOk
  <2>4. up
    <3>1. l.pc \notin Settled
      BY <1>1 DEF Settled
    <3>2. QED  BY <1>1, <3>1 DEF ErrandOk
  <2>5. r.seen <= Len(stream)
    BY <1>1, <1>3 DEF ErrandOk
  <2>6. QED  BY <1>3, <1>5, <1>7, <2>1, <2>2, <2>3, <2>4, <2>5 DEF ErrandOk
<1>9. QED  BY <1>3, <1>4, <1>5, <1>6, <1>8, JobIs, StepKeeps

LEMMA IngestKeeps == ASSUME LInv, NEW j \in Jobs, Ingest(j) PROVE LInv'
<1>1. /\ job[j].pc = "ingest" /\ Memory!Record({<<job[j].p, j>>}, {})
      /\ job' = [job EXCEPT ![j].pc = "ingested"] /\ UNCHANGED <<stream, up, prop, claims>>
  BY DEF Ingest, At, Goto
<1>2. QED  BY <1>1, CallKeeps

LEMMA RetractKeeps == ASSUME LInv, NEW j \in Jobs, Retract(j) PROVE LInv'
<1>1. job[j].pc = "retracting" /\ UNCHANGED <<stream, up, prop, claims, skills, faults>>
  BY DEF Retract, At
<1>2. CASE Goto(j, "failed") /\ UNCHANGED memory
  BY <1>1, <1>2, EndKeeps DEF UnchangedButJob
<1>3. CASE Memory!Retract(job[j].claim) /\ Goto(j, "retracted")
  BY <1>1, <1>3, CallKeeps DEF Goto
<1>4. QED  BY <1>2, <1>3 DEF Retract

LEMMA MemoryFailsKeeps == ASSUME LInv, NEW j \in Jobs, MemoryFails(j) PROVE LInv'
<1>1. /\ job' = [job EXCEPT ![j].pc = "failed"] /\ UNCHANGED <<stream, up, prop, claims>>
      /\ job[j].pc \in {"ingest", "retracting"}
      /\ \/ UNCHANGED memory
         \/ job[j].pc = "ingest" /\ Memory!Record({<<job[j].p, j>>}, {})
         \/ job[j].pc = "retracting" /\ Memory!Retract(job[j].claim)
  BY DEF MemoryFails, At, Goto
<1>2. QED  BY <1>1, CallKeeps

LEMMA AdoptKeeps == ASSUME LInv, NEW j \in Jobs, Adopt(j) PROVE LInv'
<1>1. PICK l \in JobRecords : l = job[j] /\ ErrandOk(j, l) /\ job \in [Jobs -> JobRecords]
  BY JobIs
<1>2. /\ l.pc = "ingested" /\ up /\ UNCHANGED <<stream, up, prop, memory>>
      /\ claims' = [claims EXCEPT ![l.p] = <<l.p, j>>]
  BY <1>1 DEF Adopt, At
<1>3. l.p \in Proposals /\ <<l.p, j>> \in Claims
  BY <1>1, <1>2 DEF ErrandOk, Provided, Place, Claims
<1>4. PICK x \in {"registering", "done"} : job' = [job EXCEPT ![j].pc = x]
  BY <1>1 DEF Adopt, Goto
<1>5. PICK r : r = [l EXCEPT !.pc = x]
  OBVIOUS
<1>6. r \in JobRecords /\ r.pc = x /\ r.p = l.p /\ r.seen = l.seen /\ Place(r) = x
  BY <1>5 DEF JobRecords, Places, Place
<1>7. job' = [job EXCEPT ![j] = r] /\ job'[j] = r
  BY <1>1, <1>4, <1>5
<1>8. ~MayIngest(r)
  BY <1>6 DEF MayIngest
<1>9. ErrandOk(j, r)'
  <2>1. Provided(j, r)'
    BY <1>3, <1>6 DEF Provided, Place
  <2>2. QED  BY <1>1, <1>2, <1>6, <2>1 DEF ErrandOk, Underway
<1>10. /\ claims' \in [Proposals -> Claims \union {None}]
       /\ \A p \in Proposals : claims'[p] # None => claims'[p] = claims[p] \/ Spent(claims[p])'
  <2>1. claims \in [Proposals -> Claims \union {None}]
    BY JobIs
  <2>2. claims'[l.p] = <<l.p, j>> /\ \A p \in Proposals : p # l.p => claims'[p] = claims[p]
    BY <1>2, <1>3, <2>1
  <2>3. Spent(claims[l.p])'
    <3>1. (claims'[l.p])[2] = j
      BY <2>2
    <3>2. QED  BY <1>7, <1>8, <3>1 DEF Spent, MayIngest, Place
  <2>4. QED  BY <1>2, <1>3, <2>1, <2>2, <2>3
<1>11. QED  BY <1>2, <1>6, <1>7, <1>8, <1>9, <1>10, JobIs, StepKeeps

LEMMA RegisterSkillKeeps == ASSUME LInv, NEW j \in Jobs, RegisterSkill(j) PROVE LInv'
<1>1. PICK l \in JobRecords : l = job[j] /\ ErrandOk(j, l) /\ job \in [Jobs -> JobRecords]
  BY JobIs
<1>2. PICK r : r = [l EXCEPT !.pc = "done"]
  OBVIOUS
<1>3. r \in JobRecords /\ r.pc = "done" /\ r.seen = l.seen
  BY <1>2 DEF JobRecords, Places
<1>4. job' = [job EXCEPT ![j] = r] /\ UNCHANGED <<stream, up, prop, claims, memory>>
  BY <1>1, <1>2 DEF RegisterSkill, Goto
<1>5. ErrandOk(j, r)' /\ ~MayIngest(r)
  BY <1>1, <1>3, <1>4 DEF ErrandOk, Provided, Underway, Settled, MayIngest, Place
<1>6. QED  BY <1>3, <1>4, <1>5, JobIs, StepKeeps

LEMMA RevertKeeps == ASSUME LInv, NEW j \in Jobs, Revert(j) PROVE LInv'
<1>1. PICK l \in JobRecords : l = job[j] /\ ErrandOk(j, l) /\ job \in [Jobs -> JobRecords]
  BY JobIs
<1>2. /\ l.pc = "revert" /\ up /\ UnchangedButJob /\ l.p \in Proposals
      /\ Asks[j].kind = "transition"
  BY <1>1 DEF Revert, At, ErrandOk, Provided, Place
<1>3. PICK c, x : /\ c = claims[l.p] /\ x = IF c = None THEN "refused" ELSE "retracting"
                  /\ job' = [job EXCEPT ![j].claim = c, ![j].pc = x]
  BY <1>1 DEF Revert
<1>4. c \in Claims \union {None} /\ (c # None => Spent(c))
  BY <1>2, <1>3, JobIs DEF StreamTold
<1>5. PICK r : r = [l EXCEPT !.claim = c, !.pc = x]
  OBVIOUS
<1>6. /\ r \in JobRecords /\ r.pc = x /\ r.claim = c /\ r.seen = l.seen /\ r.p = l.p
      /\ Place(r) = x /\ x \in {"refused", "retracting"}
  BY <1>3, <1>4, <1>5, ZenonT(60) DEF JobRecords, Places, Place
<1>7. job' = [job EXCEPT ![j] = r]
  BY <1>1, <1>3, <1>5
<1>8. ErrandOk(j, r) /\ ~MayIngest(r)
  BY <1>1, <1>2, <1>3, <1>4, <1>6 DEF ErrandOk, Provided, Underway, MayIngest
<1>9. QED  BY <1>2, <1>6, <1>7, <1>8, MoveKeeps

LEMMA RecordReversalKeeps == ASSUME LInv, NEW j \in Jobs, RecordReversal(j) PROVE LInv'
<1>1. PICK l \in JobRecords : l = job[j] /\ ErrandOk(j, l) /\ job \in [Jobs -> JobRecords]
  BY JobIs
<1>2. /\ l.pc = "retracted" /\ up /\ UnchangedButJob /\ l.p \in Proposals
      /\ l.claim \in Claims /\ Spent(l.claim) /\ memory[l.claim] = "retracted"
      /\ Asks[j].kind = "drift" => \A i \in DOMAIN l.todo : l.todo[i] \in Proposals
  BY <1>1 DEF RecordReversal, At, ErrandOk, Provided, Place
<1>3. PICK e \in LearningEntries : e = Reverted(l.p, l.claim)
  BY <1>2, EntriesAre
<1>4. e.type = "reverted" /\ e.claim = l.claim /\ Fits(e)
  BY <1>3 DEF Reverted, Fits
<1>5. PICK t \in Places : t = AfterReversal(j)
  BY DEF AfterReversal, Places
<1>6. PICK r : r = Sending(l, e, t)
  OBVIOUS
<1>7. /\ r \in JobRecords /\ r.pc = "appending" /\ r.ev = e /\ r.then = t
      /\ r.seen = Len(stream) /\ Place(r) = t /\ r.todo = l.todo /\ r.p = l.p
  BY <1>6, SendingIs
<1>8. job' = [job EXCEPT ![j] = r]
  BY <1>1, <1>3, <1>5, <1>6 DEF RecordReversal
<1>9. (t = "reverting" /\ Asks[j].kind = "drift") \/ t = "done"
  BY <1>5 DEF AfterReversal
<1>10. Provided(j, r) /\ ~MayIngest(r)
  BY <1>2, <1>7, <1>9 DEF Provided, MayIngest
<1>11. Underway(j, r)
  BY <1>2, <1>4, <1>7, <1>9 DEF Underway
<1>12. ErrandOk(j, r)
  BY <1>2, <1>7, <1>10, <1>11, JobIs DEF ErrandOk
<1>13. QED  BY <1>2, <1>7, <1>8, <1>10, <1>12, MoveKeeps

LEMMA ExperimentKeeps == ASSUME LInv, NEW j \in Jobs, Experiment(j) PROVE LInv'
<1>1. PICK l \in JobRecords : l = job[j] /\ ErrandOk(j, l) /\ job \in [Jobs -> JobRecords]
  BY JobIs
<1>2. /\ l.pc = "idle" /\ up /\ UnchangedButJob /\ Asks[j].p \in Proposals
      /\ prop[Asks[j].p].version \in Nat
  BY <1>1, AsksAssumption, JobIs DEF Experiment, At, ProposalStates
<1>3. \/ job' = [job EXCEPT ![j] = [Sending(l, Report, "enter") EXCEPT
                   !.p = Asks[j].p, !.version = prop[Asks[j].p].version]]
      \/ job' = [job EXCEPT ![j] = [l EXCEPT !.pc = "refused"]]
  BY <1>1 DEF Experiment
<1>4. CASE job' = [job EXCEPT ![j] = [l EXCEPT !.pc = "refused"]]
  <2>1. Goto(j, "refused")
    BY <1>1, <1>4 DEF Goto
  <2>2. QED  BY <1>2, <2>1, EndKeeps
<1>5. CASE job' = [job EXCEPT ![j] = [Sending(l, Report, "enter") EXCEPT
                     !.p = Asks[j].p, !.version = prop[Asks[j].p].version]]
  <2>1. PICK s : s = Sending(l, Report, "enter") /\ "enter" \in Places
    BY DEF Places
  <2>2. /\ s \in JobRecords /\ s.pc = "appending" /\ s.ev = Report /\ s.then = "enter"
        /\ s.seen = Len(stream)
    BY <2>1, ReportFits, SendingIs
  <2>3. PICK r : r = [s EXCEPT !.p = Asks[j].p, !.version = prop[Asks[j].p].version]
    OBVIOUS
  <2>4. /\ r \in JobRecords /\ r.pc = "appending" /\ r.ev = Report /\ r.then = "enter"
        /\ r.seen = Len(stream) /\ r.p = Asks[j].p /\ Place(r) = "enter"
    BY <1>2, <2>2, <2>3 DEF JobRecords, Place
  <2>5. Provided(j, r) /\ ~MayIngest(r)
    BY <1>2, <2>4 DEF Provided, MayIngest
  <2>6. job' = [job EXCEPT ![j] = r]
    BY <1>5, <2>1, <2>3
  <2>7. QED  BY <1>2, <2>4, <2>5, <2>6, ReportFits, SendKeeps
<1>6. QED  BY <1>3, <1>4, <1>5

LEMMA EnterTestingKeeps == ASSUME LInv, NEW j \in Jobs, EnterTesting(j) PROVE LInv'
<1>1. PICK l \in JobRecords : l = job[j] /\ ErrandOk(j, l) /\ job \in [Jobs -> JobRecords]
  BY JobIs
<1>2. l.pc = "enter" /\ up /\ UnchangedButJob /\ l.p \in Proposals
  BY <1>1 DEF EnterTesting, At, ErrandOk, Provided, Place
<1>3. \/ Goto(j, "failed")
      \/ /\ MayMove(job[j].p, job[j].version, "testing")
         /\ job' = [job EXCEPT ![j] = [Sending(job[j], Moved(job[j].p, "testing"), "evaluate")
                                         EXCEPT !.version = job[j].version + 1]]
  BY DEF EnterTesting
<1>4. CASE Goto(j, "failed")
  BY <1>2, <1>4, EndKeeps
<1>5. CASE /\ MayMove(job[j].p, job[j].version, "testing")
           /\ job' = [job EXCEPT ![j] = [Sending(job[j], Moved(job[j].p, "testing"), "evaluate")
                                           EXCEPT !.version = job[j].version + 1]]
  <2>1. PICK e \in LearningEntries : e = Moved(job[j].p, "testing") /\ e.type = "changed" /\ Fits(e)
    BY <1>1, <1>2, <1>5, MovedFits
  <2>2. PICK s : s = Sending(job[j], e, "evaluate") /\ "evaluate" \in Places
    BY DEF Places
  <2>3. /\ s \in JobRecords /\ s.pc = "appending" /\ s.ev = e /\ s.then = "evaluate"
        /\ s.seen = Len(stream) /\ s.p = l.p
    BY <1>1, <2>2, SendingIs
  <2>4. PICK r : r = [s EXCEPT !.version = l.version + 1]
    OBVIOUS
  <2>5. /\ r \in JobRecords /\ r.pc = "appending" /\ r.ev = e /\ r.then = "evaluate"
        /\ r.seen = Len(stream) /\ r.p = l.p /\ Place(r) = "evaluate"
    <3>1. l.version + 1 \in Nat
      BY DEF JobRecords
    <3>2. QED  BY <2>3, <2>4, <3>1 DEF JobRecords, Place
  <2>6. Provided(j, r) /\ ~MayIngest(r)
    BY <1>2, <2>5 DEF Provided, MayIngest
  <2>7. job' = [job EXCEPT ![j] = r]
    BY <1>1, <1>5, <2>1, <2>2, <2>4
  <2>8. QED  BY <1>2, <2>1, <2>5, <2>6, <2>7, SendKeeps
<1>6. QED  BY <1>3, <1>4, <1>5

LEMMA EvaluateKeeps == ASSUME LInv, NEW j \in Jobs, Evaluate(j) PROVE LInv'
<1>1. PICK l \in JobRecords : l = job[j] /\ ErrandOk(j, l) /\ job \in [Jobs -> JobRecords]
  BY JobIs
<1>2. l.pc = "evaluate" /\ up /\ UnchangedButJob /\ l.p \in Proposals
  BY <1>1 DEF Evaluate, At, ErrandOk, Provided, Place
<1>3. PICK t \in {"rejected", "review", "failed"} :
         job' = [job EXCEPT ![j] = Sending(l, Report, t)]
  BY <1>1 DEF Evaluate
<1>4. PICK r : r = Sending(l, Report, t)
  OBVIOUS
<1>5. t \in Places
  BY DEF Places
<1>6. /\ r \in JobRecords /\ r.pc = "appending" /\ r.ev = Report /\ r.then = t
      /\ r.seen = Len(stream) /\ r.p = l.p /\ Place(r) = t
  BY <1>4, <1>5, ReportFits, SendingIs
<1>7. Provided(j, r) /\ ~MayIngest(r)
  BY <1>2, <1>6 DEF Provided, MayIngest
<1>8. QED  BY <1>2, <1>3, <1>4, <1>6, <1>7, ReportFits, SendKeeps

LEMMA EvidenceGateKeeps == ASSUME LInv, NEW j \in Jobs, EvidenceGate(j) PROVE LInv'
<1>1. PICK l \in JobRecords : l = job[j] /\ ErrandOk(j, l) /\ job \in [Jobs -> JobRecords]
  BY JobIs
<1>2. l.pc \in {"rejected", "review"} /\ up /\ UnchangedButJob /\ l.p \in Proposals
  BY <1>1 DEF EvidenceGate, At, ErrandOk, Provided, Place
<1>3. \/ Goto(j, "failed")
      \/ /\ MayMove(l.p, l.version, l.pc)
         /\ job' = [job EXCEPT ![j] = Sending(l, Moved(l.p, l.pc), "done")]
  BY <1>1 DEF EvidenceGate
<1>4. CASE Goto(j, "failed")
  BY <1>2, <1>4, EndKeeps
<1>5. CASE /\ MayMove(l.p, l.version, l.pc)
           /\ job' = [job EXCEPT ![j] = Sending(l, Moved(l.p, l.pc), "done")]
  <2>1. PICK e \in LearningEntries : e = Moved(l.p, l.pc) /\ e.type = "changed" /\ Fits(e)
    BY <1>2, <1>5, MovedFits
  <2>2. PICK r : r = Sending(l, e, "done") /\ "done" \in Places
    BY DEF Places
  <2>3. /\ r \in JobRecords /\ r.pc = "appending" /\ r.ev = e /\ r.then = "done"
        /\ r.seen = Len(stream) /\ Place(r) = "done"
    BY <2>2, SendingIs
  <2>4. Provided(j, r) /\ ~MayIngest(r)
    BY <2>3 DEF Provided, MayIngest
  <2>5. QED  BY <1>2, <1>5, <2>1, <2>2, <2>3, <2>4, SendKeeps
<1>6. QED  BY <1>3, <1>4, <1>5

\* What a run or a check lists.
LEMMA ListedIsTodo ==
    ASSUME NEW S, S \subseteq Proposals \/ (S \subseteq Due /\ IsFiniteSet(S))
    PROVE  /\ SetToSeq(S) \in Seq(Proposals \union Due \union PatternTargets)
           /\ \A i \in DOMAIN SetToSeq(S) : SetToSeq(S)[i] \in S
<1>1. IsFiniteSet(S)
  BY LearningAssumption, FS_Subset
<1>2. SetToSeq(S) \in Seq(S) /\ S \subseteq Proposals \union Due \union PatternTargets
  BY <1>1, ProposalsListed
<1>3. QED  BY <1>2

LEMMA RunKeeps == ASSUME LInv, NEW j \in Jobs, Run(j) PROVE LInv'
<1>1. PICK l \in JobRecords : l = job[j] /\ ErrandOk(j, l) /\ job \in [Jobs -> JobRecords]
  BY JobIs
<1> DEFINE Expired == {p \in Old : prop[p].status = "draft"}
           S == {<<p, prop[p].version>> : p \in Expired}
<1>2. PICK todo : /\ todo = SetToSeq(S)
                  /\ job' = [job EXCEPT ![j].pc = "expiring", ![j].todo = todo]
  BY DEF Run
<1>3. l.pc = "idle" /\ up /\ UnchangedButJob /\ Asks[j].kind = "run"
  BY <1>1 DEF Run, At
<1>4. S \subseteq Due /\ IsFiniteSet(S)
  <2>1. Expired \subseteq Proposals /\ IsFiniteSet(Expired)
    BY LearningAssumption, FS_Subset
  <2>2. S \subseteq Due
    BY <2>1, JobIs DEF Due, ProposalStates
  <2>3. IsFiniteSet(S)
    <3> DEFINE f == [p \in Expired |-> <<p, prop[p].version>>]
    <3>1. f \in Surjection(Expired, S)
      BY DEF Surjection
    <3>2. QED  BY <2>1, <3>1, FS_Surjection
  <2>4. QED  BY <2>2, <2>3
<1> HIDE DEF S
<1>5. /\ todo \in Seq(Proposals \union Due \union PatternTargets)
      /\ \A i \in DOMAIN todo : todo[i] \in Due
  BY <1>2, <1>4, ListedIsTodo
<1>6. PICK r : r = [l EXCEPT !.pc = "expiring", !.todo = todo]
  OBVIOUS
<1>7. r \in JobRecords /\ r.pc = "expiring" /\ r.todo = todo /\ r.seen = l.seen
  BY <1>5, <1>6 DEF JobRecords, Places
<1>8. job' = [job EXCEPT ![j] = r]
  BY <1>1, <1>2, <1>6
<1>9. ErrandOk(j, r) /\ ~MayIngest(r)
  BY <1>1, <1>3, <1>5, <1>7 DEF ErrandOk, Provided, Underway, MayIngest, Place
<1>10. QED  BY <1>3, <1>7, <1>8, <1>9, MoveKeeps

\* The rest of a list of things to do.
LEMMA RestIs ==
    ASSUME NEW D, NEW l \in JobRecords, l.todo # <<>>, \A i \in DOMAIN l.todo : l.todo[i] \in D
    PROVE  /\ Head(l.todo) \in D
           /\ \A i \in DOMAIN Tail(l.todo) : Tail(l.todo)[i] \in D
           /\ [l EXCEPT !.todo = Tail(l.todo)] \in JobRecords
<1>1. l.todo \in Seq(Proposals \union Due \union PatternTargets)
  BY DEF JobRecords
<1>2. Tail(l.todo) \in Seq(Proposals \union Due \union PatternTargets)
  BY <1>1
<1>3. [l EXCEPT !.todo = Tail(l.todo)] \in JobRecords
  BY <1>2 DEF JobRecords
<1>4. QED  BY <1>1, <1>3

LEMMA ExpireKeeps == ASSUME LInv, NEW j \in Jobs, Expire(j) PROVE LInv'
<1>1. PICK l \in JobRecords : l = job[j] /\ ErrandOk(j, l) /\ job \in [Jobs -> JobRecords]
  BY JobIs
<1>2. /\ l.pc = "expiring" /\ up /\ UnchangedButJob /\ Asks[j].kind = "run"
      /\ \A i \in DOMAIN l.todo : l.todo[i] \in Due
  BY <1>1 DEF Expire, At, ErrandOk, Provided, Place
<1>3. CASE l.todo = <<>>
  <2>1. PICK r : r = [l EXCEPT !.pc = "proposing", !.todo = Asks[j].new]
    OBVIOUS
  <2>2. /\ Asks[j].new \in Seq(Proposals \union Due \union PatternTargets)
        /\ \A i \in DOMAIN Asks[j].new : Asks[j].new[i] \in PatternTargets
    <3>1. Asks[j].new \in Seq(PatternTargets)
      BY <1>2, AsksAssumption DEF PatternTargets
    <3>2. QED  BY <3>1
  <2>3. r \in JobRecords /\ r.pc = "proposing" /\ r.todo = Asks[j].new /\ r.seen = l.seen
    BY <2>1, <2>2 DEF JobRecords, Places
  <2>4. job' = [job EXCEPT ![j] = r]
    BY <1>1, <1>3, <2>1 DEF Expire
  <2>5. ErrandOk(j, r) /\ ~MayIngest(r)
    BY <1>1, <1>2, <2>2, <2>3 DEF ErrandOk, Provided, Underway, MayIngest, Place
  <2>6. QED  BY <1>2, <2>3, <2>4, <2>5, MoveKeeps
<1>4. CASE l.todo # <<>>
  <2>1. PICK d, s : d = Head(l.todo) /\ s = [l EXCEPT !.todo = Tail(l.todo)]
    OBVIOUS
  <2>2. /\ d \in Due /\ s \in JobRecords /\ s.pc = "expiring" /\ s.seen = l.seen
        /\ \A i \in DOMAIN s.todo : s.todo[i] \in Due
    BY <1>2, <1>4, <2>1, RestIs DEF JobRecords
  <2>3. \/ /\ MayMove(d[1], d[2], "rejected")
           /\ job' = [job EXCEPT ![j] = Sending(s, Moved(d[1], "rejected"), "expiring")]
        \/ job' = [job EXCEPT ![j] = s]
    BY <1>1, <1>4, <2>1 DEF Expire
  <2>4. CASE job' = [job EXCEPT ![j] = s]
    <3>1. ErrandOk(j, s) /\ ~MayIngest(s)
      BY <1>1, <1>2, <2>2 DEF ErrandOk, Provided, Underway, MayIngest, Place
    <3>2. QED  BY <1>2, <2>2, <2>4, <3>1, MoveKeeps
  <2>5. CASE /\ MayMove(d[1], d[2], "rejected")
             /\ job' = [job EXCEPT ![j] = Sending(s, Moved(d[1], "rejected"), "expiring")]
    <3>1. d[1] \in Proposals
      BY <2>2 DEF Due
    <3>2. PICK e \in LearningEntries : e = Moved(d[1], "rejected") /\ e.type = "changed" /\ Fits(e)
      BY <2>5, <3>1, MovedFits
    <3>3. PICK r : r = Sending(s, e, "expiring") /\ "expiring" \in Places
      BY DEF Places
    <3>4. /\ r \in JobRecords /\ r.pc = "appending" /\ r.ev = e /\ r.then = "expiring"
          /\ r.seen = Len(stream) /\ Place(r) = "expiring" /\ r.todo = s.todo
      BY <2>2, <3>3, SendingIs
    <3>5. Provided(j, r) /\ ~MayIngest(r)
      BY <1>2, <2>2, <3>4 DEF Provided, MayIngest
    <3>6. QED  BY <1>2, <2>5, <3>2, <3>3, <3>4, <3>5, SendKeeps
  <2>6. QED  BY <2>3, <2>4, <2>5
<1>5. QED  BY <1>3, <1>4

LEMMA ProposeKeeps == ASSUME LInv, NEW j \in Jobs, Propose(j) PROVE LInv'
<1>1. PICK l \in JobRecords : l = job[j] /\ ErrandOk(j, l) /\ job \in [Jobs -> JobRecords]
  BY JobIs
<1>2. /\ l.pc = "proposing" /\ up /\ UnchangedButJob
      /\ \A i \in DOMAIN l.todo : l.todo[i] \in PatternTargets
  BY <1>1 DEF Propose, At, ErrandOk, Provided, Place
<1>3. PICK s : s = [l EXCEPT !.todo = Tail(l.todo)]
  OBVIOUS
<1>4. \/ job' = [job EXCEPT ![j] = Sending(l, Report, "done")]
      \/ l.todo # <<>> /\ job' = [job EXCEPT ![j] = s]
      \/ /\ l.todo # <<>> /\ ~HasOpenTarget(Head(l.todo))
         /\ \E p \in Fresh(Head(l.todo)) : job' = [job EXCEPT ![j] = Creating(s, p)]
  BY <1>1, <1>3 DEF Propose
<1>5. CASE job' = [job EXCEPT ![j] = Sending(l, Report, "done")]
  <2>1. PICK r : r = Sending(l, Report, "done") /\ "done" \in Places
    BY DEF Places
  <2>2. /\ r \in JobRecords /\ r.pc = "appending" /\ r.ev = Report /\ r.then = "done"
        /\ r.seen = Len(stream) /\ Place(r) = "done"
    BY <2>1, ReportFits, SendingIs
  <2>3. Provided(j, r) /\ ~MayIngest(r)
    BY <2>2 DEF Provided, MayIngest
  <2>4. QED  BY <1>2, <1>5, <2>1, <2>2, <2>3, ReportFits, SendKeeps
<1>6. ASSUME l.todo # <<>>
      PROVE  /\ s \in JobRecords /\ s.pc = "proposing" /\ s.seen = l.seen /\ s.made = l.made
             /\ \A i \in DOMAIN s.todo : s.todo[i] \in PatternTargets
  BY <1>2, <1>3, <1>6, RestIs DEF JobRecords
<1>7. CASE l.todo # <<>> /\ job' = [job EXCEPT ![j] = s]
  <2>1. ErrandOk(j, s) /\ ~MayIngest(s)
    BY <1>1, <1>2, <1>6, <1>7 DEF ErrandOk, Provided, Underway, MayIngest, Place
  <2>2. QED  BY <1>2, <1>6, <1>7, <2>1, MoveKeeps
<1>8. CASE /\ l.todo # <<>> /\ ~HasOpenTarget(Head(l.todo))
           /\ \E p \in Fresh(Head(l.todo)) : job' = [job EXCEPT ![j] = Creating(s, p)]
  <2>1. PICK p \in Fresh(Head(l.todo)) : job' = [job EXCEPT ![j] = Creating(s, p)]
    BY <1>8
  <2>2. p \in Proposals /\ Target[p] = Head(l.todo)
    BY DEF Fresh
  <2>3. PICK e \in LearningEntries : e = Created(p)
    BY <2>2, EntriesAre
  <2>4. e.type = "created" /\ Fits(e)
    BY <1>8, <2>2, <2>3 DEF Created, Fits, HasOpenTarget
  <2>5. PICK u : u = [s EXCEPT !.made = s.made \union {p}]
    OBVIOUS
  <2>6. u \in JobRecords /\ u.todo = s.todo
    BY <1>6, <1>8, <2>2, <2>5 DEF JobRecords
  <2>7. PICK r : r = Sending(u, e, "proposing") /\ "proposing" \in Places
    BY DEF Places
  <2>8. /\ r \in JobRecords /\ r.pc = "appending" /\ r.ev = e /\ r.then = "proposing"
        /\ r.seen = Len(stream) /\ Place(r) = "proposing" /\ r.todo = u.todo
    BY <2>6, <2>7, SendingIs
  <2>9. Provided(j, r) /\ ~MayIngest(r)
    BY <1>6, <1>8, <2>6, <2>8 DEF Provided, MayIngest
  <2>10. job' = [job EXCEPT ![j] = r]
    BY <2>1, <2>3, <2>5, <2>7 DEF Creating
  <2>11. QED  BY <1>2, <2>4, <2>8, <2>9, <2>10, SendKeeps
<1>9. QED  BY <1>4, <1>5, <1>7, <1>8

LEMMA DriftKeeps == ASSUME LInv, NEW j \in Jobs, Drift(j) PROVE LInv'
<1>1. PICK l \in JobRecords : l = job[j] /\ ErrandOk(j, l) /\ job \in [Jobs -> JobRecords]
  BY JobIs
<1>2. l.pc = "idle" /\ up /\ UnchangedButJob
  BY <1>1 DEF Drift, At
<1>3. PICK active \in SUBSET Proposals :
         job' = [job EXCEPT ![j].todo = SetToSeq(active),
                            ![j].pc = IF active = {} THEN "done" ELSE "checking"]
  BY DEF Drift
<1>4. PICK todo, x : /\ todo = SetToSeq(active) /\ x \in {"done", "checking"}
                     /\ job' = [job EXCEPT ![j].todo = todo, ![j].pc = x]
  BY <1>3
<1>5. /\ todo \in Seq(Proposals \union Due \union PatternTargets)
      /\ \A i \in DOMAIN todo : todo[i] \in Proposals
  <2>1. active \subseteq Proposals
    OBVIOUS
  <2>2. /\ SetToSeq(active) \in Seq(Proposals \union Due \union PatternTargets)
        /\ \A i \in DOMAIN SetToSeq(active) : SetToSeq(active)[i] \in active
    BY ONLY <2>1, ListedIsTodo
  <2>3. QED  BY <1>4, <2>2
<1>6. PICK r : r = [l EXCEPT !.todo = todo, !.pc = x]
  OBVIOUS
<1>7. r \in JobRecords /\ r.pc = x /\ r.todo = todo /\ r.seen = l.seen
  BY <1>4, <1>5, <1>6 DEF JobRecords, Places
<1>8. job' = [job EXCEPT ![j] = r]
  BY <1>1, <1>4, <1>6
<1>9. ErrandOk(j, r) /\ ~MayIngest(r)
  BY <1>1, <1>2, <1>4, <1>5, <1>7 DEF ErrandOk, Provided, Underway, MayIngest, Place
<1>10. QED  BY <1>2, <1>7, <1>8, <1>9, MoveKeeps

LEMMA CheckKeeps == ASSUME LInv, NEW j \in Jobs, Check(j) PROVE LInv'
<1>1. PICK l \in JobRecords : l = job[j] /\ ErrandOk(j, l) /\ job \in [Jobs -> JobRecords]
  BY JobIs
<1>2. /\ l.pc = "checking" /\ up /\ UnchangedButJob
      /\ \A i \in DOMAIN l.todo : l.todo[i] \in Proposals
  BY <1>1 DEF Check, At, ErrandOk, Provided, Place
<1>3. CASE l.todo = <<>>
  <2>1. job' = [job EXCEPT ![j] = [Sending(l, Report, "reverting") EXCEPT !.todo = SetToSeq(l.made)]]
    BY <1>1, <1>3 DEF Check
  <2>2. PICK s : s = Sending(l, Report, "reverting") /\ "reverting" \in Places
    BY DEF Places
  <2>3. /\ s \in JobRecords /\ s.pc = "appending" /\ s.ev = Report /\ s.then = "reverting"
        /\ s.seen = Len(stream)
    BY <2>2, ReportFits, SendingIs
  <2>4. PICK todo : todo = SetToSeq(l.made)
    OBVIOUS
  <2>5. /\ todo \in Seq(Proposals \union Due \union PatternTargets)
        /\ \A i \in DOMAIN todo : todo[i] \in Proposals
    <3>1. PICK made : made = l.made /\ made \subseteq Proposals
      BY DEF JobRecords
    <3>2. /\ SetToSeq(made) \in Seq(Proposals \union Due \union PatternTargets)
          /\ \A i \in DOMAIN SetToSeq(made) : SetToSeq(made)[i] \in made
      BY ONLY <3>1, ListedIsTodo
    <3>3. QED  BY <2>4, <3>1, <3>2
  <2>6. PICK r : r = [s EXCEPT !.todo = todo]
    OBVIOUS
  <2>7. /\ r \in JobRecords /\ r.pc = "appending" /\ r.ev = Report /\ r.then = "reverting"
        /\ r.seen = Len(stream) /\ r.todo = todo /\ Place(r) = "reverting"
    BY <2>3, <2>5, <2>6 DEF JobRecords, Place
  <2>8. Provided(j, r) /\ ~MayIngest(r)
    BY <2>5, <2>7 DEF Provided, MayIngest
  <2>9. job' = [job EXCEPT ![j] = r]
    BY <2>1, <2>2, <2>4, <2>6
  <2>10. QED  BY <1>2, <2>7, <2>8, <2>9, ReportFits, SendKeeps
<1>4. CASE l.todo # <<>>
  <2>1. PICK p, s : p = Head(l.todo) /\ s = [l EXCEPT !.todo = Tail(l.todo)]
    OBVIOUS
  <2>2. /\ p \in Proposals /\ s \in JobRecords /\ s.pc = "checking" /\ s.seen = l.seen
        /\ s.made = l.made /\ \A i \in DOMAIN s.todo : s.todo[i] \in Proposals
    BY <1>2, <1>4, <2>1, RestIs DEF JobRecords
  <2>3. \/ /\ prop[p].status = "promoted"
           /\ job' = [job EXCEPT ![j] = [Sending(s, Moved(p, "rolled-back"), "checking")
                                           EXCEPT !.made = l.made \union {p}]]
        \/ job' = [job EXCEPT ![j] = s]
    BY <1>1, <1>4, <2>1 DEF Check
  <2>4. CASE job' = [job EXCEPT ![j] = s]
    <3>1. ErrandOk(j, s) /\ ~MayIngest(s)
      BY <1>1, <1>2, <2>2 DEF ErrandOk, Provided, Underway, MayIngest, Place
    <3>2. QED  BY <1>2, <2>2, <2>4, <3>1, MoveKeeps
  <2>5. CASE /\ prop[p].status = "promoted"
             /\ job' = [job EXCEPT ![j] = [Sending(s, Moved(p, "rolled-back"), "checking")
                                             EXCEPT !.made = l.made \union {p}]]
    <3>1. MayMove(p, prop[p].version, "rolled-back")
      BY <2>5 DEF MayMove, Edges
    <3>2. PICK e \in LearningEntries :
             e = Moved(p, "rolled-back") /\ e.type = "changed" /\ Fits(e)
      BY <2>2, <3>1, MovedFits
    <3>3. PICK u : u = Sending(s, e, "checking") /\ "checking" \in Places
      BY DEF Places
    <3>4. /\ u \in JobRecords /\ u.pc = "appending" /\ u.ev = e /\ u.then = "checking"
          /\ u.seen = Len(stream) /\ u.todo = s.todo
      BY <2>2, <3>3, SendingIs
    <3>5. PICK r : r = [u EXCEPT !.made = l.made \union {p}]
      OBVIOUS
    <3>6. /\ r \in JobRecords /\ r.pc = "appending" /\ r.ev = e /\ r.then = "checking"
          /\ r.seen = Len(stream) /\ r.todo = s.todo /\ Place(r) = "checking"
      BY <2>2, <3>4, <3>5 DEF JobRecords, Place
    <3>7. Provided(j, r) /\ ~MayIngest(r)
      BY <2>2, <3>6 DEF Provided, MayIngest
    <3>8. job' = [job EXCEPT ![j] = r]
      BY <2>5, <3>2, <3>3, <3>5
    <3>9. QED  BY <1>2, <3>2, <3>6, <3>7, <3>8, SendKeeps
  <2>6. QED  BY <2>3, <2>4, <2>5
<1>5. QED  BY <1>3, <1>4

LEMMA RevertNextKeeps == ASSUME LInv, NEW j \in Jobs, RevertNext(j) PROVE LInv'
<1>1. PICK l \in JobRecords : l = job[j] /\ ErrandOk(j, l) /\ job \in [Jobs -> JobRecords]
  BY JobIs
<1>2. /\ l.pc = "reverting" /\ up /\ UnchangedButJob
      /\ \A i \in DOMAIN l.todo : l.todo[i] \in Proposals
  BY <1>1 DEF RevertNext, At, ErrandOk, Provided, Place
<1>3. CASE l.todo = <<>>
  <2>1. job' = [job EXCEPT ![j] = [l EXCEPT !.pc = "done"]]
    BY <1>1, <1>3 DEF RevertNext
  <2>2. Goto(j, "done")
    BY <1>1, <2>1 DEF Goto
  <2>3. QED  BY <1>2, <2>2, EndKeeps
<1>4. CASE l.todo # <<>>
  <2>1. PICK p, s : p = Head(l.todo) /\ s = [l EXCEPT !.todo = Tail(l.todo)]
    OBVIOUS
  <2>2. /\ p \in Proposals /\ s \in JobRecords /\ s.pc = "reverting" /\ s.seen = l.seen
        /\ \A i \in DOMAIN s.todo : s.todo[i] \in Proposals
    BY <1>2, <1>4, <2>1, RestIs DEF JobRecords
  <2>3. PICK c : c = claims[p]
    OBVIOUS
  <2>4. c \in Claims \union {None} /\ (c # None => Spent(c))
    BY <2>2, <2>3, JobIs DEF StreamTold
  <2>5. PICK u : u = [l EXCEPT !.todo = Tail(l.todo), !.p = p, !.claim = c]
    OBVIOUS
  <2>6. /\ u \in JobRecords /\ u.pc = "reverting" /\ u.seen = l.seen /\ u.claim = c /\ u.p = p
        /\ u.todo = s.todo
    <3>1. u = [s EXCEPT !.p = p, !.claim = c]
      BY <2>1, <2>5 DEF JobRecords
    <3>2. QED  BY <2>2, <2>4, <3>1 DEF JobRecords
  <2>7. job' = [job EXCEPT ![j] = IF c = None THEN u ELSE [u EXCEPT !.pc = "retracting"]]
    BY <1>1, <1>4, <2>1, <2>3, <2>5, <2>6 DEF RevertNext
  <2>8. PICK r : r = IF c = None THEN u ELSE [u EXCEPT !.pc = "retracting"]
    OBVIOUS
  <2>9. /\ r \in JobRecords /\ r.pc = (IF c = None THEN "reverting" ELSE "retracting")
        /\ r.seen = l.seen /\ r.claim = c /\ r.p = p /\ r.todo = s.todo
    BY <2>6, <2>8 DEF JobRecords, Places
  <2>10. job' = [job EXCEPT ![j] = r]
    BY <2>7, <2>8
  <2>11. ErrandOk(j, r) /\ ~MayIngest(r)
    BY <1>1, <1>2, <2>2, <2>4, <2>9 DEF ErrandOk, Provided, Underway, MayIngest, Place
  <2>12. QED  BY <1>2, <2>9, <2>10, <2>11, MoveKeeps
<1>5. QED  BY <1>3, <1>4

-----------------------------------------------------------------------------
(* Learning: an append comes back, the host ends and begins *)

\* What fits leaves every target with one open proposal.
LEMMA FitsKeepsOneOpen ==
    ASSUME LearningShape, OneOpen(prop), NEW e \in LearningEntries, Fits(e)
    PROVE  OneOpen(Applied(prop, e))
<1>1. prop \in [Proposals -> ProposalStates]
  BY DEF LearningShape
<1>2. CASE e.type = "created"
  <2>1. e.p \in Proposals /\ \A q \in Proposals : prop[q].status \in Open => Target[q] # Target[e.p]
    BY <1>2, EntryFields DEF Fits
  <2>2. /\ Applied(prop, e)[e.p].status = "draft"
        /\ \A q \in Proposals : q # e.p => Applied(prop, e)[q] = prop[q]
    BY <1>1, <1>2, <2>1 DEF Applied
  <2>3. QED  BY <2>1, <2>2 DEF OneOpen
<1>3. CASE e.type = "changed"
  <2>1. e.p \in Proposals /\ <<prop[e.p].status, e.to>> \in Edges
    BY <1>3, EntryFields DEF Fits
  <2>2. /\ Applied(prop, e)[e.p].status = e.to
        /\ \A q \in Proposals : q # e.p => Applied(prop, e)[q] = prop[q]
    BY <1>1, <1>3, <2>1 DEF Applied
  <2>3. e.to \in Open => prop[e.p].status \in Open
    BY <2>1 DEF Edges, Open
  <2>4. \A q \in Proposals : Applied(prop, e)[q].status \in Open => prop[q].status \in Open
    BY <2>2, <2>3
  <2>5. QED  BY <2>4 DEF OneOpen
<1>4. CASE e.type \notin {"created", "changed"}
  BY <1>4 DEF Applied
<1>5. QED  BY <1>2, <1>3, <1>4

\* A stored append.
LEMMA StoredKeeps ==
    ASSUME LInv, NEW j \in Jobs, NEW l \in JobRecords, l = job[j], up, UNCHANGED <<up, memory>>,
           l.pc = "appending", l.seen = Len(stream), stream' = Append(stream, l.ev),
           prop' = Applied(prop, l.ev), job' = [job EXCEPT ![j].pc = l.then],
           claims' = IF l.ev.type = "reverted" THEN [claims EXCEPT ![l.ev.p] = None] ELSE claims
    PROVE  LInv'
<1>1. /\ LearningShape /\ StreamTold /\ \A i \in Jobs : ErrandOk(i, job[i])
      /\ stream \in Seq(LearningEntries) /\ job \in [Jobs -> JobRecords]
      /\ prop \in [Proposals -> ProposalStates]
      /\ claims \in [Proposals -> Claims \union {None}]
  BY DEF LInv, LearningShape
<1>2. PICK e \in LearningEntries : e = l.ev
  BY DEF JobRecords
<1>3. /\ e.type \in {"activated", "reverted"} => e.p \in Proposals /\ e.claim \in Claims
      /\ stream' \in Seq(LearningEntries) /\ Len(stream') = Len(stream) + 1
      /\ Len(stream) \in Nat /\ DOMAIN stream = 1 .. Len(stream)
      /\ DOMAIN stream' = 1 .. Len(stream) + 1 /\ stream'[Len(stream) + 1] = e
      /\ \A i \in DOMAIN stream : stream'[i] = stream[i]
  BY <1>1, <1>2, EntryFields
<1>4. /\ Provided(j, l) /\ Fits(e) /\ l.then \notin {"appending", "retracting", "retracted"}
      /\ l.then = "ingest" \/ e.type = "activated" =>
            l.then = "ingest" /\ l.p \in Proposals /\ e = Activated(l.p, <<l.p, j>>)
      /\ e.type = "reverted" => memory[e.claim] = "retracted" /\ Spent(e.claim)
  BY <1>1, <1>2 DEF ErrandOk, Underway
<1>5. PICK r : r = [l EXCEPT !.pc = l.then]
  OBVIOUS
<1>6. /\ r \in JobRecords /\ r.pc = l.then /\ r.p = l.p /\ r.seen = l.seen /\ r.todo = l.todo
      /\ Place(r) = l.then /\ Place(l) = l.then
  BY <1>4, <1>5 DEF JobRecords, Place
<1>7. /\ job' = [job EXCEPT ![j] = r] /\ job'[j] = r /\ job' \in [Jobs -> JobRecords]
      /\ \A i \in Jobs : i # j => job'[i] = job[i]
  BY <1>1, <1>5, <1>6
<1>8. \A c \in Claims : Spent(c) => Spent(c)'
  <2>1. \A c \in Claims : c[2] \in Jobs
    BY DEF Claims
  <2>2. MayIngest(r) = MayIngest(job[j])
    BY <1>6 DEF MayIngest
  <2>3. QED  BY <1>7, <2>1, <2>2 DEF Spent
<1>9. claims' \in [Proposals -> Claims \union {None}]
      /\ \A p \in Proposals : claims'[p] # None => claims'[p] = claims[p]
  BY <1>1, <1>2, <1>3
<1>10. LearningShape'
  BY <1>1, <1>2, <1>3, <1>7, <1>9, AppliedType DEF LearningShape
<1>11. StreamTold'
  <2>1. prop = Replay(stream) /\ OneOpen(prop)
    BY <1>1 DEF StreamTold
  <2>2. prop' = Replay(stream')
    BY <1>1, <1>2, <2>1, ReplayGrows
  <2>3. OneOpen(Applied(prop, e))
    BY <1>1, <1>4, <2>1, FitsKeepsOneOpen
  <2>4. OneOpen(Replay(stream'))
    BY <1>2, <2>2, <2>3
  <2>5. ASSUME NEW i \in DOMAIN stream'
        PROVE  /\ stream'[i].type = "activated" =>
                     Spent(stream[i].claim)' \/ job'[stream'[i].claim[2]].pc = "ingest"
               /\ stream'[i].type = "reverted" =>
                     memory'[stream'[i].claim] = "retracted" /\ Spent(stream[i].claim)'
    <3>1. CASE i \in DOMAIN stream
      <4>1. PICK c : c = stream[i].claim
        OBVIOUS
      <4>2. stream'[i] = stream[i] /\ stream[i] \in LearningEntries /\ c = stream'[i].claim
        BY <1>1, <1>3, <3>1, <4>1
      <4>3. stream[i].type \in {"activated", "reverted"} => c \in Claims /\ c[2] \in Jobs
        BY <4>1, <4>2, EntryFields DEF Claims
      <4>4. /\ stream[i].type = "activated" => Spent(c) \/ job[c[2]].pc = "ingest"
            /\ stream[i].type = "reverted" => memory[c] = "retracted" /\ Spent(c)
        BY <1>1, <3>1, <4>1 DEF StreamTold
      <4>5. stream[i].type \in {"activated", "reverted"} => Spent(c)' \/ job'[c[2]].pc = "ingest"
        BY <1>7, <1>8, <4>3, <4>4
      <4>6. stream[i].type = "reverted" => memory'[c] = "retracted" /\ Spent(c)'
        BY <1>8, <4>3, <4>4
      <4>7. Spent(c)' = Spent(stream[i].claim)'
        BY <4>1, <4>2
      <4>8. QED  BY <4>1, <4>2, <4>5, <4>6, <4>7
    <3>2. CASE i \notin DOMAIN stream
      <4>1. stream'[i] = e
        BY <1>3, <3>2
      <4>2. CASE e.type = "activated"
        <5>1. l.then = "ingest" /\ e.claim = <<l.p, j>>
          BY <1>4, <4>2 DEF Activated
        <5>2. job'[stream'[i].claim[2]].pc = "ingest"
          BY <1>6, <1>7, <4>1, <5>1
        <5>3. QED  BY <4>1, <4>2, <5>2
      <4>3. CASE e.type = "reverted"
        <5>1. memory'[e.claim] = "retracted" /\ Spent(e.claim)'
          BY <1>3, <1>4, <1>8, <4>3
        <5>2. Spent(stream[i].claim)'
          BY <4>1, <5>1
        <5>3. QED  BY <4>1, <4>3, <5>1, <5>2
      <4>4. QED  BY <4>1, <4>2, <4>3
    <3>3. QED  BY <3>1, <3>2
  <2>6. \A p \in Proposals : claims'[p] # None => Spent(claims[p])'
    <3>1. \A p \in Proposals : claims'[p] # None => claims'[p] \in Claims
      BY <1>9
    <3>2. \A p \in Proposals : claims'[p] # None => Spent(claims'[p])
      BY <1>1, <1>9 DEF StreamTold
    <3>3. QED  BY <1>8, <3>1, <3>2
  <2>7. \A c \in Claims : memory'[c] # "none" => OnRecord(stream', c)
    BY <1>1, <1>2, RecordGrows DEF StreamTold
  <2>8. QED  BY <2>2, <2>4, <2>5, <2>6, <2>7 DEF StreamTold
<1>12. ASSUME NEW i \in Jobs PROVE ErrandOk(i, job[i])'
  <2>1. CASE i # j
    <3>1. PICK k \in JobRecords : k = job[i]
      BY <1>1
    <3>2. ErrandOk(i, k) /\ job'[i] = k
      BY <1>1, <1>7, <2>1, <3>1
    <3>3. Provided(i, k)'
      <4>1. Provided(i, k)' = Provided(i, k)
        BY DEF Provided, Place
      <4>2. QED  BY <3>2, <4>1 DEF ErrandOk
    <3>4. k.seen <= Len(stream) /\ k.seen \in Nat
      BY <3>2 DEF ErrandOk, JobRecords
    <3>5. k.ev.type = "reverted" => k.ev.claim \in Claims
      BY EntryFields DEF JobRecords
    <3>6. k.seen # Len(stream') /\ k.seen <= Len(stream')
      BY <1>3, <3>4
    <3>7. Underway(i, k)'
      BY <1>8, <3>2, <3>5, <3>6 DEF ErrandOk, Underway
    <3>8. k.pc = "ingest" => OnRecord(stream', <<k.p, i>>)
      BY <1>1, <1>2, <3>2, RecordGrows DEF ErrandOk
    <3>9. ErrandOk(i, k)'
      BY <1>8, <3>2, <3>3, <3>6, <3>7, <3>8 DEF ErrandOk
    <3>10. QED  BY <3>2, <3>9
  <2>2. CASE i = j
    <3>1. Provided(j, r)'
      <4>1. Provided(j, r)
        BY <1>4, <1>6 DEF Provided
      <4>2. QED  BY <4>1 DEF Provided, Place
    <3>2. r.pc = "ingest" => OnRecord(stream', <<r.p, j>>)
      <4>1. ASSUME r.pc = "ingest" PROVE OnRecord(stream', <<r.p, j>>)
        <5>1. e.type = "activated" /\ e.claim = <<r.p, j>>
          BY <1>4, <1>6, <4>1 DEF Activated
        <5>2. Len(stream) + 1 \in DOMAIN stream' /\ stream'[Len(stream) + 1] = e
          BY <1>3
        <5>3. QED  BY <5>1, <5>2 DEF OnRecord
      <4>2. QED  BY <4>1
    <3>3. r.pc \notin {"appending", "retracting", "retracted"} /\ r.seen <= Len(stream')
      BY <1>3, <1>4, <1>6
    <3>4. ErrandOk(j, r)'
      BY <3>1, <3>2, <3>3 DEF ErrandOk, Underway
    <3>5. QED  BY <1>7, <2>2, <3>4
  <2>3. QED  BY <2>1, <2>2
<1>13. QED  BY <1>10, <1>11, <1>12 DEF LInv

LEMMA AppendEventKeeps == ASSUME LInv, NEW j \in Jobs, AppendEvent(j) PROVE LInv'
<1>1. PICK l \in JobRecords : l = job[j] /\ ErrandOk(j, l) /\ job \in [Jobs -> JobRecords]
  BY JobIs
<1>2. l.pc = "appending" /\ up /\ UNCHANGED <<up, memory, skills, faults>>
  BY <1>1 DEF AppendEvent, At
<1>3. CASE l.seen = Len(stream)
  <2>1. /\ stream' = Append(stream, l.ev) /\ prop' = Applied(prop, l.ev)
        /\ job' = [job EXCEPT ![j].pc = l.then]
        /\ claims' = IF l.ev.type = "reverted" THEN [claims EXCEPT ![l.ev.p] = None] ELSE claims
    BY <1>1, <1>3 DEF AppendEvent, Goto
  <2>2. QED  BY <1>1, <1>2, <1>3, <2>1, StoredKeeps
<1>4. CASE l.seen # Len(stream)
  <2>1. Goto(j, AfterConflict(j)) /\ UnchangedButJob
    BY <1>1, <1>2, <1>4 DEF AppendEvent, UnchangedButJob
  <2>2. CASE l.then # "expiring"
    BY <1>1, <2>1, <2>2, EndKeeps DEF AfterConflict
  <2>3. CASE l.then = "expiring"
    <3>1. PICK r : r = [l EXCEPT !.pc = "expiring"]
      OBVIOUS
    <3>2. r \in JobRecords /\ r.pc = "expiring" /\ r.todo = l.todo /\ r.seen = l.seen
      BY <3>1 DEF JobRecords, Places
    <3>3. job' = [job EXCEPT ![j] = r]
      BY <1>1, <2>1, <2>3, <3>1 DEF Goto, AfterConflict
    <3>4. Asks[j].kind = "run" /\ \A i \in DOMAIN r.todo : r.todo[i] \in Due
      BY <1>1, <1>2, <2>3, <3>2 DEF ErrandOk, Provided, Place
    <3>5. ErrandOk(j, r) /\ ~MayIngest(r)
      BY <1>1, <1>2, <3>2, <3>4 DEF ErrandOk, Provided, Underway, MayIngest, Place
    <3>6. QED  BY <2>1, <3>2, <3>3, <3>5, MoveKeeps
  <2>4. QED  BY <2>2, <2>3
<1>5. QED  BY <1>3, <1>4

LEMMA HostEndsKeeps == ASSUME LInv, HostEnds PROVE LInv'
<1>1. /\ LearningShape /\ StreamTold /\ \A i \in Jobs : ErrandOk(i, job[i])
      /\ stream \in Seq(LearningEntries) /\ job \in [Jobs -> JobRecords] /\ Len(stream) \in Nat
  BY DEF LInv, LearningShape
<1>2. PICK lost : lost = [Idle EXCEPT !.pc = "lost"]
  OBVIOUS
<1>3. lost \in JobRecords /\ lost.pc = "lost" /\ lost.seen = 0
  <2>1. Idle \in JobRecords /\ Idle.seen = 0 /\ "lost" \in Places
    BY IdleType DEF Idle, Places
  <2> HIDE DEF Idle
  <2>2. QED  BY <1>2, <2>1 DEF JobRecords
<1>4. /\ job' = [j \in Jobs |-> IF job[j].pc \in Settled THEN job[j] ELSE lost]
      /\ up' = FALSE /\ prop' = NoProposals /\ claims' = [p \in Proposals |-> None]
      /\ UNCHANGED <<stream, memory>>
  BY <1>2 DEF HostEnds
<1>5. /\ job' \in [Jobs -> JobRecords]
      /\ \A j \in Jobs : job'[j].pc \in Settled /\ job'[j].seen <= Len(stream)
  <2>1. \A j \in Jobs : job[j].seen <= Len(stream) /\ job[j] \in JobRecords
    BY <1>1 DEF ErrandOk
  <2>2. "lost" \in Settled /\ 0 <= Len(stream)
    BY <1>1 DEF Settled
  <2>3. \A j \in Jobs : job'[j] = (IF job[j].pc \in Settled THEN job[j] ELSE lost)
    BY <1>4
  <2>4. job' \in [Jobs -> JobRecords]
    BY <1>3, <1>4, <2>1
  <2>5. QED  BY <1>3, <2>1, <2>2, <2>3, <2>4
<1>6. \A c \in Claims : Spent(c) \/ job[c[2]].pc = "ingest" => Spent(c)'
  <2>1. \A c \in Claims : c[2] \in Jobs
    BY DEF Claims
  <2>2. \A j \in Jobs : job'[j] = job[j] \/ job'[j].pc = "lost"
    BY <1>3, <1>4
  <2>3. \A j \in Jobs : job[j].pc = "ingest" => job'[j].pc = "lost"
    BY <1>3, <1>4 DEF Settled
  <2>4. \A j \in Jobs : job'[j].pc = "lost" => ~MayIngest(job'[j])
    BY DEF MayIngest, Place
  <2>5. QED  BY <2>1, <2>2, <2>3, <2>4 DEF Spent
<1>7. LearningShape'
  BY <1>1, <1>4, <1>5 DEF LearningShape, NoProposals, ProposalStates, ProposalStatuses
<1>8. StreamTold'
  <2>1. ASSUME NEW i \in DOMAIN stream
        PROVE  /\ stream[i].type = "activated" => Spent(stream[i].claim)'
               /\ stream[i].type = "reverted" =>
                     memory'[stream[i].claim] = "retracted" /\ Spent(stream[i].claim)'
    <3>1. stream[i].type \in {"activated", "reverted"} => stream[i].claim \in Claims
      BY <1>1, EntryFields
    <3>2. PICK c : c = stream[i].claim
      OBVIOUS
    <3>3. /\ stream[i].type = "activated" => Spent(c) \/ job[c[2]].pc = "ingest"
          /\ stream[i].type = "reverted" => memory[c] = "retracted" /\ Spent(c)
      BY <1>1, <3>2 DEF StreamTold
    <3>4. /\ stream[i].type = "activated" => Spent(c)'
          /\ stream[i].type = "reverted" => memory'[c] = "retracted" /\ Spent(c)'
      BY <1>4, <1>6, <3>1, <3>2, <3>3
    <3>5. stream' = stream
      BY <1>4
    <3>6. QED  BY <3>2, <3>4, <3>5
  <2>2. OneOpen(Replay(stream)) /\ \A c \in Claims : memory'[c] # "none" => OnRecord(stream, c)
    BY <1>1, <1>4 DEF StreamTold
  <2>3. QED  BY <1>4, <2>1, <2>2 DEF StreamTold
<1>9. \A j \in Jobs : ErrandOk(j, job[j])'
  <2>1. ASSUME NEW j \in Jobs PROVE ErrandOk(j, job[j])'
    <3>1. PICK r \in JobRecords : r = job'[j] /\ r.pc \in Settled /\ r.seen <= Len(stream)
      BY <1>5
    <3>2. ErrandOk(j, r)'
      BY <1>4, <3>1 DEF ErrandOk, Provided, Underway, Place, Settled
    <3>3. QED  BY <3>1, <3>2
  <2>2. QED  BY <2>1
<1>10. QED  BY <1>7, <1>8, <1>9 DEF LInv

LEMMA RebuildKeeps == ASSUME LInv, Rebuild PROVE LInv'
<1>1. /\ LearningShape /\ StreamTold /\ \A i \in Jobs : ErrandOk(i, job[i])
      /\ stream \in Seq(LearningEntries)
  BY DEF LInv, LearningShape
<1>2. /\ ~up /\ up' = TRUE /\ prop' = Replay(stream) /\ claims' = Activations(stream)
      /\ UNCHANGED <<stream, memory, job>>
  BY DEF Rebuild
<1>3. \A j \in Jobs : job[j].pc \in Settled
  BY <1>1, <1>2 DEF ErrandOk
<1>4. LearningShape'
  BY <1>1, <1>2, ReplayType, ActivationsAreTold DEF LearningShape
<1>5. \A c : Spent(c)' = Spent(c)
  BY <1>2 DEF Spent
<1>6. \A p \in Proposals : claims'[p] # None => Spent(claims[p])'
  <2>1. ASSUME NEW p \in Proposals, claims'[p] # None PROVE Spent(claims[p])'
    <3>1. PICK c : c = claims'[p]
      OBVIOUS
    <3>2. c \in Claims /\ OnRecord(stream, c)
      BY <1>1, <1>2, <2>1, <3>1, ActivationsAreTold
    <3>3. PICK i \in DOMAIN stream : stream[i].type = "activated" /\ stream[i].claim = c
      BY <3>2 DEF OnRecord
    <3>4. Spent(c) \/ job[c[2]].pc = "ingest"
      BY <1>1, <3>3 DEF StreamTold
    <3>5. c[2] \in Jobs
      BY <3>2 DEF Claims
    <3>6. Spent(c)'
      BY <1>3, <1>5, <3>4, <3>5 DEF Settled
    <3>7. QED  BY <3>1, <3>6
  <2>2. QED  BY <2>1
<1>7. StreamTold'
  <2>1. \A i \in DOMAIN stream :
           /\ stream[i].type = "activated" =>
                 Spent(stream[i].claim)' \/ job'[stream[i].claim[2]].pc = "ingest"
           /\ stream[i].type = "reverted" =>
                 memory'[stream[i].claim] = "retracted" /\ Spent(stream[i].claim)'
    <3>1. \A i \in DOMAIN stream : Spent(stream[i].claim)' = Spent(stream[i].claim)
      BY <1>2 DEF Spent
    <3>2. QED  BY <1>1, <1>2, <3>1 DEF StreamTold
  <2>2. OneOpen(Replay(stream)) /\ \A c \in Claims : memory[c] # "none" => OnRecord(stream, c)
    BY <1>1 DEF StreamTold
  <2>3. QED  BY <1>2, <1>6, <2>1, <2>2 DEF StreamTold
<1>8. ASSUME NEW j \in Jobs PROVE ErrandOk(j, job[j])'
  <2>1. PICK r : r = job[j] /\ job'[j] = r /\ r.pc \in Settled /\ r.seen <= Len(stream)
    BY <1>1, <1>2, <1>3 DEF ErrandOk
  <2>2. ErrandOk(j, r)'
    BY <1>2, <2>1 DEF ErrandOk, Provided, Underway, Place, Settled
  <2>3. QED  BY <2>1, <2>2
<1>9. QED  BY <1>4, <1>7, <1>8 DEF LInv

-----------------------------------------------------------------------------
(* Learning: what holds in every reachable state *)

LEMMA LearningNextKeeps == LInv /\ [LearningNext]_learningVars => LInv'
<1>1. ASSUME LInv, LearningNext PROVE LInv'
  <2>1. CASE HostEnds
    BY <1>1, <2>1, HostEndsKeeps
  <2>2. CASE Rebuild
    BY <1>1, <2>2, RebuildKeeps
  <2>3. ASSUME NEW j \in Jobs,
               \/ AppendEvent(j)
               \/ Look(j) \/ Transition(j) \/ Activate(j)
               \/ Apply(j) \/ Ingest(j) \/ Adopt(j) \/ RegisterSkill(j)
               \/ Revert(j) \/ Retract(j) \/ RecordReversal(j) \/ MemoryFails(j)
               \/ Experiment(j) \/ EnterTesting(j) \/ Evaluate(j) \/ EvidenceGate(j)
               \/ Run(j) \/ Expire(j) \/ Propose(j)
               \/ Drift(j) \/ Check(j) \/ RevertNext(j)
        PROVE  LInv'
    BY <1>1, <2>3, AppendEventKeeps, LookKeeps, TransitionKeeps, ActivateKeeps, ApplyKeeps,
       IngestKeeps, AdoptKeeps, RegisterSkillKeeps, RevertKeeps, RetractKeeps,
       RecordReversalKeeps, MemoryFailsKeeps, ExperimentKeeps, EnterTestingKeeps, EvaluateKeeps,
       EvidenceGateKeeps, RunKeeps, ExpireKeeps, ProposeKeeps, DriftKeeps, CheckKeeps,
       RevertNextKeeps
  <2>4. QED  BY <1>1, <2>1, <2>2, <2>3 DEF LearningNext
<1>2. ASSUME LInv, UNCHANGED learningVars PROVE LInv'
  <2>1. UNCHANGED <<stream, up, prop, claims, memory, job>>
    BY <1>2 DEF learningVars
  <2>2. LearningShape'
    BY <1>2, <2>1 DEF LInv, LearningShape
  <2>3. StreamTold'
    <3>1. \A c : Spent(c)' = Spent(c)
      BY <2>1 DEF Spent
    <3>2. QED  BY <1>2, <2>1, <3>1 DEF LInv, StreamTold, Spent
  <2>4. \A j \in Jobs : ErrandOk(j, job[j])'
    BY <1>2, <2>1 DEF LInv, ErrandOk, Provided, Underway, Fits, Spent, Place
  <2>5. QED  BY <2>2, <2>3, <2>4 DEF LInv
<1>3. QED  BY <1>1, <1>2

LEMMA LearningInvariant == LearningSpec => []LInv
BY LearningInitHolds, LearningNextKeeps, PTL DEF LearningSpec

(* However runs, experiments and expiries overlap with the requests of users, a target  *)
(* has at most one open proposal: a run looks for open targets before its append, and   *)
(* the append is stored only on the tail it looked at (loop.ts, hasOpenTarget;          *)
(* proposal.ts, expectedTail).                                                          *)
THEOREM TargetsStayOpenOnce == LearningSpec => []OneOpenPerTarget
<1>1. LInv => OneOpenPerTarget
  BY DEF LInv, StreamTold, OneOpen, OneOpenPerTarget
<1>2. QED  BY <1>1, LearningInvariant, PTL

(* Whatever claim learning has put in the user's memory, its activation is on the      *)
(* stream, through crashes of the host and answers of memory that were lost            *)
(* (learning-activation.ts, apply: the activation is recorded before the claim).       *)
THEOREM ClaimsStayAccounted == LearningSpec => []ClaimsAreAccounted
<1>1. LInv => ClaimsAreAccounted
  BY DEF LInv, StreamTold, OnRecord, ClaimsAreAccounted
<1>2. QED  BY <1>1, LearningInvariant, PTL

(* A reversal on the stream is of a claim that is out of memory, and stays out: no     *)
(* late ingest or repeated activation brings it back (learning-activation.ts, revert). *)
THEOREM ReversalsLast == LearningSpec => []RevertedStaysRetracted
<1>1. LInv => RevertedStaysRetracted
  BY DEF LInv, StreamTold, RevertedStaysRetracted
<1>2. QED  BY <1>1, LearningInvariant, PTL

=============================================================================
