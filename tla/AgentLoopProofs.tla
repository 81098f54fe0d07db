--------------------------- MODULE AgentLoopProofs ---------------------------
(***************************************************************************)
(* What TLAPS proves of AgentLoop, for any runs, finitely many calls, any  *)
(* scenes and any number of steps and faults, runs that overlap included:  *)
(* its types, and that one turn touches the world at most once for a call  *)
(* (Shape and EInv); and that the stream of a turn that runs strictly in   *)
(* sequence and is not torn rebuilds to what its last checkpoint says      *)
(* (HInv).                                                                 *)
(***************************************************************************)
EXTENDS AgentLoop, FiniteSetTheorems, TLAPS

F == INSTANCE Folding WITH Op <- Kept

-----------------------------------------------------------------------------
(* The types of messages, events, records and loop states *)

Message == [role : {"user"}, turn : Runs]
              \union [role : {"assistant"}, by : Runs, step : Nat, calls : Seq(Calls)]
              \union [role : {"tool"}, call : Calls, ok : BOOLEAN]
Tool == [call : Calls, by : Runs]
Item == [call : Calls \union {None}, by : Runs \union {None}]
Completed == [type : {"item.completed"}, turn : Runs, item : Item, message : Message]
Started == [type : {"tool.started", "approval.started"}, turn : Runs, item : Tool]
Checkpointed == [type : {"agent.checkpoint"}, turn : Runs, step : Nat, digest : Seq(Message)]
Answered == [type : {"approval.completed"}, turn : Runs, item : Item,
             decision : {"none", "approved", "rejected"}]
Event == [type : Terminal \union {"turn.started", "agent.recovery_failed"}, turn : Runs]
            \union Completed \union Started \union Checkpointed \union Answered
Phases == {"absent", "asked", "denied", "started", "completed", "failed"}
Record == [phase : Phases, by : Runs \union {None}]
Keys == Runs \X Calls

Fields == [pc : Locations, entry : {"none", "runTurn", "resumeTurn", "recoverTurn"},
           turn : Runs \union {None}, history : Seq(Message), step : Nat,
           todo : Seq(Tool), batch : Seq(Standings),
           mode : {"none", "leftover", "tool_calls", "end_turn", "decided"},
           approval : {"none", "approved", "rejected"}, item : Item]

\* A run that began has a turn, a batch is a beginning of what is to do, and
\* whoever has something to do knows how it goes on from there.
LoopState == {l \in Fields :
    /\ l.pc # "idle" => l.turn \in Runs
    /\ Len(l.batch) <= Len(l.todo)
    /\ l.batch # <<>> => l.pc = "intents"
    /\ l.pc \in {"intents", "decide"} => l.mode # "none"}

\* A tool result that is not an error.
IsOkResult(e) == e.type = "item.completed" /\ e.message.role = "tool" /\ e.message.ok

Shape ==
    /\ scene \in Scenes
    /\ stream \in Seq(Event)
    /\ \A i \in DOMAIN stream : IsOkResult(stream[i]) => stream[i].item.call \in Calls
    /\ world \in [Keys -> Record] /\ effects \in [Keys -> Nat]
    /\ run \in [Runs -> LoopState]
    /\ \A t \in Turns : \E i \in DOMAIN stream : stream[i] = TurnEvent("turn.started", t)
    /\ faults \in 0 .. scene.faults /\ torn \in SUBSET Runs

-----------------------------------------------------------------------------
(* The inductive invariant *)

\* The world was touched as the record of the key says: not before the action
\* started, once when it completed, and at most once in between and when it failed.
TouchedAsRecorded ==
    \A k \in Keys :
       /\ effects[k] <= 1
       /\ world[k].phase \in {"absent", "asked", "denied"} => effects[k] = 0
       /\ world[k].phase = "completed" => effects[k] = 1

\* The intents that have a started action in hand.
InHand == {"running", "acted"}

\* An intent that runs is the one that started its action, before it touches the
\* world and after it, and one that was told of a success has a completed action.
StandingIsRecorded ==
    \A r \in Runs : \A i \in DOMAIN run[r].batch :
       /\ run[r].batch[i] \in InHand =>
             /\ world[KeyOf(r, i)].phase = "started"
             /\ effects[KeyOf(r, i)] = IF run[r].batch[i] = "acted" THEN 1 ELSE 0
       /\ run[r].batch[i] = "ok" => world[KeyOf(r, i)].phase = "completed"

\* No two intents run one action.
RunsAlone ==
    \A r, s \in Runs : \A i \in DOMAIN run[r].batch : \A j \in DOMAIN run[s].batch :
       run[r].batch[i] \in InHand /\ run[s].batch[j] \in InHand /\ KeyOf(r, i) = KeyOf(s, j)
       => r = s /\ i = j

EInv == TouchedAsRecorded /\ StandingIsRecorded /\ RunsAlone /\ ResultsAreTrue

-----------------------------------------------------------------------------
(* The operators on sequences *)

\* A set of positions has a first and a last one.
LEMMA FirstAndLast ==
    ASSUME NEW n \in Nat, NEW S \in SUBSET (1 .. n), S # {}
    PROVE  Max(S) \in S /\ Min(S) \in S
<1>1. \E x \in S : \A y \in S : x <= y
  <2>1. S \in SUBSET Nat
    OBVIOUS
  <2>2. QED  BY <2>1, F!LeastNumber
<1>2. \E x \in S : \A y \in S : x >= y
  <2> DEFINE T == {n - x : x \in S}
  <2>1. T \in SUBSET Nat /\ T # {}
    <3>1. \A x \in S : n - x \in Nat
      OBVIOUS
    <3>2. QED  BY <3>1
  <2>2. PICK m \in T : \A k \in T : m <= k
    <3> HIDE DEF T
    <3>1. QED  BY <2>1, F!LeastNumber
  <2>3. PICK x \in S : m = n - x
    OBVIOUS
  <2>4. ASSUME NEW y \in S PROVE x >= y
    <3>1. n - y \in T
      OBVIOUS
    <3>2. n - x <= n - y
      BY <2>2, <2>3, <3>1
    <3>3. QED  BY <3>2
  <2>5. QED  BY <2>4
<1>3. QED  BY <1>1, <1>2, Zenon DEF Max, Min

LEMMA SelectType ==
    ASSUME NEW D, NEW s \in Seq(D), NEW S
    PROVE  Select(s, S) \in Seq(D \intersect S)
<1>1. \A kept \in Seq(D \intersect S) : \A e \in D : Kept(S, kept, e) \in Seq(D \intersect S)
  BY DEF Kept
<1>2. << >> \in Seq(D \intersect S)
  OBVIOUS
<1>3. F!Folding(S, << >>, s) \in Seq(D \intersect S)
  BY <1>1, <1>2, F!FoldsInto
<1>4. Select(s, S) = F!Folding(S, << >>, s)
  BY DEF Select, F!Folding, FoldLeft, F!FoldLeft, MapThenFoldSet, F!MapThenFoldSet, Max, F!Max
<1>5. QED  BY <1>3, <1>4

LEMMA MessagesType ==
    ASSUME NEW s \in Seq(Event)
    PROVE  messagesFromEvents(s) \in Seq(Message)
<1> DEFINE S == {e \in Range(s) : e.type = "item.completed"}
           completed == Select(s, S)
<1>1. completed \in Seq(Event \intersect S)
  BY SelectType
<1>2. \A e \in Event \intersect S : e.message \in Message
  BY DEF Event, Completed, Started, Checkpointed, Answered, Terminal
<1> HIDE DEF S
<1>3. Len(completed) \in Nat /\ DOMAIN completed = 1 .. Len(completed)
      /\ \A i \in DOMAIN completed : completed[i] \in Event \intersect S
  BY <1>1
<1>4. messagesFromEvents(s) = [i \in DOMAIN completed |-> completed[i].message]
  BY DEF messagesFromEvents, S
<1> HIDE DEF completed
<1>5. [i \in DOMAIN completed |-> completed[i].message] \in Seq(Message)
  BY <1>2, <1>3
<1>6. QED  BY <1>4, <1>5

LEMMA OfTurnType ==
    ASSUME NEW s \in Seq(Event), NEW t
    PROVE  OfTurn(s, t) \in Seq(Event)
<1>1. OfTurn(s, t) \in Seq(Event \intersect {e \in Range(s) : e.turn = t})
  BY SelectType DEF OfTurn
<1>2. QED  BY <1>1

LEMMA UnansweredType ==
    ASSUME NEW h \in Seq(Message)
    PROVE  Unanswered(h) \in Seq(Calls)
<1> DEFINE asking == {i \in DOMAIN h : h[i].role = "assistant" /\ h[i].calls # <<>>}
           answered == {h[i].call : i \in {j \in DOMAIN h : h[j].role = "tool"}}
<1>1. Unanswered(h) = IF asking = {} THEN << >>
                      ELSE Select(h[Max(asking)].calls, Calls \ answered)
  BY DEF Unanswered
<1>2. CASE asking = {}
  BY <1>1, <1>2
<1>3. CASE asking # {}
  <2>1. Len(h) \in Nat /\ asking \in SUBSET (1 .. Len(h))
    OBVIOUS
  <2>2. Max(asking) \in asking
    <3> HIDE DEF asking
    <3>1. QED  BY <1>3, <2>1, FirstAndLast
  <2>3. h[Max(asking)] \in Message /\ h[Max(asking)].role = "assistant"
    BY <2>2
  <2>4. h[Max(asking)].calls \in Seq(Calls)
    BY <2>3 DEF Message
  <2> HIDE DEF asking, answered
  <2>5. Select(h[Max(asking)].calls, Calls \ answered) \in Seq(Calls \intersect (Calls \ answered))
    BY <2>4, SelectType
  <2>6. QED  BY <1>1, <1>3, <2>5
<1>4. QED  BY <1>2, <1>3

LEMMA IntentsType ==
    ASSUME NEW r \in Runs, NEW calls \in Seq(Calls)
    PROVE  IntentsOf(r, calls) \in Seq(Tool) /\ Len(IntentsOf(r, calls)) = Len(calls)
<1>1. /\ Len(calls) \in Nat /\ DOMAIN calls = 1 .. Len(calls)
      /\ \A i \in DOMAIN calls : Intent(calls[i], r) \in Tool
  BY DEF Intent, Tool
<1>2. IntentsOf(r, calls) = [i \in 1 .. Len(calls) |-> Intent(calls[i], r)]
  BY <1>1 DEF IntentsOf
<1>3. QED  BY <1>1, <1>2

LEMMA FreshCallsType == FreshCalls \subseteq Seq(Calls)
<1> DEFINE made == {stream[i].item.call : i \in {j \in DOMAIN stream : stream[j].type = "tool.started"}}
<1>1. ASSUME NEW S \in SUBSET (Calls \ made) PROVE SetToSeqs(S) \subseteq Seq(Calls)
  <2>1. IsFiniteSet(S)
    <3>1. S \in SUBSET Calls
      OBVIOUS
    <3>2. QED  BY <3>1, CallsAssumption, FS_Subset
  <2>2. Cardinality(S) \in Nat
    BY <2>1, FS_CardinalityType
  <2>3. SetToSeqs(S) \subseteq [1 .. Cardinality(S) -> S]
    BY DEF SetToSeqs
  <2>4. QED  BY <2>2, <2>3
<1>2. QED  BY <1>1 DEF FreshCalls

LEMMA BatchMessagesType ==
    ASSUME NEW todo \in Seq(Tool), NEW batch \in Seq(Standings), Len(batch) <= Len(todo)
    PROVE  BatchMessages(todo, batch) \in Seq(Message)
<1> DEFINE places == [i \in DOMAIN batch |-> i]
           S == {i \in DOMAIN batch : batch[i] \in Recorded}
           answered == Select(places, S)
<1>1. places \in Seq(DOMAIN batch)
  OBVIOUS
<1>2. answered \in Seq((DOMAIN batch) \intersect S)
  <2> HIDE DEF places, S
  <2>1. QED  BY <1>1, SelectType
<1>3. BatchMessages(todo, batch) =
         [n \in DOMAIN answered |-> ToolMessage(todo[answered[n]].call,
                                                batch[answered[n]] = "ok_recorded")]
  BY DEF BatchMessages
<1> HIDE DEF answered
<1>4. \A n \in DOMAIN answered :
         ToolMessage(todo[answered[n]].call, batch[answered[n]] = "ok_recorded") \in Message
  <2>1. \A n \in DOMAIN answered : answered[n] \in DOMAIN todo
    BY <1>2
  <2>2. \A n \in DOMAIN answered : todo[answered[n]].call \in Calls
    <3>1. \A i \in DOMAIN todo : todo[i] \in Tool
      OBVIOUS
    <3>2. \A x \in Tool : x.call \in Calls
      BY DEF Tool
    <3>3. QED  BY <2>1, <3>1, <3>2
  <2>3. QED  BY <2>2 DEF ToolMessage, Message
<1>5. [n \in DOMAIN answered |-> ToolMessage(todo[answered[n]].call,
                                             batch[answered[n]] = "ok_recorded")] \in Seq(Message)
  BY <1>2, <1>4, SMTT(30)
<1>6. QED  BY <1>3, <1>5

LEMMA BatchLengthType ==
    ASSUME NEW todo \in Seq(Tool), todo # << >>
    PROVE  BatchLength(todo) \in 1 .. Len(todo)
<1> DEFINE S == {1} \union {n \in 1 .. Len(todo) :
                              n <= MaxBatch /\ \A i \in 1 .. n : todo[i].call \in scene.parallel}
<1>1. Len(todo) \in Nat \ {0} /\ S \in SUBSET (1 .. Len(todo)) /\ S # {}
  OBVIOUS
<1>2. BatchLength(todo) = Max(S)
  BY DEF BatchLength
<1> HIDE DEF S
<1>3. QED  BY <1>1, <1>2, FirstAndLast

-----------------------------------------------------------------------------
(* What is read back from the stream *)

LEMMA SubSeqType ==
    ASSUME NEW D, NEW s \in Seq(D), NEW n \in 0 .. Len(s)
    PROVE  SubSeq(s, 1, n) \in Seq(D)
OBVIOUS

LEMMA RebuiltHistoryType ==
    ASSUME Shape, NEW t \in Turns, NEW n \in 0 .. Len(stream)
    PROVE  RebuiltHistory(t, n) \in Seq(Message)
<1>1. stream \in Seq(Event) /\ Len(stream) \in Nat /\ DOMAIN stream = 1 .. Len(stream)
  BY DEF Shape
<1>2. StartedAt(t) \in DOMAIN stream
  <2>1. \E i \in DOMAIN stream : stream[i] = TurnEvent("turn.started", t)
    BY DEF Shape
  <2>2. QED  BY <2>1, Zenon DEF StartedAt
<1> DEFINE m == StartedAt(t) - 1
<1>3. m \in 0 .. Len(stream)
  BY <1>1, <1>2
<1> HIDE DEF m
<1>4. SubSeq(stream, 1, m) \in Seq(Event) /\ SubSeq(stream, 1, n) \in Seq(Event)
  BY <1>1, <1>3, SubSeqType
<1>5. messagesFromEvents(SubSeq(stream, 1, m)) \in Seq(Message)
  BY <1>4, MessagesType
<1>6. messagesFromEvents(OfTurn(SubSeq(stream, 1, n), t)) \in Seq(Message)
  BY <1>4, OfTurnType, MessagesType
<1>7. QED  BY <1>5, <1>6 DEF RebuiltHistory, m

LEMMA CommitSequenceType ==
    ASSUME Shape, NEW t
    PROVE  /\ CommitSequence(t) \in 0 .. Len(stream)
           /\ CheckpointsOf(t) # {} => stream[CommitSequence(t)].step \in Nat
<1>1. Len(stream) \in Nat /\ CheckpointsOf(t) \in SUBSET (1 .. Len(stream))
  BY DEF Shape, CheckpointsOf
<1>2. CASE CheckpointsOf(t) = {}
  BY <1>1, <1>2 DEF CommitSequence
<1>3. CASE CheckpointsOf(t) # {}
  <2>1. CommitSequence(t) \in CheckpointsOf(t)
    BY <1>1, <1>3, FirstAndLast DEF CommitSequence
  <2>2. stream[CommitSequence(t)] \in Event /\ stream[CommitSequence(t)].type = "agent.checkpoint"
    BY <2>1 DEF CheckpointsOf, Shape
  <2>3. stream[CommitSequence(t)].step \in Nat
    BY <2>2 DEF Event, Completed, Started, Checkpointed, Answered, Terminal
  <2>4. QED  BY <1>1, <2>1, <2>3
<1>4. QED  BY <1>2, <1>3

LEMMA IdleType ==
    /\ Idle \in LoopState
    /\ Idle.pc = "idle" /\ Idle.batch = <<>> /\ Idle.todo = <<>> /\ Idle.mode = "none"
<1>1. << >> \in Seq(Tool) /\ << >> \in Seq(Standings) /\ << >> \in Seq(Message) /\ Len(<< >>) = 0
  OBVIOUS
<1>2. MessageItem(None) \in Item
  BY DEF MessageItem, Intent, Item
<1>3. Idle \in Fields
  BY <1>1, <1>2 DEF Idle, Fields, Locations, Over
<1>4. QED  BY <1>1, <1>3 DEF Idle, LoopState

LEMMA RebuiltType ==
    ASSUME Shape, NEW r \in Runs, NEW t \in Turns, NEW entry \in {"resumeTurn", "recoverTurn"},
           NEW pc \in {"decide", "drive", "refused"}
    PROVE  LET l == Rebuilt(r, entry, t, pc) IN
           /\ l \in Fields /\ l.batch = << >> /\ l.pc \in {pc, "mismatch"} /\ l.turn = t
           /\ l.entry = entry /\ l.todo = << >>
<1> DEFINE h == RebuiltHistory(t, CommitSequence(t))
           step == IF CheckpointsOf(t) = {} THEN 0 ELSE stream[CommitSequence(t)].step
           at == IF DigestMatches(t) THEN pc ELSE "mismatch"
<1>1. h \in Seq(Message) /\ step \in Nat
  BY CommitSequenceType, RebuiltHistoryType
<1>2. at \in {pc, "mismatch"} /\ t \in Runs
  BY DEF Turns
<1>3. Rebuilt(r, entry, t, pc) =
         [Idle EXCEPT !.pc = at, !.entry = entry, !.turn = t, !.history = h, !.step = step]
  BY DEF Rebuilt
<1> HIDE DEF h, step, at
<1>4. Idle \in Fields /\ Idle.batch = << >> /\ Idle.todo = << >>
  BY IdleType DEF LoopState
<1>5. QED  BY <1>1, <1>2, <1>3, <1>4, ZenonT(60) DEF Fields, Locations, Over

-----------------------------------------------------------------------------
(* What a step does that does not reach the boundary *)

\* The faults and the torn turns are what their types say.
Marks == faults' \in 0 .. scene.faults /\ torn' \in SUBSET Runs

\* Run r goes on, or is over, and leaves some events. Intents that run, or were
\* told of a success, did so before; such a success may now be on the stream.
Goes(r, l, events) ==
    /\ run' = [run EXCEPT ![r] = l]
    /\ \A i \in DOMAIN l.batch : l.batch[i] \in {"running", "acted", "ok"} =>
          Stands(r, i, l.batch[i]) /\ l.turn = run[r].turn /\ l.todo[i] = run[r].todo[i]
    /\ l.entry = "runTurn" =>
          run[r].entry = "runTurn" \/ TurnEvent("turn.started", r) \in Range(events)
    /\ stream' = stream \o events
    /\ \A e \in Range(events) : IsOkResult(e) =>
          \E i \in DOMAIN run[r].batch :
             run[r].batch[i] = "ok" /\ KeyOf(r, i) = <<e.turn, e.item.call>>
    /\ UNCHANGED <<scene, world, effects>>
    /\ UNCHANGED <<faults, torn>> \/ Marks

GoesOn(r) == \E l \in LoopState : \E events \in Seq(Event) : Goes(r, l, events)

LEMMA KeyType ==
    ASSUME Shape, NEW r \in Runs, NEW i \in DOMAIN run[r].batch
    PROVE  /\ KeyOf(r, i) \in Keys /\ run[r].todo[i] \in Tool /\ run[r].turn \in Runs
           /\ run[r].pc = "intents" /\ i \in DOMAIN run[r].todo
           /\ world[KeyOf(r, i)] \in Record /\ effects[KeyOf(r, i)] \in Nat
<1>1. run[r] \in LoopState
  BY DEF Shape
<1>2. /\ run[r].todo \in Seq(Tool) /\ run[r].batch \in Seq(Standings)
      /\ Len(run[r].batch) <= Len(run[r].todo)
      /\ run[r].batch # << >> => run[r].pc = "intents"
      /\ run[r].pc # "idle" => run[r].turn \in Runs
  BY <1>1 DEF LoopState, Fields
<1>3. i \in 1 .. Len(run[r].batch) /\ Len(run[r].batch) \in Nat
  BY <1>2
<1>4. run[r].batch # << >>
  BY <1>2, <1>3
<1>5. i \in DOMAIN run[r].todo
  BY <1>2, <1>3
<1>6. run[r].todo[i] \in Tool
  BY <1>2, <1>5
<1>7. KeyOf(r, i) \in Keys
  BY <1>2, <1>4, <1>6 DEF KeyOf, Keys, Tool
<1>8. QED  BY <1>2, <1>4, <1>5, <1>6, <1>7 DEF Shape

\* An event more or many: what the stream held and what is new.
LEMMA StreamGrows ==
    ASSUME NEW s \in Seq(Event), NEW events \in Seq(Event)
    PROVE  /\ s \o events \in Seq(Event)
           /\ \A i \in DOMAIN s : i \in DOMAIN (s \o events) /\ (s \o events)[i] = s[i]
           /\ \A i \in DOMAIN (s \o events) :
                 \/ i \in DOMAIN s
                 \/ (s \o events)[i] \in Range(events)
           /\ \A e \in Range(events) : \E i \in DOMAIN (s \o events) : (s \o events)[i] = e
<1>1. /\ s \o events \in Seq(Event) /\ Len(s \o events) = Len(s) + Len(events)
      /\ Len(s) \in Nat /\ Len(events) \in Nat
      /\ DOMAIN s = 1 .. Len(s) /\ DOMAIN events = 1 .. Len(events)
      /\ DOMAIN (s \o events) = 1 .. (Len(s) + Len(events))
  OBVIOUS
<1>2. /\ \A i \in 1 .. Len(s) : (s \o events)[i] = s[i]
      /\ \A i \in 1 .. Len(events) : (s \o events)[Len(s) + i] = events[i]
  BY <1>1
<1>3. ASSUME NEW i \in DOMAIN (s \o events), i \notin DOMAIN s
      PROVE  (s \o events)[i] \in Range(events)
  <2>1. i - Len(s) \in 1 .. Len(events) /\ i = Len(s) + (i - Len(s))
    BY <1>1, <1>3
  <2>2. (s \o events)[i] = events[i - Len(s)]
    BY <1>2, <2>1
  <2>3. QED  BY <1>1, <2>1, <2>2 DEF Range
<1>4. ASSUME NEW e \in Range(events)
      PROVE  \E i \in DOMAIN (s \o events) : (s \o events)[i] = e
  <2>1. PICK j \in 1 .. Len(events) : events[j] = e
    BY <1>1 DEF Range
  <2>2. Len(s) + j \in 1 .. (Len(s) + Len(events)) /\ (s \o events)[Len(s) + j] = e
    BY <1>1, <1>2, <2>1
  <2>3. QED  BY <1>1, <2>2
<1>5. QED  BY <1>1, <1>2, <1>3, <1>4

LEMMA GoesKeeps ==
    ASSUME Shape, EInv, NEW r \in Runs, NEW l \in LoopState, NEW events \in Seq(Event),
           Goes(r, l, events)
    PROVE  Shape' /\ EInv'
<1>1. /\ scene' = scene /\ world' = world /\ effects' = effects
      /\ faults' \in 0 .. scene'.faults /\ torn' \in SUBSET Runs
      /\ stream' = stream \o events /\ run' = [run EXCEPT ![r] = l]
  BY DEF Goes, Marks, Shape
<1>2. run \in [Runs -> LoopState] /\ stream \in Seq(Event)
  BY DEF Shape
<1>3. /\ run' \in [Runs -> LoopState] /\ run'[r] = l
      /\ \A s \in Runs : s # r => run'[s] = run[s]
  BY <1>1, <1>2
<1>4. /\ stream' \in Seq(Event)
      /\ \A i \in DOMAIN stream : i \in DOMAIN stream' /\ stream'[i] = stream[i]
      /\ \A i \in DOMAIN stream' : i \in DOMAIN stream \/ stream'[i] \in Range(events)
      /\ \A e \in Range(events) : \E i \in DOMAIN stream' : stream'[i] = e
  BY <1>1, <1>2, StreamGrows
<1>5. ASSUME NEW s \in Runs, NEW i \in DOMAIN run'[s].batch,
             run'[s].batch[i] \in {"running", "acted", "ok"}
      PROVE  /\ i \in DOMAIN run[s].batch /\ run[s].batch[i] = run'[s].batch[i]
             /\ KeyOf(s, i)' = KeyOf(s, i)
  <2>1. CASE s = r
    BY <1>3, <1>5, <2>1 DEF Goes, Stands, KeyOf
  <2>2. CASE s # r
    BY <1>3, <1>5, <2>2 DEF KeyOf
  <2>3. QED  BY <2>1, <2>2
<1>6. ASSUME NEW i \in DOMAIN stream', IsOkResult(stream'[i]), i \notin DOMAIN stream
      PROVE  \E j \in DOMAIN run[r].batch :
                run[r].batch[j] = "ok" /\ KeyOf(r, j) = <<stream'[i].turn, stream'[i].item.call>>
  BY <1>4, <1>6 DEF Goes
<1>7. Shape'
  <2>1. ASSUME NEW i \in DOMAIN stream', IsOkResult(stream'[i])
        PROVE  stream'[i].item.call \in Calls
    <3>1. CASE i \in DOMAIN stream
      BY <1>4, <2>1, <3>1 DEF Shape
    <3>2. CASE i \notin DOMAIN stream
      <4>1. PICK j \in DOMAIN run[r].batch :
               KeyOf(r, j) = <<stream'[i].turn, stream'[i].item.call>>
        BY <1>6, <2>1, <3>2
      <4>2. KeyOf(r, j) \in Keys
        BY KeyType
      <4>3. QED  BY <4>1, <4>2 DEF Keys
    <3>3. QED  BY <3>1, <3>2
  <2>2. ASSUME NEW t \in Turns'
        PROVE  \E i \in DOMAIN stream' : stream'[i] = TurnEvent("turn.started", t)
    <3>1. CASE t \in Turns
      BY <1>4, <3>1 DEF Shape
    <3>2. CASE t \notin Turns
      <4>1. t = r /\ l.entry = "runTurn" /\ run[r].entry # "runTurn"
        BY <1>3, <2>2, <3>2 DEF Turns
      <4>2. TurnEvent("turn.started", r) \in Range(events)
        BY <4>1 DEF Goes
      <4>3. QED  BY <1>4, <4>1, <4>2
    <3>3. QED  BY <3>1, <3>2
  <2>3. QED  BY <1>1, <1>3, <1>4, <2>1, <2>2 DEF Shape
<1>8. TouchedAsRecorded'
  BY <1>1 DEF EInv, TouchedAsRecorded
<1>9. StandingIsRecorded'
  <2>1. SUFFICES ASSUME NEW s \in Runs, NEW i \in DOMAIN run'[s].batch
                 PROVE  /\ run'[s].batch[i] \in InHand =>
                              /\ world[KeyOf(s, i)'].phase = "started"
                              /\ effects[KeyOf(s, i)'] = IF run'[s].batch[i] = "acted" THEN 1 ELSE 0
                        /\ run'[s].batch[i] = "ok" => world[KeyOf(s, i)'].phase = "completed"
    BY <1>1 DEF StandingIsRecorded
  <2>2. QED  BY <1>5 DEF EInv, StandingIsRecorded, InHand
<1>10. RunsAlone'
  <2>1. SUFFICES ASSUME NEW s \in Runs, NEW t \in Runs,
                        NEW i \in DOMAIN run'[s].batch, NEW j \in DOMAIN run'[t].batch,
                        run'[s].batch[i] \in InHand, run'[t].batch[j] \in InHand,
                        KeyOf(s, i)' = KeyOf(t, j)'
                 PROVE  s = t /\ i = j
    BY DEF RunsAlone
  <2>2. /\ i \in DOMAIN run[s].batch /\ run[s].batch[i] \in InHand
        /\ j \in DOMAIN run[t].batch /\ run[t].batch[j] \in InHand
        /\ KeyOf(s, i) = KeyOf(t, j)
    BY <1>5, <2>1 DEF InHand
  <2>3. QED  BY <2>2 DEF EInv, RunsAlone
<1>11. ResultsAreTrue'
  <2>1. SUFFICES ASSUME NEW i \in DOMAIN stream', IsOkResult(stream'[i]),
                        NEW k, k = <<stream'[i].turn, stream'[i].item.call>>
                 PROVE  effects[k] = 1 /\ world[k].phase = "completed"
    BY <1>1 DEF ResultsAreTrue, IsOkResult
  <2>2. CASE i \in DOMAIN stream
    BY <1>4, <2>1, <2>2 DEF EInv, ResultsAreTrue, IsOkResult
  <2>3. CASE i \notin DOMAIN stream
    <3>1. PICK j \in DOMAIN run[r].batch : run[r].batch[j] = "ok" /\ KeyOf(r, j) = k
      BY <1>6, <2>1, <2>3
    <3>2. k \in Keys /\ world[k].phase = "completed"
      BY <3>1, KeyType DEF EInv, StandingIsRecorded
    <3>3. QED  BY <3>2 DEF EInv, TouchedAsRecorded
  <2>4. QED  BY <2>2, <2>3
<1>12. QED  BY <1>7, <1>8, <1>9, <1>10, <1>11 DEF EInv

-----------------------------------------------------------------------------
(* Each step that does not reach the boundary goes on like that *)

\* The events that are not results of a success.
Plain == {e \in Event : ~IsOkResult(e)}

LEMMA PlainEvents ==
    ASSUME NEW t \in Runs
    PROVE  /\ \A type \in Terminal \union {"turn.started", "agent.recovery_failed"} :
                 TurnEvent(type, t) \in Plain
           /\ \A item \in Item, message \in Message : message.role # "tool" =>
                 ItemCompleted(t, item, message) \in Plain
           /\ \A item \in Item, call \in Calls :
                 ItemCompleted(t, item, ToolMessage(call, FALSE)) \in Plain
           /\ \A item \in Tool : ToolStarted(t, item) \in Plain /\ ApprovalStarted(t, item) \in Plain
           /\ \A item \in Item, decision \in {"none", "approved", "rejected"} :
                 ApprovalCompleted(t, item, decision) \in Plain
           /\ \A step \in Nat, history \in Seq(Message) : Checkpoint(t, step, history) \in Plain
<1>1. \A type \in Terminal \union {"turn.started", "agent.recovery_failed"} :
         TurnEvent(type, t) \in Plain
  BY DEF TurnEvent, Plain, Event, IsOkResult, Terminal
<1>2. \A item \in Item, message \in Message :
         /\ ItemCompleted(t, item, message) \in Event
         /\ ItemCompleted(t, item, message).message = message
  BY DEF ItemCompleted, Event, Completed
<1>3. \A item \in Item, message \in Message : message.role # "tool" =>
         ItemCompleted(t, item, message) \in Plain
  BY <1>2 DEF Plain, IsOkResult
<1>4. \A call \in Calls : ToolMessage(call, FALSE) \in Message /\ ~ToolMessage(call, FALSE).ok
  BY DEF ToolMessage, Message
<1>5. \A item \in Item, call \in Calls : ItemCompleted(t, item, ToolMessage(call, FALSE)) \in Plain
  BY <1>2, <1>4 DEF Plain, IsOkResult
<1>6. \A item \in Tool : ToolStarted(t, item) \in Plain /\ ApprovalStarted(t, item) \in Plain
  BY DEF ToolStarted, ApprovalStarted, Plain, Event, Started, IsOkResult
<1>7. \A item \in Item, decision \in {"none", "approved", "rejected"} :
         ApprovalCompleted(t, item, decision) \in Plain
  BY DEF ApprovalCompleted, Plain, Event, Answered, IsOkResult
<1>8. \A step \in Nat, history \in Seq(Message) : Checkpoint(t, step, history) \in Plain
  BY DEF Checkpoint, Plain, Event, Checkpointed, IsOkResult
<1>9. QED  BY <1>1, <1>3, <1>5, <1>6, <1>7, <1>8

\* A run whose batch is over goes on, and appends nothing but plain events.
LEMMA Proceeds ==
    ASSUME NEW r \in Runs, NEW l \in LoopState, NEW events \in Seq(Plain),
           run' = [run EXCEPT ![r] = l],
           \A i \in DOMAIN l.batch : l.batch[i] \notin {"running", "acted", "ok"},
           l.entry \in {run[r].entry, "resumeTurn", "recoverTurn"},
           stream' = stream \o events,
           UNCHANGED <<scene, world, effects>>, UNCHANGED <<faults, torn>> \/ Marks
    PROVE  GoesOn(r)
<1>1. events \in Seq(Event)
  BY DEF Plain
<1>2. \A e \in Range(events) : ~IsOkResult(e)
  BY DEF Plain, Range
<1>3. Goes(r, l, events)
  BY <1>2 DEF Goes
<1>4. QED  BY <1>1, <1>3 DEF GoesOn

LEMMA ProceedsSilently ==
    ASSUME Shape, NEW r \in Runs, NEW l \in LoopState,
           run' = [run EXCEPT ![r] = l],
           \A i \in DOMAIN l.batch : l.batch[i] \notin {"running", "acted", "ok"},
           l.entry \in {run[r].entry, "resumeTurn", "recoverTurn"},
           UNCHANGED <<scene, stream, world, effects>>, UNCHANGED <<faults, torn>> \/ Marks
    PROVE  GoesOn(r)
<1>1. << >> \in Seq(Plain)
  OBVIOUS
<1>2. stream' = stream \o << >>
  BY DEF Shape
<1>3. QED  BY <1>1, <1>2, Proceeds

\* The loop state of a run, taken apart.
LEMMA LoopStateType ==
    ASSUME Shape, NEW r \in Runs
    PROVE  /\ run[r] \in LoopState /\ run[r] \in Fields
           /\ run[r].history \in Seq(Message) /\ run[r].todo \in Seq(Tool)
           /\ run[r].batch \in Seq(Standings) /\ Len(run[r].batch) <= Len(run[r].todo)
           /\ run[r].step \in Nat /\ run[r].item \in Item
           /\ run[r].approval \in {"none", "approved", "rejected"}
           /\ run[r].entry \in {"none", "runTurn", "resumeTurn", "recoverTurn"}
           /\ run[r].mode \in {"none", "leftover", "tool_calls", "end_turn", "decided"}
           /\ run[r].pc # "idle" => run[r].turn \in Runs
           /\ run[r].pc # "intents" => run[r].batch = <<>>
           /\ run[r].pc \in {"intents", "decide"} => run[r].mode # "none"
BY DEF Shape, LoopState, Fields

LEMMA EndsGoOn ==
    ASSUME Shape, NEW r \in Runs, NEW result \in Over, Ended(r, result), run[r].pc # "idle",
           NEW events \in Seq(Plain), stream' = stream \o events,
           UNCHANGED <<scene, world, effects>>, UNCHANGED <<faults, torn>> \/ Marks
    PROVE  GoesOn(r)
<1> DEFINE l == [Idle EXCEPT !.pc = result, !.entry = run[r].entry, !.turn = run[r].turn]
<1>1. l \in LoopState /\ l.batch = << >> /\ l.entry = run[r].entry
  BY LoopStateType, IdleType, ZenonT(60) DEF LoopState, Fields, Locations, Over
<1>2. run' = [run EXCEPT ![r] = l]
  BY DEF Ended
<1> HIDE DEF l
<1>3. \A i \in DOMAIN l.batch : l.batch[i] \notin {"running", "acted", "ok"}
  BY <1>1
<1>4. QED  BY <1>1, <1>2, <1>3, Proceeds

LEMMA TerminalGoesOn ==
    ASSUME Shape, NEW r \in Runs, NEW result \in Over, NEW type \in Terminal,
           Ends(r, result, type), run[r].pc # "idle"
    PROVE  GoesOn(r)
<1> DEFINE e == TurnEvent(type, run[r].turn)
<1>1. e \in Plain
  BY LoopStateType, PlainEvents
<1>2. stream' = stream \o <<e>> /\ Ended(r, result) /\ UNCHANGED <<scene, world, effects, faults, torn>>
  BY DEF Ends, AppendEvents
<1> HIDE DEF e
<1>3. <<e>> \in Seq(Plain)
  BY <1>1
<1>4. QED  BY <1>2, <1>3, EndsGoOn

LEMMA RunTurnGoesOn ==
    ASSUME Shape, NEW r \in Runs, RunTurn(r)
    PROVE  GoesOn(r)
<1> DEFINE l == [Idle EXCEPT !.pc = "carry", !.entry = "runTurn", !.turn = r]
           e == TurnEvent("turn.started", r)
<1>1. l \in LoopState /\ l.batch = << >> /\ l.entry = "runTurn"
  BY IdleType DEF LoopState, Fields, Locations
<1>2. run' = [run EXCEPT ![r] = l] /\ stream' = stream \o <<e>>
      /\ UNCHANGED <<scene, world, effects, faults, torn>>
  BY DEF RunTurn, AppendEvents
<1>3. e \in Plain /\ e \in Event
  BY PlainEvents DEF Plain
<1> HIDE DEF l
<1>4. Range(<<e>>) = {e} /\ <<e>> \in Seq(Event)
  BY <1>3 DEF Range
<1>5. ~IsOkResult(e)
  BY <1>3 DEF Plain
<1>6. Goes(r, l, <<e>>)
  BY <1>1, <1>2, <1>4, <1>5 DEF Goes
<1>7. QED  BY <1>1, <1>4, <1>6 DEF GoesOn

LEMMA CarryHistoryGoesOn ==
    ASSUME Shape, NEW r \in Runs, CarryHistory(r)
    PROVE  GoesOn(r)
<1> DEFINE l == [run[r] EXCEPT !.pc = "input", !.history = messagesFromEvents(stream)]
<1>1. messagesFromEvents(stream) \in Seq(Message)
  BY MessagesType DEF Shape
<1>2. run[r].pc = "carry" /\ run[r].batch = << >> /\ run[r].turn \in Runs
  BY LoopStateType DEF CarryHistory
<1>3. l \in LoopState /\ l.batch = << >> /\ l.entry = run[r].entry
  BY <1>1, <1>2, LoopStateType, ZenonT(60) DEF LoopState, Fields, Locations
<1>4. run' = [run EXCEPT ![r] = l] /\ UNCHANGED <<scene, stream, world, effects, faults, torn>>
  BY DEF CarryHistory, Shape
<1> HIDE DEF l
<1>5. \A i \in DOMAIN l.batch : l.batch[i] \notin {"running", "acted", "ok"}
  BY <1>3
<1>6. QED  BY <1>3, <1>4, <1>5, ProceedsSilently

LEMMA SubmitInputGoesOn ==
    ASSUME Shape, NEW r \in Runs, SubmitInput(r)
    PROVE  GoesOn(r)
<1> DEFINE l == [run[r] EXCEPT !.pc = "drive", !.history = Append(@, UserMessage(r))]
           e == ItemCompleted(r, MessageItem(r), UserMessage(r))
<1>1. UserMessage(r) \in Message /\ UserMessage(r).role # "tool" /\ MessageItem(r) \in Item
  BY DEF UserMessage, Message, MessageItem, Intent, Item
<1>2. run[r].pc = "input" /\ run[r].batch = << >> /\ run[r].turn \in Runs
  BY LoopStateType DEF SubmitInput
<1>3. Append(run[r].history, UserMessage(r)) \in Seq(Message)
  BY <1>1, LoopStateType
<1>4. l \in LoopState /\ l.batch = << >> /\ l.entry = run[r].entry
  BY <1>2, <1>3, LoopStateType, ZenonT(60) DEF LoopState, Fields, Locations
<1>5. /\ run' = [run EXCEPT ![r] = l] /\ UNCHANGED <<scene, world, effects, faults, torn>>
      /\ stream' = stream \o <<e>>
  BY DEF SubmitInput, Shape, AppendEvents
<1>6. e \in Plain
  BY <1>1, PlainEvents
<1> HIDE DEF l, e
<1>7. <<e>> \in Seq(Plain)
  BY <1>6
<1>8. \A i \in DOMAIN l.batch : l.batch[i] \notin {"running", "acted", "ok"}
  BY <1>4
<1>9. QED  BY <1>4, <1>5, <1>7, <1>8, Proceeds

LEMMA DriveGoesOn ==
    ASSUME Shape, NEW r \in Runs, Drive(r)
    PROVE  GoesOn(r)
<1> DEFINE todo == IntentsOf(r, Unanswered(run[r].history))
           at == IF todo = <<>> THEN "generate" ELSE "intents"
           l == [run[r] EXCEPT !.pc = at, !.todo = todo, !.mode = "leftover"]
<1>1. run[r].pc = "drive" /\ run[r].batch = << >> /\ run[r].turn \in Runs
  BY LoopStateType DEF Drive
<1>2. CASE Cancel(r)
  BY <1>1, <1>2, TerminalGoesOn DEF Cancel, Over, Terminal
<1>3. CASE Ends(r, "failed", "turn.failed")
  BY <1>1, <1>3, TerminalGoesOn DEF Over, Terminal
<1>4. CASE /\ run' = [run EXCEPT ![r].pc = IF todo = <<>> THEN "generate" ELSE "intents",
                                 ![r].todo = todo, ![r].mode = "leftover"]
           /\ UNCHANGED <<scene, stream, world, effects, faults, torn>>
  <2>1. todo \in Seq(Tool)
    BY LoopStateType, UnansweredType, IntentsType
  <2>2. run' = [run EXCEPT ![r] = l]
    BY <1>4 DEF Shape
  <2>3. at \in {"generate", "intents"} /\ Len(todo) >= 0
    BY <2>1
  <2> HIDE DEF todo, at
  <2>4. l \in LoopState /\ l.batch = << >> /\ l.entry = run[r].entry
    BY <1>1, <2>1, <2>3, LoopStateType, ZenonT(60) DEF LoopState, Fields, Locations
  <2> HIDE DEF l
  <2>5. \A i \in DOMAIN l.batch : l.batch[i] \notin {"running", "acted", "ok"}
    BY <2>4
  <2>6. QED  BY <1>4, <2>2, <2>4, <2>5, ProceedsSilently
<1>5. QED  BY <1>2, <1>3, <1>4 DEF Drive

LEMMA GenerateGoesOn ==
    ASSUME Shape, NEW r \in Runs, Generate(r)
    PROVE  GoesOn(r)
<1>1. run[r].pc = "generate" /\ run[r].batch = << >> /\ run[r].turn \in Runs
  BY LoopStateType DEF Generate
<1>2. CASE Cancel(r)
  BY <1>1, <1>2, TerminalGoesOn DEF Cancel, Over, Terminal
<1>3. CASE Ends(r, "failed", "turn.failed")
  BY <1>1, <1>3, TerminalGoesOn DEF Over, Terminal
<1>4. CASE ~Cancel(r) /\ ~Ends(r, "failed", "turn.failed")
  <2> DEFINE t == run[r].turn
             Todo(calls) == IntentsOf(r, calls)
             Message1(calls) == AssistantMessage(r, run[r].step, calls)
             Started1(calls) == [i \in DOMAIN Todo(calls) |-> ToolStarted(t, Todo(calls)[i])]
             Done(calls) == ItemCompleted(t, MessageItem(r), Message1(calls))
             Mode(calls) == IF calls = <<>> THEN "end_turn" ELSE "tool_calls"
  <2>1. PICK calls \in FreshCalls :
           /\ AppendEvents(Started1(calls) \o <<Done(calls)>>)
           /\ run' = [run EXCEPT ![r].pc = "intents", ![r].todo = Todo(calls),
                                 ![r].mode = Mode(calls),
                                 ![r].history = Append(@, Message1(calls))]
           /\ UNCHANGED <<scene, world, effects, faults, torn>>
    BY <1>4 DEF Generate
  <2> DEFINE todo == Todo(calls)
             message == Message1(calls)
             mode == Mode(calls)
             started == Started1(calls)
             done == Done(calls)
             l == [run[r] EXCEPT !.pc = "intents", !.todo = todo, !.mode = mode,
                                 !.history = Append(@, message)]
  <2>2. calls \in Seq(Calls)
    BY FreshCallsType
  <2>3. todo \in Seq(Tool) /\ mode \in {"end_turn", "tool_calls"}
    BY <2>2, IntentsType
  <2>4. message \in Message /\ message.role # "tool" /\ MessageItem(r) \in Item
    BY <2>2, LoopStateType DEF AssistantMessage, Message, MessageItem, Intent, Item
  <2>5. done \in Plain
    BY <1>1, <2>4, PlainEvents
  <2>6. started = [i \in DOMAIN todo |-> ToolStarted(t, todo[i])]
    OBVIOUS
  <2>7. /\ run' = [run EXCEPT ![r] = l] /\ stream' = stream \o (started \o <<done>>)
        /\ UNCHANGED <<scene, world, effects, faults, torn>>
    BY <2>1 DEF AppendEvents, Shape
  <2> HIDE DEF todo, message, mode, started, done
  <2>8. started \in Seq(Plain)
    <3>1. \A item \in Tool : ToolStarted(t, item) \in Plain
      BY <1>1, PlainEvents
    <3>2. \A i \in DOMAIN todo : todo[i] \in Tool
      BY <2>3
    <3>3. \A i \in DOMAIN todo : ToolStarted(t, todo[i]) \in Plain
      BY <3>1, <3>2
    <3>4. QED  BY <2>3, <2>6, <3>3
  <2>9. started \o <<done>> \in Seq(Plain)
    BY <2>5, <2>8
  <2>10. l \in LoopState /\ l.batch = << >> /\ l.entry = run[r].entry
    <3>1. Append(run[r].history, message) \in Seq(Message) /\ Len(todo) >= 0
      BY <2>3, <2>4, LoopStateType
    <3>2. QED  BY <1>1, <2>3, <3>1, LoopStateType, ZenonT(60) DEF LoopState, Fields, Locations
  <2> HIDE DEF l
  <2>11. \A i \in DOMAIN l.batch : l.batch[i] \notin {"running", "acted", "ok"}
    BY <2>10
  <2>12. QED  BY <2>7, <2>9, <2>10, <2>11, Proceeds
<1>5. QED  BY <1>2, <1>3, <1>4

LEMMA SettleGoesOn ==
    ASSUME Shape, NEW r \in Runs, Settle(r)
    PROVE  GoesOn(r)
<1> DEFINE at == CASE run[r].mode = "leftover" -> "generate"
                   [] run[r].mode = "tool_calls" -> "drive"
                   [] run[r].mode = "end_turn" -> "complete"
           next == run[r].step + 1
           l == [run[r] EXCEPT !.step = next, !.pc = at]
           e == Checkpoint(run[r].turn, next, run[r].history)
<1>1. /\ run[r].pc = "intents" /\ run[r].todo = << >> /\ run[r].turn \in Runs
      /\ run[r].mode \in {"leftover", "tool_calls", "end_turn"}
  BY LoopStateType DEF Settle
<1>2. run[r].batch = << >>
  BY <1>1, LoopStateType
<1>3. at \in {"generate", "drive", "complete"} /\ next \in Nat
  BY <1>1, LoopStateType
<1>4. e \in Plain
  BY <1>1, <1>3, LoopStateType, PlainEvents
<1>5. stream' = stream \o <<e>> /\ UNCHANGED <<scene, world, effects, faults, torn>>
  BY DEF Settle, AppendEvents
<1>6. run' = [run EXCEPT ![r].step = next, ![r].pc = at]
  BY Zenon DEF Settle
<1> HIDE DEF at, next, e
<1>7. run' = [run EXCEPT ![r] = l]
  BY <1>6 DEF Shape
<1>8. l \in LoopState /\ l.batch = << >> /\ l.entry = run[r].entry
  BY <1>1, <1>2, <1>3, LoopStateType, ZenonT(60) DEF LoopState, Fields, Locations
<1> HIDE DEF l
<1>9. <<e>> \in Seq(Plain)
  BY <1>4
<1>10. \A i \in DOMAIN l.batch : l.batch[i] \notin {"running", "acted", "ok"}
  BY <1>8
<1>11. QED  BY <1>5, <1>8, <1>9, <1>10, <1>7, Proceeds

LEMMA CompleteGoesOn ==
    ASSUME Shape, NEW r \in Runs, Complete(r)
    PROVE  GoesOn(r)
BY TerminalGoesOn DEF Complete, Over, Terminal

LEMMA NextBatchGoesOn ==
    ASSUME Shape, NEW r \in Runs, NextBatch(r)
    PROVE  GoesOn(r)
<1>1. run[r].pc = "intents" /\ run[r].batch = << >> /\ run[r].todo # << >>
  BY DEF NextBatch
<1>2. CASE Cancel(r)
  BY <1>1, <1>2, TerminalGoesOn DEF Cancel, Over, Terminal
<1>3. CASE ~Cancel(r)
  <2> DEFINE batch == [i \in 1 .. BatchLength(run[r].todo) |-> "ready"]
             l == [run[r] EXCEPT !.batch = batch]
  <2>1. BatchLength(run[r].todo) \in 1 .. Len(run[r].todo)
    BY <1>1, LoopStateType, BatchLengthType
  <2>2. batch \in Seq(Standings) /\ Len(batch) <= Len(run[r].todo)
        /\ \A i \in DOMAIN batch : batch[i] = "ready"
    BY <2>1, LoopStateType DEF Standings
  <2>3. run' = [run EXCEPT ![r] = l] /\ UNCHANGED <<scene, stream, world, effects, faults, torn>>
    BY <1>3 DEF NextBatch, Shape
  <2> HIDE DEF batch
  <2>4. l \in LoopState /\ l.batch = batch /\ l.entry = run[r].entry
    BY <1>1, <2>2, LoopStateType DEF LoopState, Fields
  <2> HIDE DEF l
  <2>5. \A i \in DOMAIN l.batch : l.batch[i] \notin {"running", "acted", "ok"}
    BY <2>2, <2>4
  <2>6. QED  BY <2>3, <2>4, <2>5, ProceedsSilently
<1>4. QED  BY <1>2, <1>3

\* One intent of the batch moves on to a standing nothing depends on.
LEMMA IntentGoesOn ==
    ASSUME Shape, NEW r \in Runs, NEW i \in DOMAIN run[r].batch,
           NEW standing \in Standings \ {"running", "acted", "ok"},
           run' = [run EXCEPT ![r].batch[i] = standing],
           NEW e \in Event, stream' = stream \o <<e>>,
           IsOkResult(e) => run[r].batch[i] = "ok" /\ KeyOf(r, i) = <<e.turn, e.item.call>>,
           UNCHANGED <<scene, world, effects>>, UNCHANGED <<faults, torn>> \/ Marks
    PROVE  GoesOn(r)
<1> DEFINE batch == [run[r].batch EXCEPT ![i] = standing]
           l == [run[r] EXCEPT !.batch = batch]
<1>1. run' = [run EXCEPT ![r] = l]
  BY DEF Shape
<1>2. /\ batch \in Seq(Standings) /\ Len(batch) = Len(run[r].batch)
      /\ DOMAIN batch = DOMAIN run[r].batch
      /\ \A j \in DOMAIN batch : batch[j] = IF j = i THEN standing ELSE run[r].batch[j]
  BY LoopStateType
<1> HIDE DEF batch
<1>3. l \in LoopState /\ l.batch = batch /\ l.entry = run[r].entry /\ l.turn = run[r].turn
      /\ l.todo = run[r].todo
  BY <1>2, LoopStateType, KeyType, ZenonT(60) DEF LoopState, Fields
<1>4. <<e>> \in Seq(Event) /\ Range(<<e>>) = {e}
  BY DEF Range
<1> HIDE DEF l
<1>5. Goes(r, l, <<e>>)
  BY <1>1, <1>2, <1>3, <1>4 DEF Goes, Stands
<1>6. QED  BY <1>3, <1>4, <1>5 DEF GoesOn

LEMMA InBatchGoesOn ==
    ASSUME Shape, NEW r \in Runs, NEW i,
           RecordResult(r, i) \/ RaiseApproval(r, i) \/ SuspendCheckpoint(r, i)
    PROVE  GoesOn(r)
<1>1. i \in DOMAIN run[r].batch
  BY DEF RecordResult, RaiseApproval, SuspendCheckpoint, Stands
<1>2. run[r].todo[i] \in Tool /\ run[r].todo[i] \in Item /\ run[r].turn \in Runs
  BY <1>1, KeyType DEF Tool, Item
<1>3. CASE RecordResult(r, i)
  <2> DEFINE item == run[r].todo[i]
             ok == Stands(r, i, "ok")
             e == ItemCompleted(run[r].turn, item, ToolMessage(item.call, ok))
             standing == IF ok THEN "ok_recorded" ELSE "error_recorded"
  <2>1. /\ stream' = stream \o <<e>> /\ run' = [run EXCEPT ![r].batch[i] = standing]
        /\ UNCHANGED <<scene, world, effects, faults, torn>>
    BY <1>3 DEF RecordResult, AppendEvents
  <2>2. standing \in Standings \ {"running", "acted", "ok"}
    BY DEF Standings
  <2>3. item.call \in Calls /\ ok \in BOOLEAN
    BY <1>2 DEF Tool, Stands
  <2>4. ToolMessage(item.call, ok) \in Message /\ ToolMessage(item.call, ok).ok = ok
    BY <2>3 DEF ToolMessage, Message
  <2>5. e \in Event /\ e.turn = run[r].turn /\ e.item = item /\ e.message.ok = ok
    BY <1>2, <2>4 DEF ItemCompleted, Event, Completed
  <2>6. IsOkResult(e) => run[r].batch[i] = "ok" /\ KeyOf(r, i) = <<e.turn, e.item.call>>
    BY <2>5 DEF IsOkResult, Stands, KeyOf
  <2> HIDE DEF item, ok, e, standing
  <2>7. QED  BY <1>1, <2>1, <2>2, <2>5, <2>6, IntentGoesOn
<1>4. CASE RaiseApproval(r, i)
  <2> DEFINE e == ApprovalStarted(run[r].turn, run[r].todo[i])
  <2>1. /\ stream' = stream \o <<e>> /\ run' = [run EXCEPT ![r].batch[i] = "raised"]
        /\ UNCHANGED <<scene, world, effects, faults, torn>>
    BY <1>4 DEF RaiseApproval, AppendEvents
  <2>2. e \in Event /\ ~IsOkResult(e)
    BY <1>2, PlainEvents DEF Plain
  <2>3. "raised" \in Standings \ {"running", "acted", "ok"}
    BY DEF Standings
  <2> HIDE DEF e
  <2>4. QED  BY <1>1, <2>1, <2>2, <2>3, IntentGoesOn
<1>5. CASE SuspendCheckpoint(r, i)
  <2> DEFINE e == Checkpoint(run[r].turn, run[r].step + 1, run[r].history)
  <2>1. /\ stream' = stream \o <<e>> /\ run' = [run EXCEPT ![r].batch[i] = "suspended"]
        /\ UNCHANGED <<scene, world, effects, faults, torn>>
    BY <1>5 DEF SuspendCheckpoint, AppendEvents
  <2>2. e \in Event /\ ~IsOkResult(e)
    <3>1. run[r].step + 1 \in Nat /\ run[r].history \in Seq(Message)
      BY LoopStateType
    <3>2. QED  BY <1>2, <3>1, PlainEvents DEF Plain
  <2>3. "suspended" \in Standings \ {"running", "acted", "ok"}
    BY DEF Standings
  <2> HIDE DEF e
  <2>4. QED  BY <1>1, <2>1, <2>2, <2>3, IntentGoesOn
<1>6. QED  BY <1>3, <1>4, <1>5

LEMMA RestType ==
    ASSUME NEW D, NEW s \in Seq(D), NEW n \in Nat, n <= Len(s)
    PROVE  SubSeq(s, n + 1, Len(s)) \in Seq(D)
OBVIOUS

LEMMA CommitGoesOn ==
    ASSUME Shape, NEW r \in Runs, Commit(r)
    PROVE  GoesOn(r)
<1>1. run[r].batch # << >> /\ UNCHANGED <<scene, stream, world, effects, faults, torn>>
  BY DEF Commit
<1>2. run[r].pc = "intents" /\ run[r].turn \in Runs
  BY <1>1, LoopStateType
<1>3. CASE Ended(r, "suspended")
  <2>1. << >> \in Seq(Plain) /\ stream' = stream \o << >> /\ "suspended" \in Over
    BY <1>1 DEF Shape, Over
  <2>2. QED  BY <1>1, <1>2, <1>3, <2>1, EndsGoOn
<1>4. CASE Commits(r, SubSeq(run[r].todo, Len(run[r].batch) + 1, Len(run[r].todo)), <<>>)
  <2> DEFINE rest == SubSeq(run[r].todo, Len(run[r].batch) + 1, Len(run[r].todo))
             messages == BatchMessages(run[r].todo, run[r].batch)
             at == IF run[r].mode = "decided" THEN "drive" ELSE run[r].pc
             history == run[r].history \o messages
             none == << >>
             l == [run[r] EXCEPT !.history = history, !.todo = rest, !.batch = none,
                                 !.pc = at, !.approval = "none"]
  <2>1. rest \in Seq(Tool) /\ messages \in Seq(Message)
    BY LoopStateType, BatchMessagesType, RestType
  <2>2. at \in {"drive", "intents"}
    BY <1>2
  <2>3. run' = [run EXCEPT ![r] = l]
    BY <1>4 DEF Commits, Shape
  <2> HIDE DEF rest, messages, at
  <2>4. history \in Seq(Message) /\ Len(rest) \in Nat /\ none \in Seq(Standings)
    BY <2>1, LoopStateType
  <2>5. l \in LoopState /\ l.batch = << >> /\ l.entry = run[r].entry
    <3> HIDE DEF history, none
    <3>0. run[r] \in Fields /\ at \in Locations /\ "none" \in {"none", "approved", "rejected"}
      BY <2>2, LoopStateType DEF Locations
    <3>1. /\ l \in Fields /\ l.batch = none /\ l.entry = run[r].entry /\ l.todo = rest
          /\ l.turn = run[r].turn /\ l.mode = run[r].mode
      BY <2>1, <2>4, <3>0 DEF Fields
    <3>2. l.turn \in Runs /\ l.mode # "none"
      BY <1>2, <3>1, LoopStateType
    <3>3. none = << >> /\ Len(none) = 0
      BY DEF none
    <3> HIDE DEF l
    <3>4. QED  BY <2>4, <3>1, <3>2, <3>3 DEF LoopState
  <2> HIDE DEF l
  <2>6. \A i \in DOMAIN l.batch : l.batch[i] \notin {"running", "acted", "ok"}
    BY <2>5
  <2>7. QED  BY <1>1, <2>3, <2>5, <2>6, ProceedsSilently
<1>5. QED  BY <1>3, <1>4 DEF Commit

LEMMA ResumeTurnGoesOn ==
    ASSUME Shape, NEW r \in Runs, ResumeTurn(r)
    PROVE  GoesOn(r)
<1> DEFINE Pending(t, a) == a \in PendingApprovals(t)
           At(t, a) == IF Pending(t, a) THEN "decide" ELSE "refused"
           Tool1(t, a) == stream[Max(ActiveToolItems(t, stream[a].item.call))].item
<1> DEFINE Resumes(t, decision, a) ==
             run' = [run EXCEPT ![r] =
               IF Rebuilt(r, "resumeTurn", t, At(t, a)).pc = "decide"
               THEN [Rebuilt(r, "resumeTurn", t, At(t, a)) EXCEPT
                        !.approval = decision, !.todo = <<Tool1(t, a)>>,
                        !.mode = "decided", !.item = stream[a].item]
               ELSE Rebuilt(r, "resumeTurn", t, At(t, a))]
<1>0. PICK t \in Turns, decision \in {"approved", "rejected"} :
         \E a \in OpenApprovals(t) : Resumes(t, decision, a)
  BY DEF ResumeTurn
<1>1. PICK a \in OpenApprovals(t) : Resumes(t, decision, a)
  BY <1>0
<1>2. UNCHANGED <<scene, stream, world, effects, faults, torn>>
  BY DEF ResumeTurn
<1> DEFINE at == At(t, a)
           rebuilt == Rebuilt(r, "resumeTurn", t, at)
           tool == Tool1(t, a)
<1>3. at \in {"decide", "refused"} /\ (at = "decide" => Pending(t, a)) /\ t \in Runs
  BY DEF Turns
<1>4. /\ rebuilt \in Fields /\ rebuilt.batch = << >> /\ rebuilt.pc \in {at, "mismatch"}
      /\ rebuilt.turn = t /\ rebuilt.entry = "resumeTurn" /\ rebuilt.todo = << >>
  <2> HIDE DEF at
  <2>1. QED  BY <1>3, RebuiltType
<1>5. stream \in Seq(Event) /\ Len(stream) \in Nat /\ DOMAIN stream = 1 .. Len(stream)
  BY DEF Shape
<1>6. CASE rebuilt.pc = "decide"
  <2>1. Pending(t, a)
    BY <1>3, <1>4, <1>6
  <2>2. ActiveToolItems(t, stream[a].item.call) # {}
    <3> DEFINE eligible == {i \in OpenApprovals(t) : ActiveToolItems(t, stream[i].item.call) # {}}
    <3>1. PendingApprovals(t) = IF eligible = {} THEN {} ELSE {Min(eligible)}
      BY DEF PendingApprovals
    <3>2. eligible \in SUBSET (1 .. Len(stream))
      BY <1>5 DEF OpenApprovals
    <3>3. eligible # {} /\ a = Min(eligible)
      BY <2>1, <3>1
    <3>4. a \in eligible
      <4> HIDE DEF eligible
      <4>1. QED  BY <1>5, <3>2, <3>3, FirstAndLast
    <3>5. QED  BY <3>4
  <2>3. tool \in Tool
    <3> DEFINE items == ActiveToolItems(t, stream[a].item.call)
    <3>1. items \in SUBSET (1 .. Len(stream))
      BY <1>5 DEF ActiveToolItems
    <3>2. Max(items) \in items
      <4> HIDE DEF items
      <4>1. items # {}
        BY <2>2 DEF items
      <4>2. QED  BY <1>5, <3>1, <4>1, FirstAndLast
    <3>3. /\ Max(items) \in DOMAIN stream /\ stream[Max(items)].type = "tool.started"
      BY <3>2 DEF ActiveToolItems
    <3> HIDE DEF items
    <3>4. stream[Max(items)] \in Event
      BY <1>5, <3>3
    <3>5. stream[Max(items)].item \in Tool
      BY <3>3, <3>4 DEF Event, Completed, Started, Checkpointed, Answered, Terminal
    <3>6. QED  BY <3>5 DEF items
  <2>4. stream[a].item \in Item
    <3>1. a \in DOMAIN stream /\ stream[a].type = "approval.started"
      BY DEF OpenApprovals
    <3>2. stream[a] \in Event
      BY <1>5, <3>1
    <3>3. stream[a].item \in Tool
      BY <3>1, <3>2 DEF Event, Completed, Started, Checkpointed, Answered, Terminal
    <3>4. QED  BY <3>3 DEF Tool, Item
  <2> DEFINE todo == <<tool>>
             item == stream[a].item
             l == [rebuilt EXCEPT !.approval = decision, !.todo = todo,
                                  !.mode = "decided", !.item = item]
  <2>5. run' = [run EXCEPT ![r] = l]
    BY <1>1, <1>6
  <2>6. todo \in Seq(Tool) /\ Len(todo) = 1 /\ item \in Item
    <3> HIDE DEF tool
    <3>1. QED  BY <2>3, <2>4
  <2> HIDE DEF tool, todo, item, at, rebuilt
  <2>7. l \in LoopState /\ l.batch = << >> /\ l.entry = "resumeTurn"
    <3>1. /\ l \in Fields /\ l.batch = rebuilt.batch /\ l.entry = rebuilt.entry /\ l.todo = todo
          /\ l.turn = rebuilt.turn /\ l.mode = "decided"
      BY <1>4, <2>6 DEF Fields
    <3> HIDE DEF l
    <3>2. l.batch = << >> /\ Len(l.batch) = 0 /\ l.turn \in Runs
      BY <1>3, <1>4, <3>1
    <3>3. QED  BY <1>4, <2>6, <3>1, <3>2 DEF LoopState
  <2> HIDE DEF l
  <2>8. \A i \in DOMAIN l.batch : l.batch[i] \notin {"running", "acted", "ok"}
    BY <2>7
  <2>9. QED  BY <1>2, <2>5, <2>7, <2>8, ProceedsSilently
<1>7. CASE rebuilt.pc # "decide"
  <2>1. run' = [run EXCEPT ![r] = rebuilt]
    BY <1>1, <1>7
  <2> HIDE DEF at, rebuilt
  <2>2. rebuilt \in LoopState
    BY <1>3, <1>4, <1>7 DEF LoopState
  <2>3. \A i \in DOMAIN rebuilt.batch : rebuilt.batch[i] \notin {"running", "acted", "ok"}
    BY <1>4
  <2>4. QED  BY <1>2, <1>4, <2>1, <2>2, <2>3, ProceedsSilently
<1>8. QED  BY <1>6, <1>7

LEMMA RecoverTurnGoesOn ==
    ASSUME Shape, NEW r \in Runs, RecoverTurn(r)
    PROVE  GoesOn(r)
<1> DEFINE At(t) == IF PendingApprovals(t) = {} /\ TurnIsActive(t) THEN "drive" ELSE "refused"
<1>1. PICK t \in Turns : run' = [run EXCEPT ![r] = Rebuilt(r, "recoverTurn", t, At(t))]
  BY DEF RecoverTurn
<1>2. UNCHANGED <<scene, stream, world, effects, faults, torn>>
  BY DEF RecoverTurn
<1> DEFINE at == At(t)
           rebuilt == Rebuilt(r, "recoverTurn", t, at)
<1>3. at \in {"drive", "refused"} /\ t \in Runs
  BY DEF Turns
<1>4. /\ rebuilt \in Fields /\ rebuilt.batch = << >> /\ rebuilt.pc \in {at, "mismatch"}
      /\ rebuilt.turn = t /\ rebuilt.entry = "recoverTurn" /\ rebuilt.todo = << >>
  <2> HIDE DEF at
  <2>1. QED  BY <1>3, RebuiltType
<1>5. run' = [run EXCEPT ![r] = rebuilt]
  BY <1>1
<1> HIDE DEF at, rebuilt
<1>6. rebuilt \in LoopState
  BY <1>3, <1>4 DEF LoopState
<1>7. \A i \in DOMAIN rebuilt.batch : rebuilt.batch[i] \notin {"running", "acted", "ok"}
  BY <1>4
<1>8. QED  BY <1>2, <1>4, <1>5, <1>6, <1>7, ProceedsSilently

LEMMA DecideGoesOn ==
    ASSUME Shape, NEW r \in Runs, Decide(r)
    PROVE  GoesOn(r)
<1> DEFINE l == [run[r] EXCEPT !.pc = "intents"]
           e == ApprovalCompleted(run[r].turn, run[r].item, run[r].approval)
<1>1. run[r].pc = "decide" /\ run[r].batch = << >> /\ run[r].turn \in Runs
  BY LoopStateType DEF Decide
<1>2. l \in LoopState /\ l.batch = << >> /\ l.entry = run[r].entry
  BY <1>1, LoopStateType DEF LoopState, Fields, Locations
<1>3. /\ run' = [run EXCEPT ![r] = l] /\ stream' = stream \o <<e>>
      /\ UNCHANGED <<scene, world, effects, faults, torn>>
  BY DEF Decide, Shape, AppendEvents
<1>4. e \in Plain
  BY <1>1, LoopStateType, PlainEvents
<1> HIDE DEF l, e
<1>5. <<e>> \in Seq(Plain)
  BY <1>4
<1>6. \A i \in DOMAIN l.batch : l.batch[i] \notin {"running", "acted", "ok"}
  BY <1>2
<1>7. QED  BY <1>2, <1>3, <1>5, <1>6, Proceeds

LEMMA ReportMismatchGoesOn ==
    ASSUME Shape, NEW r \in Runs, ReportMismatch(r)
    PROVE  GoesOn(r)
<1> DEFINE e == TurnEvent("agent.recovery_failed", run[r].turn)
<1>1. run[r].pc = "mismatch" /\ run[r].turn \in Runs
  BY LoopStateType DEF ReportMismatch
<1>2. e \in Plain
  BY <1>1, PlainEvents
<1>3. /\ stream' = stream \o <<e>> /\ Ended(r, "refused")
      /\ UNCHANGED <<scene, world, effects, faults, torn>>
  BY DEF ReportMismatch, AppendEvents
<1> HIDE DEF e
<1>4. <<e>> \in Seq(Plain) /\ "refused" \in Over
  BY <1>2 DEF Over
<1>5. QED  BY <1>1, <1>3, <1>4, EndsGoOn

LEMMA FaultIsCounted ==
    ASSUME Shape, Fault
    PROVE  faults' \in 0 .. scene.faults
<1>1. scene.faults \in Nat
  BY ScenesAssumption DEF Shape
<1>2. QED  BY <1>1 DEF Fault, Shape

\* One run that is lost is over like any other.
LEMMA LostIsEnded ==
    ASSUME Shape, NEW r \in Runs, Lost({r})
    PROVE  Ended(r, "lost") /\ torn' \in SUBSET Runs
<1>1. torn' \in SUBSET Runs
  BY DEF Lost, Shape, Turns
<1>2. run' = [x \in Runs |-> IF x \in {r}
                            THEN [Idle EXCEPT !.pc = "lost", !.entry = run[x].entry,
                                              !.turn = run[x].turn]
                            ELSE run[x]]
  BY DEF Lost
<1> DEFINE l == [Idle EXCEPT !.pc = "lost", !.entry = run[r].entry, !.turn = run[r].turn]
<1>3. /\ DOMAIN run' = Runs /\ run'[r] = l
      /\ \A x \in Runs : x # r => run'[x] = run[x]
  BY <1>2
<1> HIDE DEF l
<1>4. run \in [Runs -> LoopState] /\ run' = [x \in Runs |-> run'[x]]
  BY <1>2 DEF Shape
<1>5. run' = [run EXCEPT ![r] = l]
  BY <1>3, <1>4
<1>6. QED  BY <1>1, <1>5 DEF Ended, l

LEMMA DispatchFailedGoesOn ==
    ASSUME Shape, NEW r \in Runs, DispatchFailed(r)
    PROVE  GoesOn(r)
<1>1. /\ run[r].batch # << >> /\ Lost({r})
      /\ UNCHANGED <<scene, stream, world, effects, faults>>
  BY DEF DispatchFailed
<1>2. run[r].pc # "idle" /\ "lost" \in Over
  BY <1>1, LoopStateType DEF Over
<1>3. Ended(r, "lost") /\ torn' \in SUBSET Runs
  BY <1>1, LostIsEnded
<1>4. << >> \in Seq(Plain) /\ stream' = stream \o << >>
  BY <1>1 DEF Shape
<1>5. Marks
  BY <1>1, <1>3 DEF Marks, Shape
<1>6. QED  BY <1>1, <1>2, <1>3, <1>4, <1>5, EndsGoOn

LEMMA AppendRefusedGoesOn ==
    ASSUME Shape, NEW r \in Runs, AppendRefused(r)
    PROVE  GoesOn(r)
<1>1. /\ Fault /\ Active(r) /\ Lost({r}) /\ UNCHANGED <<scene, world, effects>>
      /\ \E calls \in {<< >>} \union FreshCalls :
            stream' = stream \o [i \in DOMAIN calls |->
                                     ToolStarted(run[r].turn, IntentsOf(r, calls)[i])]
  BY DEF AppendRefused, AppendEvents
<1>2. run[r].pc # "idle" /\ "lost" \in Over /\ run[r].turn \in Runs
  BY <1>1, LoopStateType DEF Active, Over
<1>3. Ended(r, "lost") /\ torn' \in SUBSET Runs
  BY <1>1, LostIsEnded
<1>4. PICK calls \in Seq(Calls) :
         stream' = stream \o [i \in DOMAIN calls |->
                                  ToolStarted(run[r].turn, IntentsOf(r, calls)[i])]
  <2>1. << >> \in Seq(Calls)
    OBVIOUS
  <2>2. QED  BY <1>1, <2>1, FreshCallsType
<1> DEFINE starts == [i \in DOMAIN calls |-> ToolStarted(run[r].turn, IntentsOf(r, calls)[i])]
<1>5. starts \in Seq(Plain)
  <2>1. IntentsOf(r, calls) \in Seq(Tool) /\ DOMAIN IntentsOf(r, calls) = DOMAIN calls
    BY IntentsType
  <2>2. \A i \in DOMAIN calls : IntentsOf(r, calls)[i] \in Tool
    BY <2>1
  <2>3. \A i \in DOMAIN calls : ToolStarted(run[r].turn, IntentsOf(r, calls)[i]) \in Plain
    BY <1>2, <2>2, PlainEvents
  <2>4. DOMAIN calls = 1 .. Len(calls) /\ Len(calls) \in Nat
    OBVIOUS
  <2>5. QED  BY <2>3, <2>4
<1>6. stream' = stream \o starts
  BY <1>4
<1> HIDE DEF starts
<1>7. Marks
  BY <1>1, <1>3, FaultIsCounted DEF Marks
<1>8. QED  BY <1>1, <1>2, <1>3, <1>5, <1>6, <1>7, EndsGoOn

\* An append of the boundary or of the loop is refused while a call is dispatched.
LEMMA FaultGoesOn ==
    ASSUME Shape, NEW r \in Runs, NEW i, ExecuteThrows(r, i) \/ RecordingRefused(r, i)
    PROVE  GoesOn(r)
<1>1. /\ i \in DOMAIN run[r].batch /\ Fault
      /\ UNCHANGED <<scene, stream, world, effects, torn>>
  BY DEF ExecuteThrows, RecordingRefused, Stands
<1>2. PICK standing \in {"error", "rejected"} : run' = [run EXCEPT ![r].batch[i] = standing]
  BY DEF ExecuteThrows, RecordingRefused
<1>3. standing \in Standings \ {"running", "acted", "ok"}
  BY DEF Standings
<1>4. Marks
  BY <1>1, FaultIsCounted DEF Marks, Shape
<1> DEFINE batch == [run[r].batch EXCEPT ![i] = standing]
           l == [run[r] EXCEPT !.batch = batch]
<1>5. run' = [run EXCEPT ![r] = l]
  BY <1>2 DEF Shape
<1>6. /\ batch \in Seq(Standings) /\ Len(batch) = Len(run[r].batch)
      /\ DOMAIN batch = DOMAIN run[r].batch
      /\ \A j \in DOMAIN batch : batch[j] = IF j = i THEN standing ELSE run[r].batch[j]
  BY <1>1, <1>3, LoopStateType
<1> HIDE DEF batch
<1>7. l \in LoopState /\ l.batch = batch /\ l.entry = run[r].entry /\ l.turn = run[r].turn
      /\ l.todo = run[r].todo
  BY <1>1, <1>6, LoopStateType, KeyType, ZenonT(60) DEF LoopState, Fields
<1> HIDE DEF l
<1>8. << >> \in Seq(Event) /\ Range(<< >>) = {} /\ stream' = stream \o << >>
  BY <1>1 DEF Range, Shape
<1>9. Goes(r, l, << >>)
  BY <1>1, <1>3, <1>4, <1>5, <1>6, <1>7, <1>8 DEF Goes, Stands
<1>10. QED  BY <1>7, <1>8, <1>9 DEF GoesOn
-----------------------------------------------------------------------------
(* The steps that reach the boundary *)

\* A standing of the batch changes, and nothing else of the run.
ComesToStand(r, i, standing) == run' = [run EXCEPT ![r].batch[i] = standing]

LEMMA StandingType ==
    ASSUME Shape, NEW r \in Runs, NEW i \in DOMAIN run[r].batch, NEW standing \in Standings,
           ComesToStand(r, i, standing)
    PROVE  /\ run' \in [Runs -> LoopState]
           /\ \A s \in Runs : /\ run'[s].turn = run[s].turn /\ run'[s].todo = run[s].todo
                              /\ run'[s].entry = run[s].entry
                              /\ DOMAIN run'[s].batch = DOMAIN run[s].batch
           /\ \A s \in Runs : \A j \in DOMAIN run[s].batch :
                 run'[s].batch[j] = IF s = r /\ j = i THEN standing ELSE run[s].batch[j]
<1> DEFINE batch == [run[r].batch EXCEPT ![i] = standing]
           l == [run[r] EXCEPT !.batch = batch]
<1>1. run' = [run EXCEPT ![r] = l] /\ run \in [Runs -> LoopState]
  BY DEF Shape, ComesToStand
<1>2. /\ batch \in Seq(Standings) /\ Len(batch) = Len(run[r].batch)
      /\ DOMAIN batch = DOMAIN run[r].batch
      /\ \A j \in DOMAIN batch : batch[j] = IF j = i THEN standing ELSE run[r].batch[j]
  BY LoopStateType
<1> HIDE DEF batch
<1>3. l \in LoopState /\ l.batch = batch /\ l.entry = run[r].entry /\ l.turn = run[r].turn
      /\ l.todo = run[r].todo
  BY <1>2, LoopStateType, KeyType, SMTT(30) DEF LoopState, Fields
<1> HIDE DEF l
<1>4. run'[r] = l /\ (\A s \in Runs : s # r => run'[s] = run[s]) /\ run' \in [Runs -> LoopState]
  BY <1>1, <1>3
<1>5. ASSUME NEW s \in Runs
      PROVE  /\ run'[s].turn = run[s].turn /\ run'[s].todo = run[s].todo
             /\ run'[s].entry = run[s].entry /\ DOMAIN run'[s].batch = DOMAIN run[s].batch
             /\ \A j \in DOMAIN run[s].batch :
                   run'[s].batch[j] = IF s = r /\ j = i THEN standing ELSE run[s].batch[j]
  <2>1. CASE s = r
    BY <1>2, <1>3, <1>4, <2>1
  <2>2. CASE s # r
    BY <1>4, <2>2
  <2>3. QED  BY <2>1, <2>2
<1>6. run' \in [Runs -> LoopState]
  BY <1>4
<1>7. \A s \in Runs : /\ run'[s].turn = run[s].turn /\ run'[s].todo = run[s].todo
                      /\ run'[s].entry = run[s].entry
                      /\ DOMAIN run'[s].batch = DOMAIN run[s].batch
  BY <1>5, Zenon
<1>8. \A s \in Runs : \A j \in DOMAIN run[s].batch :
         run'[s].batch[j] = IF s = r /\ j = i THEN standing ELSE run[s].batch[j]
  BY <1>5, Zenon
<1>9. QED  BY <1>6, <1>7, <1>8, Zenon

\* Intent i of run r reaches the boundary: its standing, the record of its key
\* and how often the world was touched for the key change together.
Reaches(r, i, standing, rec, n) ==
    /\ ComesToStand(r, i, standing)
    /\ world' = [world EXCEPT ![KeyOf(r, i)] = rec]
    /\ effects' = [effects EXCEPT ![KeyOf(r, i)] = n]
    /\ UNCHANGED <<scene, stream>>
    /\ UNCHANGED <<faults, torn>> \/ Marks

\* Such a step keeps the invariant when what it leaves is consistent, a completed
\* action stays as it is, a started one is only moved by the intent that has it in
\* hand, and no other takes it in hand.
LEMMA ReachesKeeps ==
    ASSUME Shape, EInv, NEW r \in Runs, NEW i \in DOMAIN run[r].batch,
           NEW standing \in Standings, NEW rec \in Record, NEW n \in {0, 1},
           Reaches(r, i, standing, rec, n),
           rec.phase \in {"absent", "asked", "denied"} => n = 0,
           rec.phase = "completed" => n = 1,
           standing \in InHand =>
              rec.phase = "started" /\ n = IF standing = "acted" THEN 1 ELSE 0,
           standing = "ok" => rec.phase = "completed",
           world[KeyOf(r, i)].phase = "completed" =>
              rec.phase = "completed" /\ n = effects[KeyOf(r, i)],
           world[KeyOf(r, i)].phase = "started" =>
              \/ run[r].batch[i] \in InHand
              \/ standing \notin InHand /\ rec.phase = "started" /\ n = effects[KeyOf(r, i)]
    PROVE  Shape' /\ EInv'
<1> DEFINE k == KeyOf(r, i)
<1>1. k \in Keys
  BY KeyType
<1>2. /\ world' = [world EXCEPT ![k] = rec] /\ effects' = [effects EXCEPT ![k] = n]
      /\ scene' = scene /\ stream' = stream /\ faults' \in 0 .. scene'.faults
      /\ torn' \in SUBSET Runs /\ ComesToStand(r, i, standing)
  BY DEF Reaches, Marks, Shape
<1>3. world \in [Keys -> Record] /\ effects \in [Keys -> Nat]
  BY DEF Shape
<1>4. /\ world' \in [Keys -> Record] /\ effects' \in [Keys -> Nat]
      /\ \A x \in Keys : world'[x] = (IF x = k THEN rec ELSE world[x])
      /\ \A x \in Keys : effects'[x] = (IF x = k THEN n ELSE effects[x])
  <2> HIDE DEF k
  <2>1. QED  BY <1>1, <1>2, <1>3
<1>5. /\ run' \in [Runs -> LoopState]
      /\ \A s \in Runs : /\ run'[s].turn = run[s].turn /\ run'[s].todo = run[s].todo
                         /\ run'[s].entry = run[s].entry
                         /\ DOMAIN run'[s].batch = DOMAIN run[s].batch
      /\ \A s \in Runs : \A j \in DOMAIN run[s].batch :
            run'[s].batch[j] = IF s = r /\ j = i THEN standing ELSE run[s].batch[j]
  BY <1>2, StandingType
<1>6. \A s \in Runs : \A j \in DOMAIN run[s].batch : KeyOf(s, j)' = KeyOf(s, j)
  BY <1>5 DEF KeyOf
<1>7. Shape'
  <2>1. Turns' = Turns
    BY <1>5 DEF Turns
  <2>2. QED  BY <1>2, <1>4, <1>5, <2>1 DEF Shape
<1>8. TouchedAsRecorded'
  <2>1. \A x \in Keys : /\ effects[x] <= 1
                        /\ world[x].phase \in {"absent", "asked", "denied"} => effects[x] = 0
                        /\ world[x].phase = "completed" => effects[x] = 1
    BY DEF EInv, TouchedAsRecorded
  <2> HIDE DEF k
  <2>2. QED  BY <1>4, <2>1 DEF TouchedAsRecorded
\* What another intent in hand under the key means.
<1>9. ASSUME NEW s \in Runs, NEW j \in DOMAIN run[s].batch, ~ (s = r /\ j = i),
             run[s].batch[j] \in InHand, KeyOf(s, j) = k
      PROVE  standing \notin InHand /\ rec.phase = "started" /\ n = effects[k]
  <2>1. world[k].phase = "started"
    BY <1>9 DEF EInv, StandingIsRecorded
  <2>2. run[r].batch[i] \notin InHand
    BY <1>9 DEF EInv, RunsAlone
  <2>3. QED  BY <2>1, <2>2
<1>10. StandingIsRecorded'
  <2>1. SUFFICES ASSUME NEW s \in Runs, NEW j \in DOMAIN run[s].batch
                 PROVE  /\ run'[s].batch[j] \in InHand =>
                              /\ world'[KeyOf(s, j)].phase = "started"
                              /\ effects'[KeyOf(s, j)] =
                                    IF run'[s].batch[j] = "acted" THEN 1 ELSE 0
                        /\ run'[s].batch[j] = "ok" => world'[KeyOf(s, j)].phase = "completed"
    BY <1>5, <1>6 DEF StandingIsRecorded
  <2>2. KeyOf(s, j) \in Keys
    BY KeyType
  <2>3. CASE s = r /\ j = i
    BY <1>1, <1>4, <1>5, <2>3
  <2>4. CASE ~ (s = r /\ j = i)
    <3>1. run'[s].batch[j] = run[s].batch[j]
      BY <1>5, <2>4
    <3>2. /\ run[s].batch[j] \in InHand =>
                /\ world[KeyOf(s, j)].phase = "started"
                /\ effects[KeyOf(s, j)] = IF run[s].batch[j] = "acted" THEN 1 ELSE 0
          /\ run[s].batch[j] = "ok" => world[KeyOf(s, j)].phase = "completed"
      BY DEF EInv, StandingIsRecorded
    <3>3. CASE KeyOf(s, j) = k
      BY <1>1, <1>4, <1>9, <2>4, <3>1, <3>2, <3>3
    <3>4. CASE KeyOf(s, j) # k
      BY <1>4, <2>2, <3>1, <3>2, <3>4
    <3>5. QED  BY <3>3, <3>4
  <2>5. QED  BY <2>3, <2>4
<1>11. RunsAlone'
  <2>1. SUFFICES ASSUME NEW s \in Runs, NEW t \in Runs,
                        NEW j \in DOMAIN run[s].batch, NEW m \in DOMAIN run[t].batch,
                        run'[s].batch[j] \in InHand, run'[t].batch[m] \in InHand,
                        KeyOf(s, j) = KeyOf(t, m)
                 PROVE  s = t /\ j = m
    BY <1>5, <1>6 DEF RunsAlone
  <2>2. CASE s = r /\ j = i
    BY <1>5, <1>9, <2>1, <2>2
  <2>3. CASE t = r /\ m = i
    BY <1>5, <1>9, <2>1, <2>3
  <2>4. CASE ~ (s = r /\ j = i) /\ ~ (t = r /\ m = i)
    BY <1>5, <2>1, <2>4 DEF EInv, RunsAlone
  <2>5. QED  BY <2>2, <2>3, <2>4
<1>12. ResultsAreTrue'
  <2>1. SUFFICES ASSUME NEW e \in DOMAIN stream, IsOkResult(stream[e]),
                        NEW x, x = <<stream[e].turn, stream[e].item.call>>
                 PROVE  effects'[x] = 1 /\ world'[x].phase = "completed"
    BY <1>2 DEF ResultsAreTrue, IsOkResult
  <2>2. effects[x] = 1 /\ world[x].phase = "completed"
    BY <2>1 DEF EInv, ResultsAreTrue, IsOkResult
  <2>3. x \in Keys
    <3>1. stream[e] \in Event /\ stream[e].item.call \in Calls
      BY <2>1 DEF Shape
    <3>2. stream[e].turn \in Runs
      BY <3>1 DEF Event, Completed, Started, Checkpointed, Answered
    <3>3. QED  BY <2>1, <3>1, <3>2 DEF Keys
  <2> HIDE DEF k
  <2>4. CASE x = k
    BY <1>1, <1>4, <2>2, <2>4 DEF k
  <2>5. CASE x # k
    BY <1>4, <2>2, <2>3, <2>5
  <2>6. QED  BY <2>4, <2>5
<1>13. QED  BY <1>7, <1>8, <1>10, <1>11, <1>12 DEF EInv
\* What the boundary answers: a success only for a completed action, a start
\* only of an action that is not under way; and a record that began stays.
LEMMA ExecutesType ==
    ASSUME NEW rec \in Record, NEW item \in Tool, NEW approval
    PROVE  LET answer == Executes(rec, item, approval) IN
           /\ answer[1] \in {"ok", "error", "asked", "running"} /\ answer[2] \in Record
           /\ answer[1] = "ok" => rec.phase = "completed"
           /\ answer[1] = "running" => rec.phase \in {"absent", "asked"}
                                       /\ answer[2].phase = "started"
           /\ rec.phase \in {"denied", "started", "completed", "failed"} => answer[2] = rec
           /\ rec.phase \in {"absent", "asked"} =>
                 answer[2].phase \in {"absent", "asked", "denied", "started"}
BY DEF Executes, Record, Phases, Tool

LEMMA DispatchKeeps ==
    ASSUME Shape, EInv, NEW r \in Runs, NEW i, Dispatch(r, i)
    PROVE  Shape' /\ EInv'
<1> DEFINE k == KeyOf(r, i)
           answer == Executes(world[k], run[r].todo[i], run[r].approval)
           rec == answer[2]
           standing == answer[1]
           n == effects[k]
<1>1. i \in DOMAIN run[r].batch /\ run[r].batch[i] = "ready"
  BY DEF Dispatch, Stands
<1>2. world[k] \in Record /\ run[r].todo[i] \in Tool /\ k \in Keys /\ effects \in [Keys -> Nat]
  BY <1>1, KeyType DEF Shape
<1>3. /\ standing \in {"ok", "error", "asked", "running"} /\ rec \in Record
      /\ standing = "ok" => world[k].phase = "completed"
      /\ standing = "running" => world[k].phase \in {"absent", "asked"} /\ rec.phase = "started"
      /\ world[k].phase \in {"denied", "started", "completed", "failed"} => rec = world[k]
      /\ world[k].phase \in {"absent", "asked"} =>
            rec.phase \in {"absent", "asked", "denied", "started"}
  BY <1>2, ExecutesType
<1>4. /\ world' = [world EXCEPT ![k] = rec] /\ run' = [run EXCEPT ![r].batch[i] = standing]
      /\ UNCHANGED <<scene, stream, effects, faults, torn>>
  BY DEF Dispatch
<1>5. /\ n \in {0, 1}
      /\ world[k].phase \in {"absent", "asked", "denied"} => n = 0
      /\ world[k].phase = "completed" => n = 1
  BY <1>2 DEF EInv, TouchedAsRecorded
<1>6. world[k].phase \in Phases
  BY <1>2 DEF Record
<1> HIDE DEF rec, standing, answer
<1>7. effects' = [effects EXCEPT ![k] = n]
  <2> HIDE DEF k
  <2>1. QED  BY <1>2, <1>4
<1>8. Reaches(r, i, standing, rec, n)
  BY <1>4, <1>7 DEF Reaches, ComesToStand
<1> HIDE DEF n
<1>9. standing \in Standings
  BY <1>3 DEF Standings
<1>10. /\ rec.phase \in {"absent", "asked", "denied"} => n = 0
       /\ rec.phase = "completed" => n = 1
  BY <1>3, <1>5, <1>6 DEF Phases
<1>11. /\ standing \in InHand => rec.phase = "started" /\ n = IF standing = "acted" THEN 1 ELSE 0
       /\ standing = "ok" => rec.phase = "completed"
       /\ world[k].phase = "completed" => rec.phase = "completed" /\ n = effects[k]
       /\ world[k].phase = "started" =>
             standing \notin InHand /\ rec.phase = "started" /\ n = effects[k]
  BY <1>3, <1>5 DEF n, InHand
<1>12. QED  BY <1>1, <1>3, <1>5, <1>8, <1>9, <1>10, <1>11, ReachesKeeps

LEMMA PerformKeeps ==
    ASSUME Shape, EInv, NEW r \in Runs, NEW i, Perform(r, i)
    PROVE  Shape' /\ EInv'
<1> DEFINE k == KeyOf(r, i)
           rec == world[k]
<1>1. i \in DOMAIN run[r].batch /\ run[r].batch[i] = "running"
  BY DEF Perform, Stands
<1>2. /\ world \in [Keys -> Record] /\ k \in Keys /\ rec \in Record
      /\ effects \in [Keys -> Nat]
  BY <1>1, KeyType DEF Shape
<1>3. rec.phase = "started" /\ effects[k] = 0
  BY <1>1 DEF EInv, StandingIsRecorded, InHand
<1>4. /\ effects' = [effects EXCEPT ![k] = @ + 1] /\ run' = [run EXCEPT ![r].batch[i] = "acted"]
      /\ UNCHANGED <<scene, stream, world, faults, torn>>
  BY DEF Perform
<1>5. world' = [world EXCEPT ![k] = rec]
  <2> HIDE DEF k
  <2>1. QED  BY <1>2, <1>4
<1>6. effects' = [effects EXCEPT ![k] = 1]
  <2> HIDE DEF k
  <2>1. QED  BY <1>2, <1>3, <1>4
<1>7. Reaches(r, i, "acted", rec, 1)
  BY <1>4, <1>5, <1>6 DEF Reaches, ComesToStand
<1>8. "acted" \in Standings
  BY DEF Standings
<1>9. run[r].batch[i] \in InHand
  BY <1>1 DEF InHand
<1> HIDE DEF k, rec
<1>10. QED  BY <1>1, <1>2, <1>3, <1>7, <1>8, <1>9, ReachesKeeps DEF k, rec

LEMMA ResultKeeps ==
    ASSUME Shape, EInv, NEW r \in Runs, NEW i, NEW succeeded \in BOOLEAN, Result(r, i, succeeded)
    PROVE  Shape' /\ EInv'
<1> DEFINE k == KeyOf(r, i)
           phase == IF succeeded THEN "completed" ELSE "failed"
           rec == [world[k] EXCEPT !.phase = phase]
           standing == IF succeeded THEN "ok" ELSE "error"
           n == effects[k]
<1>1. i \in DOMAIN run[r].batch /\ run[r].batch[i] \in InHand
      /\ (succeeded => run[r].batch[i] = "acted")
  BY DEF Result, Stands, InHand
<1>2. /\ world \in [Keys -> Record] /\ k \in Keys /\ world[k] \in Record
      /\ effects \in [Keys -> Nat]
  BY <1>1, KeyType DEF Shape
<1>3. world[k].phase = "started" /\ n \in {0, 1} /\ (succeeded => n = 1)
  BY <1>1 DEF EInv, StandingIsRecorded
<1>4. /\ world' = [world EXCEPT ![k].phase = phase]
      /\ run' = [run EXCEPT ![r].batch[i] = standing]
      /\ UNCHANGED <<scene, stream, effects, faults, torn>>
  BY DEF Result
<1>5. /\ rec \in Record /\ rec.phase = phase /\ standing \in Standings
      /\ standing \notin InHand
  BY <1>2 DEF Record, Phases, Standings, InHand
<1>6. world' = [world EXCEPT ![k] = rec]
  <2> HIDE DEF k
  <2>1. QED  BY <1>2, <1>4
<1>7. effects' = [effects EXCEPT ![k] = n]
  <2> HIDE DEF k
  <2>1. QED  BY <1>2, <1>4
<1>8. Reaches(r, i, standing, rec, n)
  BY <1>4, <1>6, <1>7 DEF Reaches, ComesToStand
<1>9. /\ rec.phase \in {"completed", "failed"}
      /\ rec.phase = "completed" => n = 1
      /\ standing = "ok" => rec.phase = "completed"
  BY <1>3, <1>5
<1> HIDE DEF rec, standing, n, phase, k
<1>10. QED  BY <1>1, <1>3, <1>5, <1>8, <1>9, ReachesKeeps DEF k

LEMMA CrashKeeps ==
    ASSUME Shape, EInv, Crash
    PROVE  Shape' /\ EInv'
<1> DEFINE lost(r) == [Idle EXCEPT !.pc = "lost", !.entry = run[r].entry, !.turn = run[r].turn]
<1>1. /\ UNCHANGED <<scene, stream, world, effects>> /\ Fault
      /\ run' = [r \in Runs |-> IF Active(r) THEN lost(r) ELSE run[r]]
      /\ torn' \in SUBSET Runs
  BY DEF Crash, Lost, Shape, Turns
<1>2. ASSUME NEW r \in Runs
      PROVE  /\ run'[r] \in LoopState /\ run'[r].entry = run[r].entry
             /\ run'[r] = run[r] \/ run'[r].batch = << >>
  <2>1. CASE Active(r)
    <3>1. run[r].pc # "idle"
      BY <2>1 DEF Active, Over
    <3>2. lost(r) \in LoopState /\ lost(r).batch = << >> /\ lost(r).entry = run[r].entry
      BY <3>1, LoopStateType, IdleType DEF LoopState, Fields, Locations, Over
    <3>3. QED  BY <1>1, <2>1, <3>2
  <2>2. CASE ~Active(r)
    BY <1>1, <2>2 DEF Shape
  <2>3. QED  BY <2>1, <2>2
<1>3. Shape'
  <2>1. Turns' = Turns
    BY <1>2 DEF Turns
  <2>2. faults' \in 0 .. scene.faults
    BY <1>1, FaultIsCounted
  <2>3. run' \in [Runs -> LoopState]
    BY <1>1, <1>2
  <2>4. QED  BY <1>1, <2>1, <2>2, <2>3 DEF Shape
<1>4. TouchedAsRecorded' /\ ResultsAreTrue'
  BY <1>1 DEF EInv, TouchedAsRecorded, ResultsAreTrue
\* Whoever has a batch is as it was.
<1>5. \A r \in Runs : \A i \in DOMAIN run'[r].batch : run'[r] = run[r] /\ KeyOf(r, i)' = KeyOf(r, i)
  BY <1>2 DEF KeyOf
<1>6. StandingIsRecorded'
  <2>1. SUFFICES ASSUME NEW r \in Runs, NEW i \in DOMAIN run'[r].batch
                 PROVE  /\ run'[r].batch[i] \in InHand =>
                              /\ world[KeyOf(r, i)'].phase = "started"
                              /\ effects[KeyOf(r, i)'] =
                                    IF run'[r].batch[i] = "acted" THEN 1 ELSE 0
                        /\ run'[r].batch[i] = "ok" => world[KeyOf(r, i)'].phase = "completed"
    BY <1>1 DEF StandingIsRecorded
  <2>2. QED  BY <1>5 DEF EInv, StandingIsRecorded
<1>7. RunsAlone'
  BY <1>5 DEF EInv, RunsAlone
<1>8. QED  BY <1>3, <1>4, <1>6, <1>7 DEF EInv

-----------------------------------------------------------------------------
(* The invariant holds *)

LEMMA InitIsInv == Init => Shape /\ EInv
<1> SUFFICES ASSUME Init PROVE Shape /\ EInv
  OBVIOUS
<1>1. /\ scene \in Scenes /\ stream = << >> /\ faults = 0 /\ torn = {}
      /\ world = [k \in Runs \X Calls |-> NoRecord] /\ effects = [k \in Runs \X Calls |-> 0]
      /\ run = [r \in Runs |-> Idle]
  BY DEF Init
<1>2. stream \in Seq(Event) /\ DOMAIN stream = {}
  BY <1>1
<1>3. NoRecord \in Record /\ NoRecord.phase = "absent"
  BY DEF NoRecord, Record, Phases
<1>4. Idle \in LoopState /\ Idle.batch = << >> /\ Idle.entry = "none"
  BY IdleType DEF Idle
<1>5. \A r \in Runs : run[r].batch = << >> /\ DOMAIN run[r].batch = {} /\ run[r].entry = "none"
  BY <1>1, <1>4
<1>6. Shape
  <2>1. Turns = {}
    BY <1>5 DEF Turns
  <2>2. faults \in 0 .. scene.faults /\ torn \in SUBSET Runs
    BY <1>1, ScenesAssumption
  <2>3. world \in [Keys -> Record] /\ effects \in [Keys -> Nat]
    BY <1>1, <1>3 DEF Keys
  <2>4. run \in [Runs -> LoopState]
    BY <1>1, <1>4
  <2>5. QED  BY <1>1, <1>2, <2>1, <2>2, <2>3, <2>4 DEF Shape
<1>7. TouchedAsRecorded
  BY <1>1, <1>3 DEF TouchedAsRecorded, Keys
<1>8. StandingIsRecorded /\ RunsAlone
  BY <1>5 DEF StandingIsRecorded, RunsAlone
<1>9. ResultsAreTrue
  BY <1>2 DEF ResultsAreTrue
<1>10. QED  BY <1>6, <1>7, <1>8, <1>9 DEF EInv

LEMMA GoesOnKeeps ==
    ASSUME Shape, EInv, NEW r \in Runs, GoesOn(r)
    PROVE  Shape' /\ EInv'
<1>1. PICK l \in LoopState, events \in Seq(Event) : Goes(r, l, events)
  BY DEF GoesOn
<1>2. QED  BY <1>1, GoesKeeps

LEMMA InBatchKeeps ==
    ASSUME Shape, EInv, NEW r \in Runs, NEW i, InBatch(r, i)
    PROVE  Shape' /\ EInv'
<1>1. CASE Dispatch(r, i)
  BY <1>1, DispatchKeeps
<1>2. CASE Perform(r, i)
  BY <1>2, PerformKeeps
<1>3. CASE \E succeeded \in BOOLEAN : Result(r, i, succeeded)
  BY <1>3, ResultKeeps
<1>4. CASE RecordResult(r, i) \/ RaiseApproval(r, i) \/ SuspendCheckpoint(r, i)
  BY <1>4, InBatchGoesOn, GoesOnKeeps
<1>5. CASE ExecuteThrows(r, i) \/ RecordingRefused(r, i)
  BY <1>5, FaultGoesOn, GoesOnKeeps
<1>6. QED  BY <1>1, <1>2, <1>3, <1>4, <1>5 DEF InBatch

LEMMA NextKeeps ==
    ASSUME Shape, EInv, [Next]_vars
    PROVE  Shape' /\ EInv'
<1>1. ASSUME NEW r \in Runs, RunTurn(r) \/ ResumeTurn(r) \/ RecoverTurn(r) \/ Step(r)
      PROVE  Shape' /\ EInv'
  <2>1. CASE RunTurn(r)
    BY <2>1, RunTurnGoesOn, GoesOnKeeps
  <2>2. CASE ResumeTurn(r)
    BY <2>2, ResumeTurnGoesOn, GoesOnKeeps
  <2>3. CASE RecoverTurn(r)
    BY <2>3, RecoverTurnGoesOn, GoesOnKeeps
  <2>4. CASE CarryHistory(r)
    BY <2>4, CarryHistoryGoesOn, GoesOnKeeps
  <2>5. CASE SubmitInput(r)
    BY <2>5, SubmitInputGoesOn, GoesOnKeeps
  <2>6. CASE Drive(r)
    BY <2>6, DriveGoesOn, GoesOnKeeps
  <2>7. CASE Generate(r)
    BY <2>7, GenerateGoesOn, GoesOnKeeps
  <2>8. CASE NextBatch(r)
    BY <2>8, NextBatchGoesOn, GoesOnKeeps
  <2>9. CASE \E i \in 1 .. MaxBatch : InBatch(r, i)
    BY <2>9, InBatchKeeps
  <2>10. CASE Commit(r)
    BY <2>10, CommitGoesOn, GoesOnKeeps
  <2>11. CASE Settle(r)
    BY <2>11, SettleGoesOn, GoesOnKeeps
  <2>12. CASE Complete(r)
    BY <2>12, CompleteGoesOn, GoesOnKeeps
  <2>13. CASE Decide(r)
    BY <2>13, DecideGoesOn, GoesOnKeeps
  <2>14. CASE ReportMismatch(r)
    BY <2>14, ReportMismatchGoesOn, GoesOnKeeps
  <2>15. CASE DispatchFailed(r)
    BY <2>15, DispatchFailedGoesOn, GoesOnKeeps
  <2>16. CASE AppendRefused(r)
    BY <2>16, AppendRefusedGoesOn, GoesOnKeeps
  <2>17. QED
    BY <1>1, <2>1, <2>2, <2>3, <2>4, <2>5, <2>6, <2>7, <2>8, <2>9, <2>10, <2>11, <2>12,
       <2>13, <2>14, <2>15, <2>16, Zenon DEF Step
<1>2. CASE UNCHANGED vars
  <2>1. /\ scene' = scene /\ stream' = stream /\ world' = world /\ effects' = effects
        /\ run' = run /\ faults' = faults /\ torn' = torn
    BY <1>2 DEF vars
  <2>2. Shape'
    BY <2>1 DEF Shape, Turns
  <2>3. EInv'
    BY <2>1 DEF EInv, TouchedAsRecorded, StandingIsRecorded, RunsAlone, ResultsAreTrue,
                Stands, KeyOf
  <2>4. QED  BY <2>2, <2>3
<1>3. QED  BY <1>1, <1>2, CrashKeeps DEF Next

LEMMA InvHolds == Spec => [](Shape /\ EInv)
BY InitIsInv, NextKeeps, PTL DEF Spec

\* The loop's locals, the thread's stream and the records of the boundary stay
\* what their types say, through every interleaving of runTurn, resumeTurn and
\* recoverTurn, every batch and every crash; in particular a batch is never
\* longer than the intents it is of, and every turn a run is of was started.
THEOREM TypeCorrect == Spec => []TypeOK
<1>1. Shape => TypeOK
  <2> SUFFICES ASSUME Shape PROVE TypeOK
    OBVIOUS
  <2>1. \A i \in DOMAIN stream : stream[i].turn \in Runs
    BY DEF Shape, Event, Completed, Started, Checkpointed, Answered
  <2>2. /\ DOMAIN world = Runs \X Calls /\ DOMAIN effects = Runs \X Calls
        /\ \A k \in Runs \X Calls :
              /\ effects[k] \in Nat
              /\ world[k].phase \in Phases /\ world[k].by \in Runs \union {None}
    BY DEF Shape, Keys, Record
  <2>3. ASSUME NEW r \in Runs
        PROVE  /\ run[r].pc \in Locations
               /\ run[r].entry \in {"none", "runTurn", "resumeTurn", "recoverTurn"}
               /\ run[r].turn \in Runs \union {None}
               /\ run[r].step \in Nat
               /\ run[r].approval \in {"none", "approved", "rejected"}
               /\ run[r].mode \in {"none", "leftover", "tool_calls", "end_turn", "decided"}
               /\ Len(run[r].batch) <= Len(run[r].todo)
               /\ \A i \in DOMAIN run[r].batch : run[r].batch[i] \in Standings
    BY LoopStateType DEF Fields
  <2>4. QED  BY <2>1, <2>2, <2>3 DEF TypeOK, Shape, Phases
<1>2. QED  BY <1>1, InvHolds, PTL

\* The idempotency key tool:<turn>:<call> does what it is for: whichever of
\* runTurn, resumeTurn and recoverTurn comes to a call again, however many runs of
\* a turn overlap and wherever the process died in between, the boundary lets one
\* turn touch the world at most once for one call.
THEOREM TouchesOncePerTurn == Spec => []OncePerTurn
<1>1. EInv => OncePerTurn
  BY DEF EInv, TouchedAsRecorded, OncePerTurn, Keys
<1>2. QED  BY <1>1, InvHolds, PTL

\* A tool result the loop puts on the stream as a success (#completeToolItem) is
\* one: the world was touched exactly once for the turn and the call, and the
\* boundary holds the durable result, now and at every later time.
THEOREM RecordedSuccessesHappened == Spec => []ResultsAreTrue
<1>1. EInv => ResultsAreTrue
  BY DEF EInv
<1>2. QED  BY <1>1, InvHolds, PTL

-----------------------------------------------------------------------------
(* What can be read from a stream, as operators on the stream *)

StartedIn(s, t) == CHOOSE i \in DOMAIN s : s[i] = TurnEvent("turn.started", t)
HistoryIn(s, t, n) ==
    messagesFromEvents(SubSeq(s, 1, StartedIn(s, t) - 1))
    \o messagesFromEvents(OfTurn(SubSeq(s, 1, n), t))
CheckpointsIn(s, t) == {i \in DOMAIN s : s[i].type = "agent.checkpoint" /\ s[i].turn = t}
CommitIn(s, t) == IF CheckpointsIn(s, t) = {} THEN 0 ELSE Max(CheckpointsIn(s, t))
MatchesIn(s, t) ==
    CheckpointsIn(s, t) # {} => HistoryIn(s, t, CommitIn(s, t)) = s[CommitIn(s, t)].digest
\* What a rebuild makes of the whole stream; whether the last checkpoint commits it.
HistoryNow(s, t) == HistoryIn(s, t, Len(s))
IsCommittedIn(s, t) == HistoryIn(s, t, CommitIn(s, t)) = HistoryNow(s, t)

\* The turn came to its end.
IsOver(s, t) == \E i \in DOMAIN s : s[i].turn = t /\ s[i].type \in Terminal

\* A turn is started once, before anything else is recorded of it.
IsStarted(s, t) ==
    \E i \in DOMAIN s :
       /\ s[i] = TurnEvent("turn.started", t)
       /\ \A j \in DOMAIN s : s[j].turn = t => j = i \/ (j > i /\ s[j].type # "turn.started")

\* The calls whose tool items were started, and the messages that ask for no others.
StartedCalls(s) == {s[i].item.call : i \in {j \in DOMAIN s : s[j].type = "tool.started"}}
Asks(m, calls) == m.role = "assistant" => \A k \in DOMAIN m.calls : m.calls[k] \in calls
AllAsk(history, calls) == \A i \in DOMAIN history : Asks(history[i], calls)
AllOf(todo, calls) == \A i \in DOMAIN todo : todo[i].call \in calls

-----------------------------------------------------------------------------
(* The inductive invariant of what is rebuilt *)

\* While runs are not to overlap, they do not.
OneRuns == scene.active = 1 => \A r, s \in Runs : Active(r) /\ Active(s) => r = s

\* Whatever runs or was recorded is of a turn that was started; a turn names its first run.
TurnsAreKnown ==
    /\ \A i \in DOMAIN stream : stream[i].turn \in Turns
    /\ \A t \in Turns : IsStarted(stream, t) /\ run[t].turn = t /\ run[t].pc # "idle"
    /\ \A r \in Runs : /\ run[r].pc = "idle" => run[r].entry = "none"
                       /\ run[r].pc # "idle" => run[r].turn \in Turns
                       /\ run[r].pc \in {"carry", "input"} => run[r].entry = "runTurn"

\* What a message asks for, and what a run has to do, was started.
CallsAreStarted ==
    /\ \A i \in DOMAIN stream : stream[i].type = "item.completed" =>
          Asks(stream[i].message, StartedCalls(stream))
    /\ \A r \in Runs : /\ AllAsk(run[r].history, StartedCalls(stream))
                       /\ AllOf(run[r].todo, StartedCalls(stream))

\* Nobody drives the turn: it is over, or its history is committed.
CanResume(s, t) == IsOver(s, t) \/ IsCommittedIn(s, t)

\* The run that drives a turn has in its locals what a rebuild would make of the stream.
Holds(s, l) ==
    /\ l.pc # "mismatch"
    /\ l.pc = "carry" => messagesFromEvents(s) = HistoryNow(s, l.turn)
    /\ l.pc # "carry" =>
          l.history \o BatchMessages(l.todo, l.batch) = HistoryNow(s, l.turn)
    /\ Len(l.batch) <= 1
    /\ l.batch # <<>> /\ l.batch[1] = "suspended" => IsCommittedIn(s, l.turn)

Rebuilds ==
    \A t \in Turns \ torn : Sequential(t) =>
       /\ MatchesIn(stream, t)
       /\ (\A r \in Runs : Active(r) => run[r].turn # t) => CanResume(stream, t)
       /\ \A r \in Runs : Active(r) /\ run[r].turn = t => Holds(stream, run[r])

HInv == OneRuns /\ TurnsAreKnown /\ CallsAreStarted /\ Rebuilds

-----------------------------------------------------------------------------
(* One event more *)

LEMMA SelectIs ==
    ASSUME NEW s, NEW S
    PROVE  Select(s, S) = F!Folding(S, << >>, s)
BY DEF Select, F!Folding, FoldLeft, F!FoldLeft, MapThenFoldSet, F!MapThenFoldSet, Max, F!Max

LEMMA SelectGrows ==
    ASSUME NEW D, NEW s \in Seq(D), NEW e \in D, NEW S
    PROVE  Select(Append(s, e), S) = IF e \in S THEN Append(Select(s, S), e) ELSE Select(s, S)
<1> DEFINE none == << >>
<1>1. F!Folding(S, none, Append(s, e)) = Kept(S, F!Folding(S, none, s), e)
  <2> HIDE DEF none
  <2>1. QED  BY F!FoldsOneMore
<1>2. QED  BY <1>1, SelectIs DEF Kept

\* Only whether the entries are in the set matters.
LEMMA SelectSame ==
    ASSUME NEW D, NEW s \in Seq(D), NEW S, NEW T, \A i \in DOMAIN s : s[i] \in S <=> s[i] \in T
    PROVE  Select(s, S) = Select(s, T)
<1> DEFINE none == << >>
           At(n) == F!Folding(T, none, F!Prefix(s, n))
           Q == [n \in 0 .. Len(s) |-> {At(n)}]
<1>1. Len(s) \in Nat /\ DOMAIN s = 1 .. Len(s) /\ F!Prefix(s, 0) = none /\ F!Prefix(s, Len(s)) = s
      /\ Len(s) \in 0 .. Len(s)
  BY DEF F!Prefix
<1>2. none \in Q[0]
  BY <1>1, F!FoldsNothing
<1>3. ASSUME NEW n \in 1 .. Len(s), NEW a \in Q[n - 1]
      PROVE  Kept(S, a, s[n]) \in Q[n]
  <2>1. /\ n - 1 \in 0 .. Len(s) /\ n \in 0 .. Len(s) /\ s[n] \in D /\ F!Prefix(s, n - 1) \in Seq(D)
        /\ F!Prefix(s, n) = Append(F!Prefix(s, n - 1), s[n])
    BY F!PrefixGrows
  <2>2. a = At(n - 1)
    BY <2>1
  <2> HIDE DEF none
  <2>3. F!Folding(T, none, Append(F!Prefix(s, n - 1), s[n]))
           = Kept(T, F!Folding(T, none, F!Prefix(s, n - 1)), s[n])
    BY <2>1, F!FoldsOneMore
  <2>4. Kept(S, a, s[n]) = Kept(T, a, s[n])
    BY <1>1 DEF Kept
  <2>5. QED  BY <2>1, <2>2, <2>3, <2>4
<1>4. Q[Len(s)] = {F!Folding(T, none, s)}
  BY <1>1
<1> HIDE DEF Q, none
<1>5. F!Folding(S, none, s) \in Q[Len(s)]
  BY <1>2, <1>3, F!FoldsAlong
<1>6. QED  BY <1>4, <1>5, SelectIs DEF none

LEMMA MessagesGrow ==
    ASSUME NEW s \in Seq(Event), NEW e \in Event
    PROVE  messagesFromEvents(Append(s, e)) =
              IF e.type = "item.completed" THEN Append(messagesFromEvents(s), e.message)
              ELSE messagesFromEvents(s)
<1> DEFINE u == Append(s, e)
           S == {x \in Range(s) : x.type = "item.completed"}
           T == {x \in Range(u) : x.type = "item.completed"}
           a == Select(s, S)
           b == Select(u, T)
<1>1. /\ u \in Seq(Event) /\ \A i \in DOMAIN s : s[i] \in S <=> s[i] \in T
      /\ e \in T <=> e.type = "item.completed"
  <2>1. /\ u \in Seq(Event) /\ DOMAIN s = 1 .. Len(s) /\ DOMAIN u = 1 .. (Len(s) + 1) /\ Len(s) \in Nat
        /\ \A i \in DOMAIN s : u[i] = s[i] /\ i \in DOMAIN u
        /\ Len(s) + 1 \in DOMAIN u /\ u[Len(s) + 1] = e
    OBVIOUS
  <2> HIDE DEF u
  <2>2. Range(u) = {u[i] : i \in DOMAIN u} /\ Range(s) = {s[i] : i \in DOMAIN s}
    BY DEF Range
  <2>3. \A i \in DOMAIN s : s[i] \in Range(s) /\ s[i] \in Range(u)
    BY <2>1, <2>2
  <2>4. e \in Range(u)
    BY <2>1, <2>2
  <2>5. QED  BY <2>1, <2>3, <2>4
<1>2. a = Select(s, T)
  <2> HIDE DEF S, T, u
  <2>1. QED  BY <1>1, SelectSame
<1>3. b = IF e \in T THEN Append(a, e) ELSE a
  <2> HIDE DEF T, S
  <2>1. Select(Append(s, e), T) = IF e \in T THEN Append(Select(s, T), e) ELSE Select(s, T)
    BY SelectGrows
  <2>2. QED  BY <1>2, <2>1
<1>4. a \in Seq(Event)
  <2> HIDE DEF S
  <2>1. a \in Seq(Event \intersect S)
    BY SelectType
  <2>2. QED  BY <2>1
<1>5. /\ messagesFromEvents(s) = [i \in DOMAIN a |-> a[i].message]
      /\ messagesFromEvents(u) = [i \in DOMAIN b |-> b[i].message]
  BY DEF messagesFromEvents
<1> HIDE DEF S, T, u, a, b
<1>6. CASE e.type = "item.completed"
  <2> DEFINE m == messagesFromEvents(s)
             n == Len(a)
  <2>1. b = Append(a, e)
    BY <1>1, <1>3, <1>6
  <2>2. /\ n \in Nat /\ DOMAIN a = 1 .. n /\ DOMAIN b = 1 .. (n + 1) /\ b[n + 1] = e
        /\ \A i \in 1 .. n : b[i] = a[i]
    BY <1>4, <2>1
  <2>3. m \in Seq({x.message : x \in Event}) /\ Len(m) = n /\ DOMAIN m = 1 .. n
        /\ \A i \in 1 .. n : m[i] = a[i].message
    <3>1. m = [i \in 1 .. n |-> a[i].message] /\ \A i \in 1 .. n : a[i] \in Event
      BY <1>4, <1>5, <2>2
    <3> HIDE DEF m, n
    <3>2. QED  BY <2>2, <3>1
  <2>4. Append(m, e.message) = [i \in 1 .. (n + 1) |-> IF i = n + 1 THEN e.message ELSE m[i]]
    <3> HIDE DEF m, n
    <3>1. QED  BY <2>2, <2>3
  <2>5. messagesFromEvents(u) = [i \in 1 .. (n + 1) |-> b[i].message]
    BY <1>5, <2>2
  <2>6. \A i \in 1 .. (n + 1) : b[i].message = IF i = n + 1 THEN e.message ELSE m[i]
    <3> HIDE DEF m, n
    <3>1. \A i \in 1 .. (n + 1) : i = n + 1 \/ i \in 1 .. n
      BY <2>2
    <3>2. QED  BY <2>2, <2>3, <3>1
  <2>7. messagesFromEvents(u) = Append(m, e.message)
    <3> HIDE DEF m, n
    <3>1. QED  BY <2>4, <2>5, <2>6
  <2>8. QED  BY <1>6, <2>7 DEF u
<1>7. CASE e.type # "item.completed"
  BY <1>1, <1>3, <1>5, <1>7 DEF u
<1>8. QED  BY <1>6, <1>7

LEMMA OfTurnGrows ==
    ASSUME NEW s \in Seq(Event), NEW e \in Event, NEW t
    PROVE  OfTurn(Append(s, e), t) = IF e.turn = t THEN Append(OfTurn(s, t), e) ELSE OfTurn(s, t)
<1> DEFINE u == Append(s, e)
           S == {x \in Range(s) : x.turn = t}
           T == {x \in Range(u) : x.turn = t}
<1>1. (\A i \in DOMAIN s : s[i] \in S <=> s[i] \in T) /\ (e \in T <=> e.turn = t)
  <2>1. /\ u \in Seq(Event) /\ DOMAIN s = 1 .. Len(s) /\ DOMAIN u = 1 .. (Len(s) + 1) /\ Len(s) \in Nat
        /\ \A i \in DOMAIN s : u[i] = s[i] /\ i \in DOMAIN u
        /\ Len(s) + 1 \in DOMAIN u /\ u[Len(s) + 1] = e
    OBVIOUS
  <2> HIDE DEF u
  <2>2. Range(u) = {u[i] : i \in DOMAIN u} /\ Range(s) = {s[i] : i \in DOMAIN s}
    BY DEF Range
  <2>3. \A i \in DOMAIN s : s[i] \in Range(s) /\ s[i] \in Range(u)
    BY <2>1, <2>2
  <2>4. e \in Range(u)
    BY <2>1, <2>2
  <2>5. QED  BY <2>3, <2>4
<1>2. OfTurn(s, t) = Select(s, S) /\ OfTurn(u, t) = Select(u, T)
  BY DEF OfTurn
<1> HIDE DEF S, T
<1>3. Select(s, S) = Select(s, T)
  BY <1>1, SelectSame
<1>4. Select(u, T) = IF e \in T THEN Append(Select(s, T), e) ELSE Select(s, T)
  BY SelectGrows
<1>5. QED  BY <1>1, <1>2, <1>3, <1>4 DEF u

\* Nothing of a turn, nothing it completed.
LEMMA NoneOfTurn ==
    ASSUME NEW s \in Seq(Event), NEW t, \A i \in DOMAIN s : s[i].turn # t
    PROVE  OfTurn(s, t) = << >>
<1> DEFINE S == {x \in Range(s) : x.turn = t}
<1>1. S = {}
  BY DEF Range
<1>2. Select(s, S) \in Seq(Event \intersect S)
  <2> HIDE DEF S
  <2>1. QED  BY SelectType
<1>3. OfTurn(s, t) = Select(s, S)
  BY DEF OfTurn
<1> HIDE DEF S
<1>4. OfTurn(s, t) \in Seq({})
  BY <1>1, <1>2, <1>3
<1>5. QED  BY <1>4

LEMMA NoMessages == messagesFromEvents(<< >>) = << >>
<1> DEFINE none == << >>
           S == {e \in Range(none) : e.type = "item.completed"}
<1>1. Select(none, S) = none
  <2> HIDE DEF S
  <2>1. Select(none, S) = F!Folding(S, << >>, none)
    BY SelectIs
  <2>2. QED  BY <2>1, F!FoldsNothing
<1>2. messagesFromEvents(none) = [i \in DOMAIN Select(none, S) |-> Select(none, S)[i].message]
  BY DEF messagesFromEvents
<1> HIDE DEF S
<1>3. QED  BY <1>1, <1>2

\* What a turn completed, one event later.
LEMMA OwnGrows ==
    ASSUME NEW s \in Seq(Event), NEW e \in Event, NEW t
    PROVE  messagesFromEvents(OfTurn(Append(s, e), t)) =
              IF e.turn = t /\ e.type = "item.completed"
              THEN Append(messagesFromEvents(OfTurn(s, t)), e.message)
              ELSE messagesFromEvents(OfTurn(s, t))
<1> DEFINE own == OfTurn(s, t)
<1>1. own \in Seq(Event)
  BY OfTurnType
<1>2. OfTurn(Append(s, e), t) = IF e.turn = t THEN Append(own, e) ELSE own
  BY OfTurnGrows
<1> HIDE DEF own
<1>3. messagesFromEvents(Append(own, e)) =
         IF e.type = "item.completed" THEN Append(messagesFromEvents(own), e.message)
         ELSE messagesFromEvents(own)
  BY <1>1, MessagesGrow
<1>4. QED  BY <1>2, <1>3 DEF own

\* What was there stays where it was.
LEMMA OneMore ==
    ASSUME NEW s \in Seq(Event), NEW e \in Event
    PROVE  /\ Append(s, e) \in Seq(Event) /\ Len(Append(s, e)) = Len(s) + 1 /\ Len(s) \in Nat
           /\ DOMAIN s = 1 .. Len(s) /\ DOMAIN Append(s, e) = 1 .. (Len(s) + 1)
           /\ Len(s) + 1 \in DOMAIN Append(s, e) /\ Len(s) + 1 \notin DOMAIN s
           /\ Append(s, e)[Len(s) + 1] = e
           /\ \A i \in DOMAIN s : Append(s, e)[i] = s[i] /\ i \in DOMAIN Append(s, e)
           /\ \A i \in DOMAIN Append(s, e) : i \in DOMAIN s \/ i = Len(s) + 1
           /\ \A n \in 0 .. Len(s) : SubSeq(Append(s, e), 1, n) = SubSeq(s, 1, n)
           /\ SubSeq(s, 1, Len(s)) = s /\ SubSeq(Append(s, e), 1, Len(s) + 1) = Append(s, e)
<1> DEFINE u == Append(s, e)
<1>1. /\ u \in Seq(Event) /\ Len(u) = Len(s) + 1 /\ Len(s) \in Nat
      /\ DOMAIN s = 1 .. Len(s) /\ DOMAIN u = 1 .. (Len(s) + 1)
      /\ u[Len(s) + 1] = e
      /\ \A i \in 1 .. Len(s) : u[i] = s[i]
  OBVIOUS
<1> HIDE DEF u
<1>2. /\ Len(s) + 1 \in 1 .. (Len(s) + 1) /\ Len(s) + 1 \notin 1 .. Len(s)
      /\ \A i \in 1 .. Len(s) : i \in 1 .. (Len(s) + 1)
      /\ \A i \in 1 .. (Len(s) + 1) : i \in 1 .. Len(s) \/ i = Len(s) + 1
  BY <1>1
<1>3. ASSUME NEW n \in 0 .. Len(s) PROVE SubSeq(u, 1, n) = SubSeq(s, 1, n)
  <2>1. n \in Nat /\ \A i \in 1 .. n : i \in 1 .. Len(s)
    BY <1>1
  <2>2. /\ SubSeq(u, 1, n) = [i \in 1 .. n |-> u[i]] /\ SubSeq(s, 1, n) = [i \in 1 .. n |-> s[i]]
    BY <1>1, <2>1
  <2>3. QED  BY <1>1, <2>1, <2>2
<1>4. SubSeq(s, 1, Len(s)) = s
  OBVIOUS
<1>5. SubSeq(u, 1, Len(u)) = u
  BY <1>1
<1>6. QED  BY <1>1, <1>2, <1>3, <1>4, <1>5 DEF u

LEMMA StartStays ==
    ASSUME NEW s \in Seq(Event), NEW e \in Event, NEW t, IsStarted(s, t),
           e.turn = t => e.type # "turn.started"
    PROVE  /\ IsStarted(Append(s, e), t) /\ StartedIn(s, t) \in DOMAIN s
           /\ StartedIn(Append(s, e), t) = StartedIn(s, t)
<1> DEFINE u == Append(s, e)
           start == TurnEvent("turn.started", t)
<1>1. PICK i \in DOMAIN s : s[i] = start /\ \A j \in DOMAIN s :
                               s[j].turn = t => j = i \/ (j > i /\ s[j].type # "turn.started")
  BY DEF IsStarted
<1>2. start.type = "turn.started" /\ start.turn = t
  BY DEF TurnEvent
<1>3. \A j \in DOMAIN s : s[j] = start <=> j = i
  BY <1>1, <1>2
<1>4. /\ \A j \in DOMAIN s : u[j] = s[j] /\ j \in DOMAIN u
      /\ \A j \in DOMAIN u : j \in DOMAIN s \/ j = Len(s) + 1
      /\ u[Len(s) + 1] = e /\ DOMAIN s = 1 .. Len(s) /\ Len(s) \in Nat
  BY OneMore
<1> HIDE DEF u
<1>5. \A j \in DOMAIN u : u[j] = start <=> j = i
  BY <1>1, <1>2, <1>3, <1>4
<1> HIDE DEF start
<1>6. StartedIn(s, t) = i
  BY <1>3, Zenon DEF StartedIn, start
<1>7. StartedIn(u, t) = i
  BY <1>1, <1>4, <1>5, Zenon DEF StartedIn, start
<1>8. IsStarted(u, t)
  <2>1. u[i] = start /\ i \in DOMAIN u
    BY <1>1, <1>4
  <2>2. ASSUME NEW j \in DOMAIN u, u[j].turn = t
        PROVE  j = i \/ (j > i /\ u[j].type # "turn.started")
    <3>1. CASE j \in DOMAIN s
      BY <1>1, <1>4, <2>2, <3>1
    <3>2. CASE j = Len(s) + 1
      <4>1. j > i
        BY <1>4, <3>2
      <4>2. QED  BY <1>4, <2>2, <3>2, <4>1
    <3>3. QED  BY <1>4, <3>1, <3>2
  <2>3. QED  BY <2>1, <2>2 DEF IsStarted, start
<1>9. QED  BY <1>6, <1>7, <1>8 DEF u

LEMMA CommitInType ==
    ASSUME NEW s \in Seq(Event), NEW t
    PROVE  /\ CommitIn(s, t) \in 0 .. Len(s)
           /\ CheckpointsIn(s, t) # {} => /\ CommitIn(s, t) \in CheckpointsIn(s, t)
                                          /\ CommitIn(s, t) \in DOMAIN s
<1>1. Len(s) \in Nat /\ CheckpointsIn(s, t) \in SUBSET (1 .. Len(s)) /\ DOMAIN s = 1 .. Len(s)
  BY DEF CheckpointsIn
<1>2. CASE CheckpointsIn(s, t) = {}
  BY <1>1, <1>2 DEF CommitIn
<1>3. CASE CheckpointsIn(s, t) # {}
  <2>1. CommitIn(s, t) \in CheckpointsIn(s, t)
    BY <1>1, <1>3, FirstAndLast DEF CommitIn
  <2>2. QED  BY <1>1, <2>1
<1>4. QED  BY <1>2, <1>3

LEMMA HistoryGrows ==
    ASSUME NEW s \in Seq(Event), NEW e \in Event, NEW t, IsStarted(s, t),
           e.turn = t => e.type # "turn.started"
    PROVE  /\ HistoryNow(s, t) \in Seq(Message)
           /\ HistoryNow(Append(s, e), t) =
                 IF e.turn = t /\ e.type = "item.completed" THEN Append(HistoryNow(s, t), e.message)
                 ELSE HistoryNow(s, t)
           /\ \A n \in 0 .. Len(s) : HistoryIn(Append(s, e), t, n) = HistoryIn(s, t, n)
<1> DEFINE u == Append(s, e)
           m == StartedIn(s, t) - 1
           before == messagesFromEvents(SubSeq(s, 1, m))
           own == messagesFromEvents(OfTurn(s, t))
<1>1. m \in 0 .. Len(s) /\ StartedIn(u, t) - 1 = m
  <2>1. StartedIn(s, t) \in 1 .. Len(s) /\ StartedIn(u, t) = StartedIn(s, t) /\ Len(s) \in Nat
    BY StartStays
  <2>2. QED  BY <2>1
<1>2. /\ \A n \in 0 .. Len(s) : SubSeq(u, 1, n) = SubSeq(s, 1, n)
      /\ SubSeq(s, 1, Len(s)) = s /\ SubSeq(u, 1, Len(u)) = u /\ u \in Seq(Event)
  BY OneMore
<1>3. /\ HistoryNow(s, t) = before \o own
      /\ HistoryNow(u, t) = before \o messagesFromEvents(OfTurn(u, t))
      /\ \A n \in 0 .. Len(s) : HistoryIn(u, t, n) = HistoryIn(s, t, n)
  BY <1>1, <1>2 DEF HistoryNow, HistoryIn
<1>4. before \in Seq(Message) /\ own \in Seq(Message)
  <2>1. SubSeq(s, 1, m) \in Seq(Event)
    <3> HIDE DEF m
    <3>1. QED  BY <1>1, SubSeqType
  <2>2. QED  BY <2>1, MessagesType, OfTurnType
<1>5. messagesFromEvents(OfTurn(u, t)) =
         IF e.turn = t /\ e.type = "item.completed" THEN Append(own, e.message) ELSE own
  BY OwnGrows
<1> HIDE DEF u, m, before, own
<1>6. ASSUME e.type = "item.completed"
      PROVE  before \o Append(own, e.message) = Append(before \o own, e.message)
  <2>1. e.message \in Message
    BY <1>6 DEF Event, Completed, Started, Checkpointed, Answered, Terminal
  <2>2. QED  BY <1>4, <2>1
<1>7. HistoryNow(s, t) \in Seq(Message)
  BY <1>3, <1>4
<1>8. QED  BY <1>3, <1>5, <1>6, <1>7 DEF u

\* The events that say nothing of turn t that a rebuild or a resume would read.
IsSilent(e, t) ==
    e.turn # t \/ e.type \in Terminal \union {"tool.started", "agent.recovery_failed"}

\* What is read of turn t is the same in both streams.
Same(s, u, t) ==
    /\ IsStarted(u, t)
    /\ HistoryNow(u, t) = HistoryNow(s, t)
    /\ MatchesIn(s, t) => MatchesIn(u, t)
    /\ IsCommittedIn(s, t) => IsCommittedIn(u, t)
    /\ IsOver(s, t) => IsOver(u, t)

\* An event that is no checkpoint of the turn leaves its last one where it was.
LEMMA CommitStays ==
    ASSUME NEW s \in Seq(Event), NEW e \in Event, NEW t, IsStarted(s, t),
           e.turn = t => e.type \notin {"turn.started", "agent.checkpoint"}
    PROVE  /\ MatchesIn(s, t) => MatchesIn(Append(s, e), t)
           /\ IsCommittedIn(s, t) /\ HistoryNow(Append(s, e), t) = HistoryNow(s, t)
                 => IsCommittedIn(Append(s, e), t)
<1> DEFINE u == Append(s, e)
           c == CommitIn(s, t)
<1>1. /\ \A i \in DOMAIN s : u[i] = s[i] /\ i \in DOMAIN u
      /\ \A i \in DOMAIN u : i \in DOMAIN s \/ i = Len(s) + 1
      /\ u[Len(s) + 1] = e
  BY OneMore
<1>2. \A n \in 0 .. Len(s) : HistoryIn(u, t, n) = HistoryIn(s, t, n)
  BY HistoryGrows
<1> HIDE DEF u
<1>3. CheckpointsIn(u, t) = CheckpointsIn(s, t)
  BY <1>1 DEF CheckpointsIn
<1>4. CommitIn(u, t) = c
  BY <1>3 DEF CommitIn
<1>5. c \in 0 .. Len(s) /\ (CheckpointsIn(s, t) # {} => c \in DOMAIN s)
  BY CommitInType
<1> HIDE DEF c
<1>6. CheckpointsIn(s, t) # {} => u[c] = s[c]
  BY <1>1, <1>5
<1>7. MatchesIn(s, t) => MatchesIn(u, t)
  BY <1>2, <1>3, <1>4, <1>5, <1>6 DEF MatchesIn, c
<1>8. IsCommittedIn(s, t) /\ HistoryNow(u, t) = HistoryNow(s, t) => IsCommittedIn(u, t)
  BY <1>2, <1>4, <1>5 DEF IsCommittedIn, c
<1>9. QED  BY <1>7, <1>8 DEF u

LEMMA SilentSame ==
    ASSUME NEW s \in Seq(Event), NEW e \in Event, NEW t, IsStarted(s, t), IsSilent(e, t)
    PROVE  Same(s, Append(s, e), t)
<1>1. /\ e.turn = t => e.type \notin {"turn.started", "agent.checkpoint", "item.completed"}
      /\ ~(e.turn = t /\ e.type = "approval.started")
  BY DEF IsSilent, Terminal
<1>2. IsStarted(Append(s, e), t)
  BY <1>1, StartStays
<1>3. HistoryNow(Append(s, e), t) = HistoryNow(s, t)
  BY <1>1, HistoryGrows
<1>4. /\ MatchesIn(s, t) => MatchesIn(Append(s, e), t)
      /\ IsCommittedIn(s, t) => IsCommittedIn(Append(s, e), t)
  BY <1>1, <1>3, CommitStays
<1>5. IsOver(s, t) => IsOver(Append(s, e), t)
  <2>1. \A i \in DOMAIN s : Append(s, e)[i] = s[i] /\ i \in DOMAIN Append(s, e)
    BY OneMore
  <2>2. QED  BY <2>1 DEF IsOver
<1>6. QED  BY <1>2, <1>3, <1>4, <1>5 DEF Same

\* #completeToolItem, an answer or an input: the history of the turn grows by the message.
LEMMA CompletedIsRead ==
    ASSUME NEW s \in Seq(Event), NEW e \in Event, NEW t, IsStarted(s, t),
           e.turn = t, e.type = "item.completed"
    PROVE  /\ IsStarted(Append(s, e), t)
           /\ HistoryNow(Append(s, e), t) = Append(HistoryNow(s, t), e.message)
           /\ MatchesIn(s, t) => MatchesIn(Append(s, e), t)
<1>1. IsStarted(Append(s, e), t)
  BY StartStays
<1>2. HistoryNow(Append(s, e), t) = Append(HistoryNow(s, t), e.message)
  BY HistoryGrows
<1>3. MatchesIn(s, t) => MatchesIn(Append(s, e), t)
  BY CommitStays
<1>4. QED  BY <1>1, <1>2, <1>3

\* #checkpoint: what it says is compared with the stream it ends.
LEMMA CheckpointIsRead ==
    ASSUME NEW s \in Seq(Event), NEW e \in Event, NEW t, IsStarted(s, t),
           e.turn = t, e.type = "agent.checkpoint"
    PROVE  /\ IsStarted(Append(s, e), t)
           /\ HistoryNow(Append(s, e), t) = HistoryNow(s, t)
           /\ IsCommittedIn(Append(s, e), t)
           /\ e.digest = HistoryNow(s, t) => MatchesIn(Append(s, e), t)
<1> DEFINE u == Append(s, e)
           n == Len(s) + 1
<1>1. IsStarted(u, t) /\ HistoryNow(u, t) = HistoryNow(s, t)
  BY StartStays, HistoryGrows
<1>3. n \in CheckpointsIn(u, t) /\ \A i \in CheckpointsIn(u, t) : i <= n /\ i \in Nat
  <2>1. n \in DOMAIN u /\ u[n] = e /\ DOMAIN u = 1 .. n /\ Len(s) \in Nat
    BY OneMore
  <2> HIDE DEF u
  <2>2. QED  BY <2>1 DEF CheckpointsIn
<1>4. CommitIn(u, t) = n /\ u[n] = e /\ Len(u) = n /\ n \in Nat
  <2>1. CommitIn(u, t) \in CheckpointsIn(u, t)
    BY <1>3, CommitInType, OneMore
  <2>2. CommitIn(u, t) = Max(CheckpointsIn(u, t))
    BY <1>3 DEF CommitIn
  <2>3. \E x \in CheckpointsIn(u, t) : \A y \in CheckpointsIn(u, t) : x >= y
    <3>1. n \in Nat
      BY OneMore
    <3> HIDE DEF u, n
    <3>2. QED  BY <1>3, <3>1
  <2>4. \A y \in CheckpointsIn(u, t) : Max(CheckpointsIn(u, t)) >= y
    BY <2>3, Zenon DEF Max
  <2>5. u[n] = e /\ Len(u) = n /\ n \in Nat
    BY OneMore
  <2> HIDE DEF u, n
  <2>6. CommitIn(u, t) >= n /\ CommitIn(u, t) <= n /\ CommitIn(u, t) \in Nat
    BY <1>3, <2>1, <2>2, <2>4
  <2>7. QED  BY <2>5, <2>6
<1> HIDE DEF u, n
<1>5. IsCommittedIn(u, t) /\ (e.digest = HistoryNow(s, t) => MatchesIn(u, t))
  BY <1>1, <1>3, <1>4 DEF MatchesIn, IsCommittedIn, HistoryNow
<1>6. QED  BY <1>1, <1>5 DEF u

\* An approval that is raised or decided leaves the history of the turn as it is.
LEMMA ApprovalIsRead ==
    ASSUME NEW s \in Seq(Event), NEW e \in Event, NEW t, IsStarted(s, t),
           e.turn = t, e.type \in {"approval.started", "approval.completed"}
    PROVE  /\ IsStarted(Append(s, e), t)
           /\ HistoryNow(Append(s, e), t) = HistoryNow(s, t)
           /\ MatchesIn(s, t) => MatchesIn(Append(s, e), t)
BY StartStays, HistoryGrows, CommitStays

-----------------------------------------------------------------------------
(* Streams that grow by events of one turn *)

Extends(s, u, t) ==
    /\ u \in Seq(Event)
    /\ \A i \in DOMAIN s : i \in DOMAIN u /\ u[i] = s[i]
    /\ \A i \in DOMAIN u : i \in DOMAIN s \/ u[i].turn = t
    /\ \A t2 \in Runs : t2 # t /\ IsStarted(s, t2) => Same(s, u, t2)

LEMMA SameIsSame ==
    ASSUME NEW s \in Seq(Event), NEW t, IsStarted(s, t)
    PROVE  Same(s, s, t)
BY DEF Same

LEMMA SameGoesOn ==
    ASSUME NEW s, NEW u, NEW v, NEW t, Same(s, u, t), Same(u, v, t)
    PROVE  Same(s, v, t)
BY DEF Same

\* What may be resumed may still be.
LEMMA SameResumes ==
    ASSUME NEW s, NEW u, NEW t, Same(s, u, t), CanResume(s, t)
    PROVE  CanResume(u, t)
BY DEF CanResume, Same

LEMMA NoEvents ==
    ASSUME NEW s \in Seq(Event), NEW t
    PROVE  Extends(s, s, t)
BY SameIsSame DEF Extends

LEMMA OneEvent ==
    ASSUME NEW s \in Seq(Event), NEW t, NEW e \in Event, e.turn = t
    PROVE  Extends(s, Append(s, e), t)
<1> DEFINE u == Append(s, e)
<1>1. /\ u \in Seq(Event) /\ u[Len(s) + 1] = e
      /\ \A i \in DOMAIN s : u[i] = s[i] /\ i \in DOMAIN u
      /\ \A i \in DOMAIN u : i \in DOMAIN s \/ i = Len(s) + 1
  BY OneMore
<1>2. ASSUME NEW t2 \in Runs, t2 # t, IsStarted(s, t2) PROVE Same(s, u, t2)
  <2>1. IsSilent(e, t2)
    BY <1>2 DEF IsSilent
  <2>2. QED  BY <1>2, <2>1, SilentSame
<1> HIDE DEF u
<1>3. Extends(s, u, t)
  BY <1>1, <1>2 DEF Extends
<1>4. QED  BY <1>3 DEF u

LEMMA ExtendsGoesOn ==
    ASSUME NEW s \in Seq(Event), NEW u, NEW v, NEW t, Extends(s, u, t), Extends(u, v, t)
    PROVE  Extends(s, v, t)
<1>1. ASSUME NEW t2 \in Runs, t2 # t, IsStarted(s, t2) PROVE Same(s, v, t2)
  <2>1. Same(s, u, t2)
    BY <1>1 DEF Extends
  <2>2. IsStarted(u, t2)
    BY <2>1 DEF Same
  <2>3. Same(u, v, t2)
    BY <1>1, <2>2 DEF Extends
  <2>4. QED  BY <2>1, <2>3, SameGoesOn
<1>2. QED  BY <1>1 DEF Extends

LEMMA CallsStayStarted ==
    ASSUME NEW s \in Seq(Event), NEW u, NEW t, Extends(s, u, t)
    PROVE  StartedCalls(s) \subseteq StartedCalls(u)
BY DEF Extends, StartedCalls

\* The events that start the items of an answer, one after the other.
LEMMA StartsAreSilent ==
    ASSUME NEW s \in Seq(Event), NEW t \in Runs, IsStarted(s, t), NEW todo \in Seq(Tool)
    PROVE  LET u == s \o [i \in DOMAIN todo |-> ToolStarted(t, todo[i])] IN
           /\ Extends(s, u, t) /\ Same(s, u, t)
           /\ AllOf(todo, StartedCalls(u))
           /\ \A i \in DOMAIN u : i \in DOMAIN s \/ u[i].type = "tool.started"
<1> DEFINE es == [i \in DOMAIN todo |-> ToolStarted(t, todo[i])]
           u == s \o es
           At(n) == s \o F!Prefix(es, n)
           Fine(n) == Extends(s, At(n), t) /\ Same(s, At(n), t)
           T == {n \in 0 .. Len(es) : ~Fine(n)}
<1>1. /\ es \in Seq(Event) /\ DOMAIN es = 1 .. Len(es) /\ Len(es) \in Nat /\ DOMAIN todo = DOMAIN es
      /\ \A i \in DOMAIN es : /\ es[i].turn = t /\ es[i].type = "tool.started"
                              /\ es[i].item = todo[i] /\ es[i] \in Event
  <2>1. \A i \in DOMAIN todo : ToolStarted(t, todo[i]) \in Event
    BY DEF ToolStarted, Event, Started
  <2>2. DOMAIN todo = 1 .. Len(todo) /\ Len(todo) \in Nat
    OBVIOUS
  <2>3. es \in Seq(Event) /\ DOMAIN es = 1 .. Len(es) /\ DOMAIN es = DOMAIN todo /\ Len(es) \in Nat
    BY <2>1, <2>2
  <2>4. \A i \in DOMAIN es : es[i] = ToolStarted(t, todo[i])
    OBVIOUS
  <2>5. QED  BY <2>1, <2>3, <2>4 DEF ToolStarted
<1> HIDE DEF es
<1>2. F!Prefix(es, 0) = << >> /\ F!Prefix(es, Len(es)) = es
  BY <1>1 DEF F!Prefix
<1>3. Fine(0)
  <2>1. At(0) = s
    BY <1>2
  <2>2. QED  BY <2>1, NoEvents, SameIsSame
<1>4. ASSUME NEW n \in 1 .. Len(es), Fine(n - 1) PROVE Fine(n)
  <2>1. /\ F!Prefix(es, n - 1) \in Seq(Event) /\ es[n] \in Event /\ n \in DOMAIN es
        /\ F!Prefix(es, n) = Append(F!Prefix(es, n - 1), es[n])
    BY <1>1, F!PrefixGrows
  <2> DEFINE p == F!Prefix(es, n - 1)
             v == s \o p
             e == es[n]
  <2>2. e \in Event /\ e.turn = t /\ e.type = "tool.started"
    BY <1>1, <2>1
  <2>3. At(n) = Append(v, e) /\ v \in Seq(Event)
    <3>1. p \in Seq(Event) /\ e \in Event /\ F!Prefix(es, n) = Append(p, e)
      BY <2>1
    <3> HIDE DEF p, e
    <3>2. QED  BY <3>1
  <2>4. Extends(s, v, t) /\ Same(s, v, t)
    BY <1>4
  <2> HIDE DEF v, e, p
  <2>5. Extends(v, Append(v, e), t)
    BY <2>2, <2>3, OneEvent
  <2>6. Same(v, Append(v, e), t)
    <3>1. IsStarted(v, t) /\ IsSilent(e, t)
      BY <2>2, <2>4 DEF Same, IsSilent
    <3>2. QED  BY <2>2, <2>3, <3>1, SilentSame
  <2>7. QED  BY <2>3, <2>4, <2>5, <2>6, ExtendsGoesOn, SameGoesOn
<1>5. Fine(Len(es))
  <2>1. SUFFICES ASSUME T # {} PROVE FALSE
    BY <1>1
  <2> HIDE DEF Fine
  <2>2. T \in SUBSET Nat
    BY <1>1
  <2> HIDE DEF T
  <2>3. PICK n \in T : \A m \in T : n <= m
    BY <2>1, <2>2, F!LeastNumber
  <2> USE DEF T
  <2>4. n \in 1 .. Len(es) /\ n - 1 \in 0 .. Len(es) /\ n - 1 < n
    BY <1>1, <1>3, <2>3
  <2>5. n - 1 \notin T
    BY <2>3, <2>4
  <2>6. Fine(n)
    BY <1>4, <2>4, <2>5
  <2>7. QED  BY <2>3, <2>6
<1>6. Extends(s, u, t) /\ Same(s, u, t)
  BY <1>2, <1>5
<1>7. /\ \A i \in DOMAIN es : /\ Len(s) + i \in DOMAIN u /\ u[Len(s) + i] = es[i]
      /\ \A i \in DOMAIN u : i \in DOMAIN s \/ (i - Len(s) \in DOMAIN es /\ u[i] = es[i - Len(s)])
  <2>1. /\ Len(u) = Len(s) + Len(es) /\ DOMAIN u = 1 .. Len(u) /\ DOMAIN s = 1 .. Len(s)
        /\ Len(s) \in Nat
        /\ \A i \in 1 .. Len(u) : u[i] = IF i <= Len(s) THEN s[i] ELSE es[i - Len(s)]
    BY <1>1
  <2> HIDE DEF u
  <2>2. QED  BY <1>1, <2>1
<1> HIDE DEF u
<1>8. ASSUME NEW i \in DOMAIN todo PROVE todo[i].call \in StartedCalls(u)
  <2>1. Len(s) + i \in DOMAIN u /\ u[Len(s) + i].type = "tool.started" /\ u[Len(s) + i].item = todo[i]
    BY <1>1, <1>7
  <2>2. QED  BY <2>1 DEF StartedCalls
<1>9. \A i \in DOMAIN u : i \in DOMAIN s \/ u[i].type = "tool.started"
  BY <1>1, <1>7
<1>10. QED  BY <1>6, <1>8, <1>9 DEF u, es, AllOf

-----------------------------------------------------------------------------
(* What messages ask for *)

Askers(calls) == {e \in Event : e.type = "item.completed" => Asks(e.message, calls)}

LEMMA MessagesAsk ==
    ASSUME NEW calls, NEW s \in Seq(Askers(calls))
    PROVE  /\ AllAsk(messagesFromEvents(s), calls)
           /\ \A t : OfTurn(s, t) \in Seq(Askers(calls))
<1> DEFINE S == {e \in Range(s) : e.type = "item.completed"}
           completed == Select(s, S)
<1>1. completed \in Seq(Askers(calls) \intersect S)
  BY SelectType
<1>2. \A e \in Askers(calls) \intersect S : Asks(e.message, calls)
  BY DEF Askers
<1>3. messagesFromEvents(s) = [i \in DOMAIN completed |-> completed[i].message]
  BY DEF messagesFromEvents
<1> HIDE DEF S, completed
<1>4. AllAsk(messagesFromEvents(s), calls)
  <2>1. \A i \in DOMAIN completed : completed[i] \in Askers(calls) \intersect S
    BY <1>1
  <2>2. QED  BY <1>2, <1>3, <2>1 DEF AllAsk
<1>5. ASSUME NEW t PROVE OfTurn(s, t) \in Seq(Askers(calls))
  <2>1. OfTurn(s, t) \in Seq(Askers(calls) \intersect {e \in Range(s) : e.turn = t})
    BY SelectType DEF OfTurn
  <2>2. QED  BY <2>1
<1>6. QED  BY <1>4, <1>5

LEMMA HistoriesAsk ==
    ASSUME Shape, CallsAreStarted
    PROVE  /\ stream \in Seq(Askers(StartedCalls(stream)))
           /\ AllAsk(messagesFromEvents(stream), StartedCalls(stream))
           /\ \A t \in Runs, n \in 0 .. Len(stream) : IsStarted(stream, t) =>
                 AllAsk(HistoryIn(stream, t, n), StartedCalls(stream))
<1> DEFINE calls == StartedCalls(stream)
<1>1. stream \in Seq(Askers(calls))
  <2>1. stream \in Seq(Event)
    BY DEF Shape
  <2>2. \A i \in DOMAIN stream : stream[i] \in Askers(calls)
    BY <2>1 DEF CallsAreStarted, Askers
  <2> HIDE DEF calls
  <2>3. QED  BY <2>1, <2>2
<1> HIDE DEF calls
<1>2. AllAsk(messagesFromEvents(stream), calls)
  BY <1>1, MessagesAsk
<1>3. ASSUME NEW t \in Runs, NEW n \in 0 .. Len(stream), IsStarted(stream, t)
      PROVE  AllAsk(HistoryIn(stream, t, n), calls)
  <2> DEFINE m == StartedIn(stream, t) - 1
             a == SubSeq(stream, 1, m)
             b == SubSeq(stream, 1, n)
             before == messagesFromEvents(a)
             own == messagesFromEvents(OfTurn(b, t))
  <2>1. m \in 0 .. Len(stream)
    <3>1. \E i \in DOMAIN stream : stream[i] = TurnEvent("turn.started", t)
      BY <1>3 DEF IsStarted
    <3>2. StartedIn(stream, t) \in DOMAIN stream
      BY <3>1, Zenon DEF StartedIn
    <3>3. DOMAIN stream = 1 .. Len(stream) /\ Len(stream) \in Nat
      BY DEF Shape
    <3>4. QED  BY <3>2, <3>3
  <2>2. a \in Seq(Askers(calls)) /\ b \in Seq(Askers(calls))
    <3> HIDE DEF m
    <3>1. QED  BY <1>1, <2>1, SubSeqType
  <2>3. a \in Seq(Event) /\ b \in Seq(Event)
    <3>1. Askers(calls) \subseteq Event
      BY DEF Askers
    <3> HIDE DEF a, b
    <3>2. QED  BY <2>2, <3>1
  <2>4. HistoryIn(stream, t, n) = before \o own
    BY DEF HistoryIn
  <2> HIDE DEF a, b
  <2>5. AllAsk(before, calls) /\ before \in Seq(Message)
    BY <2>2, <2>3, MessagesAsk, MessagesType
  <2>6. AllAsk(own, calls) /\ own \in Seq(Message)
    <3>1. OfTurn(b, t) \in Seq(Askers(calls)) /\ OfTurn(b, t) \in Seq(Event)
      BY <2>2, <2>3, MessagesAsk, OfTurnType
    <3>2. QED  BY <3>1, MessagesAsk, MessagesType
  <2> HIDE DEF before, own
  <2>7. AllAsk(before \o own, calls)
    BY <2>5, <2>6 DEF AllAsk
  <2>8. QED  BY <2>4, <2>7
<1>4. QED  BY <1>1, <1>2, <1>3 DEF calls

\* What is left over was asked for.
LEMMA UnansweredAsked ==
    ASSUME NEW h \in Seq(Message), NEW calls, AllAsk(h, calls)
    PROVE  Unanswered(h) \in Seq(Calls \intersect calls)
<1> DEFINE asking == {i \in DOMAIN h : h[i].role = "assistant" /\ h[i].calls # <<>>}
           answered == {h[i].call : i \in {j \in DOMAIN h : h[j].role = "tool"}}
<1>1. Unanswered(h) = IF asking = {} THEN << >>
                      ELSE Select(h[Max(asking)].calls, Calls \ answered)
  BY DEF Unanswered
<1>2. CASE asking = {}
  <2> HIDE DEF asking
  <2>1. QED  BY <1>1, <1>2
<1>3. CASE asking # {}
  <2> DEFINE last == Max(asking)
             asked == h[last].calls
  <2>1. last \in asking
    <3>1. Len(h) \in Nat /\ asking \in SUBSET (1 .. Len(h))
      OBVIOUS
    <3> HIDE DEF asking
    <3>2. QED  BY <1>3, <3>1, FirstAndLast
  <2>2. last \in DOMAIN h /\ h[last] \in Message /\ h[last].role = "assistant"
    BY <2>1
  <2> HIDE DEF last
  <2>3. asked \in Seq(Calls)
    BY <2>2 DEF Message
  <2>4. \A k \in DOMAIN asked : asked[k] \in calls
    BY <2>2 DEF AllAsk, Asks
  <2> HIDE DEF asked
  <2>5. asked \in Seq(Calls \intersect calls)
    BY <2>3, <2>4
  <2> DEFINE S == Calls \ answered
  <2> HIDE DEF S
  <2>6. Select(asked, S) \in Seq((Calls \intersect calls) \intersect S)
    BY <2>5, SelectType
  <2>7. Select(asked, S) \in Seq(Calls \intersect calls)
    BY <2>6
  <2>8. QED  BY <1>1, <1>3, <2>7 DEF S, asked, last
<1>4. QED  BY <1>2, <1>3

LEMMA IntentsAreOf ==
    ASSUME NEW r \in Runs, NEW calls, NEW asked \in Seq(Calls \intersect calls)
    PROVE  AllOf(IntentsOf(r, asked), calls)
<1>1. DOMAIN IntentsOf(r, asked) = DOMAIN asked
      /\ \A i \in DOMAIN asked : IntentsOf(r, asked)[i].call = asked[i]
  BY DEF IntentsOf, Intent
<1>2. \A i \in DOMAIN asked : asked[i] \in calls
  OBVIOUS
<1>3. QED  BY <1>1, <1>2 DEF AllOf

-----------------------------------------------------------------------------
(* Batches of at most one call *)

LEMMA BatchOfNone ==
    ASSUME NEW todo
    PROVE  BatchMessages(todo, << >>) = << >>
<1> DEFINE none == << >>
           places == [i \in DOMAIN none |-> i]
           S == {i \in DOMAIN none : none[i] \in Recorded}
           answered == Select(places, S)
<1>1. places = none
  OBVIOUS
<1>2. answered = none
  <2> HIDE DEF S, places
  <2>1. Select(none, S) = F!Folding(S, << >>, none)
    BY SelectIs
  <2>2. F!Folding(S, << >>, none) = none
    BY F!FoldsNothing
  <2>3. QED  BY <1>1, <2>1, <2>2
<1>3. BatchMessages(todo, none) = [n \in DOMAIN answered |->
                                     ToolMessage(todo[answered[n]].call, none[answered[n]] = "ok_recorded")]
  BY DEF BatchMessages
<1> HIDE DEF answered
<1>4. QED  BY <1>2, <1>3

LEMMA BatchOfOne ==
    ASSUME NEW todo \in Seq(Tool), NEW batch \in Seq(Standings), Len(batch) = 1
    PROVE  BatchMessages(todo, batch) =
              IF batch[1] \in Recorded THEN <<ToolMessage(todo[1].call, batch[1] = "ok_recorded")>>
              ELSE << >>
<1> DEFINE places == [i \in DOMAIN batch |-> i]
           S == {i \in DOMAIN batch : batch[i] \in Recorded}
           answered == Select(places, S)
           none == << >>
<1>1. DOMAIN batch = {1}
  <2>1. DOMAIN batch = 1 .. 1
    OBVIOUS
  <2>2. QED  BY <2>1
<1>2. places = Append(none, 1) /\ none \in Seq(Nat)
  <2>1. places = [i \in 1 .. 1 |-> i]
    BY <1>1
  <2>2. QED  BY <2>1
<1>3. 1 \in S <=> batch[1] \in Recorded
  BY <1>1
<1>4. BatchMessages(todo, batch) = [n \in DOMAIN answered |->
                                     ToolMessage(todo[answered[n]].call, batch[answered[n]] = "ok_recorded")]
  BY DEF BatchMessages
<1>5. answered = IF 1 \in S THEN Append(none, 1) ELSE none
  <2> DEFINE x == 1
  <2>1. x \in Nat
    OBVIOUS
  <2> HIDE DEF S, x
  <2>2. Select(none, S) = F!Folding(S, none, none)
    BY SelectIs
  <2> HIDE DEF none
  <2>3. F!Folding(S, none, none) = none
    BY F!FoldsNothing DEF none
  <2>4. Select(Append(none, x), S) = IF x \in S THEN Append(Select(none, S), x) ELSE Select(none, S)
    BY <1>2, <2>1, SelectGrows
  <2>5. answered = Select(Append(none, x), S)
    BY <1>2 DEF answered, x
  <2>6. QED  BY <2>2, <2>3, <2>4, <2>5 DEF x
<1> HIDE DEF answered, S
<1>6. CASE batch[1] \in Recorded
  <2>1. answered = <<1>>
    BY <1>3, <1>5, <1>6
  <2>2. DOMAIN answered = 1 .. 1 /\ answered[1] = 1
    BY <2>1
  <2>3. BatchMessages(todo, batch) = [n \in 1 .. 1 |-> ToolMessage(todo[1].call, batch[1] = "ok_recorded")]
    BY <1>4, <2>2
  <2>4. QED  BY <1>6, <2>3
<1>7. CASE batch[1] \notin Recorded
  <2>1. answered = << >>
    BY <1>3, <1>5, <1>7
  <2>2. QED  BY <1>4, <1>7, <2>1
<1>8. QED  BY <1>6, <1>7

\* A call that is not parallel-safe is a batch of its own.
LEMMA ExclusiveIsAlone ==
    ASSUME NEW todo \in Seq(Tool), todo # << >>, todo[1].call \notin scene.parallel
    PROVE  BatchLength(todo) = 1
<1> DEFINE S == {1} \union {n \in 1 .. Len(todo) :
                              n <= MaxBatch /\ \A i \in 1 .. n : todo[i].call \in scene.parallel}
<1>1. S = {1}
  <2>1. \A n \in 1 .. Len(todo) : 1 \in 1 .. n
    OBVIOUS
  <2>2. QED  BY <2>1
<1>2. BatchLength(todo) = Max(S)
  BY DEF BatchLength
<1>3. Max(S) \in S
  <2>1. 1 \in Nat /\ S \in SUBSET (1 .. 1) /\ S # {}
    BY <1>1
  <2> DEFINE one == 1
  <2> HIDE DEF S, one
  <2>2. Max(S) \in S
    BY <2>1, FirstAndLast
  <2>3. QED  BY <2>2
<1> HIDE DEF S
<1>4. QED  BY <1>1, <1>2, <1>3

-----------------------------------------------------------------------------
(* The operators of the module read the stream as those above *)

LEMMA ReadsTheStream ==
    \A t, n : /\ DigestMatches(t) <=> MatchesIn(stream, t)
              /\ CommitSequence(t) = CommitIn(stream, t)
              /\ RebuiltHistory(t, n) = HistoryIn(stream, t, n)
              /\ CheckpointsOf(t) = CheckpointsIn(stream, t)
              /\ Uncommitted(t) <=> ~IsCommittedIn(stream, t)
              /\ TurnIsActive(t) <=> ~IsOver(stream, t)
BY DEF DigestMatches, MatchesIn, CommitSequence, CommitIn, RebuiltHistory, HistoryIn,
       CheckpointsOf, CheckpointsIn, StartedAt, StartedIn, Uncommitted, IsCommittedIn,
       HistoryNow, TurnIsActive, IsOver

-----------------------------------------------------------------------------
(* A run moves *)

\* Who may start where runs are not to overlap starts alone.
LEMMA NobodyElse ==
    ASSUME OneRuns, NEW r \in Runs, scene.active = 1, Active(r) \/ MayStart(r)
    PROVE  \A x \in Runs : Active(x) => x = r
<1>1. CASE Active(r)
  BY <1>1 DEF OneRuns
<1>2. CASE MayStart(r)
  <2> DEFINE S == {x \in Runs : Active(x)}
  <2>1. ASSUME NEW x \in Runs, Active(x) PROVE FALSE
    <3>1. S = {x}
      BY <2>1 DEF OneRuns
    <3>2. Cardinality({x}) = 1
      BY FS_Singleton
    <3>3. Cardinality(S) < 1
      BY <1>2 DEF MayStart
    <3> HIDE DEF S
    <3>4. QED  BY <3>1, <3>2, <3>3
  <2>2. QED  BY <2>1
<1>3. QED  BY <1>1, <1>2

\* The run's own turn, once it moved to l.
Stays(s, l) == /\ MatchesIn(s, l.turn)
               /\ l.pc \in Over => CanResume(s, l.turn)
               /\ l.pc \notin Over => Holds(s, l)

LEMMA StepKeeps ==
    ASSUME Shape, HInv, NEW r \in Runs, NEW t \in Runs, NEW l \in LoopState,
           scene' = scene, torn \subseteq torn', run' = [run EXCEPT ![r] = l],
           l.turn = t, l.pc # "idle", l.pc \in {"carry", "input"} => l.entry = "runTurn",
           \/ Active(r) /\ run[r].turn = t /\ l.entry = run[r].entry
           \/ MayStart(r) /\ t \in Turns /\ l.entry \in {"resumeTurn", "recoverTurn"}
           \/ MayStart(r) /\ t = r /\ l.entry = "runTurn",
           Extends(stream, stream', t), IsStarted(stream', t), CallsAreStarted',
           t \notin torn' /\ Sequential(t)' => Stays(stream', l)
    PROVE  HInv'
<1>1. /\ run \in [Runs -> LoopState] /\ run'[r] = l
      /\ \A x \in Runs : x # r => run'[x] = run[x]
  BY DEF Shape
<1>2. Active(r) \/ (run[r].pc = "idle" /\ run[r].entry = "none")
  BY DEF MayStart, HInv, TurnsAreKnown
<1>3. scene.active = 1 => \A x \in Runs : Active(x) => x = r
  BY NobodyElse DEF HInv
<1>4. \A x \in Runs : Active(x)' <=> run'[x].pc \notin Over
  BY DEF Active
<1>5. scene.active = 1 => \A x \in Runs : Active(x)' => x = r
  BY <1>1, <1>3, <1>4 DEF Active
<1>6. OneRuns'
  BY <1>5 DEF OneRuns
<1>7. Turns' = {x \in Runs : run'[x].entry = "runTurn"}
  BY DEF Turns
<1>8. /\ \A x \in Turns : x \in Turns' /\ run[x].turn = x /\ IsStarted(stream, x)
      /\ \A x \in Turns' : x \in Turns \/ x = t
      /\ t \in Turns'
  <2>1. Active(r) => run[r].turn \in Turns
    BY DEF HInv, TurnsAreKnown, Active, Over
  <2>2. ASSUME NEW x \in Turns PROVE x \in Turns' /\ run[x].turn = x /\ IsStarted(stream, x)
    <3>1. x \in Runs /\ run[x].entry = "runTurn" /\ run[x].turn = x /\ IsStarted(stream, x)
      BY DEF HInv, TurnsAreKnown, Turns
    <3>2. x = r => l.entry = "runTurn"
      BY <1>2, <3>1 DEF MayStart, Active, Over
    <3>3. QED  BY <1>1, <1>7, <3>1, <3>2
  <2>3. ASSUME NEW x \in Turns' PROVE x \in Turns \/ x = t
    <3>1. CASE x # r
      BY <1>1, <1>7, <2>3, <3>1 DEF Turns
    <3>2. CASE x = r
      BY <1>1, <1>7, <2>3, <3>2 DEF Turns
    <3>3. QED  BY <3>1, <3>2
  <2>4. t \in Turns'
    <3>1. CASE t \in Turns
      BY <2>2, <3>1
    <3>2. CASE t \notin Turns
      BY <1>1, <1>7, <2>1, <3>2
    <3>3. QED  BY <3>1, <3>2
  <2>5. QED  BY <2>2, <2>3, <2>4
<1>9. TurnsAreKnown'
  <2>1. ASSUME NEW i \in DOMAIN stream' PROVE stream'[i].turn \in Turns'
    <3>1. i \in DOMAIN stream \/ stream'[i].turn = t
      BY DEF Extends
    <3>2. i \in DOMAIN stream => stream'[i] = stream[i] /\ stream[i].turn \in Turns
      BY DEF Extends, HInv, TurnsAreKnown
    <3>3. QED  BY <1>8, <3>1, <3>2
  <2>2. ASSUME NEW x \in Turns'
        PROVE  IsStarted(stream', x) /\ run'[x].turn = x /\ run'[x].pc # "idle"
    <3>1. CASE x = t
      <4>1. CASE t = r
        BY <1>1, <3>1, <4>1
      <4>2. CASE t # r
        <5>1. Active(r) => run[r].turn \in Turns
          BY DEF HInv, TurnsAreKnown, Active, Over
        <5>2. t \in Turns
          BY <4>2, <5>1
        <5>3. run[t].turn = t /\ run[t].pc # "idle" /\ run'[t] = run[t]
          BY <1>1, <4>2, <5>2 DEF HInv, TurnsAreKnown
        <5>4. QED  BY <3>1, <5>3
      <4>3. QED  BY <4>1, <4>2
    <3>2. CASE x # t
      <4>1. x \in Turns /\ x \in Runs /\ IsStarted(stream, x)
        BY <1>8, <3>2 DEF Turns
      <4>2. x # r
        BY <1>2, <1>8, <3>2, <4>1 DEF Turns, MayStart, Active, Over
      <4>3. IsStarted(stream', x)
        BY <3>2, <4>1 DEF Extends, Same
      <4>4. QED  BY <1>1, <4>1, <4>2, <4>3 DEF HInv, TurnsAreKnown
    <3>3. QED  BY <3>1, <3>2
  <2>3. ASSUME NEW x \in Runs
        PROVE  /\ run'[x].pc = "idle" => run'[x].entry = "none"
               /\ run'[x].pc # "idle" => run'[x].turn \in Turns'
               /\ run'[x].pc \in {"carry", "input"} => run'[x].entry = "runTurn"
    <3>1. CASE x = r
      BY <1>1, <1>8, <3>1
    <3>2. CASE x # r
      BY <1>1, <1>8, <3>2 DEF HInv, TurnsAreKnown
    <3>3. QED  BY <3>1, <3>2
  <2>4. QED  BY <2>1, <2>2, <2>3 DEF TurnsAreKnown
<1>10. ASSUME NEW x \in Turns', x # t, Sequential(x)'
       PROVE  Sequential(x) /\ x \in Turns /\ x \in Runs
  <2>1. scene.active = 1
    BY <1>10 DEF Sequential
  <2>2. TurnIsActive(x)
    <3>1. \A i \in DOMAIN stream : i \in DOMAIN stream' /\ stream'[i] = stream[i]
      BY DEF Extends
    <3>2. \A i \in DOMAIN stream' : ~ (stream'[i].turn = x /\ stream'[i].type \in Terminal)
      BY <1>10 DEF Sequential, TurnIsActive
    <3>3. QED  BY <3>1, <3>2 DEF TurnIsActive
  <2>3. ASSUME NEW i \in DOMAIN stream, stream[i].type = "tool.started"
        PROVE  stream[i].item.call \notin scene.parallel
    <3>1. i \in DOMAIN stream' /\ stream'[i] = stream[i]
      BY DEF Extends
    <3>2. QED  BY <1>10, <2>3, <3>1 DEF Sequential
  <2>4. QED  BY <1>8, <1>10, <2>1, <2>2, <2>3 DEF Sequential, Turns
<1>11. ASSUME NEW x \in Turns', x \notin torn', Sequential(x)'
       PROVE  /\ MatchesIn(stream', x)
              /\ (\A y \in Runs : Active(y)' => run'[y].turn # x) => CanResume(stream', x)
              /\ \A y \in Runs : Active(y)' /\ run'[y].turn = x => Holds(stream', run'[y])
  <2>1. scene.active = 1
    BY <1>11 DEF Sequential
  <2>2. CASE x = t
    <3>1. Stays(stream', l)
      BY <1>11, <2>2
    <3>2. MatchesIn(stream', x)
      BY <2>2, <3>1 DEF Stays
    <3>3. ASSUME NEW y \in Runs, Active(y)', run'[y].turn = x PROVE Holds(stream', run'[y])
      <4>1. y = r /\ l.pc \notin Over
        BY <1>1, <1>4, <1>5, <2>1, <3>3
      <4>2. QED  BY <1>1, <3>1, <4>1 DEF Stays
    <3>4. ASSUME \A y \in Runs : Active(y)' => run'[y].turn # x PROVE CanResume(stream', x)
      <4>1. l.pc \in Over
        BY <1>1, <1>4, <2>2, <3>4
      <4>2. QED  BY <2>2, <3>1, <4>1 DEF Stays
    <3>5. QED  BY <3>2, <3>3, <3>4
  <2>3. CASE x # t
    <3>1. Sequential(x) /\ x \in Turns /\ x \in Runs
      BY <1>10, <1>11, <2>3
    <3>2. Same(stream, stream', x)
      BY <1>8, <2>3, <3>1 DEF Extends
    <3>3. \A y \in Runs : Active(y) => run[y].turn # x
      BY <1>2, <1>3, <2>1, <2>3 DEF MayStart, Active, Over
    <3>4. MatchesIn(stream, x) /\ CanResume(stream, x)
      BY <1>11, <3>1, <3>3 DEF HInv, Rebuilds
    <3>5. MatchesIn(stream', x) /\ CanResume(stream', x)
      BY <3>2, <3>4, SameResumes DEF Same
    <3>6. \A y \in Runs : Active(y)' => run'[y].turn # x
      BY <1>1, <1>5, <2>1, <2>3
    <3>7. QED  BY <3>5, <3>6
  <2>4. QED  BY <2>2, <2>3
<1>12. Rebuilds'
  BY <1>11 DEF Rebuilds
<1>13. QED  BY <1>6, <1>9, <1>12 DEF HInv

\* What completed between the two streams asks for started calls.
NewAsk(s, u) == \A i \in DOMAIN u : i \notin DOMAIN s /\ u[i].type = "item.completed" =>
                                       Asks(u[i].message, StartedCalls(u))

LEMMA AskMore ==
    ASSUME NEW calls, NEW more, calls \subseteq more, NEW h, AllAsk(h, calls)
    PROVE  AllAsk(h, more)
BY DEF AllAsk, Asks

LEMMA CallsKeep ==
    ASSUME Shape, CallsAreStarted, NEW r \in Runs, NEW l \in LoopState, run' = [run EXCEPT ![r] = l],
           NEW t, Extends(stream, stream', t), NewAsk(stream, stream'),
           AllAsk(l.history, StartedCalls(stream')), AllOf(l.todo, StartedCalls(stream'))
    PROVE  CallsAreStarted'
<1>1. /\ run \in [Runs -> LoopState] /\ run'[r] = l
      /\ \A x \in Runs : x # r => run'[x] = run[x]
  BY DEF Shape
<1>2. StartedCalls(stream) \subseteq StartedCalls(stream')
  BY CallsStayStarted DEF Shape
<1>3. ASSUME NEW i \in DOMAIN stream', stream'[i].type = "item.completed"
      PROVE  Asks(stream'[i].message, StartedCalls(stream'))
  <2>1. CASE i \in DOMAIN stream
    <3>1. stream'[i] = stream[i] /\ Asks(stream[i].message, StartedCalls(stream))
      BY <1>3, <2>1 DEF Extends, CallsAreStarted
    <3>2. QED  BY <1>2, <3>1 DEF Asks
  <2>2. CASE i \notin DOMAIN stream
    BY <1>3, <2>2 DEF NewAsk
  <2>3. QED  BY <2>1, <2>2
<1>4. ASSUME NEW x \in Runs
      PROVE  AllAsk(run'[x].history, StartedCalls(stream')) /\ AllOf(run'[x].todo, StartedCalls(stream'))
  <2>1. CASE x = r
    BY <1>1, <2>1
  <2>2. CASE x # r
    <3>1. AllAsk(run[x].history, StartedCalls(stream)) /\ AllOf(run[x].todo, StartedCalls(stream))
      BY DEF CallsAreStarted
    <3>2. AllAsk(run[x].history, StartedCalls(stream'))
      BY <1>2, <3>1, AskMore
    <3>3. AllOf(run[x].todo, StartedCalls(stream'))
      BY <1>2, <3>1 DEF AllOf
    <3>4. QED  BY <1>1, <2>2, <3>2, <3>3
  <2>3. QED  BY <2>1, <2>2
<1>5. QED  BY <1>3, <1>4 DEF CallsAreStarted

\* A run that is under way moves, on its own turn.
LEMMA ActiveMoves ==
    ASSUME Shape, HInv, NEW r \in Runs, NEW l \in LoopState, Active(r),
           scene' = scene, torn \subseteq torn', run' = [run EXCEPT ![r] = l],
           l.turn = run[r].turn, l.entry = run[r].entry, l.pc \notin {"idle", "carry"},
           l.pc = "input" => run[r].pc = "carry",
           Extends(stream, stream', run[r].turn), IsStarted(stream', run[r].turn), NewAsk(stream, stream'),
           AllAsk(l.history, StartedCalls(stream')), AllOf(l.todo, StartedCalls(stream')),
           run[r].turn \notin torn' /\ Sequential(run[r].turn)
              /\ MatchesIn(stream, run[r].turn) /\ Holds(stream, run[r])
              => Stays(stream', l)
    PROVE  HInv'
<1>1. run[r].pc # "idle" /\ run[r].turn \in Turns /\ run[r].turn \in Runs
  BY DEF HInv, TurnsAreKnown, Active, Over, Turns
<1>2. SUFFICES ASSUME NEW t \in Runs, run[r].turn = t PROVE HInv'
  BY <1>1
<1>3. CallsAreStarted'
  BY CallsKeep DEF HInv
<1>4. ASSUME t \notin torn', Sequential(t)' PROVE Stays(stream', l)
  <2>1. run \in [Runs -> LoopState] /\ run'[r] = l /\ \A x \in Runs : x # r => run'[x] = run[x]
    BY DEF Shape
  <2>2. /\ scene.active = 1
        /\ \A i \in DOMAIN stream' : ~ (stream'[i].turn = t /\ stream'[i].type \in Terminal)
        /\ \A i \in DOMAIN stream' : stream'[i].type = "tool.started" =>
              stream'[i].item.call \notin scene.parallel
    BY <1>4 DEF Sequential, TurnIsActive
  <2>3. Sequential(t)
    <3>1. TurnIsActive(t)
      BY <2>2 DEF Extends, TurnIsActive
    <3>2. \A i \in DOMAIN stream : stream[i].type = "tool.started" => stream[i].item.call \notin scene.parallel
      BY <2>2 DEF Extends
    <3>3. QED  BY <2>2, <3>1, <3>2 DEF Sequential
  <2>4. MatchesIn(stream, t) /\ Holds(stream, run[r])
    BY <1>1, <1>2, <1>4, <2>3 DEF HInv, Rebuilds
  <2>5. QED  BY <1>2, <1>4, <2>3, <2>4
<1>5. l.pc # "idle" /\ (l.pc \in {"carry", "input"} => l.entry = "runTurn")
  BY DEF HInv, TurnsAreKnown
<1>6. Extends(stream, stream', t) /\ IsStarted(stream', t) /\ l.turn = t
  BY <1>2
<1>7. QED  BY <1>2, <1>3, <1>4, <1>5, <1>6, StepKeeps

LEMMA RunFacts ==
    ASSUME Shape, HInv, NEW r \in Runs, Active(r)
    PROVE  /\ stream \in Seq(Event) /\ run[r].turn \in Runs /\ run[r].turn \in Turns
           /\ IsStarted(stream, run[r].turn)
           /\ HistoryNow(stream, run[r].turn) \in Seq(Message)
           /\ AllAsk(run[r].history, StartedCalls(stream)) /\ AllOf(run[r].todo, StartedCalls(stream))
           /\ run[r].pc \notin Over /\ run[r].pc # "idle"
           /\ run[r].pc \in {"carry", "input"} => run[r].turn = r
<1>1. run[r].pc \notin Over /\ run[r].pc # "idle"
  BY DEF Active, Over
<1>2. run[r].turn \in Turns /\ run[r].turn \in Runs /\ IsStarted(stream, run[r].turn)
  BY <1>1 DEF HInv, TurnsAreKnown, Turns
<1>3. stream \in Seq(Event)
  BY DEF Shape
<1>4. HistoryNow(stream, run[r].turn) \in Seq(Message)
  <2>1. \E e \in Event : e.type \notin {"turn.started"}
    <3>1. TurnEvent("agent.recovery_failed", r) \in Event
      BY DEF TurnEvent, Event
    <3>2. TurnEvent("agent.recovery_failed", r).type # "turn.started"
      BY DEF TurnEvent
    <3>3. QED  BY <3>1, <3>2
  <2>2. PICK e \in Event : e.type # "turn.started"
    BY <2>1
  <2>3. QED  BY <1>2, <1>3, <2>2, HistoryGrows
<1>5. run[r].pc \in {"carry", "input"} => run[r].turn = r
  BY DEF HInv, TurnsAreKnown, Turns
<1>6. AllAsk(run[r].history, StartedCalls(stream)) /\ AllOf(run[r].todo, StartedCalls(stream))
  BY DEF HInv, CallsAreStarted
<1>7. QED  BY <1>1, <1>2, <1>3, <1>4, <1>5, <1>6

LEMMA Quietly ==
    ASSUME Shape, HInv, NEW r \in Runs, NEW l \in LoopState, Active(r),
           scene' = scene, torn \subseteq torn', stream' = stream, run' = [run EXCEPT ![r] = l],
           l.turn = run[r].turn, l.entry = run[r].entry, l.pc \notin {"idle", "carry"},
           l.pc = "input" => run[r].pc = "carry",
           AllAsk(l.history, StartedCalls(stream)), AllOf(l.todo, StartedCalls(stream)),
           run[r].turn \notin torn' /\ Sequential(run[r].turn)
              /\ MatchesIn(stream, run[r].turn) /\ Holds(stream, run[r])
              => Stays(stream, l)
    PROVE  HInv'
<1>1. Extends(stream, stream', run[r].turn) /\ IsStarted(stream', run[r].turn)
  BY RunFacts, NoEvents
<1>2. NewAsk(stream, stream')
  BY DEF NewAsk
<1>3. QED  BY <1>1, <1>2, ActiveMoves

\* An event appended is the last one.
LEMMA OneIsLast ==
    ASSUME NEW s \in Seq(Event), NEW e \in Event
    PROVE  s \o <<e>> = Append(s, e)
OBVIOUS

LEMMA Telling ==
    ASSUME Shape, HInv, NEW r \in Runs, NEW l \in LoopState, Active(r), NEW e \in Event,
           scene' = scene, torn \subseteq torn', stream' = stream \o <<e>>, run' = [run EXCEPT ![r] = l],
           l.turn = run[r].turn, l.entry = run[r].entry, l.pc \notin {"idle", "carry"},
           l.pc = "input" => run[r].pc = "carry",
           e.turn = run[r].turn, e.type # "turn.started",
           e.type = "item.completed" => Asks(e.message, StartedCalls(stream)),
           AllAsk(l.history, StartedCalls(stream)), AllOf(l.todo, StartedCalls(stream)),
           run[r].turn \notin torn' /\ Sequential(run[r].turn)
              /\ MatchesIn(stream, run[r].turn) /\ Holds(stream, run[r])
              => Stays(Append(stream, e), l)
    PROVE  HInv'
<1>1. stream' = Append(stream, e) /\ stream \in Seq(Event)
  BY OneIsLast DEF Shape
<1>2. Extends(stream, stream', run[r].turn) /\ IsStarted(stream', run[r].turn)
  BY <1>1, RunFacts, OneEvent, StartStays
<1>3. StartedCalls(stream) \subseteq StartedCalls(stream')
  BY <1>1, <1>2, CallsStayStarted
<1>4. NewAsk(stream, stream')
  <2>1. ASSUME NEW i \in DOMAIN stream', i \notin DOMAIN stream, stream'[i].type = "item.completed"
        PROVE  Asks(stream'[i].message, StartedCalls(stream'))
    <3>1. i = Len(stream) + 1 /\ stream'[i] = e
      BY <1>1, <2>1, OneMore
    <3>2. QED  BY <1>3, <2>1, <3>1 DEF Asks
  <2>2. QED  BY <2>1 DEF NewAsk
<1>5. AllAsk(l.history, StartedCalls(stream')) /\ AllOf(l.todo, StartedCalls(stream'))
  <2>1. AllAsk(l.history, StartedCalls(stream'))
    BY <1>3, AskMore
  <2>2. QED  BY <1>3, <2>1 DEF AllOf
<1>6. run[r].turn \notin torn' /\ Sequential(run[r].turn)
         /\ MatchesIn(stream, run[r].turn) /\ Holds(stream, run[r])
         => Stays(stream', l)
  BY <1>1
<1>7. QED  BY <1>2, <1>4, <1>5, <1>6, ActiveMoves

-----------------------------------------------------------------------------
(* Holding what a rebuild would make, taken apart *)

LEMMA HoldsHistory ==
    ASSUME NEW s, NEW l \in LoopState, Holds(s, l), l.pc # "carry", l.batch = << >>
    PROVE  l.history = HistoryNow(s, l.turn)
<1>1. BatchMessages(l.todo, l.batch) = << >> /\ l.history \in Seq(Message)
  BY BatchOfNone DEF LoopState, Fields
<1>2. l.history \o << >> = l.history
  BY <1>1
<1>3. l.history \o BatchMessages(l.todo, l.batch) = HistoryNow(s, l.turn)
  BY DEF Holds
<1>4. QED  BY <1>1, <1>2, <1>3

LEMMA HoldsIf ==
    ASSUME NEW s, NEW l \in LoopState, l.pc \notin {"mismatch", "carry"}, l.batch = << >>,
           l.history = HistoryNow(s, l.turn)
    PROVE  Holds(s, l)
<1>1. BatchMessages(l.todo, l.batch) = << >> /\ l.history \in Seq(Message) /\ Len(l.batch) <= 1
  BY BatchOfNone DEF LoopState, Fields
<1>2. l.history \o << >> = l.history
  BY <1>1
<1>3. QED  BY <1>1, <1>2 DEF Holds

\* A turn that ended is not resumed.
LEMMA Terminates ==
    ASSUME NEW s \in Seq(Event), NEW l, NEW next, NEW e \in Event, e.turn = l.turn,
           e.type \in Terminal, IsStarted(s, l.turn), MatchesIn(s, l.turn),
           next.turn = l.turn, next.pc \in Over
    PROVE  Stays(Append(s, e), next)
<1>1. Same(s, Append(s, e), l.turn)
  BY SilentSame DEF IsSilent
<1>2. IsOver(Append(s, e), l.turn)
  <2>1. Append(s, e)[Len(s) + 1] = e /\ Len(s) + 1 \in DOMAIN Append(s, e)
    BY OneMore
  <2>2. QED  BY <2>1 DEF IsOver
<1>3. QED  BY <1>1, <1>2 DEF Same, Stays, CanResume

LEMMA EndedType ==
    ASSUME Shape, NEW r \in Runs, NEW result \in Over, result # "idle", Ended(r, result), run[r].pc # "idle"
    PROVE  \E l \in LoopState : /\ run' = [run EXCEPT ![r] = l] /\ l.pc = result /\ l.turn = run[r].turn
                                /\ l.entry = run[r].entry /\ l.history = << >> /\ l.todo = << >>
<1> DEFINE l == [Idle EXCEPT !.pc = result, !.entry = run[r].entry, !.turn = run[r].turn]
<1>1. l \in LoopState /\ l.entry = run[r].entry /\ l.pc = result /\ l.turn = run[r].turn
      /\ l.history = << >> /\ l.todo = << >>
  <2>1. Idle.history = << >>
    BY DEF Idle
  <2>2. Idle \in Fields
    BY IdleType DEF LoopState
  <2>3. l \in Fields /\ l.pc = result /\ l.entry = run[r].entry /\ l.turn = run[r].turn
        /\ l.history = << >> /\ l.todo = << >> /\ l.batch = << >> /\ l.mode = "none"
    BY <2>1, <2>2, LoopStateType, IdleType DEF Fields, Locations
  <2> HIDE DEF l
  <2>4. QED  BY <2>3, LoopStateType DEF LoopState, Over
<1>2. run' = [run EXCEPT ![r] = l]
  BY DEF Ended
<1>3. QED  BY <1>1, <1>2

LEMMA NothingAsked ==
    ASSUME NEW calls
    PROVE  AllAsk(<< >>, calls) /\ AllOf(<< >>, calls)
BY DEF AllAsk, AllOf

LEMMA TerminalKeeps ==
    ASSUME Shape, HInv, NEW r \in Runs, Active(r),
           NEW result \in Over, result # "idle", NEW type \in Terminal, Ends(r, result, type)
    PROVE  HInv'
<1> DEFINE e == TurnEvent(type, run[r].turn)
<1>1. /\ e \in Event /\ e.turn = run[r].turn /\ e.type = type
      /\ type \in Terminal /\ type \notin {"turn.started", "item.completed"}
  BY RunFacts DEF TurnEvent, Event, Terminal
<1>2. scene' = scene /\ torn' = torn /\ stream' = stream \o <<e>> /\ Ended(r, result)
  BY DEF Ends, AppendEvents
<1> HIDE DEF e
<1>3. PICK l \in LoopState : /\ run' = [run EXCEPT ![r] = l] /\ l.pc = result /\ l.turn = run[r].turn
                             /\ l.entry = run[r].entry /\ l.history = << >> /\ l.todo = << >>
  BY <1>2, RunFacts, EndedType
<1>4. AllAsk(l.history, StartedCalls(stream)) /\ AllOf(l.todo, StartedCalls(stream))
  BY <1>3, NothingAsked
<1>5. ASSUME MatchesIn(stream, run[r].turn), Holds(stream, run[r]) PROVE Stays(Append(stream, e), l)
  BY <1>1, <1>3, <1>5, RunFacts, Terminates
<1>6. l.pc \notin {"idle", "carry", "input"}
  BY <1>3 DEF Over
<1>7. QED  BY <1>1, <1>2, <1>3, <1>4, <1>5, <1>6, Telling

-----------------------------------------------------------------------------
(* Each step keeps what is rebuilt *)

LEMMA CarryHistoryRebuilds ==
    ASSUME Shape, HInv, NEW r \in Runs, CarryHistory(r)
    PROVE  HInv'
<1> DEFINE messages == messagesFromEvents(stream)
           l == [run[r] EXCEPT !.pc = "input", !.history = messages]
<1>1. messages \in Seq(Message) /\ AllAsk(messages, StartedCalls(stream))
  BY MessagesType, HistoriesAsk DEF Shape, HInv
<1>2. run[r].pc = "carry" /\ run[r].batch = << >> /\ run[r].turn \in Runs /\ Active(r)
  BY LoopStateType DEF CarryHistory, Active, Over
<1>3. run' = [run EXCEPT ![r] = l] /\ UNCHANGED <<scene, stream, torn>>
  BY DEF CarryHistory, Shape
<1> HIDE DEF messages
<1>4. l \in LoopState /\ l.batch = << >> /\ l.entry = run[r].entry /\ l.turn = run[r].turn
      /\ l.pc = "input" /\ l.history = messages /\ l.todo = run[r].todo
  BY <1>1, <1>2, LoopStateType, ZenonT(60) DEF LoopState, Fields, Locations
<1> HIDE DEF l
<1>5. ASSUME MatchesIn(stream, run[r].turn), Holds(stream, run[r]) PROVE Stays(stream, l)
  <2>1. messages = HistoryNow(stream, l.turn)
    BY <1>2, <1>4, <1>5 DEF Holds, messages
  <2>2. Holds(stream, l)
    BY <1>4, <2>1, HoldsIf
  <2>3. QED  BY <1>4, <1>5, <2>2 DEF Stays, Over
<1>6. AllAsk(l.history, StartedCalls(stream)) /\ AllOf(l.todo, StartedCalls(stream))
  BY <1>1, <1>2, <1>4, RunFacts
<1>7. QED  BY <1>2, <1>3, <1>4, <1>5, <1>6, Quietly

LEMMA AppendAsks ==
    ASSUME NEW h \in Seq(Message), NEW m \in Message, NEW calls, AllAsk(h, calls), Asks(m, calls)
    PROVE  AllAsk(Append(h, m), calls)
<1>1. \A i \in DOMAIN Append(h, m) : (i \in DOMAIN h /\ Append(h, m)[i] = h[i]) \/ Append(h, m)[i] = m
  OBVIOUS
<1>2. QED  BY <1>1 DEF AllAsk

LEMMA SubmitInputRebuilds ==
    ASSUME Shape, HInv, NEW r \in Runs, SubmitInput(r)
    PROVE  HInv'
<1> DEFINE m == UserMessage(r)
           e == ItemCompleted(r, MessageItem(r), m)
           history == Append(run[r].history, m)
           l == [run[r] EXCEPT !.pc = "drive", !.history = history]
<1>1. m \in Message /\ m.role = "user" /\ MessageItem(r) \in Item
  BY DEF UserMessage, Message, MessageItem, Intent, Item
<1>2. run[r].pc = "input" /\ run[r].batch = << >> /\ run[r].turn \in Runs /\ Active(r) /\ run[r].turn = r
  <2>1. run[r].pc = "input" /\ run[r].batch = << >> /\ run[r].turn \in Runs /\ Active(r)
    BY LoopStateType DEF SubmitInput, Active, Over
  <2>2. QED  BY <2>1, RunFacts
<1>3. run' = [run EXCEPT ![r] = l] /\ UNCHANGED <<scene, torn>> /\ stream' = stream \o <<e>>
  BY DEF SubmitInput, Shape, AppendEvents
<1>4. e \in Event /\ e.turn = run[r].turn /\ e.type = "item.completed" /\ e.message = m
  BY <1>1, <1>2 DEF ItemCompleted, Event, Completed
<1> HIDE DEF m, e
<1>5. history \in Seq(Message) /\ AllAsk(history, StartedCalls(stream)) /\ Asks(m, StartedCalls(stream))
  <2>1. Asks(m, StartedCalls(stream))
    BY <1>1 DEF Asks
  <2>2. QED  BY <1>1, <1>2, <2>1, LoopStateType, RunFacts, AppendAsks
<1> HIDE DEF history
<1>6. l \in LoopState /\ l.batch = << >> /\ l.entry = run[r].entry /\ l.turn = run[r].turn
      /\ l.pc = "drive" /\ l.history = history /\ l.todo = run[r].todo
  BY <1>2, <1>5, LoopStateType, ZenonT(60) DEF LoopState, Fields, Locations
<1> HIDE DEF l
<1>7. ASSUME MatchesIn(stream, run[r].turn), Holds(stream, run[r]) PROVE Stays(Append(stream, e), l)
  <2>1. run[r].history = HistoryNow(stream, run[r].turn)
    BY <1>2, <1>7, LoopStateType, HoldsHistory
  <2>2. /\ HistoryNow(Append(stream, e), run[r].turn) = Append(HistoryNow(stream, run[r].turn), m)
        /\ MatchesIn(Append(stream, e), run[r].turn)
    BY <1>2, <1>4, <1>7, RunFacts, CompletedIsRead
  <2>3. Holds(Append(stream, e), l)
    BY <1>6, <2>1, <2>2, HoldsIf DEF history
  <2>4. QED  BY <1>6, <2>2, <2>3 DEF Stays, Over
<1>8. AllAsk(l.history, StartedCalls(stream)) /\ AllOf(l.todo, StartedCalls(stream))
  BY <1>2, <1>5, <1>6, RunFacts
<1>9. QED  BY <1>2, <1>3, <1>4, <1>5, <1>6, <1>7, <1>8, Telling

LEMMA DriveRebuilds ==
    ASSUME Shape, HInv, NEW r \in Runs, Drive(r)
    PROVE  HInv'
<1> DEFINE left == Unanswered(run[r].history)
           todo == IntentsOf(r, left)
           at == IF todo = <<>> THEN "generate" ELSE "intents"
           l == [run[r] EXCEPT !.pc = at, !.todo = todo, !.mode = "leftover"]
<1>1. run[r].pc = "drive" /\ run[r].batch = << >> /\ run[r].turn \in Runs /\ Active(r)
  BY LoopStateType DEF Drive, Active, Over
<1>2. CASE Cancel(r)
  BY <1>1, <1>2, TerminalKeeps DEF Cancel, Over, Terminal
<1>3. CASE Ends(r, "failed", "turn.failed")
  BY <1>1, <1>3, TerminalKeeps DEF Over, Terminal
<1>4. CASE /\ run' = [run EXCEPT ![r].pc = IF todo = <<>> THEN "generate" ELSE "intents",
                                 ![r].todo = todo, ![r].mode = "leftover"]
           /\ UNCHANGED <<scene, stream, world, effects, faults, torn>>
  <2>1. left \in Seq(Calls) /\ left \in Seq(Calls \intersect StartedCalls(stream))
    BY <1>1, LoopStateType, UnansweredType, UnansweredAsked, RunFacts
  <2>2. todo \in Seq(Tool) /\ AllOf(todo, StartedCalls(stream))
    <3> HIDE DEF left
    <3>1. QED  BY <2>1, IntentsType, IntentsAreOf
  <2>3. run' = [run EXCEPT ![r] = l]
    BY <1>4 DEF Shape
  <2>4. at \in {"generate", "intents"} /\ Len(todo) >= 0
    BY <2>2
  <2> HIDE DEF todo, at
  <2>5. l \in LoopState /\ l.batch = << >> /\ l.entry = run[r].entry /\ l.turn = run[r].turn
        /\ l.pc = at /\ l.history = run[r].history /\ l.todo = todo
    BY <1>1, <2>2, <2>4, LoopStateType, ZenonT(60) DEF LoopState, Fields, Locations
  <2> HIDE DEF l
  <2>6. ASSUME MatchesIn(stream, run[r].turn), Holds(stream, run[r]) PROVE Stays(stream, l)
    <3>1. run[r].history = HistoryNow(stream, run[r].turn)
      BY <1>1, <2>6, LoopStateType, HoldsHistory
    <3>2. Holds(stream, l)
      BY <2>4, <2>5, <3>1, HoldsIf
    <3>3. QED  BY <2>4, <2>5, <2>6, <3>2 DEF Stays, Over
  <2>7. AllAsk(l.history, StartedCalls(stream)) /\ AllOf(l.todo, StartedCalls(stream))
    BY <1>1, <2>2, <2>5, RunFacts
  <2>8. l.pc \notin {"idle", "carry", "input"}
    BY <2>4, <2>5
  <2>9. QED  BY <1>1, <1>4, <2>3, <2>5, <2>6, <2>7, <2>8, Quietly
<1>5. QED  BY <1>2, <1>3, <1>4 DEF Drive

LEMMA NextBatchRebuilds ==
    ASSUME Shape, HInv, NEW r \in Runs, NextBatch(r)
    PROVE  HInv'
<1>1. run[r].pc = "intents" /\ run[r].batch = << >> /\ run[r].todo # << >> /\ Active(r)
  BY DEF NextBatch, Active, Over
<1>2. CASE Cancel(r)
  BY <1>1, <1>2, TerminalKeeps DEF Cancel, Over, Terminal
<1>3. CASE ~Cancel(r)
  <2> DEFINE n == BatchLength(run[r].todo)
             batch == [i \in 1 .. n |-> "ready"]
             l == [run[r] EXCEPT !.batch = batch]
  <2>1. n \in 1 .. Len(run[r].todo)
    BY <1>1, LoopStateType, BatchLengthType
  <2>2. batch \in Seq(Standings) /\ Len(batch) <= Len(run[r].todo) /\ Len(batch) = n
        /\ \A i \in DOMAIN batch : batch[i] = "ready"
    <3> HIDE DEF n
    <3>1. QED  BY <2>1, LoopStateType DEF Standings
  <2>3. run' = [run EXCEPT ![r] = l] /\ UNCHANGED <<scene, stream, torn>>
    BY <1>3 DEF NextBatch, Shape
  <2> HIDE DEF batch
  <2>4. l \in LoopState /\ l.batch = batch /\ l.entry = run[r].entry /\ l.turn = run[r].turn
        /\ l.pc = "intents" /\ l.history = run[r].history /\ l.todo = run[r].todo
    BY <1>1, <2>2, LoopStateType DEF LoopState, Fields
  <2> HIDE DEF l
  <2>5. ASSUME Sequential(run[r].turn), MatchesIn(stream, run[r].turn), Holds(stream, run[r])
        PROVE  Stays(stream, l)
    <3>1. run[r].history = HistoryNow(stream, run[r].turn)
      BY <1>1, <2>5, LoopStateType, HoldsHistory
    <3>2. run[r].todo[1].call \in StartedCalls(stream)
      <4>1. 1 \in DOMAIN run[r].todo
        BY <1>1, LoopStateType
      <4>2. QED  BY <1>1, <4>1, RunFacts DEF AllOf
    <3>3. run[r].todo[1].call \notin scene.parallel
      BY <2>5, <3>2 DEF Sequential, StartedCalls
    <3>4. n = 1
      BY <1>1, <3>3, LoopStateType, ExclusiveIsAlone
    <3>5. Len(batch) = 1 /\ batch[1] = "ready"
      <4>1. Len(batch) = 1 /\ 1 \in DOMAIN batch
        BY <2>2, <3>4
      <4>2. QED  BY <2>2, <4>1
    <3>6. BatchMessages(l.todo, l.batch) = << >>
      BY <2>2, <2>4, <3>5, LoopStateType, BatchOfOne DEF Recorded
    <3>7. l.history \o << >> = l.history
      BY <2>4, LoopStateType
    <3>8. Holds(stream, l)
      BY <2>4, <3>1, <3>5, <3>6, <3>7 DEF Holds
    <3>9. QED  BY <2>4, <2>5, <3>8 DEF Stays, Over
  <2>6. AllAsk(l.history, StartedCalls(stream)) /\ AllOf(l.todo, StartedCalls(stream))
    BY <1>1, <2>4, RunFacts
  <2>7. QED  BY <1>1, <2>3, <2>4, <2>5, <2>6, Quietly
<1>4. QED  BY <1>2, <1>3

LEMMA SettleRebuilds ==
    ASSUME Shape, HInv, NEW r \in Runs, Settle(r)
    PROVE  HInv'
<1> DEFINE at == CASE run[r].mode = "leftover" -> "generate"
                   [] run[r].mode = "tool_calls" -> "drive"
                   [] run[r].mode = "end_turn" -> "complete"
           next == run[r].step + 1
           l == [run[r] EXCEPT !.step = next, !.pc = at]
           e == Checkpoint(run[r].turn, next, run[r].history)
<1>1. /\ run[r].pc = "intents" /\ run[r].todo = << >> /\ run[r].turn \in Runs /\ Active(r)
      /\ run[r].mode \in {"leftover", "tool_calls", "end_turn"}
  BY LoopStateType DEF Settle, Active, Over
<1>2. run[r].batch = << >>
  BY <1>1, LoopStateType
<1>3. at \in {"generate", "drive", "complete"} /\ next \in Nat
  BY <1>1, LoopStateType
<1>4. e \in Event /\ e.turn = run[r].turn /\ e.type = "agent.checkpoint" /\ e.digest = run[r].history
  BY <1>1, <1>3, LoopStateType DEF Checkpoint, Event, Checkpointed
<1>5. stream' = stream \o <<e>> /\ UNCHANGED <<scene, torn>>
  BY DEF Settle, AppendEvents
<1>6. run' = [run EXCEPT ![r].step = next, ![r].pc = at]
  BY Zenon DEF Settle
<1> HIDE DEF at, next, e
<1>7. run' = [run EXCEPT ![r] = l]
  BY <1>6 DEF Shape
<1>8. l \in LoopState /\ l.batch = << >> /\ l.entry = run[r].entry /\ l.turn = run[r].turn
      /\ l.pc = at /\ l.history = run[r].history /\ l.todo = run[r].todo
  BY <1>1, <1>2, <1>3, LoopStateType, ZenonT(60) DEF LoopState, Fields, Locations
<1> HIDE DEF l
<1>9. ASSUME MatchesIn(stream, run[r].turn), Holds(stream, run[r]) PROVE Stays(Append(stream, e), l)
  <2>1. run[r].history = HistoryNow(stream, run[r].turn)
    BY <1>1, <1>2, <1>9, LoopStateType, HoldsHistory
  <2>2. /\ HistoryNow(Append(stream, e), run[r].turn) = HistoryNow(stream, run[r].turn)
        /\ MatchesIn(Append(stream, e), run[r].turn)
    BY <1>1, <1>4, <2>1, RunFacts, CheckpointIsRead
  <2>3. Holds(Append(stream, e), l)
    BY <1>3, <1>8, <2>1, <2>2, HoldsIf
  <2>4. QED  BY <1>3, <1>8, <2>2, <2>3 DEF Stays, Over
<1>10. AllAsk(l.history, StartedCalls(stream)) /\ AllOf(l.todo, StartedCalls(stream))
  BY <1>1, <1>8, RunFacts
<1>11. l.pc \notin {"idle", "carry", "input"} /\ e.type \notin {"turn.started", "item.completed"}
  BY <1>3, <1>4, <1>8
<1>12. QED  BY <1>1, <1>4, <1>5, <1>7, <1>8, <1>9, <1>10, <1>11, Telling

LEMMA CompleteRebuilds ==
    ASSUME Shape, HInv, NEW r \in Runs, Complete(r)
    PROVE  HInv'
<1>1. run[r].pc = "complete" /\ run[r].batch = << >> /\ Active(r)
  BY LoopStateType DEF Complete, Active, Over
<1>2. QED  BY <1>1, TerminalKeeps DEF Complete, Over, Terminal

LEMMA DecideRebuilds ==
    ASSUME Shape, HInv, NEW r \in Runs, Decide(r)
    PROVE  HInv'
<1> DEFINE l == [run[r] EXCEPT !.pc = "intents"]
           e == ApprovalCompleted(run[r].turn, run[r].item, run[r].approval)
<1>1. run[r].pc = "decide" /\ run[r].batch = << >> /\ run[r].turn \in Runs /\ Active(r)
  BY LoopStateType DEF Decide, Active, Over
<1>2. l \in LoopState /\ l.batch = << >> /\ l.entry = run[r].entry /\ l.turn = run[r].turn
      /\ l.pc = "intents" /\ l.history = run[r].history /\ l.todo = run[r].todo
  BY <1>1, LoopStateType DEF LoopState, Fields, Locations
<1>3. run' = [run EXCEPT ![r] = l] /\ stream' = stream \o <<e>> /\ UNCHANGED <<scene, torn>>
  BY DEF Decide, Shape, AppendEvents
<1>4. e \in Event /\ e.turn = run[r].turn /\ e.type = "approval.completed" /\ e.item = run[r].item
  BY <1>1, LoopStateType DEF ApprovalCompleted, Event, Answered
<1> HIDE DEF l, e
<1>5. ASSUME MatchesIn(stream, run[r].turn), Holds(stream, run[r]) PROVE Stays(Append(stream, e), l)
  <2>1. run[r].history = HistoryNow(stream, run[r].turn)
    BY <1>1, <1>5, LoopStateType, HoldsHistory
  <2>2. /\ HistoryNow(Append(stream, e), run[r].turn) = HistoryNow(stream, run[r].turn)
        /\ MatchesIn(Append(stream, e), run[r].turn)
    BY <1>1, <1>4, <1>5, RunFacts, ApprovalIsRead
  <2>3. Holds(Append(stream, e), l)
    BY <1>2, <2>1, <2>2, HoldsIf
  <2>4. QED  BY <1>2, <2>2, <2>3 DEF Stays, Over
<1>6. AllAsk(l.history, StartedCalls(stream)) /\ AllOf(l.todo, StartedCalls(stream))
  BY <1>1, <1>2, RunFacts
<1>7. QED  BY <1>1, <1>2, <1>3, <1>4, <1>5, <1>6, Telling

LEMMA ReportMismatchRebuilds ==
    ASSUME Shape, HInv, NEW r \in Runs, ReportMismatch(r)
    PROVE  HInv'
<1> DEFINE e == TurnEvent("agent.recovery_failed", run[r].turn)
<1>1. run[r].pc = "mismatch" /\ Active(r)
  BY DEF ReportMismatch, Active, Over
<1>2. e \in Event /\ e.turn = run[r].turn /\ e.type = "agent.recovery_failed"
  BY <1>1, RunFacts DEF TurnEvent, Event
<1>3. stream' = stream \o <<e>> /\ Ended(r, "refused") /\ UNCHANGED <<scene, torn>>
  BY DEF ReportMismatch, AppendEvents
<1> HIDE DEF e
<1>4. PICK l \in LoopState : /\ run' = [run EXCEPT ![r] = l] /\ l.pc = "refused" /\ l.turn = run[r].turn
                             /\ l.entry = run[r].entry /\ l.history = << >> /\ l.todo = << >>
  BY <1>1, <1>3, EndedType DEF Over
<1>5. AllAsk(l.history, StartedCalls(stream)) /\ AllOf(l.todo, StartedCalls(stream))
  BY <1>4, NothingAsked
<1>6. ~Holds(stream, run[r])
  BY <1>1 DEF Holds
<1>7. QED  BY <1>1, <1>2, <1>3, <1>4, <1>5, <1>6, Telling

-----------------------------------------------------------------------------
(* A batch of one call *)

LEMMA HoldsOne ==
    ASSUME NEW s, NEW l \in LoopState, Holds(s, l), l.pc = "intents", l.batch # << >>
    PROVE  /\ Len(l.batch) = 1 /\ DOMAIN l.batch = {1}
           /\ l.batch[1] \notin Recorded => l.history = HistoryNow(s, l.turn)
           /\ l.batch[1] \in Recorded => HistoryNow(s, l.turn) =
                 Append(l.history, ToolMessage(l.todo[1].call, l.batch[1] = "ok_recorded"))
           /\ l.batch[1] = "suspended" => IsCommittedIn(s, l.turn)
<1>1. l.todo \in Seq(Tool) /\ l.batch \in Seq(Standings) /\ l.history \in Seq(Message)
  BY DEF LoopState, Fields
<1>2. Len(l.batch) = 1 /\ DOMAIN l.batch = 1 .. 1
  <2>1. Len(l.batch) <= 1
    BY DEF Holds
  <2> DEFINE n == Len(l.batch)
  <2>2. n \in Nat /\ n # 0 /\ DOMAIN l.batch = 1 .. n
    BY <1>1
  <2> HIDE DEF n
  <2>3. n <= 1
    BY <2>1 DEF n
  <2>4. n = 1
    BY <2>2, <2>3
  <2>5. QED  BY <2>2, <2>4 DEF n
<1>3. DOMAIN l.batch = {1}
  BY <1>2
<1>4. BatchMessages(l.todo, l.batch) =
         IF l.batch[1] \in Recorded THEN <<ToolMessage(l.todo[1].call, l.batch[1] = "ok_recorded")>>
         ELSE << >>
  BY <1>1, <1>2, BatchOfOne
<1>5. l.history \o BatchMessages(l.todo, l.batch) = HistoryNow(s, l.turn)
  BY DEF Holds
<1> DEFINE m == ToolMessage(l.todo[1].call, l.batch[1] = "ok_recorded")
<1>6. l.history \o << >> = l.history /\ l.history \o <<m>> = Append(l.history, m)
  <2> HIDE DEF m
  <2>1. QED  BY <1>1
<1> HIDE DEF m
<1>7. /\ l.batch[1] \notin Recorded => l.history = HistoryNow(s, l.turn)
      /\ l.batch[1] \in Recorded => HistoryNow(s, l.turn) = Append(l.history, m)
  BY <1>4, <1>5, <1>6 DEF m
<1>8. l.batch[1] = "suspended" => IsCommittedIn(s, l.turn)
  BY DEF Holds
<1>9. QED  BY <1>2, <1>3, <1>7, <1>8 DEF m

LEMMA HoldsOneIf ==
    ASSUME NEW s, NEW l \in LoopState, l.pc = "intents", Len(l.batch) = 1,
           l.batch[1] \notin Recorded => l.history = HistoryNow(s, l.turn),
           l.batch[1] \in Recorded => HistoryNow(s, l.turn) =
              Append(l.history, ToolMessage(l.todo[1].call, l.batch[1] = "ok_recorded")),
           l.batch[1] = "suspended" => IsCommittedIn(s, l.turn)
    PROVE  Holds(s, l)
<1>1. l.todo \in Seq(Tool) /\ l.batch \in Seq(Standings) /\ l.history \in Seq(Message)
  BY DEF LoopState, Fields
<1>2. BatchMessages(l.todo, l.batch) =
         IF l.batch[1] \in Recorded THEN <<ToolMessage(l.todo[1].call, l.batch[1] = "ok_recorded")>>
         ELSE << >>
  BY <1>1, BatchOfOne
<1> DEFINE m == ToolMessage(l.todo[1].call, l.batch[1] = "ok_recorded")
<1>3. l.history \o << >> = l.history /\ l.history \o <<m>> = Append(l.history, m)
  <2> HIDE DEF m
  <2>1. QED  BY <1>1
<1> HIDE DEF m
<1>4. l.history \o BatchMessages(l.todo, l.batch) = HistoryNow(s, l.turn)
  BY <1>2, <1>3 DEF m
<1>5. l.batch # << >>
  BY <1>1
<1>6. QED  BY <1>4, <1>5 DEF Holds

\* Locals that differ from those of run r in where call i stands.
Moved(r, i, standing, l) ==
    /\ l \in LoopState /\ l.pc = "intents" /\ l.turn = run[r].turn
    /\ l.entry = run[r].entry /\ l.history = run[r].history /\ l.todo = run[r].todo
    /\ Len(l.batch) = Len(run[r].batch) /\ l.batch[i] = standing

LEMMA IntentMoves ==
    ASSUME Shape, NEW r \in Runs, NEW i \in DOMAIN run[r].batch, NEW standing \in Standings,
           run' = [run EXCEPT ![r].batch[i] = standing]
    PROVE  \E l : run' = [run EXCEPT ![r] = l] /\ Moved(r, i, standing, l)
<1> DEFINE batch == [run[r].batch EXCEPT ![i] = standing]
           l == [run[r] EXCEPT !.batch = batch]
<1>1. run' = [run EXCEPT ![r] = l]
  BY DEF Shape
<1>2. batch \in Seq(Standings) /\ Len(batch) = Len(run[r].batch) /\ batch[i] = standing
  BY LoopStateType
<1>3. run[r].pc = "intents"
  BY KeyType
<1> HIDE DEF batch
<1>4. l \in LoopState /\ l.batch = batch /\ l.entry = run[r].entry /\ l.turn = run[r].turn
      /\ l.todo = run[r].todo /\ l.pc = "intents" /\ l.history = run[r].history
  BY <1>2, <1>3, LoopStateType DEF LoopState, Fields
<1> HIDE DEF l
<1>5. Moved(r, i, standing, l)
  BY <1>2, <1>4 DEF Moved
<1>6. QED  BY <1>1, <1>5

\* The batch of run r is not empty, so its run is under way.
LEMMA InBatchIsActive ==
    ASSUME Shape, NEW r \in Runs, NEW i \in DOMAIN run[r].batch
    PROVE  Active(r) /\ run[r].pc = "intents" /\ run[r].batch # << >>
<1>1. run[r].pc = "intents"
  BY KeyType
<1>2. QED  BY <1>1 DEF Active, Over

\* Where a call stands that the stream does not tell of yet, or never will.
Untold == {"ready", "running", "acted", "ok", "error", "asked", "raised", "rejected"}

LEMMA RunningRebuilds ==
    ASSUME Shape, HInv, NEW r \in Runs, NEW i \in DOMAIN run[r].batch,
           run[r].batch[i] \in Untold, NEW standing \in Untold,
           run' = [run EXCEPT ![r].batch[i] = standing], UNCHANGED <<scene, stream, torn>>
    PROVE  HInv'
<1>1. standing \in Standings
  BY DEF Standings, Untold
<1>2. PICK l : run' = [run EXCEPT ![r] = l] /\ Moved(r, i, standing, l)
  BY <1>1, IntentMoves
<1>3. /\ l \in LoopState /\ l.pc = "intents" /\ l.turn = run[r].turn
      /\ l.entry = run[r].entry /\ l.history = run[r].history /\ l.todo = run[r].todo
      /\ Len(l.batch) = Len(run[r].batch) /\ l.batch[i] = standing
  BY <1>2 DEF Moved
<1>4. Active(r) /\ run[r].pc = "intents" /\ run[r].batch # << >> /\ run[r] \in LoopState
  BY InBatchIsActive, LoopStateType
<1>5. ASSUME MatchesIn(stream, run[r].turn), Holds(stream, run[r]) PROVE Stays(stream, l)
  <2>1. Len(run[r].batch) = 1 /\ i = 1 /\ run[r].batch[1] \notin Recorded
    BY <1>4, <1>5, HoldsOne DEF Recorded, Untold
  <2>2. run[r].history = HistoryNow(stream, run[r].turn)
    BY <1>4, <1>5, <2>1, HoldsOne
  <2>3. l.batch[1] \notin Recorded /\ l.batch[1] # "suspended" /\ Len(l.batch) = 1
    BY <1>3, <2>1 DEF Recorded, Untold
  <2>4. Holds(stream, l)
    BY <1>3, <2>2, <2>3, HoldsOneIf
  <2>5. QED  BY <1>3, <1>5, <2>4 DEF Stays, Over
<1>6. AllAsk(l.history, StartedCalls(stream)) /\ AllOf(l.todo, StartedCalls(stream))
  BY <1>3, <1>4, RunFacts
<1>7. QED  BY <1>2, <1>3, <1>4, <1>5, <1>6, Quietly

LEMMA DispatchRebuilds ==
    ASSUME Shape, HInv, NEW r \in Runs, NEW i, Dispatch(r, i)
    PROVE  HInv'
<1> DEFINE answer == Executes(world[KeyOf(r, i)], run[r].todo[i], run[r].approval)
           standing == answer[1]
<1>1. i \in DOMAIN run[r].batch /\ run[r].batch[i] = "ready"
  BY DEF Dispatch, Stands
<1>2. run' = [run EXCEPT ![r].batch[i] = standing] /\ UNCHANGED <<scene, stream, torn>>
  BY DEF Dispatch
<1>3. world[KeyOf(r, i)] \in Record /\ run[r].todo[i] \in Tool
  BY <1>1, KeyType
<1>4. standing \in Untold
  BY <1>3, ExecutesType DEF Untold
<1> HIDE DEF standing
<1>5. run[r].batch[i] \in Untold
  BY <1>1 DEF Untold
<1>6. QED  BY <1>1, <1>2, <1>4, <1>5, RunningRebuilds

\* What happens to a call that was dispatched before the stream tells of it.
LEMMA UntoldRebuilds ==
    ASSUME Shape, HInv, NEW r \in Runs, NEW i,
           \/ Perform(r, i) \/ (\E succeeded \in BOOLEAN : Result(r, i, succeeded))
           \/ ExecuteThrows(r, i) \/ RecordingRefused(r, i)
    PROVE  HInv'
<1>1. i \in DOMAIN run[r].batch /\ run[r].batch[i] \in Untold
  BY DEF Perform, Result, ExecuteThrows, RecordingRefused, Stands, Untold
<1>2. \E standing \in {"acted", "ok", "error", "rejected"} :
         run' = [run EXCEPT ![r].batch[i] = standing]
  BY DEF Perform, Result, ExecuteThrows, RecordingRefused
<1>3. UNCHANGED <<scene, stream, torn>>
  BY DEF Perform, Result, ExecuteThrows, RecordingRefused
<1>4. {"acted", "ok", "error", "rejected"} \subseteq Untold
  BY DEF Untold
<1>5. PICK standing \in Untold : run' = [run EXCEPT ![r].batch[i] = standing]
  BY <1>2, <1>4
<1>6. QED  BY <1>1, <1>3, <1>5, RunningRebuilds

LEMMA RecordResultRebuilds ==
    ASSUME Shape, HInv, NEW r \in Runs, NEW i, RecordResult(r, i)
    PROVE  HInv'
<1> DEFINE item == run[r].todo[i]
           ok == Stands(r, i, "ok")
           m == ToolMessage(item.call, ok)
           e == ItemCompleted(run[r].turn, item, m)
           standing == IF ok THEN "ok_recorded" ELSE "error_recorded"
<1>1. /\ stream' = stream \o <<e>> /\ run' = [run EXCEPT ![r].batch[i] = standing]
      /\ UNCHANGED <<scene, torn>>
  BY DEF RecordResult, AppendEvents
<1>2. i \in DOMAIN run[r].batch /\ run[r].batch[i] \in {"ok", "error"}
  BY DEF RecordResult, Stands
<1>3. standing \in Standings /\ standing \in Recorded /\ ok = (standing = "ok_recorded")
  BY DEF Standings, Recorded, Stands
<1>4. item \in Tool /\ item \in Item /\ run[r].turn \in Runs /\ item.call \in Calls /\ ok \in BOOLEAN
  BY <1>2, KeyType DEF Tool, Item, Stands
<1>5. m \in Message /\ m.role = "tool"
  BY <1>4 DEF ToolMessage, Message
<1>6. e \in Event /\ e.turn = run[r].turn /\ e.type = "item.completed" /\ e.message = m
  BY <1>4, <1>5 DEF ItemCompleted, Event, Completed
<1> HIDE DEF e, standing, ok
<1>7. PICK l : run' = [run EXCEPT ![r] = l] /\ Moved(r, i, standing, l)
  BY <1>1, <1>2, <1>3, IntentMoves
<1>8. /\ l \in LoopState /\ l.pc = "intents" /\ l.turn = run[r].turn
      /\ l.entry = run[r].entry /\ l.history = run[r].history /\ l.todo = run[r].todo
      /\ Len(l.batch) = Len(run[r].batch) /\ l.batch[i] = standing
  BY <1>7 DEF Moved
<1>9. Active(r) /\ run[r].pc = "intents" /\ run[r].batch # << >> /\ run[r] \in LoopState
  BY <1>2, InBatchIsActive, LoopStateType
<1>10. ASSUME MatchesIn(stream, run[r].turn), Holds(stream, run[r]) PROVE Stays(Append(stream, e), l)
  <2>1. Len(run[r].batch) = 1 /\ i = 1 /\ run[r].batch[1] \notin Recorded
    BY <1>2, <1>9, <1>10, HoldsOne DEF Recorded
  <2>2. run[r].history = HistoryNow(stream, run[r].turn)
    BY <1>9, <1>10, <2>1, HoldsOne
  <2>3. /\ HistoryNow(Append(stream, e), run[r].turn) = Append(HistoryNow(stream, run[r].turn), m)
        /\ MatchesIn(Append(stream, e), run[r].turn)
    BY <1>6, <1>9, <1>10, RunFacts, CompletedIsRead
  <2>4. l.batch[1] = standing /\ Len(l.batch) = 1 /\ m = ToolMessage(l.todo[1].call, l.batch[1] = "ok_recorded")
    BY <1>3, <1>7, <1>8, <2>1
  <2>5. l.batch[1] \in Recorded /\ l.batch[1] # "suspended"
    BY <1>3, <2>4 DEF Recorded
  <2>6. HistoryNow(Append(stream, e), l.turn) =
           Append(l.history, ToolMessage(l.todo[1].call, l.batch[1] = "ok_recorded"))
    BY <1>7, <1>8, <2>2, <2>3, <2>4
  <2>7. Holds(Append(stream, e), l)
    BY <1>7, <1>8, <2>4, <2>5, <2>6, HoldsOneIf
  <2>8. QED  BY <1>7, <1>8, <2>3, <2>7 DEF Stays, Over
<1>11. AllAsk(l.history, StartedCalls(stream)) /\ AllOf(l.todo, StartedCalls(stream))
  BY <1>7, <1>8, <1>9, RunFacts
<1>12. Asks(e.message, StartedCalls(stream))
  BY <1>5, <1>6 DEF Asks
<1>13. QED  BY <1>1, <1>6, <1>7, <1>8, <1>9, <1>10, <1>11, <1>12, Telling

LEMMA RaiseApprovalRebuilds ==
    ASSUME Shape, HInv, NEW r \in Runs, NEW i, RaiseApproval(r, i)
    PROVE  HInv'
<1> DEFINE e == ApprovalStarted(run[r].turn, run[r].todo[i])
           standing == "raised"
<1>1. /\ stream' = stream \o <<e>> /\ run' = [run EXCEPT ![r].batch[i] = standing]
      /\ UNCHANGED <<scene, torn>>
  BY DEF RaiseApproval, AppendEvents
<1>2. i \in DOMAIN run[r].batch /\ run[r].batch[i] = "asked" /\ standing \in Standings
  BY DEF RaiseApproval, Stands, Standings
<1>3. run[r].todo[i] \in Tool /\ run[r].turn \in Runs
  BY <1>2, KeyType
<1>4. /\ e \in Event /\ e.turn = run[r].turn /\ e.type = "approval.started" /\ e.item \in Tool
  BY <1>3 DEF ApprovalStarted, Event, Started
<1> HIDE DEF e, standing
<1>5. PICK l : run' = [run EXCEPT ![r] = l] /\ Moved(r, i, standing, l)
  BY <1>1, <1>2, IntentMoves
<1>6. /\ l \in LoopState /\ l.pc = "intents" /\ l.turn = run[r].turn
      /\ l.entry = run[r].entry /\ l.history = run[r].history /\ l.todo = run[r].todo
      /\ Len(l.batch) = Len(run[r].batch) /\ l.batch[i] = standing
  BY <1>5 DEF Moved
<1>7. Active(r) /\ run[r].pc = "intents" /\ run[r].batch # << >> /\ run[r] \in LoopState
  BY <1>2, InBatchIsActive, LoopStateType
<1>8. ASSUME MatchesIn(stream, run[r].turn), Holds(stream, run[r]) PROVE Stays(Append(stream, e), l)
  <2>1. Len(run[r].batch) = 1 /\ i = 1 /\ run[r].batch[1] \notin Recorded
    BY <1>2, <1>7, <1>8, HoldsOne DEF Recorded
  <2>2. run[r].history = HistoryNow(stream, run[r].turn)
    BY <1>7, <1>8, <2>1, HoldsOne
  <2>3. /\ HistoryNow(Append(stream, e), run[r].turn) = HistoryNow(stream, run[r].turn)
        /\ MatchesIn(Append(stream, e), run[r].turn)
    BY <1>4, <1>7, <1>8, <2>2, RunFacts, ApprovalIsRead
  <2>4. l.batch[1] = "raised" /\ Len(l.batch) = 1 /\ l.batch[1] \notin Recorded
    BY <1>5, <1>6, <2>1 DEF standing, Recorded
  <2>5. Holds(Append(stream, e), l)
    BY <1>4, <1>5, <1>6, <2>2, <2>3, <2>4, HoldsOneIf
  <2>6. QED  BY <1>5, <1>6, <2>3, <2>5 DEF Stays, Over
<1>9. AllAsk(l.history, StartedCalls(stream)) /\ AllOf(l.todo, StartedCalls(stream))
  BY <1>5, <1>6, <1>7, RunFacts
<1>10. QED  BY <1>1, <1>4, <1>5, <1>6, <1>7, <1>8, <1>9, Telling

LEMMA SuspendCheckpointRebuilds ==
    ASSUME Shape, HInv, NEW r \in Runs, NEW i, SuspendCheckpoint(r, i)
    PROVE  HInv'
<1> DEFINE next == run[r].step + 1
           e == Checkpoint(run[r].turn, next, run[r].history)
           standing == "suspended"
<1>1. /\ stream' = stream \o <<e>> /\ run' = [run EXCEPT ![r].batch[i] = standing]
      /\ UNCHANGED <<scene, torn>>
  BY DEF SuspendCheckpoint, AppendEvents
<1>2. i \in DOMAIN run[r].batch /\ run[r].batch[i] = "raised" /\ standing \in Standings
  BY DEF SuspendCheckpoint, Stands, Standings
<1>3. next \in Nat /\ run[r].history \in Seq(Message) /\ run[r].turn \in Runs
  BY <1>2, KeyType, LoopStateType
<1>4. /\ e \in Event /\ e.turn = run[r].turn /\ e.type = "agent.checkpoint"
      /\ e.digest = run[r].history
  BY <1>3 DEF Checkpoint, Event, Checkpointed
<1> HIDE DEF e, standing
<1>5. PICK l : run' = [run EXCEPT ![r] = l] /\ Moved(r, i, standing, l)
  BY <1>1, <1>2, IntentMoves
<1>6. /\ l \in LoopState /\ l.pc = "intents" /\ l.turn = run[r].turn
      /\ l.entry = run[r].entry /\ l.history = run[r].history /\ l.todo = run[r].todo
      /\ Len(l.batch) = Len(run[r].batch) /\ l.batch[i] = standing
  BY <1>5 DEF Moved
<1>7. Active(r) /\ run[r].pc = "intents" /\ run[r].batch # << >> /\ run[r] \in LoopState
  BY <1>2, InBatchIsActive, LoopStateType
<1>8. ASSUME MatchesIn(stream, run[r].turn), Holds(stream, run[r]) PROVE Stays(Append(stream, e), l)
  <2>1. Len(run[r].batch) = 1 /\ i = 1 /\ run[r].batch[1] = "raised" /\ run[r].batch[1] \notin Recorded
    BY <1>2, <1>7, <1>8, HoldsOne DEF Recorded
  <2>2. run[r].history = HistoryNow(stream, run[r].turn)
    BY <1>7, <1>8, <2>1, HoldsOne
  <2>3. /\ HistoryNow(Append(stream, e), run[r].turn) = HistoryNow(stream, run[r].turn)
        /\ MatchesIn(Append(stream, e), run[r].turn) /\ IsCommittedIn(Append(stream, e), run[r].turn)
    BY <1>4, <1>7, <2>2, RunFacts, CheckpointIsRead
  <2>4. l.batch[1] = "suspended" /\ Len(l.batch) = 1 /\ l.batch[1] \notin Recorded
    BY <1>5, <1>6, <2>1 DEF standing, Recorded
  <2>5. Holds(Append(stream, e), l)
    BY <1>5, <1>6, <2>2, <2>3, <2>4, HoldsOneIf
  <2>6. QED  BY <1>5, <1>6, <2>3, <2>5 DEF Stays, Over
<1>9. AllAsk(l.history, StartedCalls(stream)) /\ AllOf(l.todo, StartedCalls(stream))
  BY <1>5, <1>6, <1>7, RunFacts
<1>10. QED  BY <1>1, <1>4, <1>5, <1>6, <1>7, <1>8, <1>9, Telling

-----------------------------------------------------------------------------
(* The answer of the model, and the settled batch *)

\* The answer is completed after its items were started.
LEMMA AnswerRebuilds ==
    ASSUME Shape, HInv, NEW r \in Runs, Active(r), run[r].pc = "generate",
           NEW todo \in Seq(Tool), NEW mid, NEW e \in Event, NEW l \in LoopState, NEW m \in Message,
           mid = stream \o [i \in DOMAIN todo |-> ToolStarted(run[r].turn, todo[i])],
           e.turn = run[r].turn, e.type = "item.completed", e.message = m,
           Asks(m, StartedCalls(mid)),
           stream' = Append(mid, e), run' = [run EXCEPT ![r] = l], scene' = scene, torn' = torn,
           l.pc = "intents", l.turn = run[r].turn, l.entry = run[r].entry, l.batch = << >>,
           l.todo = todo, l.history = Append(run[r].history, m)
    PROVE  HInv'
<1>1. run[r].batch = << >> /\ run[r] \in LoopState /\ run[r].history \in Seq(Message)
  BY LoopStateType
<1>2. SUFFICES ASSUME NEW t \in Runs, run[r].turn = t PROVE HInv'
  BY RunFacts
<1>3. IsStarted(stream, t) /\ stream \in Seq(Event)
  BY <1>2, RunFacts
<1>4. /\ Extends(stream, mid, t) /\ Same(stream, mid, t) /\ AllOf(todo, StartedCalls(mid))
      /\ \A i \in DOMAIN mid : i \in DOMAIN stream \/ mid[i].type = "tool.started"
  BY <1>2, <1>3, StartsAreSilent
<1>5. mid \in Seq(Event) /\ IsStarted(mid, t)
  BY <1>4 DEF Extends, Same
<1>6. Extends(mid, stream', t)
  BY <1>2, <1>5, OneEvent
<1>7. Extends(stream, stream', t)
  BY <1>3, <1>4, <1>6, ExtendsGoesOn
<1>8. /\ IsStarted(stream', t)
      /\ HistoryNow(stream', t) = Append(HistoryNow(mid, t), m)
      /\ MatchesIn(mid, t) => MatchesIn(stream', t)
  BY <1>2, <1>5, CompletedIsRead
<1>9. StartedCalls(mid) \subseteq StartedCalls(stream')
  BY <1>5, <1>6, CallsStayStarted
<1>10. StartedCalls(stream) \subseteq StartedCalls(stream')
  BY <1>3, <1>7, CallsStayStarted
<1>11. Asks(m, StartedCalls(stream'))
  BY <1>9 DEF Asks
<1>12. NewAsk(stream, stream')
  <2>1. ASSUME NEW i \in DOMAIN stream', i \notin DOMAIN stream, stream'[i].type = "item.completed"
        PROVE  Asks(stream'[i].message, StartedCalls(stream'))
    <3>1. i \in DOMAIN mid => stream'[i] = mid[i]
      BY <1>6 DEF Extends
    <3>2. i \notin DOMAIN mid
      BY <1>4, <2>1, <3>1
    <3>3. stream'[i] = e
      <4>1. \A j \in DOMAIN Append(mid, e) : j \in DOMAIN mid \/ j = Len(mid) + 1
        BY <1>5, OneMore
      <4>2. Append(mid, e)[Len(mid) + 1] = e
        BY <1>5, OneMore
      <4>3. i = Len(mid) + 1
        BY <2>1, <3>2, <4>1
      <4>4. QED  BY <4>2, <4>3
    <3>4. QED  BY <1>11, <3>3
  <2>2. QED  BY <2>1 DEF NewAsk
<1>13. AllAsk(l.history, StartedCalls(stream')) /\ AllOf(l.todo, StartedCalls(stream'))
  <2>1. AllAsk(run[r].history, StartedCalls(stream'))
    BY <1>10, RunFacts, AskMore
  <2>2. AllAsk(l.history, StartedCalls(stream'))
    BY <1>1, <1>11, <2>1, AppendAsks
  <2>3. QED  BY <1>4, <1>9, <2>2 DEF AllOf
<1>14. ASSUME MatchesIn(stream, t), Holds(stream, run[r]) PROVE Stays(stream', l)
  <2>1. run[r].history = HistoryNow(stream, t)
    BY <1>1, <1>2, <1>14, HoldsHistory
  <2>2. HistoryNow(mid, t) = HistoryNow(stream, t) /\ MatchesIn(mid, t)
    BY <1>4, <1>14, <2>1 DEF Same
  <2>3. l.history = HistoryNow(stream', l.turn)
    BY <1>2, <1>8, <2>1, <2>2
  <2>4. Holds(stream', l)
    BY <2>3, HoldsIf
  <2>5. QED  BY <1>2, <1>8, <2>2, <2>4 DEF Stays, Over
<1>15. QED  BY <1>2, <1>7, <1>8, <1>12, <1>13, <1>14, ActiveMoves

LEMMA GenerateRebuilds ==
    ASSUME Shape, HInv, NEW r \in Runs, Generate(r)
    PROVE  HInv'
<1>1. run[r].pc = "generate" /\ run[r].batch = << >> /\ run[r].turn \in Runs /\ Active(r)
  BY LoopStateType DEF Generate, Active, Over
<1>2. CASE Cancel(r)
  BY <1>1, <1>2, TerminalKeeps DEF Cancel, Over, Terminal
<1>3. CASE Ends(r, "failed", "turn.failed")
  BY <1>1, <1>3, TerminalKeeps DEF Over, Terminal
<1>4. CASE ~Cancel(r) /\ ~Ends(r, "failed", "turn.failed")
  <2> DEFINE t == run[r].turn
             Todo(calls) == IntentsOf(r, calls)
             Message1(calls) == AssistantMessage(r, run[r].step, calls)
             Started1(calls) == [i \in DOMAIN Todo(calls) |-> ToolStarted(t, Todo(calls)[i])]
             Done(calls) == ItemCompleted(t, MessageItem(r), Message1(calls))
             Mode(calls) == IF calls = <<>> THEN "end_turn" ELSE "tool_calls"
  <2>1. PICK calls \in FreshCalls :
           /\ AppendEvents(Started1(calls) \o <<Done(calls)>>)
           /\ run' = [run EXCEPT ![r].pc = "intents", ![r].todo = Todo(calls),
                                 ![r].mode = Mode(calls),
                                 ![r].history = Append(@, Message1(calls))]
           /\ UNCHANGED <<scene, world, effects, faults, torn>>
    BY <1>4 DEF Generate
  <2> DEFINE todo == Todo(calls)
             m == Message1(calls)
             mode == Mode(calls)
             started == Started1(calls)
             e == Done(calls)
             mid == stream \o started
             history == Append(run[r].history, m)
             l == [run[r] EXCEPT !.pc = "intents", !.todo = todo, !.mode = mode,
                                 !.history = history]
  <2>2. calls \in Seq(Calls)
    BY FreshCallsType
  <2>3. todo \in Seq(Tool) /\ mode \in {"end_turn", "tool_calls"}
    BY <2>2, IntentsType
  <2>4. m \in Message /\ m.role = "assistant" /\ m.calls = calls /\ MessageItem(r) \in Item
    BY <2>2, LoopStateType DEF AssistantMessage, Message, MessageItem, Intent, Item
  <2>5. e \in Event /\ e.turn = t /\ e.type = "item.completed" /\ e.message = m
    BY <1>1, <2>4 DEF ItemCompleted, Event, Completed
  <2>6. started = [i \in DOMAIN todo |-> ToolStarted(t, todo[i])]
    OBVIOUS
  <2>7. /\ run' = [run EXCEPT ![r] = l] /\ stream' = stream \o (started \o <<e>>)
        /\ scene' = scene /\ torn' = torn
    BY <2>1 DEF AppendEvents, Shape
  <2>8. \A k \in DOMAIN calls : k \in DOMAIN todo /\ todo[k].call = calls[k]
    BY DEF IntentsOf, Intent
  <2> HIDE DEF todo, m, mode, started, e
  <2>9. started \in Seq(Event)
    <3>1. \A item \in Tool : ToolStarted(t, item) \in Event
      BY <1>1 DEF ToolStarted, Event, Started
    <3>2. \A i \in DOMAIN todo : ToolStarted(t, todo[i]) \in Event
      BY <2>3, <3>1
    <3>3. QED  BY <2>3, <2>6, <3>2
  <2>10. stream' = Append(mid, e)
    BY <2>5, <2>7, <2>9 DEF Shape
  <2>11. history \in Seq(Message) /\ Len(todo) >= 0
    BY <2>3, <2>4, LoopStateType
  <2> HIDE DEF history
  <2>12. l \in LoopState /\ l.batch = << >> /\ l.entry = run[r].entry /\ l.turn = run[r].turn
         /\ l.pc = "intents" /\ l.history = history /\ l.todo = todo
    BY <1>1, <2>3, <2>11, LoopStateType, ZenonT(60) DEF LoopState, Fields, Locations
  <2> HIDE DEF l
  <2>13. mid = stream \o [i \in DOMAIN todo |-> ToolStarted(run[r].turn, todo[i])]
    BY <2>6
  <2> HIDE DEF mid
  <2>14. Asks(m, StartedCalls(mid))
    <3>1. IsStarted(stream, run[r].turn) /\ stream \in Seq(Event)
      BY <1>1, RunFacts
    <3>2. AllOf(todo, StartedCalls(mid))
      BY <1>1, <2>3, <2>13, <3>1, StartsAreSilent
    <3>3. QED  BY <2>4, <2>8, <3>2 DEF Asks, AllOf
  <2>15. l.history = Append(run[r].history, m)
    BY <2>12 DEF history
  <2>16. QED
    BY <1>1, <2>3, <2>4, <2>5, <2>7, <2>10, <2>12, <2>13, <2>14, <2>15, AnswerRebuilds
<1>5. QED  BY <1>2, <1>3, <1>4

LEMMA RestIsOf ==
    ASSUME NEW todo \in Seq(Tool), NEW n \in Nat, n <= Len(todo), NEW calls, AllOf(todo, calls)
    PROVE  AllOf(SubSeq(todo, n + 1, Len(todo)), calls)
<1> DEFINE rest == SubSeq(todo, n + 1, Len(todo))
<1>1. \A i \in DOMAIN rest : n + i \in DOMAIN todo /\ rest[i] = todo[n + i]
  OBVIOUS
<1> HIDE DEF rest
<1>2. AllOf(rest, calls)
  BY <1>1 DEF AllOf
<1>3. QED  BY <1>2 DEF rest

\* The messages that answer calls ask for none.
LEMMA AnswersAsk ==
    ASSUME NEW todo \in Seq(Tool), NEW batch \in Seq(Standings), Len(batch) <= Len(todo),
           NEW h \in Seq(Message), NEW calls, AllAsk(h, calls)
    PROVE  AllAsk(h \o BatchMessages(todo, batch), calls)
<1> DEFINE ms == BatchMessages(todo, batch)
<1>1. ms \in Seq(Message)
  BY BatchMessagesType
<1>2. \A i \in DOMAIN ms : ms[i].role = "tool"
  BY DEF BatchMessages, ToolMessage
<1> HIDE DEF ms
<1>3. \A i \in DOMAIN (h \o ms) : (i \in DOMAIN h /\ (h \o ms)[i] = h[i])
                                  \/ (\E k \in DOMAIN ms : (h \o ms)[i] = ms[k])
  <2>1. ASSUME NEW i \in DOMAIN (h \o ms), i \notin DOMAIN h
        PROVE  i - Len(h) \in DOMAIN ms /\ (h \o ms)[i] = ms[i - Len(h)]
    BY <1>1, <2>1
  <2>2. \A i \in DOMAIN h : (h \o ms)[i] = h[i]
    BY <1>1
  <2>3. QED  BY <2>1, <2>2
<1>4. AllAsk(h \o ms, calls)
  BY <1>2, <1>3 DEF AllAsk, Asks
<1>5. QED  BY <1>4 DEF ms

LEMMA CommitRebuilds ==
    ASSUME Shape, HInv, NEW r \in Runs, Commit(r)
    PROVE  HInv'
<1>1. run[r].batch # << >> /\ UNCHANGED <<scene, stream, torn>>
  BY DEF Commit
<1>2. run[r].pc = "intents" /\ run[r].turn \in Runs /\ run[r] \in LoopState
  BY <1>1, LoopStateType
<1>3. Active(r)
  BY <1>2 DEF Active, Over
<1>4. CASE \E i \in DOMAIN run[r].batch : run[r].batch[i] = "suspended"
  <2>1. Ended(r, "suspended")
    BY <1>4 DEF Commit
  <2>2. PICK l \in LoopState : /\ run' = [run EXCEPT ![r] = l] /\ l.pc = "suspended" /\ l.turn = run[r].turn
                               /\ l.entry = run[r].entry /\ l.history = << >> /\ l.todo = << >>
    BY <1>2, <2>1, EndedType DEF Over
  <2>3. AllAsk(l.history, StartedCalls(stream)) /\ AllOf(l.todo, StartedCalls(stream))
    BY <2>2, NothingAsked
  <2>4. ASSUME MatchesIn(stream, run[r].turn), Holds(stream, run[r]) PROVE Stays(stream, l)
    <3>1. run[r].batch[1] = "suspended"
      BY <1>1, <1>2, <1>4, <2>4, HoldsOne
    <3>2. IsCommittedIn(stream, run[r].turn)
      BY <1>1, <1>2, <2>4, <3>1, HoldsOne
    <3>3. QED  BY <2>2, <2>4, <3>2 DEF Stays, CanResume, Over
  <2>5. QED  BY <1>1, <1>3, <2>2, <2>3, <2>4, Quietly
<1>5. CASE \A i \in DOMAIN run[r].batch : run[r].batch[i] # "suspended"
  <2> DEFINE n == Len(run[r].batch)
             rest == SubSeq(run[r].todo, n + 1, Len(run[r].todo))
             messages == BatchMessages(run[r].todo, run[r].batch)
             at == IF run[r].mode = "decided" THEN "drive" ELSE run[r].pc
             history == run[r].history \o messages
             none == << >>
             l == [run[r] EXCEPT !.history = history, !.todo = rest, !.batch = none,
                                 !.pc = at, !.approval = "none"]
  <2>1. rest \in Seq(Tool) /\ messages \in Seq(Message) /\ AllOf(rest, StartedCalls(stream))
    <3>1. n \in Nat /\ n <= Len(run[r].todo)
      BY LoopStateType
    <3> HIDE DEF n
    <3>2. QED  BY <1>3, <3>1, LoopStateType, BatchMessagesType, RestType, RestIsOf, RunFacts
  <2>2. at \in {"drive", "intents"}
    BY <1>2
  <2>3. Commits(r, rest, none)
    BY <1>5 DEF Commit
  <2>4. run' = [run EXCEPT ![r] = l]
    BY <2>3 DEF Commits, Shape
  <2>5. AllAsk(history, StartedCalls(stream))
    BY <1>3, LoopStateType, RunFacts, AnswersAsk
  <2> HIDE DEF rest, messages, at
  <2>6. history \in Seq(Message) /\ Len(rest) \in Nat /\ none \in Seq(Standings)
    BY <2>1, LoopStateType
  <2>7. l \in LoopState /\ l.batch = none /\ l.entry = run[r].entry /\ l.turn = run[r].turn
        /\ l.pc = at /\ l.history = history /\ l.todo = rest
    <3> HIDE DEF history, none
    <3>0. run[r] \in Fields /\ at \in Locations /\ "none" \in {"none", "approved", "rejected"}
      BY <2>2, LoopStateType DEF Locations
    <3>1. /\ l \in Fields /\ l.batch = none /\ l.entry = run[r].entry /\ l.todo = rest
          /\ l.turn = run[r].turn /\ l.mode = run[r].mode /\ l.pc = at /\ l.history = history
      BY <2>1, <2>6, <3>0 DEF Fields
    <3>2. l.turn \in Runs /\ l.mode # "none"
      BY <1>2, <3>1, LoopStateType
    <3>3. none = << >> /\ Len(none) = 0
      BY DEF none
    <3> HIDE DEF l
    <3>4. QED  BY <2>6, <3>1, <3>2, <3>3 DEF LoopState
  <2> HIDE DEF l
  <2>8. ASSUME MatchesIn(stream, run[r].turn), Holds(stream, run[r]) PROVE Stays(stream, l)
    <3>1. history = HistoryNow(stream, run[r].turn)
      BY <1>2, <2>8 DEF Holds, messages
    <3>2. Holds(stream, l)
      BY <2>2, <2>7, <3>1, HoldsIf
    <3>3. QED  BY <2>2, <2>7, <2>8, <3>2 DEF Stays, Over
  <2>9. AllAsk(l.history, StartedCalls(stream)) /\ AllOf(l.todo, StartedCalls(stream))
    BY <2>1, <2>5, <2>7
  <2>10. l.pc \notin {"idle", "carry", "input"}
    BY <2>2, <2>7
  <2>11. QED  BY <1>1, <1>3, <2>4, <2>7, <2>8, <2>9, <2>10, Quietly
<1>6. QED  BY <1>4, <1>5

-----------------------------------------------------------------------------
(* Turns that are taken up, turns that start, and the crash *)

\* A started turn is taken up by a run that had none.
LEMMA TakenUp ==
    ASSUME Shape, HInv, NEW r \in Runs, MayStart(r), NEW t \in Turns, NEW l \in LoopState,
           l.turn = t, l.entry \in {"resumeTurn", "recoverTurn"}, l.pc \notin {"idle", "carry", "input"},
           run' = [run EXCEPT ![r] = l], UNCHANGED <<scene, stream, torn>>,
           AllAsk(l.history, StartedCalls(stream)), AllOf(l.todo, StartedCalls(stream)),
           MatchesIn(stream, t) /\ CanResume(stream, t) /\ ~IsOver(stream, t) => Stays(stream, l)
    PROVE  HInv'
<1>1. /\ run[r].pc = "idle" /\ run[r].entry = "none" /\ t \in Runs /\ stream \in Seq(Event)
      /\ IsStarted(stream, t) /\ stream' = stream
  BY DEF MayStart, HInv, TurnsAreKnown, Shape, Turns
<1>2. run \in [Runs -> LoopState] /\ run'[r] = l /\ \A x \in Runs : x # r => run'[x] = run[x]
  BY DEF Shape
<1>3. Extends(stream, stream', t) /\ IsStarted(stream', t)
  BY <1>1, NoEvents
<1>4. NewAsk(stream, stream')
  BY <1>1 DEF NewAsk
<1>5. CallsAreStarted'
  BY <1>1, <1>3, <1>4, CallsKeep DEF HInv
<1>6. ASSUME t \notin torn', Sequential(t)' PROVE Stays(stream', l)
  <2>1. Sequential(t) /\ scene.active = 1
    BY <1>1, <1>6 DEF Sequential, TurnIsActive
  <2>2. ~IsOver(stream, t)
    BY <2>1, ReadsTheStream DEF Sequential
  <2>3. \A x \in Runs : ~Active(x)
    <3>1. \A x \in Runs : Active(x) => x = r
      BY <2>1, NobodyElse DEF HInv
    <3>2. ~Active(r)
      BY <1>1 DEF Active, Over
    <3>3. QED  BY <3>1, <3>2
  <2>4. MatchesIn(stream, t) /\ CanResume(stream, t)
    BY <1>6, <2>1, <2>3 DEF HInv, Rebuilds
  <2>5. QED  BY <1>1, <2>2, <2>4
<1>7. scene' = scene /\ torn \subseteq torn' /\ l.pc # "idle" /\ (l.pc \in {"carry", "input"} => l.entry = "runTurn")
  OBVIOUS
<1>8. QED  BY <1>1, <1>3, <1>5, <1>6, <1>7, StepKeeps

LEMMA HistoryAsks ==
    ASSUME Shape, HInv, NEW t \in Turns
    PROVE  AllAsk(RebuiltHistory(t, CommitSequence(t)), StartedCalls(stream))
<1> DEFINE n == CommitSequence(t)
<1>1. n \in 0 .. Len(stream)
  BY CommitSequenceType
<1> HIDE DEF n
<1>2. t \in Runs /\ IsStarted(stream, t)
  BY DEF Turns, HInv, TurnsAreKnown
<1>3. AllAsk(HistoryIn(stream, t, n), StartedCalls(stream))
  BY <1>1, <1>2, HistoriesAsk DEF HInv
<1>4. RebuiltHistory(t, n) = HistoryIn(stream, t, n)
  BY ReadsTheStream
<1>5. QED  BY <1>3, <1>4 DEF n

LEMMA RecoverTurnRebuilds ==
    ASSUME Shape, HInv, NEW r \in Runs, RecoverTurn(r)
    PROVE  HInv'
<1> DEFINE At(t) == IF PendingApprovals(t) = {} /\ TurnIsActive(t) THEN "drive" ELSE "refused"
<1>1. PICK t \in Turns : run' = [run EXCEPT ![r] = Rebuilt(r, "recoverTurn", t, At(t))]
  BY DEF RecoverTurn
<1>2. UNCHANGED <<scene, stream, torn>> /\ MayStart(r)
  BY DEF RecoverTurn
<1> DEFINE at == At(t)
           rebuilt == Rebuilt(r, "recoverTurn", t, at)
<1>3. at \in {"drive", "refused"} /\ t \in Runs
  BY DEF Turns
<1>4. /\ rebuilt \in Fields /\ rebuilt.batch = << >> /\ rebuilt.pc \in {at, "mismatch"}
      /\ rebuilt.turn = t /\ rebuilt.entry = "recoverTurn" /\ rebuilt.todo = << >>
  <2> HIDE DEF at
  <2>1. QED  BY <1>3, RebuiltType
<1>5. /\ rebuilt.history = RebuiltHistory(t, CommitSequence(t))
      /\ rebuilt.pc = "mismatch" <=> ~DigestMatches(t)
  <2>1. Idle \in Fields
    BY IdleType DEF LoopState
  <2>2. QED  BY <1>3, <2>1 DEF Rebuilt, Fields
<1>6. run' = [run EXCEPT ![r] = rebuilt]
  BY <1>1
<1> HIDE DEF at, rebuilt
<1>7. rebuilt \in LoopState
  BY <1>3, <1>4 DEF LoopState
<1>8. AllAsk(rebuilt.history, StartedCalls(stream)) /\ AllOf(rebuilt.todo, StartedCalls(stream))
  BY <1>3, <1>4, <1>5, HistoryAsks, NothingAsked
<1>9. rebuilt.pc \notin {"idle", "carry", "input"}
  BY <1>3, <1>4
<1>10. ASSUME MatchesIn(stream, t), CanResume(stream, t), ~IsOver(stream, t)
       PROVE  Stays(stream, rebuilt)
  <2>1. rebuilt.pc # "mismatch" /\ rebuilt.history = HistoryIn(stream, t, CommitIn(stream, t))
    BY <1>5, <1>10, ReadsTheStream
  <2>2. rebuilt.history = HistoryNow(stream, t)
    BY <1>10, <2>1 DEF CanResume, IsCommittedIn
  <2>3. rebuilt.pc \notin Over => Holds(stream, rebuilt)
    BY <1>3, <1>4, <1>7, <1>9, <2>1, <2>2, HoldsIf
  <2>4. QED  BY <1>4, <1>10, <2>3 DEF Stays
<1>11. QED  BY <1>2, <1>4, <1>6, <1>7, <1>8, <1>9, <1>10, TakenUp

LEMMA ResumeTurnRebuilds ==
    ASSUME Shape, HInv, NEW r \in Runs, ResumeTurn(r)
    PROVE  HInv'
<1> DEFINE Pending(t, a) == a \in PendingApprovals(t)
           At(t, a) == IF Pending(t, a) THEN "decide" ELSE "refused"
           Tool1(t, a) == stream[Max(ActiveToolItems(t, stream[a].item.call))].item
<1> DEFINE Resumes(t, decision, a) ==
             run' = [run EXCEPT ![r] =
               IF Rebuilt(r, "resumeTurn", t, At(t, a)).pc = "decide"
               THEN [Rebuilt(r, "resumeTurn", t, At(t, a)) EXCEPT
                        !.approval = decision, !.todo = <<Tool1(t, a)>>,
                        !.mode = "decided", !.item = stream[a].item]
               ELSE Rebuilt(r, "resumeTurn", t, At(t, a))]
<1>0. PICK t \in Turns, decision \in {"approved", "rejected"} :
         \E a \in OpenApprovals(t) : Resumes(t, decision, a)
  BY DEF ResumeTurn
<1>1. PICK a \in OpenApprovals(t) : Resumes(t, decision, a)
  BY <1>0
<1>2. UNCHANGED <<scene, stream, torn>> /\ MayStart(r)
  BY DEF ResumeTurn
<1> DEFINE at == At(t, a)
           rebuilt == Rebuilt(r, "resumeTurn", t, at)
           tool == Tool1(t, a)
<1>3. at \in {"decide", "refused"} /\ (at = "decide" => Pending(t, a)) /\ t \in Runs
  BY DEF Turns
<1>4. /\ rebuilt \in Fields /\ rebuilt.batch = << >> /\ rebuilt.pc \in {at, "mismatch"}
      /\ rebuilt.turn = t /\ rebuilt.entry = "resumeTurn" /\ rebuilt.todo = << >>
  <2> HIDE DEF at
  <2>1. QED  BY <1>3, RebuiltType
<1>5. /\ rebuilt.history = RebuiltHistory(t, CommitSequence(t))
      /\ rebuilt.pc = "mismatch" <=> ~DigestMatches(t)
  <2>1. Idle \in Fields
    BY IdleType DEF LoopState
  <2>2. QED  BY <1>3, <2>1 DEF Rebuilt, Fields
<1>6. /\ stream \in Seq(Event) /\ Len(stream) \in Nat /\ DOMAIN stream = 1 .. Len(stream)
      /\ a \in DOMAIN stream /\ stream[a].type = "approval.started"
  BY DEF Shape, OpenApprovals
<1>7. AllAsk(rebuilt.history, StartedCalls(stream))
  BY <1>3, <1>5, HistoryAsks
<1>8. /\ rebuilt.history = HistoryIn(stream, t, CommitIn(stream, t))
      /\ MatchesIn(stream, t) => rebuilt.pc # "mismatch"
  BY <1>5, ReadsTheStream
<1>9. CASE rebuilt.pc = "decide"
  <2>1. Pending(t, a)
    BY <1>3, <1>4, <1>9
  <2>2. ActiveToolItems(t, stream[a].item.call) # {}
    <3> DEFINE eligible == {i \in OpenApprovals(t) : ActiveToolItems(t, stream[i].item.call) # {}}
    <3>1. PendingApprovals(t) = IF eligible = {} THEN {} ELSE {Min(eligible)}
      BY DEF PendingApprovals
    <3>2. eligible \in SUBSET (1 .. Len(stream))
      BY <1>6 DEF OpenApprovals
    <3>3. eligible # {} /\ a = Min(eligible)
      BY <2>1, <3>1
    <3>4. a \in eligible
      <4> HIDE DEF eligible
      <4>1. QED  BY <1>6, <3>2, <3>3, FirstAndLast
    <3>5. QED  BY <3>4
  <2>3. tool \in Tool /\ tool.call \in StartedCalls(stream)
    <3> DEFINE items == ActiveToolItems(t, stream[a].item.call)
    <3>1. items \in SUBSET (1 .. Len(stream))
      BY <1>6 DEF ActiveToolItems
    <3>2. Max(items) \in items
      <4> HIDE DEF items
      <4>1. items # {}
        BY <2>2 DEF items
      <4>2. QED  BY <1>6, <3>1, <4>1, FirstAndLast
    <3>3. /\ Max(items) \in DOMAIN stream /\ stream[Max(items)].type = "tool.started"
      BY <3>2 DEF ActiveToolItems
    <3> HIDE DEF items
    <3>4. stream[Max(items)] \in Event
      BY <1>6, <3>3
    <3>5. stream[Max(items)].item \in Tool
      BY <3>3, <3>4 DEF Event, Completed, Started, Checkpointed, Answered, Terminal
    <3>6. stream[Max(items)].item.call \in StartedCalls(stream)
      BY <3>3 DEF StartedCalls
    <3>7. QED  BY <3>5, <3>6 DEF items
  <2>4. stream[a].item \in Item
    <3>1. stream[a].type = "approval.started" /\ stream[a] \in Event
      BY <1>6
    <3>2. stream[a].item \in Tool
      BY <3>1 DEF Event, Completed, Started, Checkpointed, Answered, Terminal
    <3>3. QED  BY <3>2 DEF Tool, Item
  <2> DEFINE todo == <<tool>>
             item == stream[a].item
             l == [rebuilt EXCEPT !.approval = decision, !.todo = todo,
                                  !.mode = "decided", !.item = item]
  <2>5. run' = [run EXCEPT ![r] = l]
    BY <1>1, <1>9
  <2>6. todo \in Seq(Tool) /\ Len(todo) = 1 /\ item \in Item /\ AllOf(todo, StartedCalls(stream))
    <3> HIDE DEF tool
    <3>1. QED  BY <2>3, <2>4 DEF AllOf
  <2> HIDE DEF tool, todo, item, at, rebuilt
  <2>7. l \in LoopState /\ l.batch = << >> /\ l.entry = "resumeTurn" /\ l.pc = "decide" /\ l.turn = t
        /\ l.history = rebuilt.history /\ l.todo = todo /\ l.item = item
    <3>1. /\ l \in Fields /\ l.batch = rebuilt.batch /\ l.entry = rebuilt.entry /\ l.todo = todo
          /\ l.turn = rebuilt.turn /\ l.mode = "decided" /\ l.history = rebuilt.history
          /\ l.item = item /\ l.pc = rebuilt.pc
      BY <1>4, <2>6 DEF Fields
    <3> HIDE DEF l
    <3>2. l.batch = << >> /\ Len(l.batch) = 0 /\ l.turn \in Runs
      BY <1>3, <1>4, <3>1
    <3>3. QED  BY <1>4, <1>9, <2>6, <3>1, <3>2 DEF LoopState
  <2> HIDE DEF l
  <2>8. ASSUME MatchesIn(stream, t), CanResume(stream, t), ~IsOver(stream, t)
        PROVE  Stays(stream, l)
    <3>1. l.history = HistoryNow(stream, t)
      BY <1>8, <2>7, <2>8 DEF CanResume, IsCommittedIn
    <3>2. Holds(stream, l)
      BY <2>7, <3>1, HoldsIf
    <3>3. QED  BY <2>7, <2>8, <3>2 DEF Stays, Over
  <2>9. AllAsk(l.history, StartedCalls(stream)) /\ AllOf(l.todo, StartedCalls(stream))
    BY <1>7, <2>6, <2>7
  <2>10. QED  BY <1>2, <2>5, <2>7, <2>8, <2>9, TakenUp
<1>10. CASE rebuilt.pc # "decide"
  <2>1. run' = [run EXCEPT ![r] = rebuilt]
    BY <1>1, <1>10
  <2> HIDE DEF at, rebuilt
  <2>2. rebuilt \in LoopState /\ rebuilt.pc \in {"refused", "mismatch"}
    BY <1>3, <1>4, <1>10 DEF LoopState
  <2>3. AllOf(rebuilt.todo, StartedCalls(stream))
    BY <1>4, NothingAsked
  <2>4. ASSUME MatchesIn(stream, t), CanResume(stream, t) PROVE Stays(stream, rebuilt)
    BY <1>4, <1>8, <2>2, <2>4 DEF Stays, Over
  <2>5. rebuilt.pc \notin {"idle", "carry", "input"}
    BY <2>2
  <2>6. QED  BY <1>2, <1>4, <1>7, <2>1, <2>2, <2>3, <2>4, <2>5, TakenUp
<1>11. QED  BY <1>9, <1>10

\* A turn that just started has nothing but what came before it.
LEMMA FreshTurn ==
    ASSUME NEW s \in Seq(Event), NEW t \in Runs, \A i \in DOMAIN s : s[i].turn # t,
           NEW e, e = TurnEvent("turn.started", t), NEW u, u = Append(s, e)
    PROVE  /\ u \in Seq(Event) /\ IsStarted(u, t) /\ Extends(s, u, t)
           /\ messagesFromEvents(u) = HistoryNow(u, t)
           /\ MatchesIn(u, t)
<1>1. e \in Event /\ e.turn = t /\ e.type = "turn.started"
  BY DEF TurnEvent, Event
<1>2. /\ u \in Seq(Event) /\ Len(u) = Len(s) + 1 /\ Len(s) \in Nat
      /\ Len(s) + 1 \in DOMAIN u /\ Len(s) + 1 \notin DOMAIN s
      /\ u[Len(s) + 1] = e
      /\ \A i \in DOMAIN s : u[i] = s[i] /\ i \in DOMAIN u
      /\ \A i \in DOMAIN u : i \in DOMAIN s \/ i = Len(s) + 1
      /\ SubSeq(u, 1, Len(s)) = s /\ SubSeq(u, 1, Len(u)) = u
  <2>1. Len(s) \in 0 .. Len(s)
    OBVIOUS
  <2>2. QED  BY <1>1, <2>1, OneMore
<1>3. \A i \in DOMAIN u : u[i].turn = t => i = Len(s) + 1
  BY <1>2
<1>4. Extends(s, u, t)
  BY <1>1, OneEvent
<1>5. IsStarted(u, t)
  BY <1>2, <1>3 DEF IsStarted
<1>6. StartedIn(u, t) = Len(s) + 1
  <2>1. \A i \in DOMAIN u : u[i] = e <=> i = Len(s) + 1
    BY <1>1, <1>2, <1>3
  <2>2. QED  BY <1>2, <2>1, Zenon DEF StartedIn
<1>7. messagesFromEvents(u) = messagesFromEvents(s) /\ messagesFromEvents(s) \in Seq(Message)
  BY <1>1, MessagesGrow, MessagesType
<1>8. messagesFromEvents(OfTurn(u, t)) = << >>
  BY <1>1, OwnGrows, NoneOfTurn, NoMessages
<1>9. HistoryNow(u, t) = messagesFromEvents(s) \o << >>
  <2>1. StartedIn(u, t) - 1 = Len(s)
    BY <1>2, <1>6
  <2>2. QED  BY <1>2, <1>8, <2>1 DEF HistoryNow, HistoryIn
<1>10. messagesFromEvents(u) = HistoryNow(u, t)
  <2> DEFINE ms == messagesFromEvents(s)
  <2>1. ms \in Seq(Message) /\ HistoryNow(u, t) = ms \o << >> /\ messagesFromEvents(u) = ms
    BY <1>7, <1>9
  <2> HIDE DEF ms
  <2>2. ms \o << >> = ms
    BY <2>1
  <2>3. QED  BY <2>1, <2>2
<1>11. CheckpointsIn(u, t) = {}
  BY <1>1, <1>2, <1>3 DEF CheckpointsIn
<1>12. QED  BY <1>2, <1>4, <1>5, <1>10, <1>11 DEF MatchesIn

LEMMA RunTurnRebuilds ==
    ASSUME Shape, HInv, NEW r \in Runs, RunTurn(r)
    PROVE  HInv'
<1> DEFINE l == [Idle EXCEPT !.pc = "carry", !.entry = "runTurn", !.turn = r]
           e == TurnEvent("turn.started", r)
<1>1. /\ l \in LoopState /\ l.batch = << >> /\ l.entry = "runTurn" /\ l.pc = "carry" /\ l.turn = r
      /\ l.todo = << >> /\ l.history = << >>
  <2>1. Idle.history = << >>
    BY DEF Idle
  <2>2. QED  BY <2>1, IdleType DEF LoopState, Fields, Locations
<1>2. /\ run' = [run EXCEPT ![r] = l] /\ stream' = stream \o <<e>>
      /\ scene' = scene /\ torn' = torn /\ MayStart(r)
  BY DEF RunTurn, AppendEvents
<1>3. e \in Event /\ e.turn = r /\ e.type = "turn.started" /\ stream \in Seq(Event)
  BY DEF TurnEvent, Event, Shape
<1> HIDE DEF l
<1>4. stream' = Append(stream, e)
  BY <1>2, <1>3, OneIsLast
<1>5. \A i \in DOMAIN stream : stream[i].turn # r
  <2>1. r \notin Turns
    BY <1>2 DEF MayStart, HInv, TurnsAreKnown, Turns
  <2>2. QED  BY <2>1 DEF HInv, TurnsAreKnown
<1>6. /\ IsStarted(stream', r) /\ Extends(stream, stream', r)
      /\ messagesFromEvents(stream') = HistoryNow(stream', r)
      /\ MatchesIn(stream', r)
  <2> DEFINE u == Append(stream, e)
  <2>1. /\ IsStarted(u, r) /\ Extends(stream, u, r) /\ messagesFromEvents(u) = HistoryNow(u, r)
        /\ MatchesIn(u, r)
    <3> HIDE DEF e, u
    <3>1. u = Append(stream, e) /\ e = TurnEvent("turn.started", r)
      BY DEF u, e
    <3>2. QED  BY <1>3, <1>5, <3>1, FreshTurn
  <2>2. QED  BY <1>4, <2>1
<1>7. NewAsk(stream, stream')
  <2>1. \A i \in DOMAIN stream' : i \in DOMAIN stream \/ stream'[i] = e
    <3>1. /\ \A i \in DOMAIN Append(stream, e) : i \in DOMAIN stream \/ i = Len(stream) + 1
          /\ Append(stream, e)[Len(stream) + 1] = e
      BY <1>3, OneMore
    <3>2. QED  BY <1>4, <3>1
  <2>2. QED  BY <1>3, <2>1 DEF NewAsk
<1> HIDE DEF e
<1>8. AllAsk(l.history, StartedCalls(stream')) /\ AllOf(l.todo, StartedCalls(stream'))
  BY <1>1, NothingAsked
<1>9. CallsAreStarted'
  BY <1>1, <1>2, <1>6, <1>7, <1>8, CallsKeep DEF HInv
<1>10. Stays(stream', l)
  <2>1. Len(l.batch) <= 1
    BY <1>1
  <2>2. Holds(stream', l)
    BY <1>1, <1>6, <2>1 DEF Holds
  <2>3. QED  BY <1>1, <1>6, <2>2 DEF Stays, Over
<1>11. QED  BY <1>1, <1>2, <1>6, <1>9, <1>10, StepKeeps

LEMMA CrashRebuilds ==
    ASSUME Shape, HInv, Crash
    PROVE  HInv'
<1> DEFINE lost(r) == [Idle EXCEPT !.pc = "lost", !.entry = run[r].entry, !.turn = run[r].turn]
<1>1. /\ scene' = scene /\ stream' = stream
      /\ torn' = torn \union {t \in Turns : /\ \E r \in {x \in Runs : Active(x)} : run[r].turn = t
                                            /\ Uncommitted(t)}
      /\ run' = [r \in Runs |-> IF Active(r) THEN lost(r) ELSE run[r]]
  BY DEF Crash, Lost
<1>2. ASSUME NEW r \in Runs
      PROVE  /\ Active(r) => /\ run'[r].pc = "lost" /\ run[r].pc # "idle"
                             /\ run'[r].history = << >> /\ run'[r].todo = << >>
             /\ ~Active(r) => run'[r] = run[r]
             /\ run'[r].entry = run[r].entry /\ run'[r].turn = run[r].turn
  <2>1. CASE Active(r)
    <3>1. run'[r] = lost(r) /\ run[r].pc # "idle"
      BY <1>1, <2>1 DEF Active, Over
    <3>2. Idle \in Fields /\ Idle.todo = << >> /\ Idle.history = << >>
      BY IdleType DEF LoopState, Idle
    <3>3. QED  BY <2>1, <3>1, <3>2 DEF Fields
  <2>2. CASE ~Active(r)
    BY <1>1, <2>2
  <2>3. QED  BY <2>1, <2>2
<1>3. \A r \in Runs : Active(r)' <=> run'[r].pc \notin Over
  BY DEF Active
<1>4. \A r \in Runs : ~Active(r)'
  BY <1>2, <1>3 DEF Active, Over
<1>5. OneRuns'
  BY <1>4 DEF OneRuns
<1>6. Turns' = Turns
  BY <1>2 DEF Turns
<1>7. TurnsAreKnown'
  <2>1. \A t \in Turns : t \in Runs
    BY DEF Turns
  <2>2. \A t \in Turns : IsStarted(stream, t) /\ run'[t].turn = t /\ run'[t].pc # "idle"
    BY <1>2, <2>1 DEF HInv, TurnsAreKnown
  <2>3. ASSUME NEW r \in Runs
        PROVE  /\ run'[r].pc = "idle" => run'[r].entry = "none"
               /\ run'[r].pc # "idle" => run'[r].turn \in Turns
               /\ run'[r].pc \in {"carry", "input"} => run'[r].entry = "runTurn"
    BY <1>2 DEF HInv, TurnsAreKnown
  <2>4. \A i \in DOMAIN stream : stream[i].turn \in Turns
    BY DEF HInv, TurnsAreKnown
  <2>5. QED  BY <1>1, <1>6, <2>2, <2>3, <2>4 DEF TurnsAreKnown
<1>8. CallsAreStarted'
  <2>1. ASSUME NEW r \in Runs
        PROVE  AllAsk(run'[r].history, StartedCalls(stream)) /\ AllOf(run'[r].todo, StartedCalls(stream))
    BY <1>2, NothingAsked DEF HInv, CallsAreStarted
  <2>2. QED  BY <1>1, <2>1 DEF HInv, CallsAreStarted
<1>9. ASSUME NEW t \in Turns, t \notin torn', Sequential(t)'
      PROVE  MatchesIn(stream, t) /\ CanResume(stream, t)
  <2>1. Sequential(t) /\ t \notin torn
    BY <1>1, <1>9 DEF Sequential, TurnIsActive
  <2>2. CASE \E r \in Runs : Active(r) /\ run[r].turn = t
    <3>1. ~Uncommitted(t)
      BY <1>1, <1>9, <2>2
    <3>2. IsCommittedIn(stream, t)
      BY <3>1, ReadsTheStream
    <3>3. QED  BY <2>1, <3>2 DEF HInv, Rebuilds, CanResume
  <2>3. CASE \A r \in Runs : Active(r) => run[r].turn # t
    BY <2>1, <2>3 DEF HInv, Rebuilds
  <2>4. QED  BY <2>2, <2>3
<1>10. Rebuilds'
  BY <1>1, <1>4, <1>6, <1>9 DEF Rebuilds
<1>11. QED  BY <1>5, <1>7, <1>8, <1>10 DEF HInv

\* A run that throws leaves its turn torn, or as the last checkpoint commits it.
LEMMA LostStays ==
    ASSUME Shape, HInv, NEW r \in Runs, Active(r), Lost({r}), NEW l, l.turn = run[r].turn,
           l.pc = "lost", run[r].turn \notin torn', MatchesIn(stream, run[r].turn)
    PROVE  Stays(stream, l)
<1>1. torn' = torn \union {t \in Turns : /\ \E x \in {r} : run[x].turn = t
                                        /\ Uncommitted(t)}
  BY DEF Lost
<1>2. ~Uncommitted(run[r].turn)
  BY <1>1, RunFacts
<1>3. QED  BY <1>2, ReadsTheStream DEF Stays, CanResume, Over

LEMMA DispatchFailedRebuilds ==
    ASSUME Shape, HInv, NEW r \in Runs, DispatchFailed(r)
    PROVE  HInv'
<1>1. run[r].batch # << >> /\ Lost({r}) /\ UNCHANGED <<scene, stream>>
  BY DEF DispatchFailed
<1>2. Active(r) /\ run[r].pc # "idle"
  BY <1>1, LoopStateType DEF Active, Over
<1>3. Ended(r, "lost") /\ torn \subseteq torn'
  BY <1>1, LostIsEnded DEF Lost
<1>4. PICK l \in LoopState : /\ run' = [run EXCEPT ![r] = l] /\ l.pc = "lost" /\ l.turn = run[r].turn
                             /\ l.entry = run[r].entry /\ l.history = << >> /\ l.todo = << >>
  BY <1>2, <1>3, EndedType DEF Over
<1>5. AllAsk(l.history, StartedCalls(stream)) /\ AllOf(l.todo, StartedCalls(stream))
  BY <1>4, NothingAsked
<1>6. ASSUME run[r].turn \notin torn', MatchesIn(stream, run[r].turn) PROVE Stays(stream, l)
  BY <1>1, <1>2, <1>4, <1>6, LostStays
<1>7. QED  BY <1>1, <1>2, <1>3, <1>4, <1>5, <1>6, Quietly

LEMMA AppendRefusedRebuilds ==
    ASSUME Shape, HInv, NEW r \in Runs, AppendRefused(r)
    PROVE  HInv'
<1>1. Active(r) /\ Lost({r}) /\ scene' = scene
  BY DEF AppendRefused
<1>2. Ended(r, "lost") /\ torn \subseteq torn' /\ run[r].pc # "idle"
  BY <1>1, LostIsEnded, RunFacts DEF Lost
<1>3. PICK l \in LoopState : /\ run' = [run EXCEPT ![r] = l] /\ l.pc = "lost" /\ l.turn = run[r].turn
                             /\ l.entry = run[r].entry /\ l.history = << >> /\ l.todo = << >>
  BY <1>2, EndedType DEF Over
<1>4. PICK calls \in Seq(Calls) :
         stream' = stream \o [i \in DOMAIN calls |->
                                  ToolStarted(run[r].turn, IntentsOf(r, calls)[i])]
  <2>1. << >> \in Seq(Calls)
    OBVIOUS
  <2>2. QED  BY <2>1, FreshCallsType DEF AppendRefused, AppendEvents
<1> DEFINE todo == IntentsOf(r, calls)
<1>5. todo \in Seq(Tool) /\ DOMAIN todo = DOMAIN calls
  BY IntentsType DEF IntentsOf
<1>6. stream' = stream \o [i \in DOMAIN todo |-> ToolStarted(run[r].turn, todo[i])]
  BY <1>4, <1>5
<1> HIDE DEF todo
<1>7. SUFFICES ASSUME NEW t \in Runs, run[r].turn = t PROVE HInv'
  BY <1>1, RunFacts
<1>8. /\ Extends(stream, stream', t) /\ Same(stream, stream', t)
      /\ \A i \in DOMAIN stream' : i \in DOMAIN stream \/ stream'[i].type = "tool.started"
  <2>1. IsStarted(stream, t) /\ stream \in Seq(Event)
    BY <1>1, <1>7, RunFacts
  <2>2. stream' = stream \o [i \in DOMAIN todo |-> ToolStarted(t, todo[i])]
    BY <1>6, <1>7
  <2>3. QED  BY <1>5, <2>1, <2>2, StartsAreSilent
<1>9. IsStarted(stream', t) /\ NewAsk(stream, stream')
  BY <1>8 DEF Same, NewAsk
<1>10. AllAsk(l.history, StartedCalls(stream')) /\ AllOf(l.todo, StartedCalls(stream'))
  BY <1>3, NothingAsked
<1>11. ASSUME t \notin torn', MatchesIn(stream, t) PROVE Stays(stream', l)
  <2>1. Stays(stream, l)
    BY <1>1, <1>3, <1>7, <1>11, LostStays
  <2>2. MatchesIn(stream, t) /\ CanResume(stream, t) /\ l.turn = t
    BY <1>3, <1>7, <2>1 DEF Stays, Over
  <2>3. QED  BY <1>3, <1>8, <2>2, SameResumes DEF Stays, Same, Over
<1>12. QED  BY <1>1, <1>2, <1>3, <1>7, <1>8, <1>9, <1>10, <1>11, ActiveMoves

-----------------------------------------------------------------------------
(* What is rebuilt is what was committed *)

LEMMA InitRebuilds == Init => HInv
<1> SUFFICES ASSUME Init PROVE HInv
  OBVIOUS
<1>1. stream = << >> /\ \A r \in Runs : run[r] = Idle
  BY DEF Init
<1>2. Idle.pc = "idle" /\ Idle.entry = "none" /\ Idle.history = << >> /\ Idle.todo = << >>
  BY DEF Idle
<1>3. \A r \in Runs : ~Active(r)
  BY <1>1, <1>2 DEF Active, Over
<1>4. Turns = {} /\ DOMAIN stream = {}
  BY <1>1, <1>2 DEF Turns
<1>5. OneRuns /\ Rebuilds
  BY <1>3, <1>4 DEF OneRuns, Rebuilds
<1>6. TurnsAreKnown
  BY <1>1, <1>2, <1>4 DEF TurnsAreKnown
<1>7. CallsAreStarted
  BY <1>1, <1>2, <1>4, NothingAsked DEF CallsAreStarted
<1>8. QED  BY <1>5, <1>6, <1>7 DEF HInv

LEMMA InBatchRebuilds ==
    ASSUME Shape, HInv, NEW r \in Runs, NEW i, InBatch(r, i)
    PROVE  HInv'
BY DispatchRebuilds, UntoldRebuilds, RecordResultRebuilds, RaiseApprovalRebuilds,
   SuspendCheckpointRebuilds DEF InBatch

LEMMA NextRebuilds ==
    ASSUME Shape, HInv, [Next]_vars
    PROVE  HInv'
<1>1. ASSUME NEW r \in Runs, RunTurn(r) \/ ResumeTurn(r) \/ RecoverTurn(r) \/ Step(r)
      PROVE  HInv'
  <2>1. CASE RunTurn(r)
    BY <2>1, RunTurnRebuilds
  <2>2. CASE ResumeTurn(r)
    BY <2>2, ResumeTurnRebuilds
  <2>3. CASE RecoverTurn(r)
    BY <2>3, RecoverTurnRebuilds
  <2>4. CASE CarryHistory(r)
    BY <2>4, CarryHistoryRebuilds
  <2>5. CASE SubmitInput(r)
    BY <2>5, SubmitInputRebuilds
  <2>6. CASE Drive(r)
    BY <2>6, DriveRebuilds
  <2>7. CASE Generate(r)
    BY <2>7, GenerateRebuilds
  <2>8. CASE NextBatch(r)
    BY <2>8, NextBatchRebuilds
  <2>9. CASE \E i \in 1 .. MaxBatch : InBatch(r, i)
    BY <2>9, InBatchRebuilds
  <2>10. CASE Commit(r)
    BY <2>10, CommitRebuilds
  <2>11. CASE Settle(r)
    BY <2>11, SettleRebuilds
  <2>12. CASE Complete(r)
    BY <2>12, CompleteRebuilds
  <2>13. CASE Decide(r)
    BY <2>13, DecideRebuilds
  <2>14. CASE ReportMismatch(r)
    BY <2>14, ReportMismatchRebuilds
  <2>15. CASE DispatchFailed(r)
    BY <2>15, DispatchFailedRebuilds
  <2>16. CASE AppendRefused(r)
    BY <2>16, AppendRefusedRebuilds
  <2>17. QED
    BY <1>1, <2>1, <2>2, <2>3, <2>4, <2>5, <2>6, <2>7, <2>8, <2>9, <2>10, <2>11, <2>12,
       <2>13, <2>14, <2>15, <2>16, Zenon DEF Step
<1>2. CASE UNCHANGED vars
  <2>1. scene' = scene /\ stream' = stream /\ run' = run /\ torn' = torn
    BY <1>2 DEF vars
  <2>2. Turns' = Turns /\ (\A r \in Runs : Active(r)' = Active(r))
        /\ (\A t \in Turns : Sequential(t)' = Sequential(t))
    BY <2>1 DEF Turns, Active, Sequential, TurnIsActive
  <2>3. OneRuns' /\ TurnsAreKnown' /\ CallsAreStarted'
    BY <2>1, <2>2 DEF HInv, OneRuns, TurnsAreKnown, CallsAreStarted
  <2>4. Rebuilds'
    BY <2>1, <2>2 DEF HInv, Rebuilds
  <2>5. QED  BY <2>3, <2>4 DEF HInv
<1>3. QED  BY <1>1, <1>2, CrashRebuilds DEF Next

\* What #checkpoint and #suspend wrote is what #rebuild makes of the stream: a
\* turn that is not over, whose runs did not overlap and whose calls ran one at a
\* time never fails the digest of its last checkpoint, however often it was
\* suspended, refused an append, lost in a crash and recovered, and whatever
\* other turns of the thread did in between, unless one of its runs was lost
\* between an item and the checkpoint that was to commit it.
THEOREM SuspendedTurnsRebuild == Spec => []SequentialTurnsRebuild
<1>1. HInv => SequentialTurnsRebuild
  BY ReadsTheStream DEF HInv, Rebuilds, SequentialTurnsRebuild
<1>2. Init => HInv
  BY InitRebuilds
<1>3. Shape /\ HInv /\ [Next]_vars => HInv'
  BY NextRebuilds
<1>4. QED  BY <1>1, <1>2, <1>3, InvHolds, PTL DEF Spec

=============================================================================
