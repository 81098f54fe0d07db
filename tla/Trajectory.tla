----------------------------- MODULE Trajectory -----------------------------
(***************************************************************************)
(* The readers of the Chronicle: the global timeline, the trajectory of    *)
(* one turn with the replay of its model requests, the evidence the        *)
(* learning loop selects and the experiment that selects once more to      *)
(* verify it. Each reads one stream after the other, with an await in      *)
(* between, while turns and the slow loop go on writing; nothing holds the *)
(* streams still.                                                          *)
(*                                                                         *)
(* The writers are the turns of AgentLoop, ExecutionWorld and Generation,  *)
(* reduced to the events the readers look at and the order in which one    *)
(* turn leaves them on its streams. A turn that waits for an approval is   *)
(* resumed, one that died is recovered, both from their last checkpoint.   *)
(*                                                                         *)
(* Abstracted: summaries, trimmed details and counts of a page; what makes *)
(* requests or failed items and no checkpoint (compaction, answers cut at  *)
(* the token limit); a cancelled turn, which is told as a failed one; the  *)
(* calls of an answer are made one after the other; the clock does not go  *)
(* back.                                                                   *)
(***************************************************************************)
EXTENDS Naturals, Sequences, FiniteSets, SequencesExt, TLC

CONSTANTS
    IdOrder,          \* every stream id, as <<kind, ...>>, in string order
    Turns,
    Home,             \* Turns -> the thread of the turn
    Requests,         \* model requests, in the order they are made
    SlowEvents,       \* slow stream ids -> types of the events written to them
    Queries,          \* [loop, category] a timeline may be asked for, "any" for none
    Scenes,           \* who takes part in a behavior, turns and a reader, and bounds
                      \* on it: steps of a turn, its tool calls and those of one
                      \* answer, its approvals, requests, and crashes
    Limit,            \* the page size of the timeline
    MaxTrajectories, ToolUsageThreshold, ToolFailureThreshold, LongTurnSteps,
    VerifiedSteps,    \* the steps of a long turn to the evaluator, whatever the budget
    MaxAttempts,      \* attempts of one generation
    MaxSlow,          \* bound: events of a slow stream
    MaxTime,          \* bound: ticks of the clock
    MaxGrowth         \* bound: appends after a reader began to read

ASSUME LimitsAssumption == Limit \in Nat \ {0} /\ MaxTrajectories \in Nat \ {0}
ASSUME HomeAssumption == \A t \in Turns : <<"thread", Home[t]>> \in Range(IdOrder)

VARIABLES
    scene,    \* fixed for a behavior
    now,      \* the clock
    log,      \* stream ids -> the events of the stream
    listed,   \* the streams there are, in the order of their first event
    turn,     \* Turns -> how far the turn is
    reader,   \* the one query of a behavior
    crashes

vars == <<scene, now, log, listed, turn, reader, crashes>>

Ids == Range(IdOrder)
ThreadStream(h) == <<"thread", h>>
RequestStream(q) == <<"model-request", q>>
ExecutionStream(t, call) == <<"execution", t, call>>

\* The events of turn t among events, and those of one type.
OfTurn(events, t) == SelectSeq(events, LAMBDA e : e.turn = t)
OfType(events, type) == SelectSeq(events, LAMBDA e : e.type = type)

\* What the readers look at: the kind of an item, the number of a call or an
\* attempt, whether a result is no error, and the calls of an answer.
Event(type, t) == [type |-> type, of |-> "none", turn |-> t, no |-> 0, ok |-> TRUE,
                   calls |-> <<>>, time |-> 0]
Item(of, t, n, ok) ==
    [Event("item.completed", t) EXCEPT !.of = of, !.no = n, !.ok = ok]
Assistant(t, calls) == [Item("assistant", t, 0, TRUE) EXCEPT !.calls = calls]

-----------------------------------------------------------------------------
(* describeBundle, buildContextManifest and rebuildModelRequest *)

\* What the model is sent: the instructions, the history, the tools. No caller
\* asks for a decision.
Bundle(history) ==
    [messages |-> << <<"system", 0>> >>
                  \o [i \in DOMAIN history |-> <<history[i].of, history[i].no>>],
     tools |-> <<"tool">>]

\* One section for each message and tool, in this order.
describeBundle(bundle) ==
    [i \in DOMAIN bundle.messages |->
        [kind |-> IF bundle.messages[i][1] = "system" THEN "instruction" ELSE "trajectory",
         source |-> <<"message", i>>, renderer |-> "message", priority |-> i,
         content |-> bundle.messages[i]]]
    \o [i \in DOMAIN bundle.tools |->
        [kind |-> "tool", source |-> <<"tool", i>>, renderer |-> "tool",
         priority |-> Len(bundle.messages) + i, content |-> bundle.tools[i]]]

\* Digests are told apart by what goes into them.
computeSectionDigest(section, content) ==
    <<section.kind, section.source, section.renderer, content>>

buildContextManifest(drafts) ==
    [i \in DOMAIN drafts |->
        [kind |-> drafts[i].kind, source |-> drafts[i].source,
         renderer |-> drafts[i].renderer, priority |-> drafts[i].priority,
         digest |-> computeSectionDigest(drafts[i], drafts[i].content)]]

SourcesOf(drafts) ==
    LET at(id) == CHOOSE i \in DOMAIN drafts : drafts[i].source = id IN
    [id \in {drafts[i].source : i \in DOMAIN drafts} |-> drafts[at(id)].content]

\* Each reproduces its one source.
Renderers == {"message", "tool", "decision"}

\* By priority, each section from its source, and digested again: without the
\* source or with another content the replay fails.
rebuildContextInput(sections, sources) ==
    LET ordered == SortSeq(sections, LAMBDA a, b : a.priority < b.priority)
        holds(section) ==
            /\ section.renderer \in Renderers
            /\ section.source \in DOMAIN sources
            /\ section.digest = computeSectionDigest(section, sources[section.source])
    IN [ok |-> \A i \in DOMAIN ordered : holds(ordered[i]), sections |-> ordered]

\* What the stream of a request replays to: the bundle, or nothing.
rebuildModelRequest(events) ==
    LET manifests == OfType(events, "context.manifest")
        requested == OfType(events, "model.requested")
        complete == manifests # <<>> /\ requested # <<>>
        rebuilt == rebuildContextInput(Last(manifests).sections, Last(requested).sources)
        by(renderer) ==
            LET of == SelectSeq(rebuilt.sections, LAMBDA x : x.renderer = renderer) IN
            [i \in DOMAIN of |-> Last(requested).sources[of[i].source]]
        bundle == [messages |-> by("message"), tools |-> by("tool")]
    IN IF complete /\ rebuilt.ok /\ bundle = Last(requested).inputDigest
       THEN {bundle} ELSE {}

-----------------------------------------------------------------------------
(* The writers *)

\* A reader has begun, and is not between a selection and its experiment.
Watched == reader.pc # "idle" /\ ~ (reader.pc = "done" /\ reader.kind = "selection")

\* Events are stamped with the wall clock as they are appended.
AppendTo(s, events) ==
    /\ Watched => reader.grown < MaxGrowth
    /\ log' = [log EXCEPT ![s] =
                  @ \o [i \in DOMAIN events |-> [events[i] EXCEPT !.time = now]]]
    /\ listed' = IF log[s] = <<>> THEN Append(listed, s) ELSE listed
    /\ reader' = [reader EXCEPT !.grown = IF Watched THEN @ + 1 ELSE 0]
    /\ UNCHANGED <<scene, now, crashes>>

\* calls are numbered as they are asked for. todo are those of the last answer
\* without a result; mode says how they came to be made: "live" under the items
\* the answer started, "resume" under the one item that was waiting, and
\* "leftover" under new items, which nobody started.
New == [pc |-> "new", step |-> 0, attempt |-> 0, request |-> 0, calls |-> 0,
        todo |-> <<>>, mode |-> "live", approval |-> "none", history |-> <<>>]
UnderWay(t) == turn[t].pc \notin {"new", "over"}
Thread(t) == log[ThreadStream(Home[t])]

At(t, pc) == t \in scene.turns /\ turn[t].pc = pc
Goes(t, pc) == turn' = [turn EXCEPT ![t].pc = pc]

\* The completed items that are messages.
Messages(events) ==
    LET of == SelectSeq(OfType(events, "item.completed"), LAMBDA e : e.of # "approval") IN
    [i \in DOMAIN of |-> [of |-> of[i].of, no |-> of[i].no, calls |-> of[i].calls]]

\* The calls of the last message that made any, without those answered since.
Unanswered(history) ==
    LET asking == SelectSeq(history, LAMBDA m : m.calls # <<>>)
        answered == {m.no : m \in {m \in Range(history) : m.of = "tool"}}
    IN IF asking = <<>> THEN <<>>
       ELSE SelectSeq(Last(asking).calls, LAMBDA call : call \notin answered)

\* The loop head: out of steps, leftover calls, or the next generation.
Driven(state) ==
    LET todo == Unanswered(state.history) IN
    [state EXCEPT !.attempt = 0, !.approval = "none",
                  !.todo = todo, !.mode = "leftover",
                  !.pc = IF state.step >= scene.steps THEN "failing"
                         ELSE IF todo # <<>> THEN "act" ELSE "generate"]

\* The turns of a thread follow each other.
StartTurn(t) ==
    /\ At(t, "new")
    /\ \A other \in Turns \ {t} : Home[other] = Home[t] => ~ UnderWay(other)
    /\ AppendTo(ThreadStream(Home[t]), <<Event("turn.started", t)>>)
    /\ turn' = [turn EXCEPT ![t].pc = "input", ![t].history = Messages(Thread(t))]

SubmitInput(t) ==
    LET user == Item("user", t, 0, TRUE) IN
    /\ At(t, "input")
    /\ AppendTo(ThreadStream(Home[t]),
                <<[Event("item.started", t) EXCEPT !.of = "user"], user>>)
    /\ turn' = [turn EXCEPT ![t] =
                   Driven([@ EXCEPT !.history = @ \o Messages(<<user>>)])]

\* The next model request; its manifest is written with it.
RequestModel(t) ==
    LET used == Cardinality({i \in DOMAIN Requests : log[RequestStream(Requests[i])] # <<>>})
        bundle == Bundle(turn[t].history)
        drafts == describeBundle(bundle)
        manifest == Event("context.manifest", t) @@ [sections |-> buildContextManifest(drafts)]
        asked == [Event("model.requested", t) EXCEPT
                     !.no = turn[t].step * MaxAttempts + turn[t].attempt]
                 @@ [sources |-> SourcesOf(drafts), inputDigest |-> bundle]
    IN
    /\ At(t, "generate")
    /\ used < scene.requests
    /\ AppendTo(RequestStream(Requests[used + 1]), <<manifest, asked>>)
    /\ turn' = [turn EXCEPT ![t].pc = "requested", ![t].request = used + 1]

\* The attempt succeeds or fails; a failed one is made again, or fails the turn.
ModelAnswers(t) ==
    LET request == RequestStream(Requests[turn[t].request]) IN
    /\ At(t, "requested")
    /\ \/ /\ AppendTo(request, <<Event("model.completed", t)>>)
          /\ Goes(t, "answered")
       \/ /\ AppendTo(request, <<Event("model.failed", t)>>)
          /\ IF turn[t].attempt + 1 < MaxAttempts
             THEN turn' = [turn EXCEPT ![t].pc = "generate", ![t].attempt = @ + 1]
             ELSE Goes(t, "failing")

\* The answer enters the thread, with tool calls or as the last of the turn.
TakeAnswer(t) ==
    \E n \in 0 .. scene.batch :
        LET calls == [i \in 1 .. n |-> turn[t].calls + i]
            answer == Assistant(t, calls)
        IN
        /\ At(t, "answered")
        /\ turn[t].calls + n <= scene.calls
        /\ AppendTo(ThreadStream(Home[t]), <<answer>>)
        /\ turn' = [turn EXCEPT ![t].pc = IF n = 0 THEN "finishing" ELSE "act",
                                ![t].todo = calls, ![t].mode = "live",
                                ![t].calls = @ + n,
                                ![t].history = @ \o Messages(<<answer>>)]

-----------------------------------------------------------------------------
(* The execution boundary: the request, the snapshot of the permissions, the *)
(* decision with the start, the result.                                      *)

ExecutionOf(t) == ExecutionStream(t, Head(turn[t].todo))

\* The request names the item the call goes by.
Act(t) ==
    /\ At(t, "act") /\ log[ExecutionOf(t)] = <<>>
    /\ AppendTo(ExecutionOf(t),
                <<[Event("execution.requested", t) EXCEPT !.of = turn[t].mode]>>)
    /\ Goes(t, "snapshot")

\* A call whose input does not parse never gets to the boundary; one the
\* boundary knows by another item is refused as a collision.
NotExecuted(t) ==
    /\ At(t, "act")
    /\ Goes(t, "act_error")
    /\ UNCHANGED <<scene, now, log, listed, reader, crashes>>

Snapshot(t) ==
    /\ At(t, "snapshot")
    /\ AppendTo(ExecutionOf(t), <<Event("execution.permission_snapshot", t)>>)
    /\ Goes(t, "decide")

Approvals(t) == SelectSeq(OfTurn(Thread(t), t),
                          LAMBDA e : e.type = "item.started" /\ e.of = "approval")

\* The policy denies, allows or wants to be asked; then the user decides.
Decide(t) ==
    /\ At(t, "decide")
    /\ \/ /\ AppendTo(ExecutionOf(t), <<Event("execution.denied", t)>>)
          /\ Goes(t, "act_error")
       \/ /\ turn[t].approval # "rejected"
          /\ AppendTo(ExecutionOf(t), <<Event("execution.authorized", t),
                                        Event("execution.started", t)>>)
          /\ Goes(t, "perform")
       \/ /\ turn[t].approval = "none" /\ Len(Approvals(t)) < scene.approvals
          /\ AppendTo(ExecutionOf(t), <<Event("execution.approval_required", t)>>)
          /\ Goes(t, "ask")

\* The action completes, with a result that may itself be an error, or throws.
Perform(t) ==
    /\ At(t, "perform")
    /\ \/ \E ok \in BOOLEAN :
             /\ AppendTo(ExecutionOf(t), <<[Event("execution.completed", t) EXCEPT !.ok = ok]>>)
             /\ Goes(t, IF ok THEN "act_ok" ELSE "act_error")
       \/ /\ AppendTo(ExecutionOf(t), <<Event("execution.failed", t)>>)
          /\ Goes(t, "act_error")

\* Either way the tool item is completed, and the next call is made. After the
\* call that was waiting the loop begins anew.
RecordResult(t) ==
    LET item == Item("tool", t, Head(turn[t].todo), turn[t].pc = "act_ok")
        todo == Tail(turn[t].todo)
        recorded == [turn[t] EXCEPT !.history = @ \o Messages(<<item>>), !.todo = todo,
                                    !.pc = IF todo = <<>> THEN "checkpoint" ELSE "act"]
    IN
    /\ At(t, "act_ok") \/ At(t, "act_error")
    /\ AppendTo(ThreadStream(Home[t]), <<item>>)
    /\ turn' = [turn EXCEPT ![t] =
                   IF turn[t].mode = "resume" THEN Driven(recorded) ELSE recorded]

-----------------------------------------------------------------------------
(* Checkpoints, suspension and the end of a turn *)

\* The step reached, and what the digest is taken of.
CheckpointOf(t) == [Event("agent.checkpoint", t) EXCEPT !.no = turn[t].step + 1]
                   @@ [digest |-> turn[t].history]

\* The step is settled, by its own calls or by the leftover ones; after these
\* the generation follows at once.
Checkpoint(t) ==
    LET settled == [turn[t] EXCEPT !.step = @ + 1, !.attempt = 0] IN
    /\ At(t, "checkpoint") \/ At(t, "finishing")
    /\ AppendTo(ThreadStream(Home[t]), <<CheckpointOf(t)>>)
    /\ turn' = [turn EXCEPT ![t] =
                   IF At(t, "finishing") THEN [settled EXCEPT !.pc = "complete"]
                   ELSE IF turn[t].mode = "leftover" THEN [settled EXCEPT !.pc = "generate"]
                   ELSE Driven(settled)]

\* The approval item is started, then the step is checkpointed; the calls
\* after the one that waits are left over.
RaiseApproval(t) ==
    /\ At(t, "ask")
    /\ AppendTo(ThreadStream(Home[t]),
                <<[Event("item.started", t) EXCEPT !.of = "approval",
                                                   !.no = Head(turn[t].todo)]>>)
    /\ Goes(t, "suspend")

Suspend(t) ==
    /\ At(t, "suspend")
    /\ AppendTo(ThreadStream(Home[t]), <<CheckpointOf(t)>>)
    /\ Goes(t, "suspended")

\* A turn out of steps fails like one whose attempts failed.
EndTurn(t) ==
    /\ \/ /\ At(t, "complete")
          /\ AppendTo(ThreadStream(Home[t]), <<Event("turn.completed", t)>>)
       \/ /\ At(t, "failing")
          /\ AppendTo(ThreadStream(Home[t]), <<Event("turn.failed", t)>>)
    /\ Goes(t, "over")

\* What the stream has of turn t: all before the turn, and of the turn what its
\* last checkpoint commits.
Rebuilt(t) ==
    LET of(i, type) == Thread(t)[i].turn = t /\ Thread(t)[i].type = type
        started == CHOOSE i \in DOMAIN Thread(t) : of(i, "turn.started")
        commits == Max({0} \union {i \in DOMAIN Thread(t) : of(i, "agent.checkpoint")})
    IN [checkpoints |-> OfType(OfTurn(Thread(t), t), "agent.checkpoint"),
        history |-> Messages(SubSeq(Thread(t), 1, started - 1))
                    \o Messages(OfTurn(SubSeq(Thread(t), 1, commits), t))]

Rebuilds(t) ==
    LET rebuilt == Rebuilt(t) IN
    rebuilt.checkpoints # <<>> => Last(rebuilt.checkpoints).digest = rebuilt.history

\* The turn as it was committed.
Committed(t) ==
    LET rebuilt == Rebuilt(t) IN
    [turn[t] EXCEPT !.history = rebuilt.history,
                    !.step = IF rebuilt.checkpoints = <<>> THEN 0
                             ELSE Last(rebuilt.checkpoints).no]

\* The user decided. The call is made again by the item that waited, known to
\* the boundary unless it asked under another one.
Resume(t) ==
    LET call == Last(Approvals(t)).no
        by == Head(log[ExecutionStream(t, call)]).of
    IN
    /\ At(t, "suspended") /\ Rebuilds(t)
    /\ AppendTo(ThreadStream(Home[t]), <<Item("approval", t, call, TRUE)>>)
    /\ \E decision \in {"approved", "rejected"} :
          turn' = [turn EXCEPT ![t] =
                     [Committed(t) EXCEPT
                         !.pc = IF by = "live" THEN "decide" ELSE "act_error",
                         !.approval = decision, !.todo = <<call>>, !.mode = "resume"]]

Recover(t) ==
    /\ At(t, "dead") /\ Rebuilds(t)
    /\ turn' = [turn EXCEPT ![t] = Driven(Committed(t))]
    /\ UNCHANGED <<scene, now, log, listed, reader, crashes>>

\* The checkpoint is not of what is found: this is written and thrown, now and
\* on any later try.
FailToRebuild(t) ==
    /\ At(t, "suspended") \/ At(t, "dead")
    /\ ~ Rebuilds(t)
    /\ AppendTo(ThreadStream(Home[t]), <<Event("agent.recovery_failed", t)>>)
    /\ Goes(t, "stuck")

Write(t) == \/ StartTurn(t) \/ SubmitInput(t)
            \/ RequestModel(t) \/ ModelAnswers(t) \/ TakeAnswer(t)
            \/ Act(t) \/ NotExecuted(t) \/ Snapshot(t) \/ Decide(t) \/ Perform(t)
            \/ RecordResult(t) \/ Checkpoint(t) \/ RaiseApproval(t) \/ Suspend(t)
            \/ Resume(t) \/ Recover(t) \/ FailToRebuild(t) \/ EndTurn(t)

\* The slow loop and everything else that is written.
WriteSlow ==
    \E s \in DOMAIN SlowEvents : \E type \in SlowEvents[s] :
        /\ Len(log[s]) < MaxSlow
        /\ scene.reader = "timeline"
        /\ AppendTo(s, <<Event(type, "none")>>)
        /\ UNCHANGED turn

\* Only the timeline looks at the time.
Tick ==
    /\ now < MaxTime /\ scene.reader = "timeline"
    /\ now' = now + 1
    /\ UNCHANGED <<scene, log, listed, turn, reader, crashes>>

\* The process dies, and with it whoever reads. A turn with an approval item
\* nobody decided waits for the decision as before.
Crash ==
    /\ crashes < scene.crashes
    /\ \E t \in Turns : UnderWay(t)
    /\ turn' = [t \in Turns |->
                   IF turn[t].pc \in {"new", "over", "suspended", "stuck"} THEN turn[t]
                   ELSE [turn[t] EXCEPT !.pc = IF @ = "suspend" THEN "suspended" ELSE "dead"]]
    /\ reader.pc \in {"idle", "done"}
    /\ crashes' = crashes + 1
    /\ UNCHANGED <<scene, now, log, listed, reader>>

-----------------------------------------------------------------------------
(* classify *)

loopOfStream(s) == IF s[1] \in {"thread", "model-request", "execution"} THEN "fast" ELSE "slow"

\* What an event of a thread counts as; "dropped" is not on the timeline.
ThreadCategory(e) ==
    CASE e.type = "turn.started" -> "input"
      [] e.type = "item.completed" ->
            (CASE e.of = "user" -> "dropped"
               [] e.of = "assistant" -> "llm"
               [] e.of \in {"tool", "approval"} -> "tool"
               [] e.of = "plan" -> "reasoning"
               [] OTHER -> "system")
      [] e.type \in {"item.delta", "item.started"} -> "dropped"
      [] e.type \in {"approval.requested", "approval.resolved"} -> "tool"
      [] e.type = "agent.checkpoint" -> "reasoning"
      [] OTHER -> "system"

ExecutionCategory(e) ==
    IF e.type \in {"execution.permission_snapshot", "execution.started"}
    THEN "dropped" ELSE "tool"

LearningCategory(e) == IF e.type = "learning.loop.run" THEN "reasoning" ELSE "proposal"

\* The scheduler, the structure, the world and streams nobody knows are "system".
OtherCategory(s) == IF s[1] = "memory" THEN "memory" ELSE "system"

classify(s, e) ==
    CASE s[1] = "thread" -> ThreadCategory(e)
      [] s[1] = "model-request" -> "llm"
      [] s[1] = "execution" -> ExecutionCategory(e)
      [] s[1] = "learning" -> LearningCategory(e)
      [] OTHER -> OtherCategory(s)

-----------------------------------------------------------------------------
(* buildGlobalTrajectory *)

\* A draft is the position of an event.
Draft(s, n) == [stream |-> s, sequence |-> n]
EventOf(d) == log[d.stream][d.sequence]

Matches(d, query) ==
    /\ classify(d.stream, EventOf(d)) # "dropped"
    /\ query.loop \in {"any", loopOfStream(d.stream)}
    /\ query.category \in {"any", classify(d.stream, EventOf(d))}

\* Newest first; of one time, by stream id, and the later one of a stream first.
Before(d, x) ==
    LET place(s) == CHOOSE i \in DOMAIN IdOrder : IdOrder[i] = s IN
    IF EventOf(d).time # EventOf(x).time THEN EventOf(d).time > EventOf(x).time
    ELSE IF d.stream # x.stream THEN place(d.stream) < place(x.stream)
    ELSE d.sequence > x.sequence

AtMost(seq, n) == SubSeq(seq, 1, IF Len(seq) < n THEN Len(seq) ELSE n)

\* Mutant: the page is cut before it is filtered.
Page_CutFirst(drafts, query) ==
    SelectSeq(AtMost(SortSeq(drafts, Before), Limit), LAMBDA d : Matches(d, query))

Page(drafts, query) ==
    AtMost(SelectSeq(SortSeq(drafts, Before), LAMBDA d : Matches(d, query)), Limit)

NoReader == [pc |-> "idle", left |-> <<>>, grown |-> 0]

\* A reader starts from the streams there are; asked is how long they were.
Asked(fields) ==
    /\ reader.pc = "idle"
    /\ reader' = fields @@ [grown |-> 0, asked |-> [s \in Ids |-> Len(log[s])]]
    /\ UNCHANGED <<scene, now, log, listed, turn, crashes>>

Reads(fields) ==
    /\ reader' = fields @@ reader
    /\ UNCHANGED <<scene, now, log, listed, turn, crashes>>

AskTimeline ==
    /\ scene.reader = "timeline"
    /\ Asked([pc |-> "look", kind |-> "timeline", left |-> listed, drafts |-> <<>>,
              latest |-> 0])

\* How long is the next stream?
LookAtStream ==
    /\ reader.pc = "look" /\ reader.left # <<>>
    /\ Reads([pc |-> "window", latest |-> Len(log[Head(reader.left)])])

\* Its last Limit events, and what has come since.
ReadWindow ==
    LET s == Head(reader.left)
        after == IF reader.latest > Limit THEN reader.latest - Limit ELSE 0
        drafts == [i \in 1 .. Len(log[s]) - after |-> Draft(s, after + i)]
    IN
    /\ reader.pc = "window"
    /\ Reads([pc |-> "look", left |-> Tail(reader.left),
              drafts |-> reader.drafts \o
                  SelectSeq(drafts, LAMBDA d : classify(s, EventOf(d)) # "dropped")])

\* What was asked for matters only now: these are the pages of all queries.
ShowTimeline ==
    /\ reader.pc = "look" /\ reader.left = <<>>
    /\ Reads([pc |-> "done", drafts |-> <<>>, latest |-> 0,
              pages |-> [query \in Queries |-> Page(reader.drafts, query)]])

-----------------------------------------------------------------------------
(* buildTurnTrajectory *)

\* Mutant: the requests are read before the thread.
ReadingOrder_RequestsFirst == <<"requests", "thread", "tools">>

\* The thread first, then the executions of its tools, then the requests.
ReadingOrder == <<"thread", "tools", "requests">>

AskTurn(t) ==
    /\ scene.reader = "turn"
    /\ Asked([pc |-> "turn", kind |-> "turn", of |-> t, plan |-> ReadingOrder,
              left |-> <<>>, messages |-> 0, items |-> <<>>, checkpoints |-> 0, approvals |-> 0,
              tools |-> <<>>, generations |-> {}])

Reading(part) == reader.pc = "turn" /\ reader.plan # <<>> /\ Head(reader.plan) = part

\* Only completed tool items are told. Without the turn there is nothing to tell.
\* The approvals asked for by then are not told; they are kept for the property.
ReadThread ==
    LET events == OfTurn(log[ThreadStream(Home[reader.of])], reader.of)
        completed == OfType(events, "item.completed")
    IN
    /\ Reading("thread")
    /\ IF OfType(events, "turn.started") = <<>>
       THEN Reads([pc |-> "refused"])
       ELSE Reads([plan |-> Tail(reader.plan),
                   messages |-> Len(SelectSeq(completed, LAMBDA e : e.of = "assistant")),
                   items |-> SelectSeq(completed, LAMBDA e : e.of = "tool"),
                   checkpoints |-> Len(OfType(events, "agent.checkpoint")),
                   approvals |-> Len(Approvals(reader.of))])

\* toolTrajectory: what an execution stream tells of its action; the result of
\* a completed one may be an error.
Outcome(events) ==
    LET has(type) == OfType(events, type) # <<>> IN
    CASE has("execution.completed") -> "completed"
      [] has("execution.failed") -> "failed"
      [] has("execution.denied") -> "denied"
      [] has("execution.requested") -> "started"
      [] OTHER -> "unknown"

\* The execution of the next item told; after the last one, the next part.
ReadTool ==
    LET next == Len(reader.tools) + 1
        item == reader.items[next]
        events == log[ExecutionStream(reader.of, item.no)]
        told == [no |-> item.no, ok |-> item.ok, outcome |-> Outcome(events),
                 isError |-> \E i \in DOMAIN events :
                                events[i].type = "execution.completed" /\ ~ events[i].ok]
    IN
    /\ Reading("tools")
    /\ IF next \in DOMAIN reader.items
       THEN Reads([tools |-> Append(reader.tools, told)])
       ELSE Reads([plan |-> Tail(reader.plan)])

\* generationsForTurn: every request there is, and of those of the turn the
\* attempt and how it ended. Requests made later are not in the list.
ListRequests ==
    /\ Reading("requests") /\ reader.left = <<>>
    /\ LET requests == SelectSeq(listed, LAMBDA s : s[1] = "model-request") IN
       Reads([left |-> requests,
              plan |-> IF requests = <<>> THEN Tail(reader.plan) ELSE reader.plan])

ReadRequest ==
    LET events == log[Head(reader.left)]
        requested == OfType(OfTurn(events, reader.of), "model.requested")
        ended == IF OfType(events, "model.completed") # <<>> THEN "completed"
                 ELSE IF OfType(events, "model.failed") # <<>> THEN "failed" ELSE "open"
    IN
    /\ Reading("requests") /\ reader.left # <<>>
    /\ Reads([left |-> Tail(reader.left),
              plan |-> IF Len(reader.left) = 1 THEN Tail(reader.plan) ELSE reader.plan,
              generations |-> reader.generations \union
                  {[request |-> Head(reader.left), no |-> requested[i].no, ended |-> ended] :
                      i \in DOMAIN requested}])

ShowTurn ==
    /\ reader.pc = "turn" /\ reader.plan = <<>>
    /\ Reads([pc |-> "done", left |-> <<>>])

-----------------------------------------------------------------------------
(* selectAndDerive and discoverPatterns *)

\* What the stages know of turn t from events: its checkpoints and its tool
\* calls, by whether they were errors.
Derived(events, t) ==
    LET completed == OfType(OfTurn(events, t), "item.completed") IN
    [turn |-> t,
     checkpoints |-> Len(OfType(OfTurn(events, t), "agent.checkpoint")),
     calls |-> LET tools == SelectSeq(completed, LAMBDA e : e.of = "tool") IN
               [i \in DOMAIN tools |-> tools[i].ok]]

\* Mutant: turns without tool calls take room too.
ToolUsing_All(derived) == derived

ToolUsing(derived) == SelectSeq(derived, LAMBDA d : d.calls # <<>>)

\* The turns of one thread, in the order they started.
DeriveThread(events) ==
    LET started == OfType(events, "turn.started") IN
    ToolUsing([i \in DOMAIN started |-> Derived(events, started[i].turn)])

\* The threads are inspected by name.
ThreadsByName == SelectSeq(IdOrder, LAMBDA s : s[1] = "thread" /\ s \in Range(listed))

AskSelection ==
    /\ scene.reader = "selection"
    /\ Asked([pc |-> "select", kind |-> "selection", left |-> ThreadsByName,
              derived |-> <<>>])

SelectThread ==
    /\ reader.pc = "select"
    /\ reader.left # <<>> /\ Len(reader.derived) < MaxTrajectories
    /\ Reads([left |-> Tail(reader.left),
              derived |-> reader.derived \o DeriveThread(log[Head(reader.left)])])

LastOf(seq, n) == SubSeq(seq, IF Len(seq) > n THEN Len(seq) - n + 1 ELSE 1, Len(seq))

\* There is one tool. How often it was used and failed, and the long turns.
Counted(turns, longTurnSteps) ==
    LET calls == FlattenSeq([i \in DOMAIN turns |-> turns[i].calls]) IN
    [skill |-> Len(calls),
     guardrail |-> Len(SelectSeq(calls, LAMBDA ok : ~ ok)),
     planning |-> Cardinality({i \in DOMAIN turns : turns[i].checkpoints >= longTurnSteps})]

\* The proposals claim what was counted.
discoverPatterns(turns) ==
    LET counted == Counted(turns, LongTurnSteps)
        from == [skill |-> ToolUsageThreshold, guardrail |-> ToolFailureThreshold,
                 planning |-> 1]
    IN {[kind |-> kind, count |-> counted[kind]] :
          kind \in {k \in DOMAIN counted : counted[k] >= from[k]}}

Selected ==
    /\ reader.pc = "select"
    /\ reader.left = <<>> \/ Len(reader.derived) >= MaxTrajectories

FinishSelection ==
    /\ Selected /\ reader.kind = "selection"
    /\ LET selected == LastOf(reader.derived, MaxTrajectories) IN
       Reads([pc |-> "done", left |-> <<>>, derived |-> selected,
              claims |-> discoverPatterns(selected)])

\* The experiment of a proposal selects anew, sometime later.
RunExperiment ==
    /\ reader.pc = "done" /\ reader.kind = "selection"
    /\ reader.claims # {}
    /\ Reads([pc |-> "select", kind |-> "experiment", left |-> ThreadsByName,
              asked |-> [s \in Ids |-> Len(log[s])], grown |-> 0,
              derived |-> <<>>, earlier |-> reader.derived])

\* EvidenceVerifyEvaluator: the claim is counted again in the frozen dataset.
Verdict(claim, dataset) ==
    LET counted == Counted(dataset, VerifiedSteps)[claim.kind] IN
    IF counted >= claim.count /\ counted > 0 THEN "accept" ELSE "reject"

FinishExperiment ==
    /\ Selected /\ reader.kind = "experiment"
    /\ LET dataset == LastOf(reader.derived, MaxTrajectories) IN
       Reads([pc |-> "done", left |-> <<>>, derived |-> dataset,
              refused |-> {claim \in reader.claims : Verdict(claim, dataset) = "reject"}])

-----------------------------------------------------------------------------

Read == \/ LookAtStream \/ ReadWindow \/ ShowTimeline
        \/ ReadThread \/ ReadTool \/ ListRequests \/ ReadRequest \/ ShowTurn
        \/ SelectThread \/ FinishSelection \/ RunExperiment \/ FinishExperiment

Ask == \/ AskTimeline
       \/ \E t \in scene.turns : AskTurn(t)
       \/ AskSelection

Init ==
    /\ scene \in Scenes
    /\ now = 0
    /\ log = [s \in Ids |-> <<>>]
    /\ listed = <<>>
    /\ turn = [t \in Turns |-> New]
    /\ reader = NoReader
    /\ crashes = 0

Next == \/ \E t \in Turns : Write(t)
        \/ WriteSlow \/ Tick \/ Crash \/ Ask \/ Read

Spec == Init /\ [][Next]_vars

-----------------------------------------------------------------------------
(* Properties *)

\* buildGlobalTrajectory bounds what it reads of a stream by the page size and
\* reads while the streams grow. Whatever was on record when it was asked and
\* fits the query is on the page, unless the page is full of newer ones, or a
\* page of later events stands on its own stream, whatever they are.
TimelineIsNewest ==
    (reader.pc = "done" /\ reader.kind = "timeline") =>
        \A query \in Queries : \A s \in Ids : \A n \in 1 .. reader.asked[s] :
            LET d == Draft(s, n)
                page == reader.pages[query]
                newer == {i \in DOMAIN page : Before(page[i], d)}
            IN  \/ ~ Matches(d, query) \/ d \in Range(page)
                \/ Cardinality(newer) = Limit
                \/ Len(log[s]) >= n + Limit

\* buildTurnTrajectory reads the thread, the executions and the requests one
\* after the other while the turn goes on. Nothing is told without what led to
\* it: a result that is no error with an execution that completed without one,
\* every answer with a generation that completed, and every checkpoint with
\* such a generation or with an approval the turn stopped for, through
\* suspensions, leftover calls and recoveries. And every model request on
\* record replays to the bundle that was sent (replayGeneration).
CausesAreTold ==
    /\ \A s \in Ids : (s[1] = "model-request" /\ log[s] # <<>>) =>
            rebuildModelRequest(log[s]) # {}
    /\ (reader.pc = "done" /\ reader.kind = "turn") =>
        LET answers == {g \in reader.generations : g.ended = "completed"} IN
        /\ \A i \in DOMAIN reader.tools : 
              reader.tools[i].ok => /\ reader.tools[i].outcome = "completed"
                                    /\ ~ reader.tools[i].isError
        /\ reader.messages <= Cardinality(answers)
        /\ reader.checkpoints <= Cardinality(answers) + reader.approvals

\* What the learning loop goes by. A tool-using turn that was over when it
\* selected is evidence, told whole, unless as many others fill the budget;
\* and to derive it again by its id, as the drift monitor does for a baseline,
\* gives the same whenever that is (deriveTurnsById). An experiment refuses a
\* claim only if turns it was made of have been pushed out by others.
EvidenceIsWhole ==
    (reader.pc = "done" /\ reader.kind \in {"selection", "experiment"}) =>
        /\ Len(reader.derived) <= MaxTrajectories
        /\ (reader.kind = "experiment" /\ reader.refused # {}) =>
              /\ Len(reader.derived) = MaxTrajectories
              /\ \E i \in DOMAIN reader.earlier : \A j \in DOMAIN reader.derived :
                    reader.derived[j].turn # reader.earlier[i].turn
        /\ \A t \in Turns :
              LET thread == log[ThreadStream(Home[t])]
                  then == SubSeq(thread, 1, reader.asked[ThreadStream(Home[t])])
                  over == Range(OfTurn(then, t)) \intersect
                             {e \in Range(then) : e.type \in {"turn.completed", "turn.failed"}}
              IN (over # {} /\ Derived(then, t).calls # <<>>) =>
                    \/ Derived(thread, t) \in Range(reader.derived)
                    \/ /\ Len(reader.derived) = MaxTrajectories
                       /\ \A i \in DOMAIN reader.derived :
                             reader.derived[i].turn # t /\ reader.derived[i].calls # <<>>

=============================================================================
