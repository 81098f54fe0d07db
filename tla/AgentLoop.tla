------------------------------ MODULE AgentLoop ------------------------------
(***************************************************************************)
(* The agent loop: runTurn, resumeTurn and recoverTurn drive the turns of  *)
(* one thread. A turn generates, runs the tool calls of the assistant      *)
(* message, checkpoints, and generates again, until the model ends it, an  *)
(* approval suspends it, or it fails, is cancelled, dies with the process  *)
(* or is thrown out by an append that is refused. All it knows later is    *)
(* what it left on the thread's stream.                                    *)
(*                                                                         *)
(* One action is the code between two awaits that touch shared state: an   *)
(* append to the stream, a read of it, a call of the execution boundary.   *)
(* The boundary is represented by what DurableAction promises of it; the   *)
(* steps inside it are those of ExecutionWorld.                            *)
(*                                                                         *)
(* Abstracted: texts, deltas, failed and retried attempts (nothing reads   *)
(* them back; an append refused in an attempt fails the turn, as here a    *)
(* turn whose attempts are used up), the compacted view of the history     *)
(* (never checkpointed), and the digest of a history, which is the history *)
(* itself.                                                                 *)
(***************************************************************************)
EXTENDS Naturals, Sequences, FiniteSets, SequencesExt

CONSTANTS
    Runs,       \* invocations of runTurn, resumeTurn and recoverTurn; a turn
                \* is named by the run that started it
    Calls,      \* the tool calls the model may make, each with its own callId
    Scenes,     \* the settings a behavior may have: asks, the calls the policy
                \* wants the user to approve; parallel, the calls whose tools are
                \* declared parallel-safe; runs, how many runs callers start;
                \* active, how many of them may be under way at once; faults,
                \* how many crashes of the process and refused appends it meets
    MaxSteps,   \* maxSteps, the step limit of a turn
    MaxBatch,   \* maxParallelToolCalls
    None        \* no turn, or no call

ASSUME ScenesAssumption ==
    Scenes \subseteq [asks : SUBSET Calls, parallel : SUBSET Calls,
                      runs : Nat, active : Nat, faults : Nat]
ASSUME CallsAssumption == IsFiniteSet(Calls)
ASSUME BoundsAssumption ==
    MaxSteps \in Nat /\ MaxBatch \in Nat \ {0}

VARIABLES
    scene,    \* the setting, fixed for a behavior
    stream,   \* the events of the thread's stream that are read back
    world,    \* <<turn, call>> -> the execution boundary's record of the key
    effects,  \* <<turn, call>> -> how often the world was touched for the key
    run,      \* Runs -> where the run is, and its LoopState
    faults,   \* crashes and refusals so far
    torn      \* history variable, read by no action: the turns a run of which
              \* was lost when the stream had more of them than their last
              \* checkpoint commits

vars == <<scene, stream, world, effects, run, faults, torn>>

-----------------------------------------------------------------------------
(* Messages, events and items *)

UserMessage(t) == [role |-> "user", turn |-> t]
AssistantMessage(r, step, calls) ==
    [role |-> "assistant", by |-> r, step |-> step, calls |-> calls]
ToolMessage(c, ok) == [role |-> "tool", call |-> c, ok |-> ok]

\* A tool intent: the call, and the run that made the tool item it goes by. A
\* run makes at most one item for a call, so <<call, by>> identifies the item.
Intent(c, r) == [call |-> c, by |-> r]
MessageItem(r) == Intent(None, r)

TurnEvent(type, t) == [type |-> type, turn |-> t]
ItemCompleted(t, item, message) ==
    [type |-> "item.completed", turn |-> t, item |-> item, message |-> message]
ToolStarted(t, item) == [type |-> "tool.started", turn |-> t, item |-> item]
ApprovalStarted(t, item) == [type |-> "approval.started", turn |-> t, item |-> item]
ApprovalCompleted(t, item, decision) ==
    [type |-> "approval.completed", turn |-> t, item |-> item, decision |-> decision]
Checkpoint(t, step, history) ==
    [type |-> "agent.checkpoint", turn |-> t, step |-> step, digest |-> history]

Terminal == {"turn.completed", "turn.failed", "turn.cancelled"}

\* The entries of a sequence that are in S, in their order.
Kept(S, kept, e) == IF e \in S THEN Append(kept, e) ELSE kept
Select(s, S) == FoldLeft(LAMBDA kept, e : Kept(S, kept, e), <<>>, s)

OfTurn(events, t) == Select(events, {e \in Range(events) : e.turn = t})

\* The completed items, in event order, as messages.
messagesFromEvents(events) ==
    LET completed == Select(events, {e \in Range(events) : e.type = "item.completed"})
    IN [i \in DOMAIN completed |-> completed[i].message]

\* The index of the event that started turn t.
StartedAt(t) == CHOOSE i \in DOMAIN stream : stream[i] = TurnEvent("turn.started", t)

\* The indices of turn t's checkpoints.
CheckpointsOf(t) == {i \in DOMAIN stream : /\ stream[i].type = "agent.checkpoint"
                                           /\ stream[i].turn = t}

\* Mutant: only the turn's own items are rebuilt.
RebuiltHistory_WithoutCarry(t, n) ==
    messagesFromEvents(OfTurn(SubSeq(stream, 1, n), t))

\* The history a rebuild of turn t makes from the first n events: everything
\* completed before the turn started, then the turn's own committed items.
RebuiltHistory(t, n) ==
    messagesFromEvents(SubSeq(stream, 1, StartedAt(t) - 1))
    \o messagesFromEvents(OfTurn(SubSeq(stream, 1, n), t))

\* The last checkpoint of turn t commits the events up to it; without one,
\* nothing of the turn is committed.
CommitSequence(t) == IF CheckpointsOf(t) = {} THEN 0 ELSE Max(CheckpointsOf(t))

DigestMatches(t) ==
    CheckpointsOf(t) # {} =>
        RebuiltHistory(t, CommitSequence(t)) = stream[CommitSequence(t)].digest

\* The stream has more of turn t than its last checkpoint commits.
Uncommitted(t) == RebuiltHistory(t, Len(stream)) # RebuiltHistory(t, CommitSequence(t))

TurnIsActive(t) == \A i \in DOMAIN stream : ~ (/\ stream[i].turn = t
                                               /\ stream[i].type \in Terminal)

-----------------------------------------------------------------------------
(* Pending approvals and unanswered calls *)

\* Approval items of turn t that are neither approved nor rejected, by index.
OpenApprovals(t) ==
    {i \in DOMAIN stream :
        /\ stream[i].type = "approval.started" /\ stream[i].turn = t
        /\ ~ \E j \in DOMAIN stream : /\ stream[j].type = "approval.completed"
                                      /\ stream[j].turn = t
                                      /\ stream[j].item = stream[i].item}

\* Started tool items of turn t for call c that are not completed, by index.
ActiveToolItems(t, c) ==
    {i \in DOMAIN stream :
        /\ stream[i].type = "tool.started" /\ stream[i].turn = t
        /\ stream[i].item.call = c
        /\ ~ \E j \in DOMAIN stream : /\ stream[j].type = "item.completed"
                                      /\ stream[j].turn = t
                                      /\ stream[j].item = stream[i].item}

\* The first open approval whose call has an active tool item; resumeTurn
\* executes the call by that item.
PendingApprovals(t) ==
    LET eligible == {i \in OpenApprovals(t) :
                        ActiveToolItems(t, stream[i].item.call) # {}} IN
    IF eligible = {} THEN {} ELSE {Min(eligible)}

\* The calls of the last assistant message with tool calls that no tool message
\* of the history answers, whatever turn the message is from.
Unanswered(history) ==
    LET asking == {i \in DOMAIN history : /\ history[i].role = "assistant"
                                          /\ history[i].calls # <<>>}
        answered == {history[i].call :
                        i \in {j \in DOMAIN history : history[j].role = "tool"}}
    IN IF asking = {} THEN <<>>
       ELSE Select(history[Max(asking)].calls, Calls \ answered)

\* The next batch of todo: one exclusive call, or the parallel-safe calls in a
\* row up to the bound.
BatchLength(todo) ==
    Max({1} \union {n \in 1 .. Len(todo) :
                       n <= MaxBatch /\ \A i \in 1 .. n : todo[i].call \in scene.parallel})

-----------------------------------------------------------------------------
(* The execution boundary, key tool:<turn>:<call> *)

NoRecord == [phase |-> "absent", by |-> None]

\* How an intent of the batch under way stands.
Standings == {"ready", "running", "acted", "ok", "error", "ok_recorded",
              "error_recorded", "asked", "raised", "suspended", "rejected"}

\* Mutant: an action that started before is taken for done.
Executes_TrustsStart(rec, item, approval) ==
    IF rec.phase \in {"started", "completed", "failed"}
    THEN <<"ok", rec>>
    ELSE IF item.call \in scene.asks /\ approval = "none"
    THEN <<"asked", [phase |-> "asked", by |-> item.by]>>
    ELSE <<"running", [phase |-> "started", by |-> item.by]>>

\* Mutant: an action without a result is run again.
Executes_BlindRetry(rec, item, approval) ==
    IF rec.phase = "completed"
    THEN <<"ok", rec>>
    ELSE IF item.call \in scene.asks /\ approval = "none"
    THEN <<"asked", [phase |-> "asked", by |-> item.by]>>
    ELSE <<"running", [phase |-> "started", by |-> item.by]>>

\* What execute() answers for a key with record rec, and the record it leaves:
\* another item under the key is a collision, a completed action is replayed, a
\* started one needs reconciliation, and a denied one stays denied. A record is
\* "failed" when the durable result is an error, thrown or reported.
Executes(rec, item, approval) ==
    LET fresh == rec.phase = "absent" IN
    IF ~ fresh /\ rec.by # item.by
    THEN <<"error", rec>>
    ELSE IF rec.phase = "completed"
    THEN <<"ok", rec>>
    ELSE IF rec.phase \in {"started", "failed", "denied"}
    THEN <<"error", rec>>
    ELSE IF approval = "rejected"
    THEN <<"error", [phase |-> "denied", by |-> item.by]>>
    ELSE IF item.call \in scene.asks /\ approval = "none"
    THEN <<"asked", [phase |-> "asked", by |-> item.by]>>
    ELSE <<"running", [phase |-> "started", by |-> item.by]>>

-----------------------------------------------------------------------------
(* The state of a run *)

Idle == [pc |-> "idle", entry |-> "none", turn |-> None, history |-> <<>>,
         step |-> 0, todo |-> <<>>, batch |-> <<>>, mode |-> "none",
         approval |-> "none", item |-> MessageItem(None)]

Over == {"idle", "completed", "failed", "cancelled", "suspended", "refused", "lost"}
Locations == {"carry", "input", "mismatch", "decide", "drive", "generate",
              "intents", "complete"} \union Over

Active(r) == run[r].pc \notin Over

\* A caller may invoke an entry point, also while other runs are under way.
MayStart(r) == /\ run[r].pc = "idle"
               /\ Cardinality({s \in Runs : run[s].pc # "idle"}) < scene.runs
               /\ Cardinality({s \in Runs : Active(s)}) < scene.active

Turns == {t \in Runs : run[t].entry = "runTurn"}

\* The run is over; its locals are gone.
Ended(r, result) ==
    run' = [run EXCEPT ![r] = [Idle EXCEPT !.pc = result, !.entry = run[r].entry,
                                           !.turn = run[r].turn]]

\* The runs in S end without a word on the stream; a turn they leave between an
\* item and its checkpoint is torn.
Lost(S) ==
    /\ run' = [r \in Runs |->
                  IF r \in S
                  THEN [Idle EXCEPT !.pc = "lost", !.entry = run[r].entry,
                                    !.turn = run[r].turn]
                  ELSE run[r]]
    /\ torn' = torn \union {t \in Turns : /\ \E r \in S : run[r].turn = t
                                         /\ Uncommitted(t)}

Fault == faults < scene.faults /\ faults' = faults + 1

AppendEvents(events) == stream' = stream \o events

\* A terminal transition: the turn's last event, and the run's result.
Ends(r, result, type) ==
    /\ AppendEvents(<<TurnEvent(type, run[r].turn)>>)
    /\ Ended(r, result)
    /\ UNCHANGED <<scene, world, effects, faults, torn>>

Init ==
    /\ scene \in Scenes
    /\ stream = <<>>
    /\ world = [k \in Runs \X Calls |-> NoRecord]
    /\ effects = [k \in Runs \X Calls |-> 0]
    /\ run = [r \in Runs |-> Idle]
    /\ faults = 0
    /\ torn = {}

-----------------------------------------------------------------------------
(* runTurn *)

RunTurn(r) ==
    /\ MayStart(r)
    /\ AppendEvents(<<TurnEvent("turn.started", r)>>)
    /\ run' = [run EXCEPT ![r] = [Idle EXCEPT !.pc = "carry", !.entry = "runTurn",
                                              !.turn = r]]
    /\ UNCHANGED <<scene, world, effects, faults, torn>>

\* The thread is read: prior turns precede the input.
CarryHistory(r) ==
    /\ run[r].pc = "carry"
    /\ run' = [run EXCEPT ![r].pc = "input",
                          ![r].history = messagesFromEvents(stream)]
    /\ UNCHANGED <<scene, stream, world, effects, faults, torn>>

SubmitInput(r) ==
    /\ run[r].pc = "input"
    /\ AppendEvents(<<ItemCompleted(r, MessageItem(r), UserMessage(r))>>)
    /\ run' = [run EXCEPT ![r].pc = "drive",
                          ![r].history = Append(@, UserMessage(r))]
    /\ UNCHANGED <<scene, world, effects, faults, torn>>

-----------------------------------------------------------------------------
(* #drive *)

\* The abort signal of the run was raised (the cancel route, a closing client).
Cancel(r) == Ends(r, "cancelled", "turn.cancelled")

IntentsOf(r, calls) == [i \in DOMAIN calls |-> Intent(calls[i], r)]

\* The loop head: out of steps, calls left over from a suspended or crashed
\* step, which are finished under fresh items, or the next generation.
Drive(r) ==
    LET todo == IntentsOf(r, Unanswered(run[r].history)) IN
    /\ run[r].pc = "drive"
    /\ \/ Cancel(r)
       \/ /\ run[r].step >= MaxSteps
          /\ Ends(r, "failed", "turn.failed")
       \/ /\ run[r].step < MaxSteps
          /\ run' = [run EXCEPT ![r].pc = IF todo = <<>> THEN "generate" ELSE "intents",
                                ![r].todo = todo,
                                ![r].mode = "leftover"]
          /\ UNCHANGED <<scene, stream, world, effects, faults, torn>>

\* Calls the model has not made yet, in the order of one assistant message.
FreshCalls ==
    LET made == {stream[i].item.call :
                    i \in {j \in DOMAIN stream : stream[j].type = "tool.started"}}
    IN UNION {SetToSeqs(S) : S \in SUBSET (Calls \ made)}

\* The model answers: the tool items are started as the calls stream in, then
\* the assistant message is completed and enters the history. An answer without
\* calls ends the turn. Or no attempt succeeds, and the turn fails.
Generate(r) ==
    /\ run[r].pc = "generate"
    /\ \/ Cancel(r)
       \/ Ends(r, "failed", "turn.failed")
       \/ \E calls \in FreshCalls :
             LET t == run[r].turn
                 todo == IntentsOf(r, calls)
                 message == AssistantMessage(r, run[r].step, calls)
             IN
             /\ AppendEvents([i \in DOMAIN todo |-> ToolStarted(t, todo[i])]
                             \o <<ItemCompleted(t, MessageItem(r), message)>>)
             /\ run' = [run EXCEPT ![r].pc = "intents",
                                   ![r].todo = todo,
                                   ![r].mode = IF calls = <<>> THEN "end_turn"
                                                              ELSE "tool_calls",
                                   ![r].history = Append(@, message)]
             /\ UNCHANGED <<scene, world, effects, faults, torn>>

\* The step is settled: it is checkpointed before the next one. Leftover calls
\* go straight on to the generation they were in the way of.
Settle(r) ==
    LET next == run[r].step + 1 IN
    /\ run[r].pc = "intents" /\ run[r].mode # "decided"
    /\ run[r].todo = <<>>
    /\ AppendEvents(<<Checkpoint(run[r].turn, next, run[r].history)>>)
    /\ run' = [run EXCEPT ![r].step = next,
                          ![r].pc = CASE run[r].mode = "leftover" -> "generate"
                                      [] run[r].mode = "tool_calls" -> "drive"
                                      [] run[r].mode = "end_turn" -> "complete"]
    /\ UNCHANGED <<scene, world, effects, faults, torn>>

Complete(r) ==
    /\ run[r].pc = "complete"
    /\ Ends(r, "completed", "turn.completed")

-----------------------------------------------------------------------------
(* #runIntents and #dispatchIntent *)

\* The next batch is dispatched, unless the signal was raised.
NextBatch(r) ==
    /\ run[r].pc = "intents"
    /\ run[r].batch = <<>> /\ run[r].todo # <<>>
    /\ \/ /\ run[r].mode # "decided"
          /\ Cancel(r)
       \/ /\ run' = [run EXCEPT ![r].batch =
                        [i \in 1 .. BatchLength(run[r].todo) |-> "ready"]]
          /\ UNCHANGED <<scene, stream, world, effects, faults, torn>>

\* Intent i of run r's batch stands at s.
Stands(r, i, s) == i \in DOMAIN run[r].batch /\ run[r].batch[i] = s

KeyOf(r, i) == <<run[r].turn, run[r].todo[i].call>>

\* toolExecution.execute reaches the boundary, which starts the action or
\* answers without it.
Dispatch(r, i) ==
    LET answer == Executes(world[KeyOf(r, i)], run[r].todo[i], run[r].approval) IN
    /\ Stands(r, i, "ready")
    /\ world' = [world EXCEPT ![KeyOf(r, i)] = answer[2]]
    /\ run' = [run EXCEPT ![r].batch[i] = answer[1]]
    /\ UNCHANGED <<scene, stream, effects, faults, torn>>

\* A started action touches the world.
Perform(r, i) ==
    /\ Stands(r, i, "running")
    /\ effects' = [effects EXCEPT ![KeyOf(r, i)] = @ + 1]
    /\ run' = [run EXCEPT ![r].batch[i] = "acted"]
    /\ UNCHANGED <<scene, stream, world, faults, torn>>

\* Its result becomes durable: a success, or an error, which may also come
\* before any effect.
Result(r, i, succeeded) ==
    /\ Stands(r, i, "acted") \/ (Stands(r, i, "running") /\ ~ succeeded)
    /\ world' = [world EXCEPT ![KeyOf(r, i)].phase =
                    IF succeeded THEN "completed" ELSE "failed"]
    /\ run' = [run EXCEPT ![r].batch[i] = IF succeeded THEN "ok" ELSE "error"]
    /\ UNCHANGED <<scene, stream, effects, faults, torn>>

\* An append of the boundary is refused: execute() throws, with the record as it
\* was, and the loop takes what was thrown for the call's error.
ExecuteThrows(r, i) ==
    /\ Fault
    /\ Stands(r, i, "ready") \/ Stands(r, i, "running") \/ Stands(r, i, "acted")
    /\ run' = [run EXCEPT ![r].batch[i] = "error"]
    /\ UNCHANGED <<scene, stream, world, effects, torn>>

\* #completeToolItem and #errorToolItem: either way the item is completed.
RecordResult(r, i) ==
    LET item == run[r].todo[i]
        ok == Stands(r, i, "ok")
    IN
    /\ Stands(r, i, "ok") \/ Stands(r, i, "error")
    /\ AppendEvents(<<ItemCompleted(run[r].turn, item, ToolMessage(item.call, ok))>>)
    /\ run' = [run EXCEPT ![r].batch[i] = IF ok THEN "ok_recorded" ELSE "error_recorded"]
    /\ UNCHANGED <<scene, world, effects, faults, torn>>

\* #suspend: the approval item is started, then the step is checkpointed.
RaiseApproval(r, i) ==
    /\ Stands(r, i, "asked")
    /\ AppendEvents(<<ApprovalStarted(run[r].turn, run[r].todo[i])>>)
    /\ run' = [run EXCEPT ![r].batch[i] = "raised"]
    /\ UNCHANGED <<scene, world, effects, faults, torn>>

SuspendCheckpoint(r, i) ==
    /\ Stands(r, i, "raised")
    /\ AppendEvents(<<Checkpoint(run[r].turn, run[r].step + 1, run[r].history)>>)
    /\ run' = [run EXCEPT ![r].batch[i] = "suspended"]
    /\ UNCHANGED <<scene, world, effects, faults, torn>>

\* The append by which the loop records the answer is refused: the dispatch of
\* the call rejects.
RecordingRefused(r, i) ==
    /\ Fault
    /\ \E s \in {"ok", "error", "asked", "raised"} : Stands(r, i, s)
    /\ run' = [run EXCEPT ![r].batch[i] = "rejected"]
    /\ UNCHANGED <<scene, stream, world, effects, torn>>

Recorded == {"ok_recorded", "error_recorded"}

\* The messages of a settled batch, in the model's order.
BatchMessages(todo, batch) ==
    LET answered == Select([i \in DOMAIN batch |-> i],
                           {i \in DOMAIN batch : batch[i] \in Recorded})
    IN [n \in DOMAIN answered |-> ToolMessage(todo[answered[n]].call,
                                              batch[answered[n]] = "ok_recorded")]

\* The batch is committed and the run goes on with `rest`.
Commits(r, rest, batch) ==
    run' = [run EXCEPT ![r].history = @ \o BatchMessages(run[r].todo, run[r].batch),
                       ![r].todo = rest,
                       ![r].batch = batch,
                       ![r].pc = IF run[r].mode = "decided" THEN "drive" ELSE @,
                       ![r].approval = "none"]

\* The batch has settled: its messages enter the history in the model's order,
\* or the run returns because one of the calls suspended the turn.
Commit(r) ==
    LET batch == run[r].batch IN
    /\ batch # <<>>
    /\ \A i \in DOMAIN batch : batch[i] \in Recorded \union {"suspended"}
    /\ IF \E i \in DOMAIN batch : batch[i] = "suspended"
       THEN Ended(r, "suspended")
       ELSE Commits(r, SubSeq(run[r].todo, Len(batch) + 1, Len(run[r].todo)), <<>>)
    /\ UNCHANGED <<scene, stream, world, effects, faults, torn>>

\* The batch has settled, siblings included, and one dispatch rejected: the run
\* throws.
DispatchFailed(r) ==
    LET batch == run[r].batch IN
    /\ \A i \in DOMAIN batch : batch[i] \in Recorded \union {"suspended", "rejected"}
    /\ \E i \in DOMAIN batch : batch[i] = "rejected"
    /\ Lost({r})
    /\ UNCHANGED <<scene, stream, world, effects, faults>>

-----------------------------------------------------------------------------
(* resumeTurn and recoverTurn *)

\* The state a run rebuilds for turn t from the stream; a checkpoint that does
\* not match is reported on the stream.
Rebuilt(r, entry, t, pc) ==
    [Idle EXCEPT !.pc = IF DigestMatches(t) THEN pc ELSE "mismatch",
                 !.entry = entry,
                 !.turn = t,
                 !.history = RebuiltHistory(t, CommitSequence(t)),
                 !.step = IF CheckpointsOf(t) = {} THEN 0
                          ELSE stream[CommitSequence(t)].step]

\* The user answers an open approval. It must be the one the turn is pending on.
ResumeTurn(r) ==
    /\ MayStart(r)
    /\ \E t \in Turns, decision \in {"approved", "rejected"} :
       \E a \in OpenApprovals(t) :
          LET pending == a \in PendingApprovals(t)
              rebuilt == Rebuilt(r, "resumeTurn", t, IF pending THEN "decide" ELSE "refused")
              call == stream[a].item.call
              tool == stream[Max(ActiveToolItems(t, call))].item
          IN run' = [run EXCEPT ![r] =
                IF rebuilt.pc = "decide"
                THEN [rebuilt EXCEPT !.approval = decision,
                                     !.todo = <<tool>>,
                                     !.mode = "decided",
                                     !.item = stream[a].item]
                ELSE rebuilt]
    /\ UNCHANGED <<scene, stream, world, effects, faults, torn>>

\* The decision is recorded, and the call is executed with it.
Decide(r) ==
    /\ run[r].pc = "decide"
    /\ AppendEvents(<<ApprovalCompleted(run[r].turn, run[r].item, run[r].approval)>>)
    /\ run' = [run EXCEPT ![r].pc = "intents"]
    /\ UNCHANGED <<scene, world, effects, faults, torn>>

\* agent.recovery_failed is appended and the run throws.
ReportMismatch(r) ==
    /\ run[r].pc = "mismatch"
    /\ AppendEvents(<<TurnEvent("agent.recovery_failed", run[r].turn)>>)
    /\ Ended(r, "refused")
    /\ UNCHANGED <<scene, world, effects, faults, torn>>

\* A turn nobody drives any more is taken up again.
RecoverTurn(r) ==
    /\ MayStart(r)
    /\ \E t \in Turns :
          /\ \A s \in Runs : Active(s) => run[s].turn # t
          /\ LET recoverable == PendingApprovals(t) = {} /\ TurnIsActive(t) IN
             run' = [run EXCEPT ![r] =
                 Rebuilt(r, "recoverTurn", t, IF recoverable THEN "drive" ELSE "refused")]
    /\ UNCHANGED <<scene, stream, world, effects, faults, torn>>

\* The process dies with the runs under way; the stream and the world stay.
Crash ==
    /\ Fault
    /\ \E r \in Runs : Active(r)
    /\ Lost({r \in Runs : Active(r)})
    /\ UNCHANGED <<scene, stream, world, effects>>

\* An append of a run outside a batch is refused, or the read of the stream it
\* carries: the run throws. Before the answer of the model is completed, the
\* tool items it streamed in were started.
AppendRefused(r) ==
    /\ Fault
    /\ Active(r) /\ run[r].batch = <<>>
    /\ run[r].mode = "decided" => run[r].pc # "intents"
    /\ Lost({r})
    /\ \E calls \in {<<>>} \union (IF run[r].pc = "generate" THEN FreshCalls ELSE {}) :
          AppendEvents([i \in DOMAIN calls |->
                            ToolStarted(run[r].turn, IntentsOf(r, calls)[i])])
    /\ UNCHANGED <<scene, world, effects>>

-----------------------------------------------------------------------------

InBatch(r, i) == \/ Dispatch(r, i) \/ Perform(r, i)
                 \/ \E succeeded \in BOOLEAN : Result(r, i, succeeded)
                 \/ ExecuteThrows(r, i) \/ RecordResult(r, i) \/ RecordingRefused(r, i)
                 \/ RaiseApproval(r, i) \/ SuspendCheckpoint(r, i)

Step(r) == \/ CarryHistory(r) \/ SubmitInput(r) \/ Drive(r) \/ Generate(r)
           \/ NextBatch(r) \/ (\E i \in 1 .. MaxBatch : InBatch(r, i))
           \/ Commit(r) \/ DispatchFailed(r) \/ Settle(r) \/ Complete(r)
           \/ Decide(r) \/ ReportMismatch(r) \/ AppendRefused(r)

Next == \/ \E r \in Runs : RunTurn(r) \/ ResumeTurn(r) \/ RecoverTurn(r) \/ Step(r)
        \/ Crash

Spec == Init /\ [][Next]_vars

-----------------------------------------------------------------------------
(* Properties *)

TypeOK ==
    /\ scene \in Scenes
    /\ \A k \in DOMAIN stream : stream[k].turn \in Runs
    /\ DOMAIN world = Runs \X Calls /\ DOMAIN effects = Runs \X Calls
    /\ \A k \in Runs \X Calls :
          /\ effects[k] \in Nat
          /\ world[k].phase \in {"absent", "asked", "denied", "started",
                                 "completed", "failed"}
          /\ world[k].by \in Runs \union {None}
    /\ faults \in 0 .. scene.faults /\ torn \subseteq Runs
    /\ \A r \in Runs :
          /\ run[r].pc \in Locations
          /\ run[r].entry \in {"none", "runTurn", "resumeTurn", "recoverTurn"}
          /\ run[r].turn \in Runs \union {None}
          /\ run[r].step \in Nat
          /\ run[r].approval \in {"none", "approved", "rejected"}
          /\ run[r].mode \in {"none", "leftover", "tool_calls", "end_turn", "decided"}
          /\ Len(run[r].batch) <= Len(run[r].todo)
          /\ \A i \in DOMAIN run[r].batch : run[r].batch[i] \in Standings

\* Turn t is not over, and it ran strictly in sequence: runs do not overlap
\* (which is up to the callers), and no call in sight of it is parallel-safe.
Sequential(t) ==
    /\ scene.active = 1
    /\ TurnIsActive(t)
    /\ \A i \in DOMAIN stream :
          stream[i].type = "tool.started" => stream[i].item.call \notin scene.parallel

\* What a turn needs to be resumed or recovered: its last checkpoint is the
\* digest of the history a rebuild makes of the stream (#checkpoint, #suspend
\* and #rebuild agree), across approvals, leftovers, other turns, refusals,
\* crashes and what takes the turn up after them. Excepted is the turn a run of
\* which was lost between an item and the checkpoint that was to commit it: the
\* run that takes it up does without the item, and the checkpoint it writes then
\* commits it after all.
SequentialTurnsRebuild ==
    \A t \in Turns \ torn : Sequential(t) => DigestMatches(t)

\* Whatever is resumed, recovered or dispatched again, one turn touches the
\* world at most once for one call (idempotency key tool:<turn>:<call>).
OncePerTurn ==
    \A k \in Runs \X Calls : effects[k] <= 1

\* A tool result that is not an error tells the truth: the world was touched
\* for this turn and call, and the boundary holds the durable result.
ResultsAreTrue ==
    \A i \in DOMAIN stream :
        (/\ stream[i].type = "item.completed"
         /\ stream[i].message.role = "tool" /\ stream[i].message.ok) =>
            LET k == <<stream[i].turn, stream[i].item.call>> IN
            effects[k] = 1 /\ world[k].phase = "completed"

=============================================================================
