----------------------------- MODULE Generation ------------------------------
(***************************************************************************)
(* How a step of a turn gets its answer: #drive calls #generate, which     *)
(* folds the history into a view (#maybeCompact, projectHistory), and      *)
(* makes attempts until one is answered (#attempt). Each attempt goes      *)
(* through ModelRequestService, which records the request before the call  *)
(* and its end after it, to an OpenAI-compatible provider, whose answer    *)
(* streams into a queue the attempt reads from.                            *)
(*                                                                         *)
(* One action is the code between two awaits of an append, of the queue or *)
(* of the provider. The steps of one turn and of its provider interleave,  *)
(* and so do turns of one thread.                                          *)
(*                                                                         *)
(* Abstracted: what tools do (AgentLoop and ExecutionWorld), checkpoints,  *)
(* recovery and the fate of the terminal event (AgentLoop), waits between  *)
(* attempts, the hooks, decisions, usage, and the arguments of a call. A   *)
(* piece of text or a call is named by the request that answered with it   *)
(* and its place in the answer.                                            *)
(***************************************************************************)
EXTENDS ContextView

CONSTANTS
    Turns,          \* turns of the thread
    Earlier,        \* what earlier turns may have left on the thread's stream
    MaxSteps,       \* maxSteps
    MaxRetries,     \* maxRetries of a generation
    MaxCompactions, \* maxAttemptsPerTurn of the level-2 compaction
    MaxCap,         \* the model's output token limit; a turn starts with 1
    MaxPieces,      \* bound: pieces of text and calls in all answers together
    MaxFaults       \* bound: errors, answers cut at the limit, failed appends
                    \* and raised signals, all together

ASSUME GenerationAssumption ==
    /\ {MaxSteps, MaxRetries, MaxCompactions, MaxPieces, MaxFaults} \subseteq Nat
    /\ MaxCap \in Nat \ {0}

\* The requests of earlier turns are not kept.
Before == 0

\* What earlier turns leave: their messages, and summaries of as many of the
\* messages their turn had seen as they count.
EarlierMessage(m) ==
    \/ m.role = "user" /\ m = UserMessage(m.turn)
    \/ m.role = "assistant" /\ m = AssistantMessage(Before, m.text, m.calls)
    \/ m.role = "tool" /\ m.isError \in BOOLEAN /\ m = ToolMessage(m.call, m.isError)

EarlierCompaction(c) == c.digest \in Seq(ToSet(c.digest)) /\ c = Compaction(c.digest)

ASSUME EarlierAssumption ==
    \A s \in Earlier :
        /\ s \in Seq(ToSet(s))
        /\ \A e \in ToSet(s) :
              \/ e.type = "message" /\ EarlierMessage(e.body)
              \/ e.type = "context.compacted" /\ EarlierCompaction(e.body)

VARIABLES
    stream,    \* completed messages and compactions of the thread, in order
    open,      \* items that were started and are neither completed nor failed
    requests,  \* the model-request streams, in the order they were begun
    gen,       \* Turns -> where the turn is, with its LoopState
    call,      \* Turns -> the provider's side of the turn's last request
    aborted,   \* the turns whose signal was raised
    streams,   \* whether the provider streams or answers with one body
    faults     \* what went wrong so far, counted

generationVars == <<stream, open, requests, gen, call, aborted, streams, faults>>

-----------------------------------------------------------------------------
(* The thread, the turns and the requests *)

Message(m) == [type |-> "message", body |-> m]
Compacted(c) == [type |-> "context.compacted", body |-> c]

\* The entries of a sequence that are in S, in their order.
Kept(S, kept, e) == IF e \in S THEN Append(kept, e) ELSE kept
Select(s, S) == FoldLeft(LAMBDA kept, e : Kept(S, kept, e), <<>>, s)

OfType(events, type) ==
    LET chosen == Select(events, {e \in ToSet(events) : e.type = type}) IN
    [i \in DOMAIN chosen |-> chosen[i].body]

messagesFromEvents(events) == OfType(events, "message")

Idle == [pc |-> "idle", history |-> <<>>, compaction |-> NoSummary,
         compactions |-> 0, step |-> 0, retry |-> 0, cap |-> 1,
         item |-> 0, view |-> <<>>, text |-> <<>>, intents |-> <<>>,
         refused |-> FALSE]

\* A run that threw is over too; its turn is left to recovery.
Over == {"completed", "failed", "cancelled", "thrown"}
Active(t) == gen[t].pc \notin Over \union {"idle"}

NoCall == [request |-> 0, phase |-> "none", queue |-> <<>>, fragments |-> <<>>]
Done == [kind |-> "done"]
Delta(r, k) == [kind |-> "message-delta", piece |-> <<r, k>>]
ToolIntent(c) == [kind |-> "tool-intent", piece |-> c]

\* How a call ended: an answer, a cancellation, or an error of some class.
Answers == {"end_turn", "tool_calls", "max_tokens"}
Errors == {"retryable", "context-overflow", "fatal", "protocol", "timeout"}

\* classifyProviderError: a ModelProviderError without a status is fatal, and a
\* request that timed out is one; a ModelProtocolError is thrown as it is.
Retryability(end) ==
    CASE end = "retryable" -> "retryable"
      [] end = "context-overflow" -> "context-overflow"
      [] end \in {"fatal", "timeout"} -> "fatal"
      [] OTHER -> "unclassified"

TheRequest(t) == requests[call[t].request]

\* The assistant item and the tool items of turn t that are open.
MessageItem(t, n) == [turn |-> t, type |-> "message", of |-> n]
ToolItem(t, c) == [turn |-> t, type |-> "tool_call", of |-> c]
OpenOf(t) == {i \in open : i.turn = t}

AppendEvents(events) == stream' = stream \o events

\* Of a turn that is over only that is kept, and whether an append was refused.
Ended(result, refused) == [Idle EXCEPT !.pc = result, !.refused = refused]

Ends(t, result) == gen' = [gen EXCEPT ![t] = Ended(result, FALSE)]

GenerationInit ==
    /\ stream \in Earlier
    /\ open = {}
    /\ requests = <<>>
    /\ gen = [t \in Turns |-> Idle]
    /\ call = [t \in Turns |-> NoCall]
    /\ aborted = {}
    /\ streams \in BOOLEAN
    /\ faults = 0

Fault == faults < MaxFaults /\ faults' = faults + 1

-----------------------------------------------------------------------------
(* The turn *)

\* runTurn: prior turns and the newest compaction that applies are read, and
\* the input is appended.
RunTurn(t) ==
    LET carried == messagesFromEvents(stream) IN
    /\ gen[t].pc = "idle"
    /\ AppendEvents(<<Message(UserMessage(t))>>)
    /\ gen' = [gen EXCEPT ![t] = [Idle EXCEPT
                  !.pc = "drive",
                  !.history = Append(carried, UserMessage(t)),
                  !.compaction =
                      LoadCompaction(OfType(stream, "context.compacted"), carried)]]
    /\ UNCHANGED <<open, requests, call, aborted, faults>>

\* The signal of the turn is raised: the cancel route, a closing client.
Abort(t) ==
    /\ Active(t) /\ t \notin aborted
    /\ Fault
    /\ aborted' = aborted \union {t}
    /\ UNCHANGED <<stream, open, requests, gen, call>>

\* The head of #drive.
Drive(t) ==
    /\ gen[t].pc = "drive"
    /\ CASE t \in aborted -> Ends(t, "cancelled")
         [] t \notin aborted /\ gen[t].step >= MaxSteps -> Ends(t, "failed")
         [] OTHER -> gen' = [gen EXCEPT ![t].pc = "compact"]
    /\ UNCHANGED <<stream, open, requests, call, aborted, streams, faults>>

-----------------------------------------------------------------------------
(* ModelRequestService.generate *)

\* The manifest and model.requested are appended, and the provider is called.
\* history is what the messages stand for, kept for the properties.
Requests(t, kind, messages, history) ==
    /\ requests' = Append(requests,
          [turn |-> t, kind |-> kind, step |-> gen[t].step, attempt |->
              IF kind = "summary" THEN 0 ELSE gen[t].retry,
           messages |-> messages, history |-> history,
           text |-> <<>>, calls |-> <<>>, end |-> "none", recorded |-> <<>>])
    /\ call' = [call EXCEPT ![t] =
                   [NoCall EXCEPT !.request = Len(requests) + 1, !.phase = "connecting"]]
    /\ UNCHANGED faults

\* The append fails, and nothing is called.
RequestFails ==
    /\ Fault
    /\ UNCHANGED <<requests, call>>

\* The result of the call waits for its terminal event; an append that fails
\* rejects it.
RecordTerminal(t) ==
    /\ call[t].phase = "settled"
    /\ \/ /\ requests' = [requests EXCEPT ![call[t].request].recorded =
                 Append(@, IF TheRequest(t).end \in Errors
                           THEN "model.failed" ELSE "model.completed")]
          /\ call' = [call EXCEPT ![t].phase = "recorded"]
          /\ UNCHANGED faults
       \/ /\ Fault
          /\ call' = [call EXCEPT ![t].phase = "unrecorded"]
          /\ UNCHANGED requests
    /\ UNCHANGED <<stream, open, gen, aborted>>

Settled(t) == call[t].phase \in {"recorded", "unrecorded"}
Answered(t) == call[t].phase = "recorded" /\ TheRequest(t).end \in Answers

-----------------------------------------------------------------------------
(* #maybeCompact and the view *)

\* The attempts of the generation show the history folded by compaction c.
Shows(t, c) ==
    gen' = [gen EXCEPT ![t].pc = "attempt",
                       ![t].retry = 0,
                       ![t].compaction = c,
                       ![t].view = projectHistory(Assembled(gen[t].history, c))]

Covered(t) == Prefix(gen[t].history, CoveredCount(gen[t].history, gen[t].compaction))

\* Below the threshold, with nothing more to cover, or out of attempts, the
\* view is made as it stands. Else a summary of the covered prefix is asked for.
Compact(t) ==
    LET due == /\ gen[t].compactions < MaxCompactions
               /\ WorthCompacting(gen[t].history, gen[t].compaction)
    IN
    /\ gen[t].pc = "compact"
    /\ \/ /\ ~ due
          /\ Shows(t, gen[t].compaction)
          /\ UNCHANGED <<requests, call, faults>>
       \/ /\ due
          /\ gen' = [gen EXCEPT ![t].pc = "summarize", ![t].compactions = @ + 1]
          /\ Requests(t, "summary", Covered(t), gen[t].history)
       \/ /\ due
          /\ gen' = [gen EXCEPT ![t].pc = "unfolded", ![t].compactions = @ + 1]
          /\ RequestFails
    /\ UNCHANGED <<stream, open, aborted>>

\* Mutant: the messages are folded from the view rather than the history.
Summarized_OfView(t) ==
    LET view == compactView(gen[t].history, gen[t].compaction)
        n == CoveredCount(gen[t].history, gen[t].compaction)
        c == [Compaction(Covered(t)) EXCEPT !.summary = Prefix(view, n)]
    IN
    /\ gen[t].pc = "summarize" /\ Settled(t)
    /\ IF Answered(t) /\ TheRequest(t).text # <<>>
       THEN /\ AppendEvents(<<Compacted(c)>>)
            /\ Shows(t, c)
       ELSE /\ Shows(t, gen[t].compaction)
            /\ UNCHANGED stream
    /\ UNCHANGED <<open, requests, call, aborted, faults>>

\* #summarize returns: a summary is kept and recorded; an error, a cancellation
\* or an empty text leaves the view unfolded.
Summarized(t) ==
    LET c == Compaction(Covered(t)) IN
    /\ gen[t].pc = "summarize" /\ Settled(t)
    /\ IF Answered(t) /\ TheRequest(t).text # <<>>
       THEN /\ AppendEvents(<<Compacted(c)>>)
            /\ Shows(t, c)
       ELSE /\ Shows(t, gen[t].compaction)
            /\ UNCHANGED stream
    /\ UNCHANGED <<open, requests, call, aborted, faults>>

ProceedUnfolded(t) ==
    /\ gen[t].pc = "unfolded"
    /\ Shows(t, gen[t].compaction)
    /\ UNCHANGED <<stream, open, requests, call, aborted, streams, faults>>

-----------------------------------------------------------------------------
(* #attempt *)

Attempt(t) ==
    LET n == gen[t].item + 1 IN
    /\ gen[t].pc = "attempt"
    /\ \/ /\ t \in aborted
          /\ Ends(t, "cancelled")
          /\ UNCHANGED open
       \/ /\ t \notin aborted
          /\ open' = open \union {MessageItem(t, n)}
          /\ gen' = [gen EXCEPT ![t].pc = "request", ![t].item = n]
    /\ UNCHANGED <<stream, requests, call, aborted, faults>>

\* Mutant: the text of an earlier attempt is kept.
Request_KeepsText(t) ==
    /\ gen[t].pc = "request"
    /\ \/ /\ Requests(t, "step", gen[t].view, gen[t].history)
          /\ gen' = [gen EXCEPT ![t].pc = "consume"]
       \/ /\ RequestFails
          /\ Ends(t, IF t \in aborted THEN "cancelled" ELSE "failed")
    /\ UNCHANGED <<stream, open, aborted>>

\* The attempt's request. One that cannot be recorded is not an error of the
\* provider: the generation fails.
Request(t) ==
    /\ gen[t].pc = "request"
    /\ \/ /\ Requests(t, "step", gen[t].view, gen[t].history)
          /\ gen' = [gen EXCEPT ![t].pc = "consume",
                                ![t].text = <<>>, ![t].intents = <<>>]
       \/ /\ RequestFails
          /\ Ends(t, IF t \in aborted THEN "cancelled" ELSE "failed")
    /\ UNCHANGED <<stream, open, aborted>>

ThisItem(t) == MessageItem(t, gen[t].item)

Takes(t) == call' = [call EXCEPT ![t].queue = Tail(@)]

\* Mutant: a cancelled attempt leaves its item as it is.
ConsumeAborted_LeavesItem(t) ==
    /\ gen[t].pc = "consume" /\ call[t].queue # <<>>
    /\ t \in aborted /\ Head(call[t].queue) # Done
    /\ Takes(t)
    /\ Ends(t, "cancelled")
    /\ UNCHANGED <<stream, open, requests, aborted, faults>>

\* An event arrives after the signal was raised: the item fails, and nobody
\* reads on.
ConsumeAborted(t) ==
    /\ gen[t].pc = "consume" /\ call[t].queue # <<>>
    /\ t \in aborted /\ Head(call[t].queue) # Done
    /\ Takes(t)
    /\ open' = open \ {ThisItem(t)}
    /\ Ends(t, "cancelled")
    /\ UNCHANGED <<stream, requests, aborted, faults>>

\* Text is collected; the item of a tool call is started as the call streams
\* in; at the end of the queue the attempt waits for the result.
Consume(t) ==
    /\ gen[t].pc = "consume" /\ call[t].queue # <<>>
    /\ LET event == Head(call[t].queue) IN
       /\ t \in aborted => event = Done
       /\ CASE event.kind = "message-delta" ->
                  /\ gen' = [gen EXCEPT ![t].text = Append(@, event.piece)]
                  /\ UNCHANGED open
            [] event.kind = "tool-intent" ->
                  /\ gen' = [gen EXCEPT ![t].intents = Append(@, event.piece)]
                  /\ open' = open \union {ToolItem(t, event.piece)}
            [] event = Done ->
                  /\ gen' = [gen EXCEPT ![t].pc = "result"]
                  /\ UNCHANGED open
    /\ Takes(t)
    /\ UNCHANGED <<stream, requests, aborted, faults>>

-----------------------------------------------------------------------------
(* The result of an attempt *)

\* The item fails with the call. A retryable error is tried again while
\* attempts are left; anything else fails the generation, and with it the turn.
ResultFails(t) ==
    LET mayRetry == /\ call[t].phase = "recorded"
                    /\ TheRequest(t).end \in Errors
                    /\ Retryability(TheRequest(t).end) = "retryable"
                    /\ gen[t].retry < MaxRetries
    IN
    /\ gen[t].pc = "result" /\ Settled(t) /\ ~ Answered(t)
    /\ open' = open \ {ThisItem(t)}
    /\ CASE t \in aborted -> Ends(t, "cancelled")
         [] t \notin aborted /\ mayRetry ->
               gen' = [gen EXCEPT ![t].pc = "attempt", ![t].retry = @ + 1]
         [] OTHER -> Ends(t, "failed")
    /\ UNCHANGED <<stream, requests, call, aborted, faults>>

\* The answer was cut at the output limit: the step is generated again with
\* twice the limit, or the turn fails at the model's maximum. The cut attempt
\* never enters the history.
ResultCut(t) ==
    /\ gen[t].pc = "result" /\ Answered(t)
    /\ TheRequest(t).end = "max_tokens"
    /\ open' = open \ {ThisItem(t)}
    /\ IF gen[t].cap < MaxCap
       THEN gen' = [gen EXCEPT ![t].pc = "drive",
                               ![t].cap = IF 2 * @ < MaxCap THEN 2 * @ ELSE MaxCap]
       ELSE Ends(t, "failed")
    /\ UNCHANGED <<stream, requests, call, aborted, faults>>

\* The answer is completed and enters the history.
ResultTaken(t) ==
    LET m == AssistantMessage(call[t].request, gen[t].text, gen[t].intents) IN
    /\ gen[t].pc = "result" /\ Answered(t)
    /\ TheRequest(t).end # "max_tokens"
    /\ open' = open \ {ThisItem(t)}
    /\ AppendEvents(<<Message(m)>>)
    /\ gen' = [gen EXCEPT ![t].pc = "tools", ![t].history = Append(@, m)]
    /\ UNCHANGED <<requests, call, aborted, faults>>

\* The calls of the answer are run by AgentLoop, each to a result or an error,
\* and the next step begins; an answer without calls completes the turn.
RunIntents(t) ==
    LET calls == gen[t].intents IN
    /\ gen[t].pc = "tools"
    /\ \/ /\ calls = <<>>
          /\ Ends(t, "completed")
          /\ UNCHANGED <<stream, open>>
       \/ /\ calls # <<>> /\ t \in aborted
          /\ Ends(t, "cancelled")
          /\ UNCHANGED <<stream, open>>
       \/ /\ calls # <<>> /\ t \notin aborted
          /\ \E bad \in SUBSET ToSet(calls) :
                LET results == [i \in DOMAIN calls |->
                                   ToolMessage(calls[i], calls[i] \in bad)]
                IN
                /\ AppendEvents([i \in DOMAIN calls |-> Message(results[i])])
                /\ gen' = [gen EXCEPT ![t].pc = "drive", ![t].step = @ + 1,
                                      ![t].history = @ \o results]
          /\ open' = open \ {ToolItem(t, c) : c \in ToSet(calls)}
    /\ UNCHANGED <<requests, call, aborted, streams, faults>>

-----------------------------------------------------------------------------
(* An append to the thread that is refused *)

\* What #attempt has to append: the start of its item, then, for what it takes from
\* the queue, text that is flushed, the start of a tool item or the failure of an
\* aborted item, and the failure of an item whose call was rejected.
AppendsInAttempt(t) ==
    \/ gen[t].pc = "attempt" /\ t \notin aborted /\ UNCHANGED call
    \/ /\ gen[t].pc = "consume" /\ call[t].queue # <<>>
       /\ Head(call[t].queue) = Done => gen[t].text # <<>>
       /\ Takes(t)
    \/ gen[t].pc = "result" /\ Settled(t) /\ ~ Answered(t) /\ UNCHANGED call

\* What #maybeCompact and #drive have to append: a summary, the end of a cut or
\* completed item, the results of the calls.
AppendsInDrive(t) ==
    /\ \/ gen[t].pc = "summarize" /\ Answered(t) /\ TheRequest(t).text # <<>>
       \/ gen[t].pc = "result" /\ Answered(t)
       \/ gen[t].pc = "tools"
    /\ UNCHANGED call

\* #generate catches what #attempt throws and the turn fails, or is cancelled; the
\* rest is thrown out of the run. What was open stays open.
AppendRefused(t) ==
    /\ Fault
    /\ \E result \in Over :
          /\ \/ AppendsInAttempt(t) /\ result = IF t \in aborted THEN "cancelled" ELSE "failed"
             \/ AppendsInDrive(t) /\ result = "thrown"
          /\ gen' = [gen EXCEPT ![t] = Ended(result, TRUE)]
    /\ UNCHANGED <<stream, open, requests, aborted>>

-----------------------------------------------------------------------------
(* OpenAIChatRuntime: the call under way *)

\* An end is one of the faults unless it is what was asked for.
CountsEnd(end) ==
    IF end \in Errors \union {"max_tokens"} THEN Fault ELSE UNCHANGED faults

\* Mutant: only a call that ended well closes its queue.
Settles_OpenOnError(t, end, pushed, text, calls) ==
    /\ requests' = [requests EXCEPT ![call[t].request].end = end,
                                    ![call[t].request].text = text,
                                    ![call[t].request].calls = calls]
    /\ call' = [call EXCEPT
          ![t].phase = "settled",
          ![t].queue = @ \o pushed \o [k \in DOMAIN calls |-> ToolIntent(calls[k])]
                         \o (IF end \in Errors THEN <<>> ELSE <<Done>>)]
    /\ CountsEnd(end)

\* The run settles: what it has not pushed yet and the calls it has gathered are
\* pushed, and the queue is closed however it ended.
Settles(t, end, pushed, text, calls) ==
    /\ requests' = [requests EXCEPT ![call[t].request].end = end,
                                    ![call[t].request].text = text,
                                    ![call[t].request].calls = calls]
    /\ call' = [call EXCEPT
          ![t].phase = "settled",
          ![t].queue = @ \o (pushed \o [k \in DOMAIN calls |-> ToolIntent(calls[k])]
                              \o <<Done>>)]
    /\ CountsEnd(end)

\* Nothing more is pushed, and no call is settled.
Stops(t, end) == Settles(t, end, <<>>, TheRequest(t).text, <<>>)

\* stopReasonFor: calls go before what the provider says of the end.
StopReasons(calls) ==
    IF calls # <<>> THEN {"tool_calls"} ELSE {"end_turn", "max_tokens"}

\* postForStream: the request is refused, cannot be sent or times out; or a
\* stream of events, or one buffered body, starts to arrive. The timer is off
\* from then on.
Connect(t) ==
    /\ call[t].phase = "connecting"
    /\ \/ /\ t \in aborted
          /\ Stops(t, "cancelled")
       \/ /\ t \notin aborted
          /\ \E end \in Errors \ {"protocol"} : Stops(t, end)
       \/ /\ t \notin aborted
          /\ call' = [call EXCEPT ![t].phase =
                          IF streams THEN "streaming" ELSE "buffered"]
          /\ UNCHANGED <<requests, faults>>
    /\ UNCHANGED <<stream, open, gen, aborted>>

Pieces(t) == Len(TheRequest(t).text) + Len(call[t].fragments)

\* The pieces of all answers so far, those under way included.
Delivered ==
    LET ofRequests == FoldLeft(LAMBDA n, r : n + Len(r.text) + Len(r.calls), 0, requests)
        gathered(t) == IF call[t].phase = "streaming" THEN Len(call[t].fragments) ELSE 0
    IN ofRequests + FoldSet(LAMBDA t, n : n + gathered(t), 0, Turns)

\* #runSse: a chunk of text is pushed as it arrives; a fragment of a tool call
\* is kept. A summary is asked for without tools.
ReadChunk(t) ==
    LET r == call[t].request
        piece == <<r, Pieces(t) + 1>>
    IN
    /\ call[t].phase = "streaming" /\ t \notin aborted
    /\ Delivered < MaxPieces
    /\ \/ /\ requests' = [requests EXCEPT ![r].text = Append(@, piece)]
          /\ call' = [call EXCEPT ![t].queue = Append(@, Delta(r, piece[2]))]
       \/ /\ TheRequest(t).kind = "step"
          /\ call' = [call EXCEPT ![t].fragments = Append(@, piece)]
          /\ UNCHANGED requests
    /\ UNCHANGED <<stream, open, gen, aborted, faults>>

\* The stream ends, with or without [DONE], and what arrived is the answer; or
\* it breaks, or a chunk cannot be parsed; or the signal cancels it.
EndStream(t) ==
    LET text == TheRequest(t).text
        calls == call[t].fragments
    IN
    /\ call[t].phase = "streaming"
    /\ \/ /\ t \in aborted
          /\ Stops(t, "cancelled")
       \/ /\ t \notin aborted
          /\ \E end \in {"retryable", "protocol"} : Stops(t, end)
       \/ /\ t \notin aborted
          /\ \E end \in StopReasons(calls) : Settles(t, end, <<>>, text, calls)
    /\ UNCHANGED <<stream, open, gen, aborted>>

\* #runBuffered: the whole answer is pushed at once.
ReadBody(t) ==
    LET r == call[t].request
        room == MaxPieces - Delivered
    IN
    /\ call[t].phase = "buffered"
    /\ \/ /\ t \in aborted
          /\ Stops(t, "cancelled")
       \/ /\ t \notin aborted
          /\ \E end \in {"retryable", "protocol"} : Stops(t, end)
       \/ /\ t \notin aborted
          /\ \E text \in {<<>>} \union {<<<<r, 1>>>> : i \in 1 .. room} :
             \E n \in 0 .. room - Len(text) :
                LET calls == [k \in 1 .. n |-> <<r, k + 1>>] IN
                /\ TheRequest(t).kind = "summary" => n = 0
                /\ \E end \in StopReasons(calls) : 
                       Settles(t, end, [k \in DOMAIN text |-> Delta(r, k)], text, calls)
    /\ UNCHANGED <<stream, open, gen, aborted>>

-----------------------------------------------------------------------------

Loop(t) ==
    /\ \/ Drive(t) \/ Compact(t) \/ Summarized(t) \/ ProceedUnfolded(t)
       \/ Attempt(t) \/ Request(t) \/ ConsumeAborted(t) \/ Consume(t)
       \/ ResultFails(t) \/ ResultCut(t) \/ ResultTaken(t) \/ RunIntents(t)
    /\ UNCHANGED streams

Provider(t) ==
    /\ Connect(t) \/ ReadChunk(t) \/ EndStream(t) \/ ReadBody(t) \/ RecordTerminal(t)
    /\ UNCHANGED streams

GenerationNext ==
    \/ \E t \in Turns : Loop(t) \/ Provider(t)
    \/ (\E t \in Turns : RunTurn(t) \/ Abort(t) \/ AppendRefused(t)) /\ UNCHANGED streams

\* The loop and the request service go on while they can. That the provider
\* ends every answer is assumed: only its headers are timed.
Fairness == \A t \in Turns : WF_generationVars(Loop(t)) /\ WF_generationVars(Provider(t))

GenerationSpec == GenerationInit /\ [][GenerationNext]_generationVars /\ Fairness

-----------------------------------------------------------------------------
(* Properties *)

\* Type correctness.
GenerationTypes ==
    /\ \A i \in DOMAIN stream : stream[i].type \in {"message", "context.compacted"}
    /\ \A i \in open : i.turn \in Turns /\ i.type \in {"message", "tool_call"}
    /\ \A r \in DOMAIN requests :
          /\ requests[r].turn \in Turns /\ requests[r].kind \in {"step", "summary"}
          /\ requests[r].end \in Answers \union Errors \union {"none", "cancelled"}
    /\ \A t \in Turns :
          /\ gen[t].step \in 0 .. MaxSteps /\ gen[t].retry \in 0 .. MaxRetries
          /\ gen[t].cap \in 1 .. MaxCap /\ gen[t].compactions \in 0 .. MaxCompactions
          /\ call[t].request \in 0 .. Len(requests)
    /\ aborted \subseteq Turns
    /\ faults \in 0 .. MaxFaults

\* An assistant message is the answer of one request, whole and in order: no
\* text of a failed or cut attempt, no call that was not settled, and the
\* request is recorded as completed, so the exact call can be rebuilt.
\* (#attempt, ModelRequestService.generate)
MessagesAreAnswers ==
    \A i \in DOMAIN stream :
        LET m == stream[i].body IN
        stream[i].type = "message" /\ m.role = "assistant" /\ m.request # Before =>
            LET r == requests[m.request] IN
               /\ r.kind = "step" /\ r.end \in {"end_turn", "tool_calls"}
               /\ m.text = r.text /\ m.calls = r.calls
               /\ r.recorded = <<"model.completed">>

\* Message m of the view shows message h of the history, or a placeholder of
\* an old result that went well.
ShowsMessage(m, h) == \/ m = h
                      \/ h.role = "tool" /\ ~ h.isError /\ m = Placeholder(h)

\* Every message of the history is in the request: itself, as the placeholder
\* of a result that may be folded, or in a summary made of exactly the messages
\* it stands for. (#compactView, projectHistory, #loadCompaction)
ViewIsFaithful ==
    \A r \in DOMAIN requests :
        requests[r].kind = "step" =>
            LET h == requests[r].history
                view == Tail(requests[r].messages)
                folded == view # <<>> /\ view[1].role = "summary"
                n == IF folded THEN Len(view[1].of) ELSE 0
                rest == IF folded THEN Tail(view) ELSE view
            IN /\ folded => view[1].of = Prefix(h, n)
               /\ Len(rest) = Len(h) - n
               /\ \A i \in DOMAIN rest : ShowsMessage(rest[i], h[n + i])

StepRequests(t) == {r \in DOMAIN requests : /\ requests[r].turn = t
                                            /\ requests[r].kind = "step"}

\* A turn that is over leaves no assistant item of an earlier attempt open, and that
\* of its last only if its request could not be recorded or an append to the thread
\* was refused; it leaves tool items open only if it was cancelled, an append was
\* refused, or the end of the call could not be recorded. (#attempt's exits, the
\* catch of #generate)
ItemsSettle ==
    \A t \in Turns :
        gen[t].pc \in Over =>
            \A i \in OpenOf(t) :
                IF i.type = "message"
                THEN \/ Cardinality(StepRequests(t)) < i.of
                     \/ gen[t].refused /\ Cardinality(StepRequests(t)) = i.of
                ELSE \/ gen[t].pc = "cancelled" \/ gen[t].refused
                     \/ call[t].phase = "unrecorded"

\* Every turn ends, and every request gets its terminal event unless the append
\* of it failed. (the queue of OpenAIChatRuntime.generate, #generate)
TurnsReturn ==
    \A t \in Turns :
        /\ Active(t) ~> gen[t].pc \in Over
        /\ call[t].phase = "settled" ~> Settled(t)

=============================================================================
