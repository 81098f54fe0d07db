------------------------------ MODULE Console -------------------------------
(***************************************************************************)
(* The web console on a host: the App component (which thread is open, the *)
(* approval prompt, the request under way), the routes it calls, and the   *)
(* turns those start, composed with ThreadStream.                          *)
(*                                                                         *)
(* A turn is here what the console can tell of it: the events it appends,  *)
(* and how its request is answered.  AgentLoop models its inside, runs of  *)
(* one turn that overlap among it: here one request drives a turn at once. *)
(***************************************************************************)
EXTENDS ThreadStream

CONSTANTS
    Turns,        \* the turns, each a writer
    Renamer,      \* the rename route, a writer
    Web,          \* the console as a client of the stream
    Follower,     \* another client of the stream, which resumes by Last-Event-ID
    Scenes        \* bounds: what a behaviour is about, chosen at its start: the
                  \* clients whose streams come up (the rest never connect), the
                  \* threads and turns it has, and how many events, deltas,
                  \* approvals of a turn, renames and faults (answers lost,
                  \* connections broken, hosts dead) there may be, and whether
                  \* the stop button is used

ASSUME ConsoleAssumption == /\ Writers = Turns \cup {Renamer}
                            /\ Renamer \notin Turns
                            /\ Clients = {Web, Follower}
                            /\ Nil \notin Writers
                            /\ Scenes \subseteq
                                 [clients : SUBSET Clients, threads : SUBSET Threads,
                                  turns : SUBSET Turns, events : 0 .. MaxEvents,
                                  deltas : Nat, approvals : Nat, renames : Nat,
                                  stops : BOOLEAN, faults : Nat]

VARIABLES
    scene,    \* the member of Scenes of this behaviour
    turn,     \* turn[k]: thread, phase, approvals asked for, whether cancelled
    app,      \* the state hooks of App: threadId and pending
    live,     \* the live flag of useThreadStream
    leaving,  \* streams the hook has aborted whose loops have not ended yet
    call,     \* the request under way; the console is busy while there is one
    shown,    \* observed: the approvals that were prompted for
    granted,  \* grants recorded by "approve and remember"
    renames, mishaps

\* What only its own actions change.
quiet == <<scene, renames, mishaps>>
appVars == <<turn, app, live, leaving, call, shown, granted, quiet>>
consoleVars == <<streamVars, appVars>>

Event(type, k) == [type |-> type, turn |-> k]

Prompt(k) == [turn |-> k, approval |-> turn[k].asked]

NoCall == [op |-> "none"]

Listed(t) == streams[t] # <<>>

Count(events, type) == Cardinality({i \in DOMAIN events : events[i].type = type})

\* The history lists the threads that have a turn, and the open one.
Visible(t) == Count(streams[t], "turn.started") > 0

Deltas == FoldFunction(LAMBDA s, n : Count(s, "item.delta") + n, 0, streams)

-----------------------------------------------------------------------------
(* What a turn appends, one event at a time: its start, generations that   *)
(* stream, fail or complete, approvals, and one terminal event.            *)

\* after |-> the phases a turn may go on to, by the event that takes it there.
NextPhase(k, type) ==
    CASE type = "turn.started"    -> "ready"
      [] type = "item.started"    -> "streaming"
      [] type = "item.delta"      -> "streaming"
      [] type = "item.failed"     -> "ready"
      [] type = "item.completed"  -> "acting"
      [] type = "approval"        -> "suspended"
      [] type = "approved"        -> "acting"
      [] OTHER                    -> "over"

Appendable(k) ==
    CASE turn[k].phase = "begun"     -> {"turn.started"}
      [] turn[k].phase = "ready"     -> {"item.started", "turn.failed"}
      [] turn[k].phase = "streaming" ->
             {"item.failed", "item.completed"}
               \cup (IF Deltas < scene.deltas THEN {"item.delta"} ELSE {})
      [] turn[k].phase = "acting"    ->
             {"item.started", "turn.completed"}
               \cup (IF turn[k].asked < scene.approvals THEN {"approval"} ELSE {})
      [] turn[k].phase = "resumed"   -> {"approved"}
      [] turn[k].phase = "failing"   -> {"turn.failed"}
      [] OTHER                       -> {}

\* The loop queues its appends: one turn at a time is in one.
TurnReads(k) ==
    /\ \A j \in Turns : ~ Appending(j)
    /\ Used < scene.events
    /\ \E type \in Appendable(k) \cup
           (IF turn[k].cancelled /\ Appendable(k) # {} THEN {"turn.cancelled"} ELSE {}) :
         ReadTail(k, turn[k].thread, Event(type, k))
    /\ UNCHANGED appVars

TurnStores(k) ==
    /\ Store(k)
    /\ LET type == draft[k].event.type IN
         turn' = [turn EXCEPT ![k].phase = NextPhase(k, type),
                              ![k].asked = IF type = "approval" THEN @ + 1 ELSE @]
    /\ UNCHANGED <<app, live, leaving, call, shown, granted, quiet>>

\* What is left of a turn whose run ends with an error: one that had not yet
\* recorded its decision is still suspended, another has no terminal event.
Abandoned(k) == IF turn[k].phase = "resumed" THEN "suspended" ELSE "thrown"

CalledBy(k) == call.op \in {"send", "decide"} /\ call.turn = k

\* A conflict with the rename route.  What #attempt appends is refused inside the
\* catch of #generate, and the turn fails; what #drive, the resumption or a
\* terminal state appends (the failed item of a cut generation is appended by
\* either) is thrown out of the run and of the request: the console shows an
\* error, and keeps its prompt.
TurnThrows(k) ==
    /\ Refuse(k)
    /\ \/ /\ draft[k].event.type \in {"item.started", "item.delta", "item.failed"}
          /\ turn' = [turn EXCEPT ![k].phase = "failing"]
          /\ UNCHANGED call
       \/ /\ draft[k].event.type \notin {"item.started", "item.delta"}
          /\ turn' = [turn EXCEPT ![k].phase = Abandoned(k)]
          /\ call' = IF CalledBy(k) THEN NoCall ELSE call
    /\ UNCHANGED <<app, live, leaving, shown, granted, quiet>>

Settled(k) == turn[k].phase \in {"suspended", "over"}

Driven(k) == turn[k].phase \notin {"none", "suspended", "over", "thrown"}

-----------------------------------------------------------------------------
(* The state hooks.                                                        *)

\* useEffect of useThreadStream after setThreadId(t): the old stream is aborted,
\* the list emptied, the new stream asked for.
ShowThread(t) ==
    IF Web \in scene.clients
    THEN /\ Subscribe(Web, t, <<>>)
         /\ live' = (t # Nil)
         /\ leaving' = IF client[Web].conn # Nil THEN leaving + 1 ELSE leaving
    ELSE UNCHANGED <<conn, client, live, leaving>>

\* The aborted loop ends like one whose stream ended: setState(live: false).
OldStreamEnds ==
    /\ leaving > 0
    /\ leaving' = leaving - 1
    /\ live' = FALSE
    /\ UNCHANGED <<streamVars, turn, app, call, shown, granted, quiet>>

WebReceives ==
    /\ Receive(Web)
    /\ live' = TRUE
    /\ UNCHANGED <<turn, app, leaving, call, shown, granted, quiet>>

\* A thread of the history is opened; pending stays as it is.
Open(t) ==
    /\ t # app.thread
    /\ Visible(t)
    /\ app' = [app EXCEPT !.thread = t]
    /\ ShowThread(t)
    /\ UNCHANGED <<streams, draft, emitting, turn, call, shown, granted, quiet>>

\* The open thread is left: setThreadId(null).
Leave ==
    /\ app.thread # Nil
    /\ app' = [app EXCEPT !.thread = Nil]
    /\ ShowThread(Nil)
    /\ UNCHANGED <<streams, draft, emitting, turn, call, shown, granted, quiet>>

-----------------------------------------------------------------------------
(* The requests of the console and the routes that answer them.            *)

\* "New conversation": POST /threads.
Start(t) ==
    /\ call = NoCall
    /\ ~ Listed(t)
    /\ Used < scene.events
    /\ call' = [op |-> "start", thread |-> t]
    /\ UNCHANGED <<streamVars, turn, app, live, leaving, shown, granted, quiet>>

\* The route appends thread.created to a stream nobody else knows yet.
Create ==
    /\ call.op = "start"
    /\ ~ Listed(call.thread)
    /\ Used < scene.events
    /\ streams' = [streams EXCEPT ![call.thread] = <<Event("thread.created", Renamer)>>]
    /\ emitting' = Append(emitting, [writer |-> Renamer, thread |-> call.thread, sequence |-> 1])
    /\ UNCHANGED <<draft, conn, client, appVars>>

Started ==
    /\ call.op = "start"
    /\ Listed(call.thread)
    /\ app' = [app EXCEPT !.thread = call.thread]
    /\ IF app.thread = call.thread
       THEN UNCHANGED <<conn, client, live, leaving>>
       ELSE ShowThread(call.thread)
    /\ call' = NoCall
    /\ UNCHANGED <<streams, draft, emitting, turn, shown, granted, quiet>>

\* The composer: POST /threads/:threadId/turns starts a turn.
Send(k) ==
    /\ call = NoCall
    /\ app.thread # Nil
    /\ turn[k].phase = "none"
    /\ turn' = [turn EXCEPT ![k] = [thread |-> app.thread, phase |-> "begun",
                                    asked |-> 0, cancelled |-> FALSE]]
    /\ call' = [op |-> "send", thread |-> app.thread, turn |-> k]
    /\ UNCHANGED <<streamVars, app, live, leaving, shown, granted, quiet>>

\* send() after its await: a suspended turn sets the prompt, another result
\* clears it.
SendAnswered ==
    /\ call.op = "send"
    /\ Settled(call.turn)
    /\ LET k == call.turn IN
       /\ app' = [app EXCEPT !.pending =
                    IF turn[k].phase = "suspended" THEN Prompt(k) ELSE Nil]
       /\ shown' = shown \cup (IF turn[k].phase = "suspended" THEN {Prompt(k)} ELSE {})
    /\ call' = NoCall
    /\ UNCHANGED <<streamVars, turn, live, leaving, granted, quiet>>

\* A button of the prompt: the decision goes to the thread that is open now.
Decide(persist) ==
    /\ call = NoCall
    /\ app.thread # Nil
    /\ app.pending # Nil
    /\ call' = [op |-> "decide", thread |-> app.thread, turn |-> app.pending.turn,
                approval |-> app.pending.approval, persist |-> persist,
                stage |-> "sent"]
    /\ UNCHANGED <<streamVars, turn, app, live, leaving, shown, granted, quiet>>

\* capabilityOfApproval: the thread's stream names the tool of the approval,
\* decided or not.
AskedOn(t, k, n) ==
    Cardinality({i \in DOMAIN streams[t] : streams[t][i] = Event("approval", k)}) >= n

\* Mutant: whatever the turn waits for is what was decided.
Resumable_AnyApproval(c) ==
    /\ turn[c.turn].thread = c.thread
    /\ turn[c.turn].phase = "suspended"

\* resumeTurn goes on only for the approval its turn is waiting for.
Resumable(c) ==
    /\ turn[c.turn].thread = c.thread
    /\ turn[c.turn].phase = "suspended"
    /\ turn[c.turn].asked = c.approval

\* The approvals route: the grant is recorded first, whatever comes of the rest.
Resolve ==
    /\ call.op = "decide"
    /\ call.stage = "sent"
    /\ granted' = IF call.persist /\ AskedOn(call.thread, call.turn, call.approval)
                  THEN granted \cup {[turn |-> call.turn, approval |-> call.approval]}
                  ELSE granted
    /\ IF Resumable(call)
       THEN /\ turn' = [turn EXCEPT ![call.turn].phase = "resumed",
                                    ![call.turn].cancelled = FALSE]
            /\ call' = [call EXCEPT !.stage = "resumed"]
       ELSE /\ call' = NoCall   \* an error: pending stays
            /\ UNCHANGED turn
    /\ UNCHANGED <<streamVars, app, live, leaving, shown, quiet>>

\* decide() after its await: the prompt goes away, whatever the answer says.
DecideAnswered ==
    /\ call.op = "decide"
    /\ call.stage = "resumed"
    /\ Settled(call.turn)
    /\ app' = [app EXCEPT !.pending = Nil]
    /\ call' = NoCall
    /\ UNCHANGED <<streamVars, turn, live, leaving, shown, granted, quiet>>

\* "Stop": POST /threads/:threadId/cancel aborts every turn that runs there.
Stop ==
    /\ scene.stops
    /\ call # NoCall
    /\ app.thread # Nil
    /\ turn' = [k \in Turns |->
           IF turn[k].thread = app.thread /\ Driven(k)
           THEN [turn[k] EXCEPT !.cancelled = TRUE] ELSE turn[k]]
    /\ UNCHANGED <<streamVars, app, live, leaving, call, shown, granted, quiet>>

\* PATCH /threads/:threadId/title.
Rename(t) ==
    /\ renames < scene.renames
    /\ Used < scene.events
    /\ Listed(t)
    /\ ReadTail(Renamer, t, Event("thread.renamed", Renamer))
    /\ renames' = renames + 1
    /\ UNCHANGED <<turn, app, live, leaving, call, shown, granted, scene, mishaps>>

Renamed == (Store(Renamer) \/ Refuse(Renamer)) /\ UNCHANGED appVars

-----------------------------------------------------------------------------
(* Another client of the stream, and what goes wrong.                      *)

\* streamItems with `after`: the last event this client has seen of t.
Follow(t) ==
    /\ Follower \in scene.clients
    /\ Listed(t)
    /\ client[Follower].conn = Nil
    /\ Subscribe(Follower, t,
           IF client[Follower].thread = t THEN client[Follower].view ELSE <<>>)
    /\ UNCHANGED <<streams, draft, emitting, appVars>>

\* The host's part of a delivery.
Deliver ==
    /\ Emit \/ \E c \in Conns : Replay(c) \/ Drain(c)
    /\ UNCHANGED appVars

FollowerReceives == Receive(Follower) /\ UNCHANGED appVars

Fault == mishaps < scene.faults /\ mishaps' = mishaps + 1 /\ UNCHANGED <<scene, renames>>

\* The answer of a request does not come: an error, and the prompt stays.  The
\* turn runs on.
AnswerLost ==
    /\ Fault
    /\ call # NoCall
    /\ call' = NoCall
    /\ UNCHANGED <<streamVars, turn, app, live, leaving, shown, granted>>

StreamBreaks(x) ==
    /\ Fault
    /\ Break(x)
    /\ live' = IF x = Web THEN FALSE ELSE live
    /\ UNCHANGED <<turn, app, leaving, call, shown, granted>>

\* The host restarts: its turns are gone until they are recovered, which the
\* console has no part in; what was suspended waits on its stream.
Restart ==
    /\ Fault
    /\ HostDies
    /\ turn' = [k \in Turns |->
           IF Driven(k) THEN [turn[k] EXCEPT !.phase = Abandoned(k)] ELSE turn[k]]
    /\ call' = NoCall
    /\ live' = FALSE
    /\ UNCHANGED <<app, leaving, shown, granted>>

-----------------------------------------------------------------------------
(* The transcript: deriveEntries over what the stream has yielded.         *)

Seen == [i \in DOMAIN client[Web].view |-> streams[app.thread][client[Web].view[i]]]

\* flushAssistant: text of a message that was not completed becomes an entry.
Flushed(acc) ==
    [entries |-> IF acc.open /\ acc.text > 0 THEN Append(acc.entries, "partial")
                                            ELSE acc.entries,
     open |-> FALSE, text |-> 0]

Reduce(acc, e) ==
    CASE e.type = "turn.started"   -> Flushed(acc)   \* the user's message
      [] e.type = "item.started"   -> [Flushed(acc) EXCEPT !.open = TRUE]
      [] e.type = "item.delta"     -> [acc EXCEPT !.text = @ + 1]
      [] e.type = "item.completed" -> [entries |-> Append(acc.entries, "message"),
                                       open |-> FALSE, text |-> 0]
      [] OTHER                     -> acc

\* What is still open is rendered as streaming.
DeriveEntries(events) ==
    Flushed(FoldLeft(Reduce, [entries |-> <<>>, open |-> FALSE, text |-> 0], events)).entries

-----------------------------------------------------------------------------
ConsoleInit ==
    /\ StreamInit
    /\ scene \in Scenes
    /\ turn = [k \in Turns |-> [thread |-> Nil, phase |-> "none", asked |-> 0,
                                cancelled |-> FALSE]]
    /\ app = [thread |-> Nil, pending |-> Nil]
    /\ live = FALSE
    /\ leaving = 0
    /\ call = NoCall
    /\ shown = {}
    /\ granted = {}
    /\ renames = 0
    /\ mishaps = 0

ConsoleNext ==
    \/ Deliver
    \/ \E c \in Conns : Finish(c) /\ UNCHANGED appVars
    \/ WebReceives \/ FollowerReceives \/ OldStreamEnds
    \/ \E k \in scene.turns : TurnReads(k) \/ TurnStores(k) \/ TurnThrows(k) \/ Send(k)
    \/ \E t \in scene.threads : Open(t) \/ Start(t) \/ Rename(t) \/ Follow(t)
    \/ Leave \/ Create \/ Started \/ SendAnswered \/ Resolve \/ DecideAnswered
    \/ \E persist \in BOOLEAN : Decide(persist)
    \/ Stop \/ Renamed \/ AnswerLost \/ Restart
    \/ \E x \in Clients : StreamBreaks(x)

ConsoleSpec == ConsoleInit /\ [][ConsoleNext]_consoleVars

-----------------------------------------------------------------------------
(* Properties.                                                             *)

\* The attempts of a thread that streamed some text and have no message; a new
\* title in between does not end an attempt.
CutShort(events) ==
    {i \in DOMAIN events :
        /\ events[i].type = "item.started"
        /\ \E j \in DOMAIN events :
              /\ j > i /\ events[j].type = "item.delta"
              /\ \A n \in (i + 1) .. j : events[n].type \in {"item.delta", "thread.renamed"}
        /\ \A j \in DOMAIN events :
              j > i /\ events[j].type = "item.completed" =>
                  \E n \in (i + 1) .. j : events[n].type \in {"item.started", "item.failed"}}

EntriesOf(entries, kind) == Cardinality({i \in DOMAIN entries : entries[i] = kind})

\* No event is lost between the read of the page and the subscription, in the
\* filter of the watermark, or on a reconnection: when nothing is under way any
\* more, each connected client has seen all of its thread, and the transcript
\* of the console has an entry for each message and for each attempt that was
\* cut short, and none twice (routes/threads.ts, deriveEntries).
NoneMissed ==
    /\ AllDelivered
    /\ AtRest /\ client[Web].conn # Nil =>
          LET entries == DeriveEntries(Seen)
              events == streams[app.thread]
          IN  /\ EntriesOf(entries, "message") = Count(events, "item.completed")
              /\ EntriesOf(entries, "partial") = Cardinality(CutShort(events))

Approvals(k) ==
    Cardinality({i \in DOMAIN streams[turn[k].thread] :
                    streams[turn[k].thread][i] = Event("approved", k)})

\* No approval is decided, and no grant recorded, that the console was not
\* prompted for: a prompt that has gone stale, because its answer was lost or
\* another thread was opened, decides nothing else (resumeTurn's checks).
DecidedAsShown ==
    /\ \A k \in Turns :
          turn[k].thread # Nil =>
              \A n \in 1 .. Approvals(k) : [turn |-> k, approval |-> n] \in shown
    /\ granted \subseteq shown

=============================================================================
