--------------------------- MODULE ExecutionWorld ---------------------------
(***************************************************************************)
(* ExecutionWorld.execute: the durable authorize -> sandbox -> emit        *)
(* boundary every tool call of the agent goes through.                     *)
(*                                                                         *)
(* Covered: any number of concurrent execute() calls, several on the same  *)
(* idempotency key, equal or different requests under one key, a policy    *)
(* whose answer may change between two calls, user approval and rejection, *)
(* a sandbox that throws before or after the external effect, a store that *)
(* refuses a read or a write, and process crashes between any two awaits,  *)
(* after which later calls run in a new process on the same log.           *)
(*                                                                         *)
(* One action is the code between two awaits. Abstracted: what a request,  *)
(* a reason, a result or a secret holds; a request is its digest, a result *)
(* the call that produced it, an event its type and its author.            *)
(***************************************************************************)
EXTENDS Chronicle

CONSTANTS
    Calls,    \* invocations of execute(), each made at most once
    Keys,     \* idempotency keys, one Chronicle stream each
    Digests,  \* request digests
    Layers,   \* permission layers of the policy
    NoCall,   \* "no entry" in the in-flight map
    NoRequest \* the request of a call not made yet, or lost

ASSUME NoCallAssumption == NoCall \notin Calls
ASSUME LayersAssumption == Layers # {}

VARIABLES
    log,       \* Keys -> the durable stream `execution:<key>`
    inflight,  \* Keys -> the call registered in #inflight, or NoCall
    effects,   \* Keys -> the calls whose sandbox.execute touched the world
    pc,        \* Calls -> where the call is suspended
    request,   \* Calls -> its arguments
    waitsFor,  \* Calls -> the in-flight call it awaits
    frame,     \* Calls -> the local variables of #execute and #append
    outcome    \* Calls -> what the call returns

vars == <<log, inflight, effects, pc, request, waitsFor, frame, outcome>>

-----------------------------------------------------------------------------
(* Values *)

Decisions == {"allow", "ask", "deny"}

Requests == [key : Keys, digest : Digests,
             approval : {"none", "approved", "rejected"}]

EventTypes == {"requested", "permission_snapshot", "authorized",
               "approval_required", "denied", "started", "completed", "failed"}

Events == [type : EventTypes, call : Calls, digest : Digests]

\* What one #append call stores, by the place in #execute that makes it.
Batches == {<<"requested">>, <<"permission_snapshot">>, <<"denied">>,
            <<"approval_required">>, <<"authorized", "started">>,
            <<"completed">>, <<"failed">>}

Frames == [existing : Seq(Events),     \* the stream as #read returned it
           decision : Decisions,       \* the policy's decision
           enforced : BOOLEAN,         \* secrets and sandbox meet the requirements
           pending : Batches \union {<<>>},  \* the append under way
           expected : Nat]             \* its expectedSequence

EmptyFrame == [existing |-> <<>>, decision |-> "deny", enforced |-> FALSE,
               pending |-> <<>>, expected |-> 0]

OutcomeKinds == {"none", "fresh", "replayed", "error", "denied",
                 "approval_required", "reconciliation_required", "rejected"}

Outcomes == [kind : OutcomeKinds, by : Calls \union {NoCall}]

Outcome(kind) == [kind |-> kind, by |-> NoCall]

\* #execute is running: the call is its key's in-flight entry.
Executing == {"read", "decide", "tail", "write", "run", "observe", "return"}

Locations == {"idle", "entry", "waiting", "done", "lost"} \union Executing

-----------------------------------------------------------------------------
(* Reading a stream *)

Has(stream, type) == \E i \in DOMAIN stream : stream[i].type = type

\* The event of a type on the stream (there is but one).
Find(stream, type) == stream[CHOOSE i \in DOMAIN stream : stream[i].type = type]

\* The stream call c works on.
streamOf(c) == log[request[c].key]

\* The events call c stores for a batch of event types.
BatchEvents(c, batch) ==
    [i \in DOMAIN batch |->
        [type |-> batch[i], call |-> c, digest |-> request[c].digest]]

-----------------------------------------------------------------------------
(* The policy: every layer must grant, a deny wins, an ask is preserved. *)

\* The decision of one layer, from the decisions of its rules that match.
LayerDecision(matches) ==
    IF matches = {} \/ "deny" \in matches THEN "deny"
    ELSE IF "ask" \in matches THEN "ask" ELSE "allow"

\* The decision over all layers: the most restrictive one.
Intersection(layerDecisions) ==
    IF "deny" \in layerDecisions THEN "deny"
    ELSE IF "ask" \in layerDecisions THEN "ask" ELSE "allow"

Policy(rules) == Intersection({LayerDecision(rules[l]) : l \in Layers})

-----------------------------------------------------------------------------
(* Helpers of the actions: how call c goes on, with its locals in f *)

GoTo(c, f, location) ==
    /\ pc' = [pc EXCEPT ![c] = location]
    /\ frame' = [frame EXCEPT ![c] = f]
    /\ UNCHANGED outcome

\* It appends `batch` next: #append first reads the stream's tail.
ToAppend(c, f, batch) == GoTo(c, [f EXCEPT !.pending = batch], "tail")

\* #execute is over; what is left is the finally blocks and the return.
ToReturn(c, result) ==
    /\ pc' = [pc EXCEPT ![c] = "return"]
    /\ frame' = [frame EXCEPT ![c] = EmptyFrame]
    /\ outcome' = [outcome EXCEPT ![c] = result]

\* Mutant: the policy's "allow" is looked at before the user's rejection.
Gate_AllowBeforeRejection(c, f) ==
    IF f.decision = "allow" /\ f.enforced
    THEN ToAppend(c, f, <<"authorized", "started">>)
    ELSE ToAppend(c, f, <<"denied">>)

\* The policy has answered and the snapshot is on the stream: deny, ask (once:
\* not again when #read already saw the question), or authorize and start.
Gate(c, f) ==
    LET approval == request[c].approval IN
    \/ /\ f.decision = "deny" \/ approval = "rejected"
       /\ ToAppend(c, f, <<"denied">>)
    \/ /\ f.decision = "ask" /\ approval = "none"
       /\ IF Has(f.existing, "approval_required")
          THEN ToReturn(c, Outcome("approval_required"))
          ELSE ToAppend(c, f, <<"approval_required">>)
    \/ /\ f.decision = "allow" \/ (f.decision = "ask" /\ approval = "approved")
       /\ approval # "rejected"
       /\ ToAppend(c, f, IF f.enforced THEN <<"authorized", "started">>
                                       ELSE <<"denied">>)

\* What follows a successful append of call c's batch.
AfterAppend(c, f) ==
    \/ /\ f.pending = <<"requested">>
       /\ GoTo(c, f, "decide")
    \/ /\ f.pending = <<"permission_snapshot">>
       /\ Gate(c, f)
    \/ /\ f.pending = <<"denied">>
       /\ ToReturn(c, Outcome("denied"))
    \/ /\ f.pending = <<"approval_required">>
       /\ ToReturn(c, Outcome("approval_required"))
    \/ /\ f.pending = <<"authorized", "started">>
       /\ GoTo(c, f, "run")
    \/ /\ f.pending = <<"completed">>
       /\ ToReturn(c, [kind |-> "fresh", by |-> c])
    \/ /\ f.pending = <<"failed">>
       /\ ToReturn(c, Outcome("error"))

\* Mutant: one try block around all of #execute.
Throws_RecordsAlways(c) == ToAppend(c, frame[c], <<"failed">>)

\* An await of call c threw. Inside the try block the failure is recorded;
\* anywhere else, and in the catch block itself, it rejects the call.
Throws(c) ==
    IF \/ pc[c] \in {"run", "observe"}
       \/ pc[c] \in {"tail", "write"} /\ frame[c].pending = <<"completed">>
    THEN ToAppend(c, frame[c], <<"failed">>)
    ELSE ToReturn(c, Outcome("rejected"))

-----------------------------------------------------------------------------
(* Actions *)

Init ==
    /\ log = [k \in Keys |-> <<>>]
    /\ inflight = [k \in Keys |-> NoCall]
    /\ effects = [k \in Keys |-> {}]
    /\ pc = [c \in Calls |-> "idle"]
    /\ request = [c \in Calls |-> NoRequest]
    /\ waitsFor = [c \in Calls |-> NoCall]
    /\ frame = [c \in Calls |-> EmptyFrame]
    /\ outcome = [c \in Calls |-> Outcome("none")]

\* execute() is called; canonicalizeActionRequest touches nothing shared.
Call(c) ==
    /\ pc[c] = "idle"
    /\ \E r \in Requests : request' = [request EXCEPT ![c] = r]
    /\ pc' = [pc EXCEPT ![c] = "entry"]
    /\ UNCHANGED <<log, inflight, effects, waitsFor, frame, outcome>>

\* Looks #inflight up and, if free, takes it, without an await in between.
Enter(c) ==
    LET k == request[c].key IN
    /\ pc[c] = "entry"
    /\ \/ /\ inflight[k] = NoCall
          /\ inflight' = [inflight EXCEPT ![k] = c]
          /\ pc' = [pc EXCEPT ![c] = "read"]
          /\ UNCHANGED waitsFor
       \/ /\ inflight[k] # NoCall
          /\ waitsFor' = [waitsFor EXCEPT ![c] = inflight[k]]
          /\ pc' = [pc EXCEPT ![c] = "waiting"]
          /\ UNCHANGED inflight
    /\ UNCHANGED <<log, effects, request, frame, outcome>>

\* `await active`: its rejection is this call's too, else execute() again.
Wake(c) ==
    /\ pc[c] = "waiting"
    /\ pc[waitsFor[c]] = "done"
    /\ IF outcome[waitsFor[c]].kind = "rejected"
       THEN /\ outcome' = [outcome EXCEPT ![c] = Outcome("rejected")]
            /\ pc' = [pc EXCEPT ![c] = "done"]
       ELSE /\ pc' = [pc EXCEPT ![c] = "entry"]
            /\ UNCHANGED outcome
    /\ waitsFor' = [waitsFor EXCEPT ![c] = NoCall]
    /\ UNCHANGED <<log, inflight, effects, request, frame>>

\* Mutant: an action that started without a result is simply run again.
Resume_BlindRetry(c, f) ==
    IF Has(f.existing, "completed")
    THEN ToReturn(c, [kind |-> "replayed", by |-> Find(f.existing, "completed").call])
    ELSE GoTo(c, f, "decide")

\* What a stream that already holds this very request settles on its own.
Resume(c, f) ==
    \/ /\ Has(f.existing, "completed")
       /\ ToReturn(c, [kind |-> "replayed",
                       by |-> Find(f.existing, "completed").call])
    \/ /\ ~ Has(f.existing, "completed") /\ Has(f.existing, "started")
       /\ ToReturn(c, Outcome("reconciliation_required"))
    \/ /\ ~ Has(f.existing, "completed") /\ ~ Has(f.existing, "started")
       /\ IF Has(f.existing, "denied")
          THEN ToReturn(c, Outcome("denied"))
          ELSE GoTo(c, f, "decide")

\* #read resolves: a first request is recorded, the same request resumes, and
\* another request under this key throws IdempotencyKeyCollisionError.
Read(c) ==
    LET f == [frame[c] EXCEPT !.existing = streamOf(c)] IN
    /\ pc[c] = "read"
    /\ \/ /\ ~ Has(f.existing, "requested")
          /\ ToAppend(c, f, <<"requested">>)
       \/ /\ Has(f.existing, "requested")
          /\ Find(f.existing, "requested").digest # request[c].digest
          /\ ToReturn(c, Outcome("rejected"))
       \/ /\ Has(f.existing, "requested")
          /\ Find(f.existing, "requested").digest = request[c].digest
          /\ Resume(c, f)
    /\ UNCHANGED <<log, inflight, effects, request, waitsFor>>

\* The policy answers, then the sandbox reports what it can enforce. The
\* snapshot of both is appended unless the stream #read returned has one.
Decide(c) ==
    /\ pc[c] = "decide"
    /\ \E rules \in [Layers -> SUBSET Decisions], supported \in BOOLEAN :
          LET f == [frame[c] EXCEPT !.decision = Policy(rules),
                                    !.enforced = supported] IN
          IF Has(f.existing, "permission_snapshot")
          THEN Gate(c, f)
          ELSE ToAppend(c, f, <<"permission_snapshot">>)
    /\ UNCHANGED <<log, inflight, effects, request, waitsFor>>

\* #append, first half: getLatestSequence.
ReadTail(c) ==
    /\ pc[c] = "tail"
    /\ GoTo(c, [frame[c] EXCEPT !.expected = NextSequence(streamOf(c))], "write")
    /\ UNCHANGED <<log, inflight, effects, request, waitsFor>>

\* #append, second half: the batch is stored whole, or the append is refused.
Write(c) ==
    LET stream == streamOf(c)
        events == BatchEvents(c, frame[c].pending)
        next == frame[c].expected
    IN
    /\ pc[c] = "write"
    /\ \/ /\ Conflicts(stream, events, next)
          /\ Throws(c)
          /\ UNCHANGED log
       \/ /\ ~ Conflicts(stream, events, next)
          /\ log' = [log EXCEPT ![request[c].key] = Appended(stream, events, next)]
          /\ AfterAppend(c, [frame[c] EXCEPT !.expected = 0])
    /\ UNCHANGED <<inflight, effects, request, waitsFor>>

\* Secrets are materialized, the world is snapshot, and the sandbox executes.
Execute(c) ==
    /\ pc[c] = "run"
    /\ effects' = [effects EXCEPT ![request[c].key] = @ \union {c}]
    /\ GoTo(c, frame[c], "observe")
    /\ UNCHANGED <<log, inflight, request, waitsFor>>

\* The result parses and the second snapshot and the diff are taken.
Observe(c) ==
    /\ pc[c] = "observe"
    /\ ToAppend(c, frame[c], <<"completed">>)
    /\ UNCHANGED <<log, inflight, effects, request, waitsFor>>

\* An await throws: the store, the capability report, the secret broker, the
\* sandbox before or after its effect, a snapshot or the diff.
Fail(c) ==
    /\ pc[c] \in Executing \ {"return"}
    /\ Throws(c)
    /\ UNCHANGED <<log, inflight, effects, request, waitsFor>>

\* Mutant: the finally block leaves the entry in #inflight.
Return_KeepsEntry(c) ==
    /\ pc[c] = "return"
    /\ pc' = [pc EXCEPT ![c] = "done"]
    /\ UNCHANGED <<log, inflight, effects, request, waitsFor, frame, outcome>>

\* The finally blocks: releasing the secrets of an executed action may throw in
\* turn; the entry leaves #inflight before any waiter resumes.
Return(c) ==
    LET k == request[c].key IN
    /\ pc[c] = "return"
    /\ pc' = [pc EXCEPT ![c] = "done"]
    /\ \/ UNCHANGED outcome
       \/ /\ outcome[c].kind \in {"fresh", "error"}
          /\ outcome' = [outcome EXCEPT ![c] = Outcome("rejected")]
    /\ inflight' = [inflight EXCEPT ![k] = IF @ = c THEN NoCall ELSE @]
    /\ UNCHANGED <<log, effects, request, waitsFor, frame>>

\* The process dies and a new one starts: calls under way are lost with their
\* locals and the in-flight map is empty; the log and the world stay.
Crash ==
    LET kept(c) == pc[c] \in {"idle", "done", "lost"} IN
    /\ \E c \in Calls : ~ kept(c)
    /\ pc' = [c \in Calls |-> IF kept(c) THEN pc[c] ELSE "lost"]
    /\ request' = [c \in Calls |-> IF kept(c) THEN request[c] ELSE NoRequest]
    /\ outcome' = [c \in Calls |-> IF kept(c) THEN outcome[c] ELSE Outcome("none")]
    /\ frame' = [c \in Calls |-> EmptyFrame]
    /\ waitsFor' = [c \in Calls |-> NoCall]
    /\ inflight' = [k \in Keys |-> NoCall]
    /\ UNCHANGED <<log, effects>>

\* One call's progress, without its failures.
Step(c) == \/ Enter(c) \/ Wake(c) \/ Read(c) \/ Decide(c) \/ ReadTail(c)
           \/ Write(c) \/ Execute(c) \/ Observe(c) \/ Return(c)

Next == \/ \E c \in Calls : Call(c) \/ Step(c) \/ Fail(c)
        \/ Crash

Spec == Init /\ [][Next]_vars

-----------------------------------------------------------------------------
(* Properties *)

TypeOK ==
    /\ log \in [Keys -> Seq(Events)]
    /\ inflight \in [Keys -> Calls \union {NoCall}]
    /\ effects \in [Keys -> SUBSET Calls]
    /\ pc \in [Calls -> Locations]
    /\ request \in [Calls -> Requests \union {NoRequest}]
    /\ waitsFor \in [Calls -> Calls \union {NoCall}]
    /\ frame \in [Calls -> Frames]
    /\ outcome \in [Calls -> Outcomes]
    /\ \A c \in Calls :
          /\ pc[c] \notin {"idle", "lost"} => request[c] \in Requests
          /\ pc[c] = "waiting" => waitsFor[c] \in Calls
          /\ pc[c] \in {"tail", "write"} => frame[c].pending \in Batches

\* Whatever calls race on a key, are retried or die with the process, the
\* sandbox touches the world for that key at most once (execute, #execute).
AtMostOnce ==
    \A k \in Keys : \A c, d \in effects[k] : c = d

\* Why AtMostOnce is inductive. The running call owns its key's in-flight entry,
\* so what it read from the stream is still the whole truth when it acts on it.
Exclusive ==
    \A c \in Calls : pc[c] \in Executing => inflight[request[c].key] = c

\* What call c knows of its stream from where it stands in #execute.
Position(c) ==
    LET stream == streamOf(c)
        batch == frame[c].pending
    IN
    /\ pc[c] = "decide" => Has(stream, "requested") /\ ~ Has(stream, "started")
    /\ pc[c] \in {"tail", "write"} =>
          /\ batch # <<"requested">> => Has(stream, "requested")
          /\ batch \notin {<<"completed">>, <<"failed">>} => ~ Has(stream, "started")
    /\ pc[c] = "run" => Has(stream, "started") /\ effects[request[c].key] = {}
    /\ pc[c] = "observe" => Has(stream, "started")

\* The world was touched, or is about to be, only behind a durable start.
Logged ==
    \A k \in Keys : /\ effects[k] # {} => Has(log[k], "started")
                    /\ Has(log[k], "started") => Has(log[k], "requested")

IInv == TypeOK /\ Exclusive /\ (\A c \in Calls : Position(c)) /\ Logged /\ AtMostOnce

\* The call may touch the world: its request is the one its stream was opened
\* with, the policy allowed it or the user approved it and did not reject it,
\* the sandbox meets its limits, and it wrote `started` itself.
Granted(c) ==
    /\ request[c].approval # "rejected"
    /\ \/ frame[c].decision = "allow"
       \/ frame[c].decision = "ask" /\ request[c].approval = "approved"
    /\ frame[c].enforced

Authorized(c) ==
    LET stream == streamOf(c) IN
    /\ Granted(c)
    /\ Has(stream, "started") /\ Find(stream, "started").call = c
    /\ Find(stream, "requested").digest = request[c].digest

\* sandbox.execute is reached only by an authorized call whose authorization
\* and start are already durable.
EffectsAuthorized ==
    [][\A c \in Calls : \A k \in Keys :
          c \in effects'[k] \ effects[k] => (k = request[c].key /\ Authorized(c))]_vars

\* Why EffectsAuthorized is inductive. A stream holds one request; the running
\* call checked that it is its own before it went on, was granted before it wrote
\* `started`, and nobody else writes to its stream meanwhile.
OneRequest ==
    \A k \in Keys : \A i, j \in DOMAIN log[k] :
        log[k][i].type = "requested" /\ log[k][j].type = "requested"
            => log[k][i].digest = log[k][j].digest

SameRequest(c) ==
    \A i \in DOMAIN streamOf(c) :
        streamOf(c)[i].type = "requested" => streamOf(c)[i].digest = request[c].digest

StartedByItself(c) ==
    \A i \in DOMAIN streamOf(c) :
        streamOf(c)[i].type = "started" => streamOf(c)[i].call = c

\* Call c is between #read and the end of an append of this batch.
Appending(c, batch) == pc[c] \in {"tail", "write"} /\ frame[c].pending = batch

\* The call has found its own request on the stream, and goes on.
Confirmed(c) == \/ pc[c] \in {"decide", "run"}
                \/ Appending(c, <<"permission_snapshot">>)
                \/ Appending(c, <<"authorized", "started">>)

Ready(c) ==
    /\ Appending(c, <<"requested">>) => ~ Has(streamOf(c), "requested")
    /\ Confirmed(c) => SameRequest(c)
    /\ pc[c] = "run" \/ Appending(c, <<"authorized", "started">>) => Granted(c)
    /\ pc[c] = "run" => StartedByItself(c)

AInv == IInv /\ OneRequest /\ \A c \in Calls : Ready(c)

\* Nobody waits for nothing: an entry of #inflight belongs to a call of its key
\* that is still in #execute, and a waiter's call is such a call or has just
\* settled, so no caller is left behind a promise that nobody will settle again
\* or loops on an entry that nobody removes (execute).
WaitersAreServed ==
    /\ \A k \in Keys : inflight[k] # NoCall =>
          pc[inflight[k]] \in Executing /\ request[inflight[k]].key = k
    /\ \A c \in Calls : pc[c] = "waiting" =>
          pc[waitsFor[c]] \in Executing \union {"done"}

-----------------------------------------------------------------------------
(* Refinement *)

phaseOf(stream) ==
    IF Has(stream, "completed") THEN "succeeded"
    ELSE IF Has(stream, "failed") THEN "failed"
    ELSE IF Has(stream, "started") THEN "started"
    ELSE IF Has(stream, "denied") THEN "denied"
    ELSE IF Has(stream, "requested") THEN "open" ELSE "absent"

answerKind(c) ==
    IF outcome[c].kind \in {"fresh", "replayed"} THEN "result" ELSE outcome[c].kind

Durable == INSTANCE DurableAction
    WITH phase <- [k \in Keys |-> phaseOf(log[k])],
         performers <- effects,
         answers <- {<<c, request[c].key, answerKind(c)>> :
                        c \in {d \in Calls : pc[d] = "done"}}

\* The appends to a stream whose action is neither denied nor started.
Openings == {<<"permission_snapshot">>, <<"denied">>, <<"approval_required">>,
             <<"authorized", "started">>}

\* The appends that end an action that started.
Endings == {<<"completed">>, <<"failed">>}

\* Why every step is a step of the durable action: where call c stands tells how
\* far its key's action has come, and the answer it is about to give is true.
Stage(c) ==
    LET phase == phaseOf(streamOf(c)) IN
    /\ Appending(c, <<"requested">>) => phase = "absent"
    /\ pc[c] = "decide" \/ (\E batch \in Openings : Appending(c, batch))
          => phase = "open"
    /\ pc[c] \in {"run", "observe"} \/ (\E batch \in Endings : Appending(c, batch))
          => phase = "started"
    /\ pc[c] = "observe" \/ Appending(c, <<"completed">>)
          => effects[request[c].key] # {}
    /\ pc[c] = "return" => answerKind(c) \in Durable!TrueOf(phase)

\* A stream grows in the order of the phases.
Ordered ==
    \A k \in Keys :
        /\ Has(log[k], "completed") \/ Has(log[k], "failed") => Has(log[k], "started")
        /\ Has(log[k], "denied") => Has(log[k], "requested")

RInv == AInv /\ Ordered /\ \A c \in Calls : Stage(c)

\* The execution boundary implements the durable action it promises.
ImplementsDurableAction == Durable!ASpec

=============================================================================
