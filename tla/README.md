# Bee in TLA+

A verification project for Bee, a durable agent runtime in TypeScript: TLA+
modules of its stateful core, TLC configurations that check them on small
instances, and TLAPS proofs for every instance. Paths below are relative to
the repository's sources.

The design of Bee is that everything that must survive a process is an event on
a *chronicle* stream, that everything in memory is a projection of such streams,
and that everything that touches the world goes through one boundary under an
idempotency key. The models therefore share three ingredients: streams that
only grow and whose appends carry an expected sequence, processes that may die
between any two awaits, and asynchronous operations that interleave at their
awaits. One action is the code between two awaits.

## 1. The system

| Component | State | Operations | Hard behaviour | Correct when |
|---|---|---|---|---|
| Chronicle (`packages/knowledge/src/chronicle-store.ts`, `adapters/storage/sqlite`) | one sequence of events per stream | append with an expected sequence, read, latest sequence | two writers of one tail; a retried append | a stream is a gapless sequence; one writer of a tail wins; a replay appends nothing |
| ExecutionWorld (`packages/execution/src/execution-world.ts`) | the in-flight map; one stream per idempotency key | `execute` | racing calls, a crash after `started`, appends that fail after the effect | an action happens at most once and only when authorized; a result given is a result recorded; nobody waits for nothing |
| Tool execution (`packages/runtime/src/tool-execution.ts`) | none | `execute` a call under `tool:<turn>:<call>` | the request digest covers the item | a call of a turn is one request |
| AgentLoop (`packages/runtime/src/agent-loop.ts`) | the history of a running turn; the thread's stream | `runTurn`, `resumeTurn`, `recoverTurn` | parallel batches, suspension for days, recovery after a crash, turns that overlap | what is on the stream rebuilds what the turn held; a call runs once; a recorded result happened |
| Generations (`#generate`, `#attempt` there; `model-request-service.ts`, `llm-runtime.ts`, `packages/model-providers`) | the attempt, its open items, the queue of the provider, one stream per request | generate, retry, compact, abort | a stream that breaks, is cut or aborted in the middle; a queue nobody closes | one recorded answer enters the history; a view hides no message; items settle; turns return |
| Context views (`packages/runtime/src/context-policy.ts`, `packages/context/src`) | none | project a history, summarize a prefix, digest a request | a summary that no longer fits its history | each message is shown, replaced by its placeholder, or in a summary of it |
| Kanban store, dispatcher, tools (`packages/kanban/src`) | the task map and the key index; one stream per task | create, transition, renew, update, comment, rebuild; claim, heartbeat, complete, fail, block, reclaim; multi-hop moves | everything read before an await is stale after it; leases expire | a lease fences out its former holder; a restart loses nothing |
| Kernel (`packages/kernel/src/kernel.ts`) | the active generation, the list of generations, the references of each | `reconcile`, `beginTurn`, `release`, `stop` | turns pin generations while others replace them; live update; failures halfway | a pinned generation lives; one serves; the rest is disposed |
| Fibers and services (`packages/kernel/src/cordis`) | the fiber objects, the service store | plug, provide, effect, restart, update, dispose | changes while a fiber loads or unloads; providers and dependents that wait for each other | an active fiber has its services; nothing is left behind; all comes to rest |
| StructureReconciler, StructureConfigController (`packages/runtime/src/structure-reconciler.ts`, `config-source.ts`) | the structure stream; a queued flag | `reconcile`, `restore`, `notify`, `stop` | a change while a refresh runs; a failed candidate | what a restart restores is what served; no change is lost |
| PinnedAgentLoop, host runtime (`apps/bee/src/kernel-runtime.ts`) | the leases of suspended turns | `runTurn`, `resumeTurn`, `recoverTurn`, `stop` | each error path, a resumption after the structure changed | each lease is released exactly once |
| Scheduler (`packages/runtime/src/scheduler.ts`) | the trigger map; one stream | register, remove, tick, notify, rebuild | a removal while the turn of the trigger runs; a crash between turn and record; missed intervals | memory is what a restart rebuilds; what is owed runs, once unless something failed |
| Thread protocol, event stream (`packages/thread/src`, `apps/bee/src/routes/threads.ts`, `broadcasting-store.ts`) | watermark and queue of a connection | replay, follow, rename, cancel | appends during the replay; connections that break | each event once, in order, without gaps |
| Web console, client (`apps/web/src`, `packages/client/src`) | the open thread, the prompt, the request under way | open, start, send, decide, stop | an answer that is lost, a prompt that is stale | what is decided is what was shown |
| Memory (`packages/knowledge/src/memory.ts`, `plugins/memory-bee`, `plugins/memory-remote`, `packages/runtime/src/memory-hook.ts`) | the claims, the queue of writes; the circuit | ingest, correct, retract, consolidate, derive, recall, health | a queue behind a failed write; a crash between append and fold; answers out of order | a claim that left never comes back; an outage is on record |
| Learning (`packages/learning/src`, `apps/bee/src/learning-activation.ts`) | the proposals, the claims that activate them | run, experiment, transition, activate, roll back, check drift | looks that are stale at the append; memory that answers late or not | one open proposal per target; every claim accounted for; a reversal is final |
| World model (`packages/knowledge/src/world*.ts`, `apps/bee/src/world-runtime.ts`) | entities, relations, a version | record, rebuild, catch up, project live | wrong digests, corrections that fail, events during the catch-up | memory is the replay; the world holds the facts of the streams |
| Trajectory (`packages/runtime/src/trajectory.ts`) | none (it reads) | timeline, turn, replay, selection | streams that grow between two reads | nothing newer is missed; nothing is told without its cause |
| Grants, skills, tools (`packages/runtime/src/grant-store.ts`, `skill-store.ts`, `packages/context/src/*-registry.ts`) | maps projected from a stream | grant, revoke, install, rebuild | an append given up silently | memory and stream agree |
| Delegation, planner, goals (`packages/runtime/src/delegation-supervisor.ts`, ...) | limits of a supervision | delegate, abort | usage known only after a child is done | limits hold; siblings of a failure end |
| Sandboxes, tool adapters, CLI | the operating system's | I/O | | |

How they interact: a route calls PinnedAgentLoop, which takes a lease on the
active generation and calls that generation's AgentLoop, which asks the model
through the request service, appends to the thread's stream and executes tools
through the execution world, each on the chronicle. The broadcasting store
tells the connections of a thread and the world projection what was appended.
A completed turn is handed to the memory worker; the slow loop reads finished
turns back from the streams, proposes, experiments, and puts what was promoted
into memory. The dispatcher, the Kanban tools and the routes share one Kanban
store. The scheduler starts turns like a route. An edit of the configuration, a
post to `/structure/reconcile` and the start of the host all come to the one
StructureReconciler, which changes the generation that new turns will get; a
generation is a tree of fibers.

`PROJECT.json` lists the components with what is modelled of each, and the
hazards: what can go wrong in this code that a test would hardly reach, at the
line where it would, with the property that covers it.

## 2. The modules

| Module | Models | Uses |
|---|---|---|
| `Chronicle` | append, replay and conflict, as operators on a sequence | |
| `DurableAction` | abstract: what the execution boundary promises per key | |
| `ExecutionWorld` | `execute()` in full, over the log | `Chronicle`, implements `DurableAction` |
| `EffectProofs` | theorems about `ExecutionWorld`, among them that it implements `DurableAction`, and about `Learning` | TLAPS |
| `Folding` | what a fold over a stream computes, entry by entry | TLAPS |
| `AgentLoop` | the turns of one thread | stands on what `DurableAction` promises |
| `AgentLoopProofs` | theorems about `AgentLoop` | `Folding`, TLAPS |
| `ContextView` | the views of a history, as operators | |
| `Generation` | how one step gets its answer, down to the provider's queue | `ContextView` |
| `Kanban` | the board, its dispatcher and its tools | `Chronicle` |
| `ProjectionProofs` | theorems about `Kanban` and `World` | `Folding`, TLAPS |
| `Kernel` | generations, reconciler, controller, pinned loop | |
| `KernelProofs` | theorems about `Kernel` | TLAPS |
| `Cordis` | the fibers and services under a generation | |
| `RuntimeProofs` | theorems about `Cordis` and `Generation` | `Folding`, TLAPS |
| `Scheduler` | triggers, ticks, notifications, their stream and its rebuild | `Chronicle` |
| `TurnDriverProofs` | theorems about what drives turns, `Scheduler` and `Console` | `Folding`, TLAPS |
| `ThreadStream` | appends, replay and follow, connections, clients | `Chronicle` |
| `Console` | the web console, the thread routes and their turns | `ThreadStream` |
| `PersonalMemory` | abstract: what a memory provider promises | |
| `Memory` | the embedded provider and its derivation worker | |
| `MemoryHost` | the remote provider, and the choice between the two | `Memory`, implements `PersonalMemory` |
| `MemoryProofs` | that `MemoryHost` implements `PersonalMemory`, and of outages | `Folding`, TLAPS |
| `Learning` | proposals, experiments, drift and activation | stands on what `PersonalMemory` promises |
| `World` | the world projection, its stream, its rebuild | |
| `Trajectory` | the readers of the streams beside their writers | |
| `MC...` | the bounds and the symmetry for TLC | the module named |

One rule cuts every module into actions: an action is the code between two
awaits that others can come between, with everything that stretch changes. Where
a model has a process that dies, an append that is refused or an external call
that throws, each is an action of its own or an outcome of the step it strikes;
what a model leaves out of these is in its header or in section 5.

Several models are checked over *scenes*: records chosen once, in `Init`, that
say who takes part in a behaviour and how much of each thing it may have. A
scene is a bound and no more: no guard of the code depends on it. It lets one
run hold the few arrangements in which a hazard shows, each at the size it
needs, instead of one arrangement large enough for all.

Operators whose name holds an underscore (`Resume_BlindRetry`) are the
variations of a definition that a plausible bug would make; a property of
section 3 fails when the definition is replaced by it. They are part of no
specification.

Where a theorem is about a filtered stream the filter is a fold (`Select` in
`AgentLoop` and `Generation`, over `Kept`, and `Kept` in `Memory`): it is the same
sequence that `SelectSeq` gives, which the prover cannot look into. The loop of
`projectHistory` over the results of a history is a set (`Elided`): a result is
folded when the results that are left, once every older one that may be folded is,
still exceed the budget.

**ExecutionWorld.** `inflight` is `#inflight`, `log[k]` the stream
`execution:<k>`, `frame[c]` the locals of `#execute` and of the `#append` it is
in, `pc[c]` the await a call is suspended at. `effects[k]` is not in the
program: it collects the calls whose sandbox touched the world. `Call`, `Enter`,
`Wake` are the loop around the map; `Read`, `Decide`, `ReadTail`, `Write`,
`Execute`, `Observe`, `Return` the stretches of `#execute`; `Fail` the throw of
whichever await the call is in; `Crash` the end of the process, after which
later calls run in a new one on the same log. `Resume` holds the decisions
taken on what was read, `Gate` those on policy, approval and enforcement. The
answer of the policy is chosen anew for each call, because rules may change.

**AgentLoop.** A *run* is one invocation of `runTurn`, `resumeTurn` or
`recoverTurn`; a turn is named by the run that started it. `stream` is the
thread's stream reduced to what the code reads back, `run[r]` the `LoopState`.
`world[<<t, c>>]` is the record the boundary keeps for `tool:<t>:<c>`, in the
terms of `DurableAction`. `CarryHistory`, `SubmitInput` begin a turn; `Drive`
is the head of the loop; `Generate`, `Settle`, `NextBatch`, `Dispatch`,
`Perform`, `Result`, `RecordResult`, `Commit` a step; `RaiseApproval`,
`SuspendCheckpoint` the suspension; `ResumeTurn`, `Decide`, `RecoverTurn`,
`ReportMismatch` the way back, from what `RebuiltHistory` reads. A *fault* is a
`Crash`, an append of the boundary that is refused under a call (`ExecuteThrows`,
which the loop takes for the call's error), the one that would have told of the
call's answer (`RecordingRefused`, after which the batch settles and the run
throws, `DispatchFailed`), or one outside a batch (`AppendRefused`, the run
throws). `Lost` is what they share: the run is gone and the turn is as the stream
has it. `torn` remembers the turns of which the stream then had more than their
last checkpoint commits; no action reads it. The digest of
a history is the history, so two digests agree exactly when the histories do.

**Kanban.** `log[t]` is the stream of a task, `tasks` and `keyIndex` the maps of
the store, `job[p]` the operation client `p` is in and its locals. Every write
is `Commit`, then `Store` (the append) and `Index` (the map), which other
clients come between. `FoldTask` is the fold of the rebuild, apart from the live
updates of `ApplyTransition`, as in the code. Boards start from `Histories`,
legal prefixes that put tasks where claims and leases begin.

**Kernel.** `gen[g]` is a `StructureGeneration`, `listed` and `active` are the
kernel's map and field, `op` the one reconciliation under way (the reconciler
chains them) with the await it is at. `durable` is what `readActiveStructure`
would return, `turn[t]` a thread's turn and its lease, `kept` whether
PinnedAgentLoop holds that lease for a suspended turn. `controller` is the
queued flag and the loop of StructureConfigController, with whether its last
`load()` threw (`LoadFails`). A host that starts restores what was active, may find
that its grants are not those of its tools and supersede it at once (whether it
does is a choice: grants are not in the model), and throws when that needs a
restart; only then does the controller listen (`Boot`, `Supersede`,
`StartController`, `Booted`). Disposals go on in the
background (`DisposeEnds`). A structure is a model value; which pairs of them
differ in hot configuration only, or in a plugin that needs a restart, is a
constant, for that is all `createReconcilePlan` makes of a difference.

**Scheduler.** `triggers` is `#triggers`, `log` the stream `scheduler`, `queue`
and `op` the chain of `#serialize` and the operation it runs: a tick walks what
was due when it began (`op.due`, the triggers as they were then), then the task
conditions; a notification fires its first match. `calls[id]` is a registration
or removal, which nothing serializes, between its two awaits. `Fires`,
`RecordRun`, `Settle` are `#fire` before, at and after its append. `kinds` is
chosen at the start and never changes: which kinds of trigger the users of this
behaviour register. `starts` and `revived` are not in the program: they count the
turns, and name the schedules that the end of a run put back after their removal.

**ContextView, Generation.** `gen[t]` is the turn's `LoopState` with the attempt
it is in, `call[t]` the provider's side of its last request and the queue
between the two, `requests` the model-request streams, `open` the items that
were started and not yet completed or failed, `aborted` the raised signals.
`Loop` is the turn: the view (`projectHistory`, `#compactView`), a compaction
with its own request when the view is over the threshold, the attempt that
begins, reads the queue, settles its items and records its answer, and the
retries. `AppendRefused` is an append to the thread that fails: in an attempt
`#generate` catches it and the turn fails, elsewhere the run throws (`thrown`); the
items stay as they are and `refused` remembers it. `Provider` fills and closes
the queue; what the service behind it answers is external. A message costs 1 and a tool result `ResultCost`, so the two budgets
can be crossed by a handful of messages. A piece of text or a call is the
request that answered with it and its place: mixing two attempts would show.
What the thread holds before the turn is one of `Earlier`, a summary made by a
turn that did not see all messages among them.

**Cordis.** `fiber[f]` is the Fiber object of the last application of a plugin:
its state, the transition under way, the epoch, the copies of the services it
was loaded with, what it holds and is cleaning up; `services` is the store of
`reflect.ts`. `Progress` is what the runtime and the callbacks do by themselves,
`Outside` what the kernel or a user does to a fiber. Notifications cascade
synchronously and are part of the action that sets them off.

**ThreadStream, Console.** `streams[t]` is the stream of thread `t`, `conn[c]` the
handler of `GET /threads/:id/items`: the page it reads, its watermark, its queue and what
is on the wire; `client[x]` what `streamItems` has yielded. An append reads the
tail (`ReadTail`), is stored or refused (`Store`, `Refuse`) and is emitted
before its writer goes on (`Emit`). A turn whose append is refused fails if it was in
an attempt, which `#generate` catches, and leaves its run without a terminal event
elsewhere (`TurnThrows`). `Console` adds the turns as writers and the
App component: `app` holds its two state hooks, `call` the request it awaits,
`shown` and `granted` observe what it prompted for and what was granted.
`DeriveEntries` is the transcript. A turn is there what the console can tell of
it; its inside is in `AgentLoop`.

**PersonalMemory, Memory, MemoryHost.** `tail` is the chain of `#serialize`,
`plan` the events its head appends (`Store`) and, an await later, folds
(`FoldStored`): in between the stream is ahead of the projection, and a crash or a
read may find it so. `turns` is the queue of the
derivation worker, which looks at the projection without waiting (`Derive`) and
ingests later. `MemoryHost` adds `failures` and `published` of the breaker, the
health events that are queued to be appended behind the callers' back, and the
crash and restart of the host. `Switches` lets a restart choose the other
provider; a host whose stream holds a health record then never comes up
(`Readable`), so the run leaves it off.

**Learning.** `stream` is the learning stream, `prop` and `claims` the
projections, `memory` what the user's memory holds, `job[j]` a request or a run
of the timer and where it is. Each job looks, then appends with the tail it read
(`AppendEvent`), then goes on; memory takes an operation and may answer late,
or fail having done it or not (`MemoryFails`).

**World.** `source` are the streams the projectors want, `stream` the world stream,
`world` and `version` the projection, `queue` the records to come, `appended` a
record that is on the stream and not yet in memory. A digest is the state it
digests or `Bad`. `Replay` is the fold of a rebuild with its rebases and
corrections; `missed` observes the events this start will not record.

**Trajectory.** `log` are the thread, execution and request streams of the turns
and the streams of the slow loop, written in the order one turn leaves its
events there (`Write`). A result may be an error although its execution
completed. A turn that needs an approval writes a checkpoint and stops
(`Suspend`); decided, it makes the call that waited and finds its other calls left
over (`Driven`), which write another. A dead turn is recovered. Both start from
what the last checkpoint commits (`Rebuilt`), and where its digest is not of what
is found they stop for good (`FailToRebuild`). `reader` is one query with what it has read so far, a
stream at a time (`Ask`, `Read`). The page, the turn, the replay of a request
(`rebuildModelRequest` over `describeBundle`), the selection
(`discoverPatterns`) and the experiment are operators over what was read.

## 3. The runs

`execution_world`: three calls on one key, two digests, two permission layers.
Three calls are one that runs and two behind it in the map, or three process
lives; a fourth adds no new relation between two calls. Any await may throw, a
crash may happen whenever. Shows: the action is performed at most once
(`AtMostOnce`), whatever fails; only after a permission and a `started` that is
on the stream (`EffectsAuthorized`); an entry of the map belongs to a call that
will take it off, and nobody waits behind one that is gone (`WaitersAreServed`);
and the whole implements `DurableAction`: a refused key stays refused, a result
is told only when it is recorded.

`agent_loop`: in one scene three runs after each other, two calls that both need
approval, two steps, two faults: a turn, its resumption and the one of its second
approval, or a turn, its recovery and the turn after it, with a crash or a
refused append anywhere in them. In the second, three runs after each other with
both calls in one parallel batch, one of them asking, and one fault: a sibling
that throws while the other acts or suspends, and the recovery after it. In the
third, two runs at once on the same calls. Shows that turns in sequence rebuild
to their last checkpoint (`SequentialTurnsRebuild`), across approvals, faults and
recoveries, unless a fault tore the turn between an item and its checkpoint
(below); and that even
overlapping runs of a turn perform a call at most once (`OncePerTurn`) and
record no result that did not happen (`ResultsAreTrue`).

`generation`: one turn of two steps with one retry and one compaction, on a new
thread or on one with an earlier conversation and its summary, which fits or
does not; two pieces of text or calls, and two faults among provider errors,
answers cut at the limit, failed appends and aborts. Two pieces are a text and a
call, or text before and after a break. Shows that an assistant message is the
whole answer of one recorded request (`MessagesAreAnswers`), that a view hides
nothing (`ViewIsFaithful`), that a turn that is over leaves no item open but in
the cases the code has no event for (`ItemsSettle`): a request that could not be
recorded leaves its assistant item, a cancellation or a call whose end could not be
recorded its tool items, and an append to the thread that was refused whatever the
last attempt had open. And that every turn returns or throws (`TurnsReturn`).

`kanban`: two clients, two tasks, three operations, one tick of the clock against
leases of one tick, and a worker that may hold one task. Three operations are a
holder, an intruder and a late report; a lapsed lease, its reclaim and a new
claim of the other task fit. Appends fail and processes restart at any point.
Shows that a rebuild gives the board there was (`BoardIsReplay`), and that a
task leaves `running` through `complete`, `fail` and `block` only for the lease
that has it, and through reclaim only when its lease has lapsed
(`LeaseFencing`).

`kernel`: three generations, so that two turns can pin two old ones while a third
serves; three structures, one a hot variant and one behind a restart; one
append to the structure stream that fails; stop, crash and boot at any point.
Shows: counts are leases (`RefsCountLeases`), pinned generations live
(`PinnedStaysAlive`), one generation serves and each other one is pinned or on
its way out (`OneGenerationServes`), the stream names the structure that serves
(`DurableIsServed`), and no edit of the source is lost (`ConfigConverges`). The
code does not retry a load that threw: the controller rests on what it loaded
before and says so in `lastError`, which `ConfigConverges` therefore allows, and
nothing else. `OneGenerationServes` and `DurableIsServed` are stated for runs without a failed
append, because with one the code does not keep them (see the hazard at
`kernel.ts:738`).

`cordis`: three plugins as a chain, as a parent with a child beside a user of the
same service, and as two providers of one service; three changes from outside
(disposals, restarts, updates, throws). A chain of three is the shortest in which
a dependent of a dependent can be forgotten. Shows that an active fiber finds
what it was loaded with (`ServedWhileActive`), that a provider waits for its
users (`ProvidersOutliveUsers`), that an unloaded fiber leaves nothing
(`NothingLeftBehind`), that rest is the right state (`RestIsConverged`) and is
reached (`FibersSettle`).

`scheduler`: a recurring trigger beside a one-shot one, or a task or event
condition by itself; an interval of two ticks on a clock that stops there, so
that runs are on time, late and an interval late; one removal, and one failed
append or crash, anywhere. Shows that memory is what a restart would rebuild,
for every trigger, a removed one too, but for a schedule that a run put back
(`LiveScheduleIsReplay`); that however operations pile up each run waits for the
time the run before it set, and a turn beyond the recorded runs is paid for by a
fault (`ExtraTurnsAreFaults`); and that what is owed runs in
the end (`OwedIsRun`), a transition that happened while the host was down too.
One operation of each kind may wait in the queue: a second tick behind a tick
finds what the first left, and a bound on all operations together would let
notifications starve ticks, which the code's queue does not.

`console`: the console between two threads, with a rename in the middle of an
answer; another client beside a turn and a rename, which reconnects; two turns
with two approvals each, on two threads, with answers lost. Six to eight events are a turn with its approvals or a
generation that streamed, failed and was retried. Shows that a client has a
gapless beginning of its thread (`ViewIsPrefix`), in the end all of it, with
each message once in the transcript (`NoneMissed`), and that no approval is
decided or granted for good that was not prompted for (`DecidedAsShown`).
The transcript is asked of a thread on which one turn streams at a time:
`deriveEntries` (`apps/web/src/messages.ts`) joins the deltas since the last start
of an item without asking whose they are, so the texts of two turns that stream on
one thread at once could mix.

`memory`: four claims, two of which say the same, and four calls from five mixes
of ingest, corrections by a completed turn, retraction, consolidation and
recall; two refused appends or crashes, between an append and its fold too. Four
calls are a write under way, two queued behind it and a worker between look and
ingest. Shows that the embedded provider implements `PersonalMemory` through all of
it (`ImplementsProvider`), that the breaker's changes are on record
(`HealthIsOnRecord`), and that no call waits for ever (`OpsSettle`).

`learning`: four proposals, three of one target, in five scenes of up to four jobs:
repeated activation and rollback of one proposal, two proposals at the limit of
active claims with drift, an experiment beside a decision and a run, two runs
that overlap; one failure of memory or crash. Shows `OneOpenPerTarget`,
`ClaimsAreAccounted` and `RevertedStaysRetracted`.

`world`: two streams of two events, three starts, three wrong digests, one failed
append. Three starts meet a correction that was itself wrong or failed. Shows
that memory is the replay of the stream after each (`WorldIsReplay`) and that a
quiet world holds the facts of all events but those the code itself drops
(`WorldIsProjection`).

`trajectory`: one turn of two steps with retries, read while it runs, dies and is
recovered; one whose answer makes two calls, of which one may wait for an approval
and the other be left over, with a crash; two turns on two threads to select from,
with a budget of one; two appends between the reads. Shows that a page misses
nothing newer (`TimelineIsNewest`), that nothing is told without its cause and
requests replay to what was sent (`CausesAreTold`), and that finished turns are
told whole (`EvidenceIsWhole`). A cause is told of a result that is no error (an
execution that completed without one), of an answer (a generation that completed)
and of a checkpoint (such a generation, or an approval asked for: a suspension
writes a checkpoint for an answer whose step is checkpointed again). The converse
is false: an execution that completed may have told an error, or have lost its item
in a crash.

Deadlock is checked for `scheduler` only, where the timer never rests. Each
other model ends when its calls, runs, changes or events are used up, and that
is where the program rests too.

### Where the code and its documentation disagree

These were met while modelling. The models do what the code does; a property
that would deny it is stated with the exception named here, or not at all.

- A call left open by a crash, a cancellation or a suspension is dispatched again
  by the *next* turn of the thread, under that turn's keys. "Idempotency keys
  make re-dispatch safe" holds within a turn (`OncePerTurn`), not between turns.
- A rebuild leaves out what was completed after the last checkpoint
  (`agent-loop.ts:1484`), but its next checkpoint commits the stream up to
  itself, those items with it. A turn whose process died, or whose run threw,
  between an item and the checkpoint of its step recovers once; from the
  recovered run's first checkpoint on, the digest is not that of what a rebuild
  reads, and every later resumption or recovery fails with
  `CheckpointDigestMismatch`. The shortest such behaviour is a turn that dies after
  its input: recovered, it answers without the input and checkpoints. The comment at
  `:1434` reads "Matching the live construction is what keeps the
  checkpoint digest verifiable across recovery". `SequentialTurnsRebuild` excepts
  the turns in `torn` for this, and no others.
- Completion order on the stream, model order in the digest
  (`agent-loop.ts:680`, `:1486`): a parallel batch that finishes out of order
  makes its turn impossible to resume or recover.
- A leftover call asks for approval under an item that is not the one its
  resumption uses (`agent-loop.ts:803`), and the boundary refuses it as a
  collision.
- Two concurrent creates with one idempotency key make two tasks
  (`kanban/src/store.ts:270`): the index is read before the append and written
  after it. Two `claimNext` of one worker that overlap exceed its capacity
  (`dispatcher.ts:52`).
- A trigger removed while its turn runs is put back into memory when the turn
  ends (`scheduler.ts:369`), and fires until it is removed again or the host
  restarts; `LiveScheduleIsReplay` allows that and nothing else. A late tick moves
  the cadence of a recurring trigger for good (`scheduler.ts:345`: `now +
  interval` is never earlier than the next point of the cadence), where the
  comment and the repository's README promise the original one.
- A turn that begins while a live update awaits its fibers has its configuration
  changed under its lease (`kernel.ts:465`). In the Bee host every change of
  structure also changes a plugin that is not hot, so this is about the kernel as
  a library.
- The embedded provider cannot replay a stream with a health record of the remote
  one: `#fold` throws on `memory.health.changed` (`embedded-memory.ts:445`), and a
  host that changes its provider does not start.
- A rollback of a promoted proposal "retracts the activation"
  (`routes/learning.ts:205`), unless it comes while memory still ingests it: then
  there is no claim to find, and the claim stays. The budget of active claims
  (`learning-activation.ts:129`) is looked at before an await.
- The slow loop selects turns by the name of their stream (`learning/src/loop.ts:103`),
  not by recency; a turn counts as what its start said; a turn that still runs may
  be selected, and derives differently later, though "completed turns are
  immutable" is why a baseline may be derived again. The evaluator takes six steps
  as long (`experiment.ts:167`) whatever the budget is, and selects afresh, so a
  sound claim may be refused because other turns have filled the budget since.
- The timeline sorts by wall clock; its filter comes after its window, so what a
  query drops still takes room in it.
- A world event between the reading of its stream and the subscription
  (`world-runtime.ts:65-72`) is missed until the next start, and so is one whose
  record failed: no digest tells (the comment at `:15` says one does). A wrong
  digest that is followed by a right one is passed over in silence, and a
  correction whose append fails keeps the host from starting.
- The second approval of a resumed turn is never prompted for (`App.tsx:195`).
- A generation whose activation cannot be recorded serves and is reported as
  failed (`kernel.ts:738`).

### Fairness

What a model assumes of the scheduler is what an event loop gives: a stretch of
code whose await has been answered runs. `Scheduler!FairSpec` is weak fairness of
the operation under way, of the timer, of calls once they began and of the
restart of the host. `Generation!Fairness` is weak fairness of a turn's own steps
and of its provider's: every answer is assumed to end, well or not, since the code
times out only its headers. `MemoryHost!FairSpec` is weak fairness of calls that
have begun, of the transport's answers and of the restart of the host.
`Cordis!Spec` is weak fairness of `Progress`: callbacks, set-ups and disposers of
plugins end. None of them assumes that an operation succeeds: a throw is an answer. Clocks,
crashes, users, removals, aborts and changes from outside are not fair. The other
modules state safety only; a turn that is never resumed is a behaviour of the
program.

## 4. The proofs

`EffectProofs` proves of `ExecutionWorld`, for any sets of calls, keys, digests and layers,

- `TypeCorrect`: `Spec => []TypeOK`;
- `PerformedAtMostOnce`: `Spec => []AtMostOnce`, the promise of the execution
  boundary: no idempotency key has its action performed by two calls;
- `NobodyWaitsForNothing`: `Spec => []WaitersAreServed`, an in-flight entry is a
  call of its key that is still in `#execute`, and who waits, waits for such a
  call or for one that has just settled;
- `EffectsAreAuthorized`: `Spec => EffectsAuthorized`, the sandbox is reached only
  by a call that was granted this very request, behind its own durable `started`.

Its second half proves `ImplementsTheDurableAction`:
`Spec => ImplementsDurableAction`, every step is a step of `DurableAction` or a
stutter, so each caller is answered once, with what is true of the one action its
key names, and that action only moves on.

The assumptions are the two of the module: `NoCall` is not a call, and a policy
has a layer. `AtMostOnce` is not inductive: that nobody else performed the
action follows from where everybody else is. `IInv` adds

- `Exclusive`: a call inside `#execute` is the in-flight entry of its key, so
  there is at most one per key and process;
- `Position(c)`: what a call knows of its stream at the await it is in: up to
  the append of `started` there is none on the stream, and between that append
  and the sandbox nobody has performed the action;
- `Logged`: where the action was performed there is a `started`, and before
  that a `requested`.

The argument: a call performs the action only behind a `started` of its own; it
appends one only where the stream it read has none; nobody can have written to
the stream since, for nobody else of its process is inside `#execute` with that
key and no other process is alive; and after a crash or a failure behind
`started` every later call answers `reconciliation-required`. The proof has a
lemma per action and, under it, a step per part of `IInv` the action disturbs.

The later theorems stand on the earlier ones, each with what it adds to `IInv`:

- `WaitersAreServed` is inductive with `TypeOK` alone: a call that enters waits
  for an entry that is in `#execute`, and only the call itself, or a crash that
  empties the map, ends it;
- `AInv` adds `OneRequest` (a stream names one digest) and `Ready(c)`: past the
  comparison of digests the stream's request is the call's own; from the gate to
  the sandbox the call is `Granted`; at the sandbox the `started` of the stream is
  its own. The grant lives in the call's locals and the digest on the stream; both
  are still what they were at the effect because nobody else writes to the stream
  between;
- `RInv` adds `Stage(c)`, the phase of the stream at each await and the truth of
  the answer a call that leaves `#execute` is about to give, and `Ordered`, which
  keeps a stream from ending before it started or being denied before it was
  requested. That the answer is still true when it is given holds because the
  call keeps its in-flight entry until then.

Of `Learning` it proves, for any proposals, targets, levels, jobs and what they
ask, limits and failures of memory or crashes,

- `TargetsStayOpenOnce`: `Spec => []OneOpenPerTarget`, no two proposals of one
  target are open while the host is up;
- `ClaimsStayAccounted`: `Spec => []ClaimsAreAccounted`, a claim in the user's
  memory is one the stream activated;
- `ReversalsLast`: `Spec => []RevertedStaysRetracted`, a claim the stream reverted
  is retracted and stays so.

Nobody locks the stream: each job looks, goes away and appends for the tail it
saw. `LInv` therefore says of each job (`ErrandOk`) that what it checked still
holds of its event (`Fits`) as long as the stream has the length it saw, since an
append at any other length is refused; and of the stream (`StreamTold`) that its
replay has one open proposal per target and is what memory projects, that a claim
in memory is on record, and that a reverted claim is out of memory. That it stays
out is the subtle part: memory answers late, so a claim may enter it after it was
looked for. A claim is `Spent` once its job can ingest no more, and an activation
on the stream is spent or its job is just ingesting; only a spent claim is ever
bound, retracted or reverted. The assumptions say that a request names a proposal
(`AsksAssumption`) and what an earlier host can have left: one open proposal per
target, and claims of none of this behaviour's jobs (`ScenesAssumption`).

`KernelProofs` proves, for any finite set of turns and any generations,
structures, differences between structures and number of refused appends,

- `TypeCorrect`: `Spec => []TypeOK`;
- `EveryLeaseCounts`: `Spec => []RefsCountLeases`, a generation's count is the
  number of turns that hold it, so no release is missed or made twice;
- `PinnedGenerationsLive`: `Spec => []PinnedStaysAlive`, what a turn holds is
  neither disposed nor being disposed until the host halts;
- `OneServes`: `Spec => []OneGenerationServes`, between reconciliations one
  generation serves and each other is listed and drains for the turns that hold
  it or is being disposed, as long as no append was refused;
- `RestoredIsServed`: `Spec => []DurableIsServed`, what is served is what a
  restart would restore;
- `LastEditIsLoaded`: `Spec => []ConfigConverges`, a controller at rest whose last
  load did not throw has loaded what its source holds.

The assumptions are `KernelAssumption` (what the constants are) and
`TurnsAssumption` (finitely many turns, without which a count means nothing).
The type of a count, `0 .. Cardinality(Turns)`, is not inductive: that a release
does not take it below zero follows only from `RefsCountLeases`. The proof keeps
`Shape` (every type but that bound) and derives `TypeOK` from the two. `IInv`
adds

- `LeasesAreKept`: a turn that is not running has a lease only where
  `PinnedAgentLoop` keeps one, so that taking another loses none;
- `ServingIsUp`: a generation with references is active or draining and not
  being disposed, and so is the one that serves;
- `OpIsOrdered`: a candidate is not the serving generation, and is being
  prepared, until it is activated; what is to be drained is not what replaced
  it. Without it a failed preparation, or a drain, could reach what serves.

`ServingIsUp` and `OpIsOrdered` are claimed until the host halts, for
`Kernel.stop` disposes whatever is pinned. The proof sorts the actions of `Next`
into those that touch neither generations nor turns (`Quiescent`), those that
reshape one generation and keep its references (`Reshaping`), those by which
leases change hands (`Turning`) and the end of the process.

The later three add, on top of `IInv`, what a reconciliation in the middle owes:
which generation each of its phases refers to (`OpRefersTo`), where every other
generation stands (`Accounted`), how far the durable structure is from the
served one at that phase (`DurableFollows`), and, for the controller, that what
it loaded is what the source holds unless a change is pending, a refresh is queued
or the load threw (`LoadIsCurrent`).

`Folding` is what the next proofs rest on. The library's induction theorems take
an operator as a parameter and cannot be instantiated here, so `Folding` gets what
it needs from a least counterexample: the function that `FoldLeft` chooses is
unique on each prefix, and so (`FoldsOneMore`) folding a sequence with one more
entry is one step more. Preservation, growth along prefixes and the reachability
of what a fold yields (`FoldsInto`, `FoldsAlong`, `FoldsInTurn`, `FoldsReach`)
follow once, for any step; a module with a projection instantiates it.

`TurnDriverProofs` proves of `Scheduler`, for any triggers, clocks, cadence and number of faults,

- `LiveIsReplay`: `Spec => []LiveScheduleIsReplay`, what the scheduler holds of a
  trigger, with no call on it and no run being recorded, is what a restart would
  rebuild from the stream, unless a run put it back after its removal;
- `ExtraTurns`: `Spec => []ExtraTurnsAreFaults`, each recorded run of a trigger
  fired when the run before it said the next is due, and the turns exceed the
  recorded runs by no more than the faults and the turn in progress.

`SInv` says where memory may lead the stream or trail it: a registration or a
removal under way is on the stream or is not, as the call has it
(`CallsAreLogged`); the trigger an operation has in hand is what the stream says
of it, or what it said before the run that was just recorded, unless the stream
says it is gone, and only then may the end of a run put it back
(`HandsAreCurrent`); everything else is the replay (`MemoryIsReplay`).
`ExtraTurns` rests on two more. `AllSpaced`: whatever holds a trigger, memory,
stream, the list of a tick or the operation, no recorded run is later than the
time it is due at, and what is about to run is due; a run that is recorded
carries the next time on to all of them. `PaidFor` counts: each step that starts
a turn is inside the operation's run, and each that records one adds an entry.

Of `Console` it proves, for any threads, turns, connections, scenes and faults,

- `ViewsArePrefixes`: `Spec => []ViewIsPrefix`, what a client was given of its
  thread is a gapless beginning of it, in order and without repetition;
- `EventsArrive`: `Spec => []AllDelivered`, when nothing is under way each
  connected client has all of its thread (the first half of `NoneMissed`);
- `DecisionsWereShown`: `Spec => []DecidedAsShown`, every approval on a thread and
  every grant was prompted for.

The first two rest on `WireInv`, which needs no bound on what happens to turns. A
handler reads a page while broadcasts come in: what it has not sent is on that
page, in its queue, whose numbers are consecutive, or in a broadcast to come
(`HandlerOk`); broadcasts come in the order of the stream and reach to its end
(`InOrder`); what a client has and what is on its wire count up to the handler's
watermark, and no other client listens there (`ClientOk`). So the filter of the
watermark drops exactly what was on the page as well.

`DeskInv` adds what the console and its turns owe each other: the prompt and the
decision under way were shown (`PromptOk`); a turn has recorded as many decisions
as it asked for, or one fewer while it is suspended or just resumed, all of them
shown (`TurnOk`); an event of a turn lies on its thread (`PostsOfTurns`); and an
event about to be appended was not stored before (`DraftOk`), so that no append is
a replay that would let a turn go on twice. The assumptions are
`StreamAssumption` and `ConsoleAssumption`, which say what the constants are.

`AgentLoopProofs` proves, for any runs, finitely many calls, scenes, steps and
faults, runs that overlap on one turn included,

- `TypeCorrect`: `Spec => []TypeOK`, with the bound on a batch;
- `TouchesOncePerTurn`: `Spec => []OncePerTurn`, no key lets the world be touched
  twice;
- `RecordedSuccessesHappened`: `Spec => []ResultsAreTrue`, behind every result on
  the stream that is not an error there is one effect and a completed action.

`EInv` adds that effects and records move together (`TouchedAsRecorded`), that a
call in hand has a started record and has touched the world or not as it stands,
and a success a run still holds in memory a completed one (`StandingIsRecorded`),
and that a call in the sandbox is there alone (`RunsAlone`). It also proves

- `SuspendedTurnsRebuild`: `Spec => []SequentialTurnsRebuild`, the digest of the
  last checkpoint is that of the history a rebuild makes of the stream, for every
  turn that is not over, whose runs did not overlap and whose calls ran one at a
  time, through crashes, refusals and recoveries, unless one of them tore it.

What a checkpoint says is in the locals of the run that writes it, what a rebuild
reads is on the stream, so the invariant `HInv` ties the two at every await. Where
runs may not overlap there is one (`OneRuns`); a turn is started once, before
anything else is recorded of it (`TurnsAreKnown`); a call that a message asks for,
or a run still has to do, was started on the stream, so what the property says of
started calls holds of a leftover call too (`CallsAreStarted`); and for each
turn that runs in sequence and is not torn (`Rebuilds`) the run that drives it
holds the history a rebuild of the whole stream would give, up to the result of the
one call of its batch (`Holds`), while a turn nobody drives is over or has all its
history committed (`CanResume`). That is what a suspension leaves, what a run that
is lost leaves if it does not tear its turn, and what `Rebuilt` needs to hand the
next run the history `Holds` asks of it. The lemmas before the steps
say how each reading of the stream (`HistoryNow`, `CheckpointsIn`) moves
with one more event, and that it does not move with events of other turns
(`Same`).

`ProjectionProofs` proves of `Kanban`, for any tasks, clients, workers, refused and failed appends
and restarts,

- `SurvivesRestart`: `Spec => []BoardIsReplay`, replaying a task's stream gives the
  board's task, or the one an append that came back is about to put there, up to
  `updatedAt`;
- `LeasesFence`: `Spec => LeaseFencing`, a heartbeat or a result is stored only while the
  durable task runs under the caller's lease, and `reclaim` takes back only a lease
  that had lapsed.

`BInv` says that the length of a stream is the version of its replay (`LogNumbers`), that
the board is the replay but for an event whose append came back and whose
projection is still to come (`BoardFollows`), that a client's events are on the
board but for the one it is about to put there (`OwnIsShown`), and what every local
of an operation in progress is worth at its await (`JobOk`): it saw a version the board has shown, and what it
checked still holds of the stream if nobody stored since. If somebody did, its
append conflicts.

Of `World` it proves, for any streams, resources, starts, wrong digests and failed
appends,

- `WorldSurvives`: `Spec => []WorldIsReplay`, what is in memory is what a restart
  would rebuild, corrections and rebases included;
- `WorldProjects`: `Spec => []WorldIsProjection`, a quiet world holds the facts of
  every event but those this start has missed, and no others.

`WInv` says that the last digest on the stream is of the state the stream replays
to, or that the replay notices (`DigestsTell`); that memory, or the record on its
way there, is that replay (`MemoryFollows`); and that every event of the sources
has been caught, waits in the queue, is covered by the replay or is one of the
missed (`EventsAreKept`).

`MemoryProofs` proves, for any claims, calls, turns, thresholds and failures of
store and transport, with restarts under either provider,

- `HostKeepsTheContract`: `Spec => ImplementsProvider`, every step of the host is a
  step of `PersonalMemory` or a stutter;
- `OutagesAreTold`: `Spec => []HealthIsOnRecord`, the stored and queued health
  events tell every change of health the host lives through.

`MInv` says that the embedded host serves the replay of its stream, but for the plan
that is appended and not yet folded (`Stored`), with which it is the replay
(`Projected`); that without a remote provider at work there is nothing to tell (`Quiet`); that
only the call in front of the queue appends, and that the plan it computed before
it waited is the plan it would compute now (`InFront`); and that stored events
followed by queued ones lead from healthy to the health of now (`Recording`). A
consolidation appends several events at once: `EventsTell` shows that the statuses
after a batch of recordings and supersessions do not depend on its order, and so
are those of one abstract step.

`RuntimeProofs` proves of `Cordis`, for any plugins and services, whatever each
plugin injects, provides, runs and plugs, and for any number of changes from outside,

- `TypeCorrect`: `Spec => []TypeOK`;
- `ActiveAreServed`: `Spec => []ServedWhileActive`, an active fiber finds behind
  every service it injects the implementation it was loaded with, its provider
  active;
- `RestLeavesNothing`: `Spec => []NothingLeftBehind`, a fiber at rest that is not
  active has nothing left of what its callback did;
- `RestConverges`: `Spec => []RestIsConverged`, what is at rest is active or
  pending as the services there are call for;
- `WithdrawnLast`: `Spec => ProvidersOutliveUsers`, a provider ends a withdrawal
  only when nobody is loaded with its implementation.

None of them is inductive: between two awaits everything depends on what a fiber
was told and when. `IInv` says of each object that its state is the one its task
and epoch call for (`States`), that what it holds and cleans up fits what it is
doing (`Holdings`) and that it loads with the services its epoch names
(`Snapshot`). Between objects, a registered service and a child that is not gone
are held or being cleaned up by their owner (`Registered`, `Children`), and a
withdrawal waits for every fiber loaded with what it withdraws (`WaitedFor`). At
every await each registered fiber knows exactly the services that active fibers
provide (`CurrentBut`), and its epoch is the one these call for, unless it
stopped on an error and is not loading (`Linked`).

`CurrentBut(S, N)` and `Linked(S, X)` have a gap as a parameter, because inside
an action both are broken until the last notification: the names N that nobody
was told of yet, the fibers X whose epoch is still to be looked up. Each
operator of the model gets a lemma that says which gap it needs and which it
leaves, and the lemma of an action composes them. The cascade is one lemma:
`StayUp` is the largest set of active fibers that serve each other, `Notify`
leaves exactly these active (`StayUpLargest`, `NotifyKeeps`), so a cycle of
dependents is no special case.

The assumptions are that a service, a plugin and the effect are different kinds
of disposable (`KindsAssumption`; in the code, different closures in
`_disposables`), that a callback plugs its own children only
(`ScenesAssumption`; `ctx.plugin` makes a child of the fiber it runs in), and
that no fiber or service is `None`.

Of `Generation` it proves, for any turns on one thread, streams left by earlier
turns, windows, budgets, steps, retries, compactions, pieces and faults,

- `GenerationTyped`: `GenerationSpec => []GenerationTypes`;
- `HistoryIsAnswers`: `GenerationSpec => []MessagesAreAnswers`, an assistant message
  of the history is the whole answer of one request, recorded as completed;
- `RequestsShowHistory`: `GenerationSpec => []ViewIsFaithful`, a request shows every
  message of its history, in order, under both levels of compaction;
- `ItemsAreSettled`: `GenerationSpec => []ItemsSettle`, a turn that is over leaves
  open no message item but the last, which it never requested or could not close, and
  calls only where it was cancelled, its answer could not be recorded or an append
  was refused.

An answer reaches the history through a queue that the provider fills while the
attempt empties it, and one attempt's text must not run into the next. So `GInv`
says at every point where the two alternate what has gone which way: the text and
calls taken so far are the first of those the provider pushed for this request,
and the queue holds the others, in order, and after them the end (`Takings`); once
the end is taken they are the request's whole answer (`AttemptIs`). What a request
says fits where its call is: it is recorded once, after the provider ended
(`CallIs`). A view shows the history it was made from: a summary counts no more
messages than the history has, and stands for exactly those (`Faithful`,
`ViewsAre`; `Applies` compares the digest of what it covers, which makes this true
of summaries that earlier turns left). And the items a turn has open are those of
its attempt: the message the request is numbered by, and calls the attempt has
taken (`ItemsAre`). The
lemmas before the actions say what a fold of entries selects, what
`projectHistory` keeps of every message, and which text a step appends.

The assumptions say that the bounds are numbers and a result costs something
(`GenerationAssumption`, `ViewAssumption`), and what an earlier turn leaves on the
stream: messages, and summaries whose count is the number of messages they were
made of (`EarlierAssumption`; `#maybeCompact` writes count and digest together).

What stays with TLC, and why:

- liveness (`TurnsReturn`, `OpsSettle`, `FibersSettle`, `OwedIsRun`): neither ENABLED
  nor fairness is within reach of the proof system;
- the transcript half of `NoneMissed`: it is false once two turns stream on one
  thread, and the run asks it where one does (section 3);
- `Trajectory`, which filters with `SelectSeq` and sorts with `SortSeq`: the provers
  cannot unfold either.

## 5. What is not modelled

- Parsing, formatting, digests, redaction, schemas, transport and storage
  layout: data the properties do not tell apart. Two requests are equal or not.
- Two execution worlds on one store at once (one per kernel generation): the
  lease of a turn keeps its calls in one world.
- `AgentLoop` and `Generation` are not composed: a step's answer is one action of
  the first, and the second ends where the step's calls begin. A recovery
  restarts the step, so no generation is resumed in the middle.
- Overlapping calls on one suspended turn in `Kernel`: one runner per turn. Two
  calls that resume it share its kept lease, and the first that settles
  releases it (`kernel-runtime.ts:148`).
- The hooks of the loop (retrieve, plan, decisions), the allocation of the
  context budget, queries of the world and the ranking of a recall: functions of
  their input without state.
- The structure graph (`structure-graph.ts`), a pure function. Two things in it
  are worth a look: re-resolving keeps `supersededBy`, and a candidate that failed
  still supersedes.
- The grant and skill stores, which append and index one stream. The grant store
  swallows a failed append (`grant-store.ts:99`), so memory and stream disagree
  until a restart.
- Delegation: a fan-out whose limits on use are looked at after each child, so that
  children side by side may overrun them together.
- A rollback of a live update that fails itself; the order in which the plugins
  of a graph start; in `Cordis`, isolated contexts, and effects that are
  registered after a callback returned.
- Sandboxes, tool adapters, the CLI and the v0 import: I/O behind ports the models
  let succeed or throw.

## 6. Plan

1. One abstract store that the grant, skill and goal stores implement.
2. `AgentLoop` composed with the leases of `Kernel`, and with `Generation` for a
   crash in the middle of a step; `ExecutionWorld` with a second world.
3. Delegation limits over child turns.
4. Theorems about `Trajectory`, where TLC already agrees, with its sections and its
   timeline written without `SelectSeq` and `SortSeq`.
