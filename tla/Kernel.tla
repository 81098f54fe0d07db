------------------------------- MODULE Kernel -------------------------------
(***************************************************************************)
(* The structure a host runs: the Kernel with its reference-counted        *)
(* generations, the StructureReconciler that serializes reconciliations    *)
(* and records them on the structure stream, the StructureConfigController *)
(* that follows a config source, and the PinnedAgentLoop that holds a      *)
(* lease for every turn.                                                   *)
(*                                                                         *)
(* One action is the code between two awaits. Reconciliations never        *)
(* overlap (StructureReconciler chains them), so one `op` is under way and *)
(* the next is any one that is waiting. Everything else interleaves: turns *)
(* that begin, suspend and settle, edits of the source, disposals in the   *)
(* background, a stop, a crash of the process.                             *)
(*                                                                         *)
(* Abstracted: a structure's plugins, of which only what a change of       *)
(* structure needs is kept (LivePairs, RestartPairs); the structure stream,*)
(* of which only what readActiveStructure returns is kept (durable); what  *)
(* only diagnostics read (restartRequiredPlugins, quarantines, the wording *)
(* of an error); a rollback of a live update that fails itself; calls on   *)
(* one turn that overlap (see README). The capabilities a structure grants *)
(* are left open: whether a restored one has those the host is configured  *)
(* with (sameGrants) is a choice.                                          *)
(***************************************************************************)
EXTENDS Naturals, FiniteSets, TLC

CONSTANTS
    Gens,          \* identities of generations, recycled once disposed
    Turns,         \* threads that have a turn now and then
    Structures,    \* effective structures, that is their digests
    Posted,        \* bound: the structures posted to /structure/reconcile
    Edited,        \* bound: the structures the config source is edited to
    Default,       \* the structure of a host that has recorded none
    LivePairs,     \* {a, b}: a and b differ in tier-a config only
    RestartPairs,  \* {a, b}: a and b differ in a tier-c plugin
    MaxFaults,     \* bound: appends to the structure stream that fail
    None           \* no generation, or no structure

ASSUME KernelAssumption == /\ Default \in Structures
                           /\ Posted \subseteq Structures /\ Edited \subseteq Structures
                           /\ None \notin Structures \union Gens
                           /\ MaxFaults \in Nat
                           /\ LivePairs \intersect RestartPairs = {}
ASSUME TurnsAssumption == IsFiniteSet(Turns)

VARIABLES
    host,        \* where the process is between its start and its stop
    gen,         \* Gens -> StructureGeneration
    listed,      \* Kernel.#generations
    active,      \* Kernel.#active
    op,          \* the reconciliation under way
    durable,     \* what readActiveStructure would return
    turn,        \* Turns -> the turn and its lease
    source,      \* the config source: its value, and a change not yet notified
    controller,  \* StructureConfigController
    faults       \* failed appends so far

vars == <<host, gen, listed, active, op, durable, turn, source, controller, faults>>

-----------------------------------------------------------------------------
(* Generations *)

GenStates == {"unused", "preparing", "active", "draining", "failed", "disposed"}
Unused == [state |-> "unused", structure |-> None, refs |-> 0, disposing |-> FALSE]
Generation(s) == [state |-> "preparing", structure |-> s, refs |-> 0, disposing |-> FALSE]

\* dispose() starts #dispose at most once.
Disposing(r) == [r EXCEPT !.disposing = TRUE]

Drained_Eagerly(r) ==
    Disposing(IF r.state = "active" THEN [r EXCEPT !.state = "draining"] ELSE r)

\* drain(): a generation no turn pins is disposed at once.
Drained(r) ==
    LET d == IF r.state = "active" THEN [r EXCEPT !.state = "draining"] ELSE r
    IN  IF r.state # "disposed" /\ r.refs = 0 THEN Disposing(d) ELSE d

Released_Forgetful(r, k) == [r EXCEPT !.refs = @ - k]

\* release(), k times: the last turn off a draining generation has it disposed.
Released(r, k) ==
    LET n == [r EXCEPT !.refs = @ - k]
    IN  IF k > 0 /\ n.refs = 0 /\ r.state = "draining" THEN Disposing(n) ELSE n

\* createReconcilePlan
NeedsRestart(a, s) == {a, s} \in RestartPairs
IsLive(a, s) == {a, s} \in LivePairs

-----------------------------------------------------------------------------
(* Reconciliations and turns *)

Phases == {"resolve", "graph", "update", "prepare", "undo", "drain",
           "emit restart", "emit updated", "emit prepared", "emit activated",
           "emit draining", "emit failed"}
NoOp == [phase |-> "idle", origin |-> "none", target |-> None, gen |-> None, prev |-> None]
Reconcile(s, origin) == [NoOp EXCEPT !.phase = "resolve", !.origin = origin, !.target = s]
Ops == {NoOp} \union
       [phase : Phases, origin : {"boot", "config", "admin"}, target : Structures,
        gen : Gens \union {None}, prev : Gens \union {None}]

\* `kept`: the lease is in PinnedAgentLoop.#suspended.
Unleased(s) == [status |-> s, lease |-> None, kept |-> FALSE]
Keeping(s, g) == [status |-> s, lease |-> g, kept |-> TRUE]
NoTurn == Unleased("idle")

Idle == op = NoOp
Serving == host \in {"up", "stopping", "halting"}

TypeOK ==
    /\ host \in {"down", "restoring", "starting", "up", "stopping", "halting"}
    /\ gen \in [Gens -> [state : GenStates, structure : Structures \union {None},
                         refs : 0 .. Cardinality(Turns), disposing : BOOLEAN]]
    /\ listed \subseteq Gens
    /\ active \in Gens \union {None}
    /\ op \in Ops
    /\ durable \in Structures \union {None}
    /\ turn \in [Turns -> [status : {"idle", "running", "suspended", "interrupted"},
                           lease : Gens \union {None}, kept : BOOLEAN]]
    /\ source \in [value : Structures, pending : BOOLEAN]
    /\ controller \in [queued : BOOLEAN, phase : {"idle", "waiting", "busy"},
                       loaded : Structures \union {None}, threw : BOOLEAN]
    /\ controller.phase # "idle" => controller.loaded \in Structures
    /\ faults \in 0 .. MaxFaults

\* `loaded` is what the last refresh had from the source, `threw` that it had
\* nothing because load() threw.
Quiet == [queued |-> FALSE, phase |-> "idle", loaded |-> None, threw |-> FALSE]

\* A process has nothing left of the one before it but the stream. Turns keep
\* what their threads say: suspended, or cut off.
CutOff(t) == Unleased(IF turn[t].status = "running" THEN "interrupted" ELSE turn[t].status)
ProcessEnds ==
    /\ host' = "down"
    /\ gen' = [g \in Gens |-> Unused]
    /\ listed' = {} /\ active' = None /\ op' = NoOp
    /\ turn' = [t \in Turns |-> CutOff(t)]
    /\ controller' = Quiet
    /\ source' = [source EXCEPT !.pending = FALSE]
    /\ UNCHANGED <<durable, faults>>

Init ==
    /\ host = "down"
    /\ gen = [g \in Gens |-> Unused]
    /\ listed = {} /\ active = None /\ op = NoOp /\ durable = None
    /\ turn = [t \in Turns |-> NoTurn]
    /\ source = [value |-> Default, pending |-> FALSE]
    /\ controller = Quiet
    /\ faults = 0

-----------------------------------------------------------------------------
(* StructureReconciler.reconcile and Kernel.reconcile *)

hostVars == <<turn, source, faults>>
kernelVars == <<gen, listed, active>>

Goto(phase) == op' = [op EXCEPT !.phase = phase]

\* The reconciliation settles.
Settle(o) ==
    /\ op' = NoOp
    /\ controller' = IF o.origin = "config" THEN [controller EXCEPT !.phase = "idle"]
                     ELSE controller

Start(s, origin) ==
    /\ Idle
    /\ op' = Reconcile(s, origin)

\* POST /structure/reconcile
AdminReconcile(s) ==
    /\ host = "up"
    /\ Start(s, "admin")
    /\ UNCHANGED <<host, durable, controller, kernelVars, hostVars>>

\* appendResolvedStructure
Resolve ==
    /\ op.phase = "resolve"
    /\ Goto("graph")
    /\ UNCHANGED <<host, durable, controller, kernelVars, hostVars>>

\* createGraph fails on a model or a tool nobody provides.
GraphFails ==
    /\ op.phase = "graph"
    /\ Goto("emit failed")
    /\ UNCHANGED <<host, durable, controller, kernelVars, hostVars>>

\* createGraph, and Kernel.reconcile up to its first await.
Unchanged ==
    /\ op.phase = "graph" /\ active # None
    /\ gen[active].structure = op.target
    /\ Settle(op)
    /\ UNCHANGED <<host, durable, kernelVars, hostVars>>

Differs == /\ op.phase = "graph" /\ active # None
           /\ gen[active].structure # op.target

PlanRestart ==
    /\ Differs /\ NeedsRestart(gen[active].structure, op.target)
    /\ Goto("emit restart")
    /\ UNCHANGED <<host, durable, controller, kernelVars, hostVars>>

Updatable == /\ IsLive(gen[active].structure, op.target)
             /\ gen[active].refs = 0

PlanUpdate ==
    /\ Differs /\ Updatable
    /\ op' = [op EXCEPT !.phase = "update", !.gen = active]
    /\ UNCHANGED <<host, durable, controller, kernelVars, hostVars>>

PlanSwap ==
    /\ op.phase = "graph"
    /\ active # None => /\ Differs /\ ~Updatable
                        /\ ~NeedsRestart(gen[active].structure, op.target)
    /\ \E g \in Gens :
        /\ gen[g] = Unused
        /\ gen' = [gen EXCEPT ![g] = Generation(op.target)]
        /\ listed' = listed \union {g}
        /\ op' = [op EXCEPT !.phase = "prepare", !.gen = g]
    /\ UNCHANGED <<host, active, durable, controller, hostVars>>

\* updateInPlace after its awaits: every fiber has restarted and is healthy.
Update ==
    /\ op.phase = "update"
    /\ gen' = [gen EXCEPT ![op.gen].structure = op.target]
    /\ Goto("emit updated")
    /\ UNCHANGED <<host, listed, active, durable, controller, hostVars>>

\* ... or not, and it was rolled back. The catch does not delist it.
UpdateFails ==
    /\ op.phase = "update"
    /\ op' = [op EXCEPT !.phase = "emit failed", !.gen = None]
    /\ UNCHANGED <<host, durable, controller, kernelVars, hostVars>>

Prepare ==
    /\ op.phase = "prepare"
    /\ Goto("emit prepared")
    /\ UNCHANGED <<host, durable, controller, kernelVars, hostVars>>

PrepareFails ==
    /\ op.phase = "prepare"
    /\ gen' = [gen EXCEPT ![op.gen] = Disposing([@ EXCEPT !.state = "failed"])]
    /\ Goto("undo")
    /\ UNCHANGED <<host, listed, active, durable, controller, hostVars>>

Undone ==
    /\ op.phase = "undo" /\ gen[op.gen] = Unused
    /\ Goto("emit failed")
    /\ UNCHANGED <<host, durable, controller, kernelVars, hostVars>>

\* #dispose ends, in whoever's background it runs, and #onDisposed delists. An
\* identity nothing refers to any more is recycled.
DisposeEnds(g) ==
    /\ gen[g].disposing /\ gen[g].state # "disposed"
    /\ gen' = [gen EXCEPT ![g] = IF @.refs = 0 /\ g # active THEN Unused
                                  ELSE [@ EXCEPT !.state = "disposed"]]
    /\ listed' = listed \ {g}
    /\ UNCHANGED <<host, active, op, durable, turn, source, controller, faults>>

\* "Initial Bee Host generation unexpectedly requires restart": the host that
\* would start with such a structure throws.
EmitRestart ==
    /\ op.phase = "emit restart"
    /\ IF op.origin = "boot" THEN ProcessEnds
       ELSE /\ Settle(op)
            /\ UNCHANGED <<host, durable, kernelVars, hostVars>>

EmitUpdated_Unrecorded ==
    /\ op.phase = "emit updated"
    /\ Settle(op)
    /\ UNCHANGED <<host, durable, kernelVars, hostVars>>

EmitUpdated ==
    /\ op.phase = "emit updated"
    /\ durable' = op.target
    /\ Settle(op)
    /\ UNCHANGED <<host, kernelVars, hostVars>>

\* generation.prepared is recorded; the candidate takes over at once.
EmitPrepared ==
    /\ op.phase = "emit prepared"
    /\ gen' = [gen EXCEPT ![op.gen].state = "active"]
    /\ active' = op.gen
    /\ op' = [op EXCEPT !.phase = "emit activated", !.prev = active]
    /\ UNCHANGED <<host, listed, durable, controller, hostVars>>

EmitActivated ==
    /\ op.phase = "emit activated"
    /\ durable' = op.target
    /\ IF op.prev = None THEN Settle(op)
       ELSE Goto("emit draining") /\ UNCHANGED controller
    /\ UNCHANGED <<host, kernelVars, hostVars>>

EmitDraining ==
    /\ op.phase = "emit draining"
    /\ gen' = [gen EXCEPT ![op.prev] = Drained(@)]
    /\ IF gen[op.prev].refs = 0 THEN Goto("drain") /\ UNCHANGED controller ELSE Settle(op)
    /\ UNCHANGED <<host, listed, active, durable, hostVars>>

AwaitDrain ==
    /\ op.phase = "drain" /\ gen[op.prev] = Unused
    /\ Settle(op)
    /\ UNCHANGED <<host, durable, kernelVars, hostVars>>

\* The catch of Kernel.reconcile: record the failure, delist, throw. A host that
\* starts throws with it.
EmitFailed ==
    /\ op.phase = "emit failed"
    /\ IF op.origin = "boot" THEN ProcessEnds
       ELSE /\ listed' = listed \ {op.gen}
            /\ Settle(op)
            /\ UNCHANGED <<host, gen, active, durable, hostVars>>

\* An append fails: before the kernel is reached, in its early returns and in
\* its catch the error leaves at once, elsewhere it reaches the catch.
AppendFails ==
    /\ faults < MaxFaults
    /\ \/ /\ op.phase \in {"resolve", "emit restart", "emit updated", "emit failed"}
          /\ op.origin # "boot"
          /\ faults' = faults + 1
          /\ Settle(op)
       \/ /\ op.phase \in {"emit prepared", "emit activated", "emit draining"}
          /\ faults' = faults + 1
          /\ Goto("emit failed")
          /\ UNCHANGED controller
    /\ UNCHANGED <<host, durable, kernelVars, turn, source>>

-----------------------------------------------------------------------------
(* PinnedAgentLoop *)

\* Kernel.beginTurn: the generation a new lease is taken on.
Acquirable == active # None /\ gen[active].state \in {"active", "draining"}
Acquire == gen' = [gen EXCEPT ![active].refs = @ + 1]

Release(leases) ==
    gen' = [g \in Gens |-> Released(gen[g], Cardinality({t \in leases : turn[t].lease = g}))]

turnFrame == <<listed, active, op, durable, source, controller, faults>>

TakeLease(t) ==
    /\ Acquirable /\ Acquire
    /\ turn' = [turn EXCEPT ![t] = [status |-> "running", lease |-> active, kept |-> FALSE]]

\* runTurn. The scheduler may still begin one while the host stops.
BeginTurn(t) ==
    /\ Serving /\ turn[t].status = "idle"
    /\ TakeLease(t)
    /\ UNCHANGED <<host, turnFrame>>

\* resumeTurn of a suspended turn, recoverTurn of one that was cut off: on the
\* lease kept for it, or on a new one when this process keeps none.
Reenter(t) ==
    /\ Serving /\ turn[t].status \in {"suspended", "interrupted"}
    /\ \/ /\ turn[t].kept
          /\ turn' = [turn EXCEPT ![t] = Keeping("running", @.lease)]
          /\ UNCHANGED gen
       \/ ~turn[t].kept /\ TakeLease(t)
    /\ UNCHANGED <<host, turnFrame>>

\* #settleLease of a turn that waits for an approval.
SuspendTurn(t) ==
    /\ turn[t].status = "running"
    /\ turn' = [turn EXCEPT ![t] = Keeping("suspended", @.lease)]
    /\ UNCHANGED <<host, gen, turnFrame>>

\* #settleLease of a turn that ended.
FinishTurn(t) ==
    /\ turn[t].status = "running"
    /\ turn' = [turn EXCEPT ![t] = NoTurn]
    /\ Release({t})
    /\ UNCHANGED <<host, turnFrame>>

TurnThrows_Leaking(t) ==
    /\ turn[t].status = "running"
    /\ \E s \in {"suspended", "interrupted"} :
        turn' = [turn EXCEPT ![t] = IF @.kept THEN Keeping(s, @.lease) ELSE Unleased(s)]
    /\ UNCHANGED <<host, gen, turnFrame>>

\* The loop threw: a lease kept in the map stays there.
TurnThrows(t) ==
    /\ turn[t].status = "running"
    /\ \E s \in {"suspended", "interrupted"} :
        turn' = [turn EXCEPT ![t] = IF @.kept THEN Keeping(s, @.lease) ELSE Unleased(s)]
    /\ Release(IF turn[t].kept THEN {} ELSE {t})
    /\ UNCHANGED <<host, turnFrame>>

-----------------------------------------------------------------------------
(* StructureConfigController and its source *)

\* start() subscribes after the first structure is up; stop() unsubscribes.
Subscribed == host \in {"starting", "up"}

EditSource(s) ==
    /\ s # source.value
    /\ source' = [value |-> s, pending |-> Subscribed]
    /\ UNCHANGED <<host, durable, op, turn, controller, faults, kernelVars>>

\* requestRefresh
Notify ==
    /\ source.pending /\ Subscribed
    /\ source' = [source EXCEPT !.pending = FALSE]
    /\ controller' = [controller EXCEPT !.queued = TRUE]
    /\ UNCHANGED <<host, durable, op, turn, faults, kernelVars>>

\* #drain takes the queued refresh, and #refresh loads the source.
Load ==
    /\ Subscribed /\ controller.queued /\ controller.phase = "idle"
    /\ controller' = [Quiet EXCEPT !.phase = "waiting", !.loaded = source.value]
    /\ UNCHANGED <<host, durable, op, hostVars, kernelVars>>

\* ... or load() throws, on a file that is not there or does not parse: #drain
\* keeps the error, and nothing loads again before the next notification.
LoadFails ==
    /\ Subscribed /\ controller.queued /\ controller.phase = "idle"
    /\ controller' = [Quiet EXCEPT !.threw = TRUE]
    /\ UNCHANGED <<host, durable, op, hostVars, kernelVars>>

StartRefresh_ClearsQueue ==
    /\ controller.phase = "waiting"
    /\ Start(controller.loaded, "config")
    /\ controller' = [controller EXCEPT !.phase = "busy", !.queued = FALSE]
    /\ UNCHANGED <<host, durable, hostVars, kernelVars>>

StartRefresh ==
    /\ controller.phase = "waiting"
    /\ Start(controller.loaded, "config")
    /\ controller' = [controller EXCEPT !.phase = "busy"]
    /\ UNCHANGED <<host, durable, hostVars, kernelVars>>

-----------------------------------------------------------------------------
(* The host *)

\* The structure of the last generation.activated or updated on the stream, if any.
readActiveStructure == {durable} \ {None}

\* createBeeKernelRuntime restores it, or starts with the structure it is
\* configured with: when there is nothing to restore, or it is told to.
Boot ==
    /\ host = "down"
    /\ host' = "restoring"
    /\ \E s \in {Default} \union readActiveStructure : Start(s, "boot")
    /\ UNCHANGED <<durable, controller, hostVars, kernelVars>>

\* A restored structure whose grants are not those of the host's tools is
\* superseded at once.
Supersede ==
    /\ host = "restoring" /\ Idle
    /\ gen[active].structure # Default
    /\ Start(Default, "boot")
    /\ UNCHANGED <<host, durable, controller, hostVars, kernelVars>>

\* configController.start(): subscribe, and request the first refresh.
StartController ==
    /\ host = "restoring" /\ Idle
    /\ host' = "starting"
    /\ controller' = [controller EXCEPT !.queued = TRUE]
    /\ UNCHANGED <<durable, op, hostVars, kernelVars>>

\* The controller's first refresh is awaited before the routes are there.
Booted ==
    /\ host = "starting" /\ Idle
    /\ controller.phase = "idle" /\ ~controller.queued
    /\ host' = "up"
    /\ UNCHANGED <<durable, op, controller, hostVars, kernelVars>>

\* stop(): first the controller, then the loop, then the structures.
Stop ==
    /\ host = "up"
    /\ host' = "stopping"
    /\ controller' = [controller EXCEPT !.queued = FALSE]
    /\ UNCHANGED <<durable, op, hostVars, kernelVars>>

Kept == {t \in Turns : turn[t].kept}

StopLoop ==
    /\ host = "stopping" /\ controller.phase = "idle"
    /\ host' = "halting"
    /\ Release(Kept)
    /\ turn' = [t \in Turns |-> IF t \in Kept
                                THEN Unleased(turn[t].status) ELSE turn[t]]
    /\ UNCHANGED turnFrame

\* Kernel.stop drains, then disposes: a turn that still runs does not hold it up.
StopGeneration(g) ==
    /\ host = "halting" /\ Idle /\ g \in listed /\ ~gen[g].disposing
    /\ gen' = [gen EXCEPT ![g] = Disposing(Drained(@))]
    /\ UNCHANGED <<host, turn, turnFrame>>

Stopped ==
    /\ host = "halting" /\ Idle /\ listed = {}
    /\ ProcessEnds

Crash ==
    /\ host # "down"
    /\ ProcessEnds

-----------------------------------------------------------------------------

OpStep ==
    \/ Resolve \/ GraphFails \/ Unchanged \/ PlanRestart \/ PlanUpdate \/ PlanSwap
    \/ Update \/ UpdateFails \/ Prepare \/ PrepareFails \/ Undone
    \/ EmitRestart \/ EmitUpdated \/ EmitPrepared \/ EmitActivated \/ EmitDraining
    \/ AwaitDrain \/ EmitFailed

Next ==
    \/ OpStep
    \/ AppendFails
    \/ \E s \in Posted : AdminReconcile(s)
    \/ \E s \in Edited : EditSource(s)
    \/ \E g \in Gens : DisposeEnds(g) \/ StopGeneration(g)
    \/ \E t \in Turns : \/ BeginTurn(t) \/ Reenter(t) \/ SuspendTurn(t)
                          \/ FinishTurn(t) \/ TurnThrows(t)
    \/ Notify \/ Load \/ LoadFails \/ StartRefresh
    \/ Boot \/ Supersede \/ StartController \/ Booted \/ Stop \/ StopLoop \/ Stopped \/ Crash

Spec == Init /\ [][Next]_vars

-----------------------------------------------------------------------------
(* Properties *)

\* The count of a generation is the number of turns that hold a lease on it:
\* PinnedAgentLoop releases each lease exactly once, on whichever path its turn
\* leaves, and StructureGeneration.release never misses one.
RefsCountLeases ==
    \A g \in Gens : gen[g].refs = Cardinality({t \in Turns : turn[t].lease = g})

\* "Old generations remain alive while Turns still reference them": as long as
\* the host does not stop, whatever is reconciled, fails or drains meanwhile, the
\* generation of a turn, a suspended one too, is neither disposed nor on its way.
PinnedStaysAlive ==
    host # "halting" =>
        \A t \in Turns : turn[t].lease # None =>
            /\ gen[turn[t].lease].state \in {"active", "draining"}
            /\ ~gen[turn[t].lease].disposing

\* The invariant that holds of every step by itself, and implies PinnedStaysAlive
\* and RefsCountLeases. A turn that is not running has a lease only where
\* PinnedAgentLoop keeps one for it, so none is lost when another is taken; ...
LeasesAreKept ==
    \A t \in Turns : /\ turn[t].status # "running" /\ ~turn[t].kept => turn[t].lease = None
                     /\ turn[t].status = "idle" => ~turn[t].kept

\* ... a generation with references is up, and so is the one that serves; ...
ServingIsUp ==
    /\ \A g \in Gens :
           gen[g].refs > 0 => gen[g].state \in {"active", "draining"} /\ ~gen[g].disposing
    /\ active # None => gen[active].state = "active" /\ ~gen[active].disposing

\* ... a candidate is neither until it is activated, and what is drained is not
\* what replaced it.
OpIsOrdered ==
    /\ op.phase \in {"prepare", "emit prepared"} =>
          /\ op.gen \in Gens /\ op.gen # active
          /\ gen[op.gen].state = "preparing" /\ ~gen[op.gen].disposing
    /\ op.phase \in {"emit activated", "emit draining"} => op.prev # active

IInv == /\ TypeOK /\ RefsCountLeases /\ LeasesAreKept
        /\ host # "halting" => ServingIsUp /\ OpIsOrdered

\* A reconciliation that is under way when the host halts still ends: no other
\* begins, and only then are its generations stopped. Nothing is up while down.
Winding ==
    /\ ~Idle => ServingIsUp /\ OpIsOrdered
    /\ host \in {"halting", "down"} => controller.phase = "idle"
    /\ host = "down" => Idle /\ active = None /\ \A g \in Gens : gen[g] = Unused

\* Where a generation other than the serving one can be. The kernel lists it; it
\* is the candidate of the operation under way, or a failed one that operation
\* waits for, or it was just replaced and is about to drain, or it drains.
Accounted(g) ==
    gen[g] # Unused =>
        /\ g \in listed
        /\ \/ g = active
           \/ op.phase \in {"prepare", "emit prepared", "undo"} /\ g = op.gen
           \/ op.phase \in {"emit activated", "emit draining"} /\ g = op.prev
           \/ gen[g].state = "draining" /\ (gen[g].refs > 0 \/ gen[g].disposing)

\* What the operation refers to: no candidate before its plan, the serving
\* generation while that is updated, the replaced one, still up, until it drains.
OpRefersTo ==
    /\ op.phase \in {"resolve", "graph"} => op.gen = None
    /\ op.phase = "update" => op.gen = active /\ active # None
    /\ op.phase \in {"emit activated", "emit draining"} /\ op.prev # None =>
          gen[op.prev].state = "active" /\ ~gen[op.prev].disposing

AllAccounted ==
    faults = 0 /\ host \in {"restoring", "starting", "up", "stopping"} =>
        /\ \A g \in Gens : Accounted(g)
        /\ op.phase = "emit failed" /\ op.gen # None => gen[op.gen] = Unused

\* Which structure the stream names in the course of a reconciliation: the target
\* once the takeover is recorded, until then what was serving before.
DurableFollows ==
    /\ active # None => gen[active].state # "unused"
    /\ op.phase \in {"prepare", "emit prepared"} => gen[op.gen].structure = op.target
    /\ faults = 0 /\ active # None =>
          gen[active].structure = IF op.phase \in {"emit updated", "emit activated"}
                                  THEN op.target ELSE durable

SInv == Winding /\ OpRefersTo /\ AllAccounted /\ DurableFollows

\* While the controller listens, its last load is what the source says, or
\* threw, or a refresh is on its way.
LoadIsCurrent ==
    Subscribed /\ ~source.pending /\ ~controller.queued /\ ~controller.threw
        => controller.loaded = source.value

\* Between reconciliations one generation serves new turns, the kernel lists
\* every generation there is (stop reaches it), and each that was replaced is
\* either pinned by a turn or being disposed. A refused append breaks this: see
\* the hazards.
OneGenerationServes ==
    faults = 0 /\ Idle /\ host \in {"restoring", "starting", "up", "stopping"} =>
        \A g \in Gens : gen[g] # Unused =>
            /\ g \in listed
            /\ g # active => gen[g].state = "draining" /\ (gen[g].refs > 0 \/ gen[g].disposing)

\* Between reconciliations the structure a restart would restore is the one the
\* host is serving: a candidate that failed, or a change that waits for a
\* restart, is not what comes back (readActiveStructure).
DurableIsServed ==
    faults = 0 /\ Idle /\ active # None => durable = gen[active].structure

\* "Bursts are coalesced ... and later changes continue to be processed": when
\* the controller rests, the last value it took to the reconciler is the
\* source's current one, or its last load threw, which lastError tells and
\* nothing retries. A change during a refresh is not lost, nor one after a load
\* that threw.
ConfigConverges ==
    /\ host = "up" /\ ~source.pending
    /\ controller.phase = "idle" /\ ~controller.queued
    => controller.threw \/ controller.loaded = source.value

=============================================================================
