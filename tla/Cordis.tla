------------------------------- MODULE Cordis -------------------------------
(***************************************************************************)
(* The plugin runtime under a structure generation: fibers and services.   *)
(* A fiber is one application of a plugin. It loads while every service it *)
(* injects is provided by an active fiber, and unloads when one is not; a  *)
(* change of a fiber notifies the fibers that inject what it provides, and *)
(* a provider that unloads waits for them.                                 *)
(*                                                                         *)
(* One action is the code between two awaits. What runs synchronously runs *)
(* in one action: a change of state and the whole cascade of notifications *)
(* it sets off. A plugin's callback is external; it makes its acts one     *)
(* after the other, with awaits in between, and may throw.                 *)
(*                                                                         *)
(* Abstracted: contexts and their isolation (one scope), the values of     *)
(* services, hooks and events, the order in which disposers start (code:   *)
(* last registered first, all at once). A plugin that goes on registering  *)
(* effects after its callback returned is not modelled.                    *)
(***************************************************************************)
EXTENDS Naturals, Sequences, FiniteSets

CONSTANTS
    Fibers,      \* plugin applications
    Names,       \* services
    Scenes,      \* what the plugins are: parent, inject and acts of each fiber
    MaxChanges,  \* bound: disposals, releases, restarts, updates, new plugs and throws
    None         \* no fiber

ASSUME FibersAssumption == None \notin Fibers \union Names
ASSUME ChangesAssumption == MaxChanges \in Nat

\* Services, plugins and the asynchronous effect are different kinds of disposable.
ASSUME KindsAssumption ==
    Names \intersect Fibers = {} /\ "effect" \notin Fibers \union Names

\* A callback provides services, runs the effect and plugs its own children.
ASSUME ScenesAssumption ==
    \A s \in Scenes :
        /\ s.parent \in [Fibers -> Fibers \union {None}]
        /\ s.inject \in [Fibers -> SUBSET Names]
        /\ s.acts \in [Fibers -> Seq(Names \union Fibers \union {"effect"})]
        /\ \A f \in Fibers : \A i \in 1..Len(s.acts[f]) :
              s.acts[f][i] \in Fibers => s.parent[s.acts[f][i]] = f

VARIABLES
    scene,     \* the member of Scenes of this behaviour
    fiber,     \* Fibers -> the Fiber object of the last application
    services,  \* reflect.store: Names -> the fiber whose implementation is registered
    changes    \* changes and throws so far

vars == <<scene, fiber, services, changes>>

\* A fiber's parent (None: the root fiber), what it injects, and the acts of its
\* callback in order: a service to provide, an asynchronous effect, a child.
Parent(f) == scene.parent[f]
Inject(f) == scene.inject[f]
Acts(f) == scene.acts[f]

-----------------------------------------------------------------------------
(* Fiber objects *)

\* An epoch: INACTIVE, or the uids of the fibers that provide what is injected.
Inactive == [on |-> FALSE, from |-> {}]

Nothing == [n \in Names |-> None]

Fiber(n) ==
    [made |-> n,           \* the uid, for epochs: the n-th object for the plugin
     alive |-> TRUE,       \* uid is not null; the fiber is in runtime.fibers
     state |-> "PENDING",
     task |-> "none",      \* inertia: checkpoint and executing (_reload), unload
     epoch |-> Inactive,   \* _runner.epoch
     old |-> Inactive,     \* oldEpoch of the reload under way
     deps |-> Nothing,     \* _store
     store |-> Nothing,    \* store: the snapshot of deps the fiber was loaded with
     error |-> FALSE,
      raw |-> "good",       \* _config: validates or not
     step |-> 0,           \* acts made by the callback
     job |-> "none",       \* the asynchronous effect
     held |-> {},          \* _disposables
     cleaning |-> {},      \* the disposables an unload took and has not finished
     awaits |-> {}]        \* the fibers a withdrawn service still waits for

Absent == [Fiber(0) EXCEPT !.alive = FALSE, !.state = "DISPOSED"]

Init ==
    /\ scene \in Scenes
    /\ fiber = [f \in Fibers |-> Absent]
    /\ services = Nothing
    /\ changes = 0

-----------------------------------------------------------------------------
(* What runs synchronously, on fiber objects o and on S = [fiber, services] *)

Now == [fiber |-> fiber, services |-> services]

Becomes(S) == \E T \in {S} : fiber' = T.fiber /\ services' = T.services

\* The state of a fiber at rest.
StateOf(o) ==
    IF ~ o.alive THEN "DISPOSED"
    ELSE IF o.error THEN "FAILED"
    ELSE IF o.epoch.on THEN "ACTIVE" ELSE "PENDING"

\* _refresh: the epoch the dependencies call for.
Wanted(S, d, o) ==
    IF \E n \in Inject(d) : o.deps[n] = None THEN Inactive
    ELSE [on |-> TRUE, from |-> {<<n, o.deps[n], S.fiber[o.deps[n]].made>> : n \in Inject(d)}]

Unloading(o) ==
    [o EXCEPT !.state = "UNLOADING", !.task = "unload", !.cleaning = o.held, !.held = {}]

Loading(o) ==
    [o EXCEPT !.state = "LOADING", !.task = "checkpoint", !.store = o.deps, !.old = o.epoch]

\* A transition under way only learns of the new epoch, and looks when it ends.
SetEpoch(o, epoch) ==
    LET p == [o EXCEPT !.epoch = epoch] IN
    IF epoch = o.epoch \/ o.task # "none" THEN p
    ELSE IF epoch.on /\ ~ o.epoch.on THEN Loading(p) ELSE Unloading(p)

\* The registered fibers that inject n.
Dependents(S, n) == {d \in Fibers : S.fiber[d].alive /\ n \in Inject(d)}

\* Mutant: an unloading fiber is passed over.
Refreshed_NotUnloading(S, d, names, up) ==
    LET Impl(n) == IF S.services[n] \in up THEN S.services[n] ELSE None
        o == [S.fiber[d] EXCEPT !.deps =
                 [n \in Names |-> IF n \in Inject(d) \intersect names THEN Impl(n) ELSE @[n]]]
    IN IF o.task # "unload" /\ o.alive /\ Inject(d) \intersect names # {}
       THEN SetEpoch(o, Wanted(S, d, o)) ELSE o

\* A registered fiber looks at names again; up are the fibers that stay active.
Refreshed(S, d, names, up) ==
    LET Impl(n) == IF S.services[n] \in up THEN S.services[n] ELSE None
        o == [S.fiber[d] EXCEPT !.deps =
                 [n \in Names |-> IF n \in Inject(d) \intersect names THEN Impl(n) ELSE @[n]]]
    IN IF o.alive /\ Inject(d) \intersect names # {} THEN SetEpoch(o, Wanted(S, d, o)) ELSE o

\* Mutant: a dependent that unloads does not notify its own dependents.
Notify_OneLevel(S, N) ==
    LET active == {f \in Fibers : S.fiber[f].state = "ACTIVE"}
    IN [S EXCEPT !.fiber = [d \in Fibers |-> Refreshed(S, d, N, active)]]

\* reflect.notify(): the dependents of N refresh. An active one whose service is
\* gone unloads and notifies in its turn: what stays up is the largest set of
\* active fibers that serve each other.
Notify(S, N) ==
    LET active == {f \in Fibers : S.fiber[f].state = "ACTIVE"}
        up == UNION {A \in SUBSET active :
                       \A d \in A : \A n \in Inject(d) :
                           n \in N \/ S.services[n] \in active => S.services[n] \in A}
        names == N \union {n \in Names : S.services[n] \in active \ up}
    IN [S EXCEPT !.fiber = [d \in Fibers |-> Refreshed(S, d, names, up)]]

\* _updateState: f becomes o, and its services are notified when that changes
\* whether it is active.
UpdateState(S, f, o) ==
    LET T == [S EXCEPT !.fiber[f] = o]
        crossed == (S.fiber[f].state = "ACTIVE") # (o.state = "ACTIVE")
        names == {n \in Names : S.services[n] = f}
    IN IF crossed /\ names # {} THEN Notify(T, names) ELSE T

Turn(S, f, epoch) == UpdateState(S, f, SetEpoch(S.fiber[f], epoch))

Refresh(S, f) == Turn(S, f, Wanted(S, f, S.fiber[f]))

\* _reload after its callback: what came in between unloads the fiber again.
FinishReload(S, f, o) ==
    UpdateState(S, f, IF o.epoch = o.old THEN [o EXCEPT !.task = "none", !.state = StateOf(o)]
                                         ELSE Unloading(o))

\* _reload's catch.
Failed(S, f) ==
    FinishReload(S, f, [S.fiber[f] EXCEPT !.error = TRUE, !.epoch = Inactive])

\* The disposer of a fiber, up to its first await.
Disposed(S, f) ==
    LET o == SetEpoch([S.fiber[f] EXCEPT !.alive = FALSE], Inactive)
    IN UpdateState(S, f, IF o.task = "none" THEN Unloading(o) ELSE o)

\* new Fiber(): registered, then its dependencies are looked up.
Constructed(S, f) ==
    LET T == [S EXCEPT !.fiber[f] = Fiber(S.fiber[f].made + 1)]
        up == {p \in Fibers : T.fiber[p].state = "ACTIVE"}
        o == Refreshed(T, f, Names, up)
    IN [T EXCEPT !.fiber[f] = IF Inject(f) = {} THEN SetEpoch(o, Wanted(T, f, o)) ELSE o]

Restarted(S, f) == Refresh(Turn(S, f, Inactive), f)

Gone(f) == fiber[f].state = "DISPOSED"

-----------------------------------------------------------------------------
(* _reload *)

\* After `await Promise.resolve()`: a stale epoch does not run the plugin, and a
\* config that does not validate fails it.
Checkpoint(f) ==
    LET o == fiber[f] IN
    /\ o.task = "checkpoint"
    /\ Becomes(IF o.epoch # o.old THEN FinishReload(Now, f, o)
               ELSE IF o.raw = "bad" THEN Failed(Now, f)
               ELSE [Now EXCEPT !.fiber[f].task = "executing", !.fiber[f].step = 0])
    /\ UNCHANGED <<scene, changes>>

\* The next act of the callback.
Calls(f, act) ==
    /\ fiber[f].task = "executing"
    /\ fiber[f].step < Len(Acts(f))
    /\ act = Acts(f)[fiber[f].step + 1]

\* f registers x: its disposable is held.
Holding(S, f, x) ==
    [S EXCEPT !.fiber[f].held = @ \union {x}, !.fiber[f].step = @ + 1]

\* ctx.provide(): throws on a disposed fiber and on a name that is taken; the
\* dependents hear of it when the fiber becomes active.
Provide(f, n) ==
    /\ Calls(f, n)
    /\ Becomes(IF ~ fiber[f].alive \/ services[n] # None THEN Failed(Now, f)
               ELSE Holding([Now EXCEPT !.services[n] = f], f, n))
    /\ UNCHANGED <<scene, changes>>

\* ctx.effect() with an asynchronous set-up.
Effect(f) ==
    /\ Calls(f, "effect")
    /\ Becomes(IF ~ fiber[f].alive THEN Failed(Now, f)
               ELSE Holding([Now EXCEPT !.fiber[f].job = "setup"], f, "effect"))
    /\ UNCHANGED <<scene, changes>>

\* ctx.plugin() in the callback: the child's disposer is the parent's effect.
PlugChild(f, c) ==
    /\ Calls(f, c)
    /\ IF fiber[f].alive THEN Gone(c) /\ Becomes(Constructed(Holding(Now, f, c), c))
                         ELSE Becomes(Failed(Now, f))
    /\ UNCHANGED <<scene, changes>>

ExecuteEnds(f) ==
    /\ fiber[f].task = "executing"
    /\ fiber[f].step = Len(Acts(f))
    /\ Becomes(FinishReload(Now, f, [fiber[f] EXCEPT !.error = FALSE]))
    /\ UNCHANGED <<scene, changes>>

ExecuteThrows(f) ==
    /\ fiber[f].task = "executing"
    /\ changes < MaxChanges
    /\ changes' = changes + 1
    /\ Becomes(Failed(Now, f))
    /\ UNCHANGED scene


-----------------------------------------------------------------------------
(* Asynchronous effects. The disposer waits for the set-up, then cleans up;
   whoever else releases the effect joins the cleanup under way.           *)

SetupEnds(f) ==
    /\ fiber[f].job \in {"setup", "abandoned"}
    /\ fiber' = [fiber EXCEPT ![f].job = IF @ = "setup" THEN "ready" ELSE "cleaning"]
    /\ UNCHANGED <<scene, services, changes>>

\* What the set-up had collected is rolled back.
SetupThrows(f) ==
    /\ fiber[f].job \in {"setup", "abandoned"}
    /\ changes < MaxChanges
    /\ changes' = changes + 1
    /\ fiber' = [fiber EXCEPT ![f].job = "cleaning"]
    /\ UNCHANGED <<scene, services>>

Released(job) == CASE job = "setup" -> "abandoned"
                   [] job = "ready" -> "cleaning"
                   [] OTHER -> job

\* The plugin calls the disposer of its effect itself.
Release(f) ==
    /\ fiber[f].job \in {"setup", "ready"} /\ changes < MaxChanges
    /\ changes' = changes + 1
    /\ fiber' = [fiber EXCEPT ![f].job = Released(@)]
    /\ UNCHANGED <<scene, services>>

\* f's disposable x is finished with.
Removed(f, x) ==
    fiber' = [fiber EXCEPT ![f].held = @ \ {x}, ![f].cleaning = @ \ {x},
                           ![f].job = IF x = "effect" THEN "none" ELSE @]

Cleaned(f) ==
    /\ fiber[f].job = "cleaning"
    /\ Removed(f, "effect")
    /\ UNCHANGED <<scene, services, changes>>

-----------------------------------------------------------------------------
(* _unload: every disposable it took runs, side by side                    *)

\* Mutant: the effect's disposer answers a second caller at once.
ReleaseEffect_NotJoined(f) ==
    /\ "effect" \in fiber[f].cleaning
    /\ fiber' = [fiber EXCEPT ![f].job = Released(@),
                              ![f].cleaning = IF fiber[f].job = "cleaning" THEN @ \ {"effect"} ELSE @]
    /\ UNCHANGED <<scene, services, changes>>

ReleaseEffect(f) ==
    /\ "effect" \in fiber[f].cleaning /\ fiber[f].job \in {"setup", "ready"}
    /\ fiber' = [fiber EXCEPT ![f].job = Released(@)]
    /\ UNCHANGED <<scene, services, changes>>

\* Mutant: nobody is waited for.
Withdraw_Hasty(f, n) ==
    /\ n \in fiber[f].cleaning /\ services[n] = f
    /\ Becomes(Notify([Now EXCEPT !.services[n] = None], {n}))
    /\ UNCHANGED <<scene, changes>>

\* The disposer of provide(): out of the store, and the dependents are to settle.
Withdraw(f, n) ==
    /\ n \in fiber[f].cleaning /\ services[n] = f
    /\ LET waits == {<<n, d, fiber[d].made>> : d \in Dependents(Now, n)} IN
       Becomes(Notify([Now EXCEPT !.services[n] = None,
                                  !.fiber[f].awaits = @ \union waits], {n}))
    /\ UNCHANGED <<scene, changes>>

\* Mutant: waits until the dependent is active again.
Awaited_UntilActive(f) ==
    \E w \in fiber[f].awaits :
        /\ fiber[w[2]].state = "ACTIVE" \/ fiber[w[2]].made # w[3]
        /\ fiber' = [fiber EXCEPT ![f].awaits = @ \ {w}]
        /\ UNCHANGED <<scene, services, changes>>

\* fiber.await(): the dependent was seen at rest (a replaced one is).
Awaited(f) ==
    \E w \in fiber[f].awaits :
        /\ fiber[w[2]].task = "none" \/ fiber[w[2]].made # w[3]
        /\ fiber' = [fiber EXCEPT ![f].awaits = @ \ {w}]
        /\ UNCHANGED <<scene, services, changes>>

WithdrawEnds(f, n) ==
    /\ n \in fiber[f].cleaning /\ services[n] # f
    /\ \A w \in fiber[f].awaits : w[1] # n
    /\ Removed(f, n)
    /\ UNCHANGED <<scene, services, changes>>

DisposeChild(f, c) ==
    /\ c \in fiber[f].cleaning /\ fiber[c].alive
    /\ Becomes(Disposed(Now, c))
    /\ UNCHANGED <<scene, changes>>

\* A child's disposer has finished: its parent forgets it.
ChildGone(f, c) ==
    /\ c \in fiber[f].held \union fiber[f].cleaning /\ Gone(c)
    /\ Removed(f, c)
    /\ UNCHANGED <<scene, services, changes>>

UnloadEnds(f) ==
    /\ fiber[f].task = "unload" /\ fiber[f].cleaning = {}
    /\ LET o == [fiber[f] EXCEPT !.store = Nothing, !.task = "none"]
       IN Becomes(UpdateState(Now, f, IF o.epoch.on THEN Loading(o)
                                                    ELSE [o EXCEPT !.state = StateOf(o)]))
    /\ UNCHANGED <<scene, changes>>

-----------------------------------------------------------------------------
(* From outside                                                            *)

\* ctx.plugin() on the root: the first time is free.
Plug(f) ==
    /\ Parent(f) = None /\ Gone(f)
    /\ changes' = IF fiber[f].made = 0 THEN changes ELSE changes + 1
    /\ changes' <= MaxChanges
    /\ Becomes(Constructed(Now, f))
    /\ UNCHANGED scene

Change(f) == fiber[f].alive /\ changes < MaxChanges /\ changes' = changes + 1

Dispose(f) ==
    /\ Change(f)
    /\ Becomes(Disposed(Now, f))
    /\ UNCHANGED scene

Restart(f) ==
    /\ Change(f)
    /\ Becomes(Restarted(Now, f))
    /\ UNCHANGED scene

\* update(): an active fiber validates at once and restarts; any other has its
\* epoch taken away and given back, and reads _config when it loads.
Update(f, config) ==
    /\ Change(f)
    /\ LET S == [Now EXCEPT !.fiber[f].raw = config]
           T == [S EXCEPT !.fiber[f].error = FALSE]
       IN Becomes(IF fiber[f].state = "ACTIVE" /\ config = "bad" THEN S ELSE Restarted(T, f))
    /\ UNCHANGED scene

-----------------------------------------------------------------------------

\* The steps of the runtime and of the plugins themselves.
Progress ==
    \E f \in Fibers :
        \/ Checkpoint(f)
        \/ \E n \in Names : Provide(f, n)
        \/ Effect(f)
        \/ \E c \in Fibers : PlugChild(f, c)
        \/ ExecuteEnds(f)
        \/ SetupEnds(f)
        \/ Cleaned(f)
        \/ ReleaseEffect(f)
        \/ \E n \in Names : Withdraw(f, n)
        \/ Awaited(f)
        \/ \E n \in Names : WithdrawEnds(f, n)
        \/ \E c \in Fibers : DisposeChild(f, c)
        \/ \E c \in Fibers : ChildGone(f, c)
        \/ UnloadEnds(f)

Outside ==
    \E f \in Fibers :
        \/ ExecuteThrows(f)
        \/ SetupThrows(f)
        \/ Release(f)
        \/ Plug(f)
        \/ Dispose(f)
        \/ Restart(f)
        \/ \E config \in {"good", "bad"} : Update(f, config)

Next == Progress \/ Outside

Spec == Init /\ [][Next]_vars /\ WF_vars(Progress)

-----------------------------------------------------------------------------
(* Properties                                                              *)

TypeOK ==
    /\ scene \in Scenes
    /\ \A f \in Fibers :
        LET o == fiber[f] IN
        /\ o.state \in {"PENDING", "LOADING", "ACTIVE", "FAILED", "DISPOSED", "UNLOADING"}
        /\ o.task \in {"none", "checkpoint", "executing", "unload"}
        /\ o.job \in {"none", "setup", "ready", "abandoned", "cleaning"}
        /\ o.deps \in [Names -> Fibers \union {None}]
        /\ o.store \in [Names -> Fibers \union {None}]
        /\ o.held \subseteq Names \union Fibers \union {"effect"}
        /\ o.cleaning \subseteq Names \union Fibers \union {"effect"}
    /\ services \in [Names -> Fibers \union {None}]

\* A plugin that is ACTIVE finds behind every service it injects the
\* implementation it was loaded with, registered by the same fiber object,
\* itself active: fiber.store is a copy, and the provider may fail, restart,
\* be replaced or be disposed at any await (fiber.ts _reload, reflect.ts notify).
ServedWhileActive ==
    \A f \in Fibers : fiber[f].state = "ACTIVE" =>
        \A n \in Inject(f) :
            LET p == fiber[f].store[n] IN
            /\ p # None /\ services[n] = p /\ fiber[p].state = "ACTIVE"
            /\ <<n, p, fiber[p].made>> \in fiber[f].epoch.from

\* A provider is done withdrawing a service only when no registered fiber is
\* loaded with that implementation any more: dependents clean up while they can
\* still call it (reflect.ts, the disposer of provide()).
ProvidersOutliveUsers ==
    [][\A f \in Fibers, n \in Names :
        n \in fiber[f].cleaning /\ n \notin fiber'[f].cleaning =>
            \A d \in Fibers : n \in Inject(d) /\ fiber[d].alive => fiber[d].store[n] # f]_vars

\* A fiber at rest that is not active has nothing left of what its callback did:
\* no service in the store, no effect still set up or being set up, no child.
\* The callback may be anywhere when the fiber is unloaded, and the plugin or
\* a parent may be cleaning up the same thing already (fiber.ts effect, _unload).
NothingLeftBehind ==
    \A f \in Fibers : fiber[f].task = "none" /\ fiber[f].state # "ACTIVE" =>
        /\ fiber[f].held = {} /\ fiber[f].job = "none"
        /\ \A n \in Names : services[n] # f
        /\ \A c \in Fibers : Parent(c) = f => Gone(c)

\* When everything is at rest, exactly the fibers whose services are all provided
\* have left PENDING: no notification was lost however transitions overlapped
\* (fiber.ts _setEpoch does not start a transition while one is under way).
RestIsConverged ==
    (\A f \in Fibers : fiber[f].task = "none") =>
        \A f \in Fibers : fiber[f].alive =>
            LET served == \A n \in Inject(f) :
                            services[n] # None /\ fiber[services[n]].state = "ACTIVE" IN
            /\ fiber[f].state = "ACTIVE" => served
            /\ fiber[f].state = "PENDING" => ~ served

\* Loading and unloading come to an end: fibers wait for the set-ups, children
\* and dependents of one another and none waits for ever.
FibersSettle == <>[](\A f \in Fibers : fiber[f].task = "none")

=============================================================================
