---------------------------- MODULE RuntimeProofs ----------------------------
(***************************************************************************)
(* What TLAPS proves of the two that drive asynchronous work: Cordis, for  *)
(* any set of plugins and services and any arrangement of them; and        *)
(* Generation, for any turns, threads written before, windows and budgets. *)
(***************************************************************************)
EXTENDS Cordis, Generation, FiniteSetTheorems, TLAPS

K == INSTANCE Folding WITH Op <- LAMBDA S, kept, e : Kept(S, kept, e)

-----------------------------------------------------------------------------
Loads == {"checkpoint", "executing"}

Things == Names \union Fibers \union {"effect"}

Epochs == [on : BOOLEAN, from : SUBSET (Names \X Fibers \X Nat)]

\* The Fiber objects.
Objects ==
    [made : Nat, alive : BOOLEAN,
     state : {"PENDING", "LOADING", "ACTIVE", "FAILED", "DISPOSED", "UNLOADING"},
     task : {"none", "checkpoint", "executing", "unload"},
     epoch : Epochs, old : Epochs,
     deps : [Names -> Fibers \union {None}], store : [Names -> Fibers \union {None}],
     error : BOOLEAN, raw : {"good", "bad"}, step : Nat,
     job : {"none", "setup", "ready", "abandoned", "cleaning"},
     held : SUBSET Things, cleaning : SUBSET Things,
     awaits : SUBSET (Names \X Fibers \X Nat)]

Worlds == [fiber : [Fibers -> Objects], services : [Names -> Fibers \union {None}]]

ActiveFibers(S) == {f \in Fibers : S.fiber[f].state = "ACTIVE"}

-----------------------------------------------------------------------------
(* The invariant, on S = [fiber, services]                                 *)

\* The state an object shows is the one its task and its epoch call for.
States(o) ==
    /\ o.state = "LOADING" <=> o.task \in Loads
    /\ o.state = "UNLOADING" <=> o.task = "unload"
    /\ o.state = "DISPOSED" <=> o.task = "none" /\ ~ o.alive
    /\ o.state = "ACTIVE" <=> o.task = "none" /\ o.epoch.on
    /\ o.state = "ACTIVE" \/ o.state = "PENDING" => ~ o.error
    /\ o.epoch.on => o.alive
    /\ ~ o.epoch.on => o.epoch = Inactive

\* What an object holds, by what it is doing.
Holdings(o) ==
    /\ o.task # "unload" => o.cleaning = {}
    /\ o.task = "unload" => o.held = {}
    /\ o.task = "none" /\ o.state # "ACTIVE" => o.held = {} /\ o.store = Nothing
    /\ o.job # "none" => "effect" \in o.held \union o.cleaning

\* The snapshot an object loads or has loaded with.
Snapshot(d, o) ==
    /\ o.task \in Loads =>
          /\ o.old.on
          /\ \A n \in Inject(d) : \E m \in Nat : <<n, o.store[n], m>> \in o.old.from
    /\ o.state = "ACTIVE" => \A n \in Inject(d) : o.store[n] = o.deps[n]

Local(d, o) == States(o) /\ Holdings(o) /\ Snapshot(d, o)

\* A service is held or being cleaned up by the fiber it is registered for.
Registered(S) ==
    \A f \in Fibers, n \in Names :
        /\ S.services[n] = f => n \in S.fiber[f].held \union S.fiber[f].cleaning
        /\ n \in S.fiber[f].held => S.services[n] = f

\* A child that is not gone is held or being cleaned up by its parent.
Children(S) ==
    \A c \in Fibers :
        Parent(c) \in Fibers /\ S.fiber[c].state # "DISPOSED" =>
            c \in S.fiber[Parent(c)].held \union S.fiber[Parent(c)].cleaning

\* A withdrawn service waits for every fiber that is loaded with it.
WaitedFor(S) ==
    \A f \in Fibers, d \in Fibers, n \in Names :
        /\ n \in S.fiber[f].cleaning /\ S.services[n] # f
        /\ S.fiber[d].alive /\ n \in Inject(d) /\ S.fiber[d].store[n] = f
        => <<n, d, S.fiber[d].made>> \in S.fiber[f].awaits

Base(S) ==
    /\ S \in Worlds
    /\ \A d \in Fibers : Local(d, S.fiber[d])
    /\ Registered(S) /\ Children(S) /\ WaitedFor(S)

\* The names outside N are known to every registered fiber as they are.
CurrentBut(S, N) ==
    \A d \in Fibers, n \in Names :
        S.fiber[d].alive /\ n \in Inject(d) /\ n \notin N =>
            S.fiber[d].deps[n] = IF S.services[n] \in ActiveFibers(S) THEN S.services[n] ELSE None

\* An epoch is the one the dependencies call for: always when it is on, and
\* whenever o may be waiting for them.
EpochFits(S, d, o) == o.epoch.on => o.epoch = Wanted(S, d, o)

EpochWanted(S, d, o) ==
    o.alive /\ (~ o.error \/ o.task \in Loads) => o.epoch = Wanted(S, d, o)

\* X: fibers whose epoch is about to be looked up.
Linked(S, X) ==
    \A d \in Fibers :
        /\ EpochFits(S, d, S.fiber[d])
        /\ d \notin X => EpochWanted(S, d, S.fiber[d])

Inv(S, X) == Base(S) /\ Linked(S, X) /\ CurrentBut(S, {})

IInv == scene \in Scenes /\ Inv(Now, {})

-----------------------------------------------------------------------------
(* Objects                                                                 *)

\* q is a later form of the object o: it may take up what it depends on, or let
\* go of it, and what it held is held or being cleaned up.
Follows(o, q) ==
    /\ q.made = o.made
    /\ q.alive => o.alive
    /\ q.held \subseteq o.held
    /\ o.cleaning \subseteq q.cleaning
    /\ q.held \union q.cleaning = o.held \union o.cleaning
    /\ o.awaits \subseteq q.awaits
    /\ \A n \in Names : q.store[n] \in {o.store[n], q.deps[n], None}
    /\ q.state # "DISPOSED" => o.state # "DISPOSED"

\* Every arrangement says what a plugin injects and whose child it is.
LEMMA SceneTypes ==
    ASSUME scene \in Scenes
    PROVE  \A f \in Fibers : Inject(f) \subseteq Names /\ Parent(f) \in Fibers \union {None}
BY ScenesAssumption DEF Inject, Parent

\* The initial value of a snapshot maps every service to no fiber.
LEMMA NothingType == Nothing \in [Names -> Fibers \union {None}]
BY DEF Nothing

\* The INACTIVE epoch is an epoch, and is off.
LEMMA InactiveType == Inactive \in Epochs /\ ~ Inactive.on
BY DEF Inactive, Epochs

\* _setRunner to UNLOADING: what is held is what is cleaned up.
LEMMA UnloadingFields ==
    ASSUME NEW o \in Objects
    PROVE  /\ Unloading(o) \in Objects
           /\ Unloading(o).made = o.made /\ Unloading(o).alive = o.alive
           /\ Unloading(o).state = "UNLOADING" /\ Unloading(o).task = "unload"
           /\ Unloading(o).epoch = o.epoch /\ Unloading(o).old = o.old
           /\ Unloading(o).deps = o.deps /\ Unloading(o).store = o.store
           /\ Unloading(o).error = o.error /\ Unloading(o).job = o.job
           /\ Unloading(o).held = {} /\ Unloading(o).cleaning = o.held
           /\ Unloading(o).awaits = o.awaits
BY DEF Unloading, Objects

\* _setRunner to LOADING: the dependencies and the epoch are copied.
LEMMA LoadingFields ==
    ASSUME NEW o \in Objects
    PROVE  /\ Loading(o) \in Objects
           /\ Loading(o).made = o.made /\ Loading(o).alive = o.alive
           /\ Loading(o).state = "LOADING" /\ Loading(o).task = "checkpoint"
           /\ Loading(o).epoch = o.epoch /\ Loading(o).old = o.epoch
           /\ Loading(o).deps = o.deps /\ Loading(o).store = o.deps
           /\ Loading(o).error = o.error /\ Loading(o).job = o.job
           /\ Loading(o).held = o.held /\ Loading(o).cleaning = o.cleaning
           /\ Loading(o).awaits = o.awaits
BY DEF Loading, Objects

\* What SetEpoch is asked: an epoch that names what the dependencies D are.
Offers(d, o, D, e) ==
    /\ e \in Epochs
    /\ e.on => o.alive
    /\ ~ e.on => e = Inactive
    /\ o.state = "ACTIVE" /\ e = o.epoch => \A n \in Inject(d) : D[n] = o.deps[n]
    /\ e.on => \A n \in Inject(d) : \E m \in Nat : <<n, D[n], m>> \in e.from

\* _setEpoch keeps the object well formed, whatever it is doing, and leaves it
\* ACTIVE only when the epoch is the one it had.
LEMMA SetEpochKeeps ==
    ASSUME scene \in Scenes, NEW d \in Fibers, NEW o \in Objects, Local(d, o),
           NEW D \in [Names -> Fibers \union {None}], NEW e, Offers(d, o, D, e),
           NEW q, q = SetEpoch([o EXCEPT !.deps = D], e)
    PROVE  /\ q \in Objects /\ Local(d, q) /\ Follows(o, q)
           /\ q.epoch = e /\ q.deps = D /\ q.alive = o.alive /\ q.error = o.error
           /\ q.state = "ACTIVE" <=> o.state = "ACTIVE" /\ e = o.epoch
           /\ q.task = "none" => o.task = "none"
<1> DEFINE p == [o EXCEPT !.deps = D, !.epoch = e]
<1>1. /\ p \in Objects
      /\ p.made = o.made /\ p.alive = o.alive /\ p.state = o.state /\ p.task = o.task
      /\ p.epoch = e /\ p.old = o.old /\ p.deps = D /\ p.store = o.store /\ p.error = o.error
      /\ p.job = o.job /\ p.held = o.held /\ p.cleaning = o.cleaning /\ p.awaits = o.awaits
  BY DEF Objects, Offers
<1>2. q = IF e = o.epoch \/ o.task # "none" THEN p
          ELSE IF e.on /\ ~ o.epoch.on THEN Loading(p) ELSE Unloading(p)
  BY DEF SetEpoch, Objects
<1> HIDE DEF p
<1>3. CASE e = o.epoch \/ o.task # "none"
  <2>1. q = p
    BY <1>2, <1>3
  <2>2. States(q)
    BY <2>1, <1>1, <1>3 DEF States, Local, Offers, Loads
  <2>3. Holdings(q)
    BY <2>1, <1>1, <1>3 DEF Holdings, Local
  <2>4. Snapshot(d, q)
    <3>1. /\ q.task = o.task /\ q.old = o.old /\ q.store = o.store /\ q.deps = D
          /\ q.state = o.state
      BY <2>1, <1>1
    <3>2. o.state = "ACTIVE" => e = o.epoch
      BY <1>3 DEF Local, States
    <3>3. o.state = "ACTIVE" => \A n \in Inject(d) : D[n] = o.deps[n]
      BY <3>2 DEF Offers
    <3> QED BY <3>1, <3>3, SceneTypes, ZenonT(30) DEF Snapshot, Local
  <2>5. Follows(o, q)
    BY <2>1, <1>1 DEF Follows
  <2> QED BY <2>1, <2>2, <2>3, <2>4, <2>5, <1>1, <1>3 DEF Local, States
<1>4. CASE ~ (e = o.epoch \/ o.task # "none") /\ e.on /\ ~ o.epoch.on
  <2>1. q = Loading(p)
    BY <1>2, <1>4
  <2>2. /\ q \in Objects
        /\ q.made = o.made /\ q.alive = o.alive /\ q.state = "LOADING" /\ q.task = "checkpoint"
        /\ q.epoch = e /\ q.old = e /\ q.deps = D /\ q.store = D /\ q.error = o.error
        /\ q.job = o.job /\ q.held = o.held /\ q.cleaning = o.cleaning /\ q.awaits = o.awaits
    BY <2>1, <1>1, LoadingFields
  <2>3. States(q)
    BY <2>2, <1>4 DEF States, Local, Offers, Loads
  <2>4. Holdings(q)
    BY <2>2, <1>4 DEF Holdings, Local
  <2>5. Snapshot(d, q)
    BY <2>2, <1>4 DEF Snapshot, Offers
  <2>6. Follows(o, q)
    BY <2>2, <1>4 DEF Follows, Local, States, Offers
  <2> QED BY <2>2, <2>3, <2>4, <2>5, <2>6, <1>4 DEF Local, States
<1>5. CASE ~ (e = o.epoch \/ o.task # "none") /\ ~ (e.on /\ ~ o.epoch.on)
  <2>1. q = Unloading(p)
    BY <1>2, <1>5
  <2>2. /\ q \in Objects
        /\ q.made = o.made /\ q.alive = o.alive /\ q.state = "UNLOADING" /\ q.task = "unload"
        /\ q.epoch = e /\ q.deps = D /\ q.store = o.store /\ q.error = o.error
        /\ q.job = o.job /\ q.held = {} /\ q.cleaning = o.held /\ q.awaits = o.awaits
    BY <2>1, <1>1, UnloadingFields, ZenonT(60)
  <2>3. o.state = "ACTIVE" /\ o.cleaning = {}
    BY <1>5 DEF Local, States, Offers, Holdings
  <2>4. States(q)
    BY <2>2, <2>3, <1>5 DEF States, Local, Offers, Loads
  <2>5. Holdings(q)
    BY <2>2, <2>3 DEF Holdings, Local
  <2>6. Snapshot(d, q)
    BY <2>2 DEF Snapshot, Loads
  <2>7. Follows(o, q)
    BY <2>2, <2>3 DEF Follows
  <2> QED BY <2>2, <2>3, <2>4, <2>5, <2>6, <2>7, <1>5 DEF Local
<1> QED BY <1>3, <1>4, <1>5

-----------------------------------------------------------------------------
(* Epochs                                                                  *)

SameMade(S, R) == \A g \in Fibers : R.fiber[g].made = S.fiber[g].made

SameDeps(d, o, q) == \A n \in Inject(d) : q.deps[n] = o.deps[n]

\* The epoch _refresh computes is off, or names the provider of every service.
LEMMA WantedType ==
    ASSUME scene \in Scenes, NEW S \in Worlds, NEW d \in Fibers, NEW o \in Objects,
           NEW e, e = Wanted(S, d, o)
    PROVE  /\ e \in Epochs
           /\ ~ e.on => e = Inactive
           /\ e.on => \A n \in Inject(d) : o.deps[n] # None
           /\ e.on => \A n \in Inject(d) : \E m \in Nat : <<n, o.deps[n], m>> \in e.from
           /\ e.on => \A n \in Inject(d) :
                        <<n, o.deps[n], S.fiber[o.deps[n]].made>> \in e.from
           /\ \A n \in Inject(d) : o.deps[n] = None => e = Inactive
<1> DEFINE from == {<<n, o.deps[n], S.fiber[o.deps[n]].made>> : n \in Inject(d)}
<1>1. Inject(d) \subseteq Names
  BY SceneTypes
<1>2. CASE \E n \in Inject(d) : o.deps[n] = None
  BY <1>2, InactiveType DEF Wanted
<1>3. CASE ~ \E n \in Inject(d) : o.deps[n] = None
  <2>1. e = [on |-> TRUE, from |-> from]
    BY <1>3 DEF Wanted
  <2>2. \A n \in Inject(d) : o.deps[n] \in Fibers /\ S.fiber[o.deps[n]].made \in Nat
    BY <1>1, <1>3 DEF Objects, Worlds
  <2>3. from \in SUBSET (Names \X Fibers \X Nat)
    BY <1>1, <2>2
  <2>4. \A n \in Inject(d) : <<n, o.deps[n], S.fiber[o.deps[n]].made>> \in from
    OBVIOUS
  <2> HIDE DEF from
  <2>5. e \in Epochs /\ e.on /\ e.from = from
    BY <2>1, <2>3 DEF Epochs
  <2> QED BY <1>3, <2>2, <2>4, <2>5
<1> QED BY <1>2, <1>3

\* The epoch depends on the dependencies and on which objects provide them.
LEMMA WantedSame ==
    ASSUME scene \in Scenes, NEW S \in Worlds, NEW R \in Worlds, SameMade(S, R),
           NEW d \in Fibers, NEW o \in Objects, NEW q \in Objects, SameDeps(d, o, q)
    PROVE  Wanted(R, d, q) = Wanted(S, d, o)
<1>1. Inject(d) \subseteq Names
  BY SceneTypes
<1>2. CASE \E n \in Inject(d) : o.deps[n] = None
  BY <1>2 DEF Wanted, SameDeps
<1>3. CASE ~ \E n \in Inject(d) : o.deps[n] = None
  <2>1. \A n \in Inject(d) : o.deps[n] \in Fibers /\ q.deps[n] = o.deps[n]
    BY <1>1, <1>3 DEF Objects, SameDeps
  <2>2. {<<n, q.deps[n], R.fiber[q.deps[n]].made>> : n \in Inject(d)}
          = {<<n, o.deps[n], S.fiber[o.deps[n]].made>> : n \in Inject(d)}
    BY <2>1 DEF SameMade
  <2>3. ~ \E n \in Inject(d) : q.deps[n] = None
    BY <1>3, <2>1
  <2> QED BY <1>3, <2>2, <2>3 DEF Wanted
<1> QED BY <1>2, <1>3

\* What d's dependencies are once it has looked at names again.
DepsAre(S, d, names, up, r) ==
    \A n \in Inject(d) :
        r.deps[n] = IF n \in names THEN (IF S.services[n] \in up THEN S.services[n] ELSE None)
                    ELSE S.fiber[d].deps[n]

\* _refresh of one fiber: an active one that has lost a service it injects
\* unloads, and an epoch is off or the one its dependencies call for.
LEMMA RefreshedKeeps ==
    ASSUME scene \in Scenes, NEW S \in Worlds, NEW d \in Fibers, Local(d, S.fiber[d]),
           NEW names \in SUBSET Names, NEW up \in SUBSET Fibers,
           S.fiber[d].state = "ACTIVE" /\ Inject(d) \intersect names # {} =>
               \E n \in Inject(d) \intersect names : S.services[n] \notin up,
           NEW r, r = Refreshed(S, d, names, up)
    PROVE  /\ r \in Objects /\ Local(d, r) /\ Follows(S.fiber[d], r)
           /\ r.alive = S.fiber[d].alive
           /\ DepsAre(S, d, names, up, r)
           /\ EpochFits(S, d, S.fiber[d]) => EpochFits(S, d, r)
           /\ EpochWanted(S, d, S.fiber[d]) => EpochWanted(S, d, r)
           /\ r.alive /\ Inject(d) \intersect names # {} => r.epoch = Wanted(S, d, r)
           /\ r.state = "ACTIVE" <=> S.fiber[d].state = "ACTIVE" /\ Inject(d) \intersect names = {}
<1> DEFINE o == S.fiber[d]
           Impl(n) == IF S.services[n] \in up THEN S.services[n] ELSE None
           D == [n \in Names |-> IF n \in Inject(d) \intersect names THEN Impl(n) ELSE o.deps[n]]
           p == [o EXCEPT !.deps = D]
           e == Wanted(S, d, p)
<1>0. o \in Objects
  BY DEF Worlds
<1>1. D \in [Names -> Fibers \union {None}]
  BY <1>0 DEF Objects
<1>2. /\ p \in Objects
      /\ p.made = o.made /\ p.alive = o.alive /\ p.state = o.state /\ p.task = o.task
      /\ p.epoch = o.epoch /\ p.old = o.old /\ p.deps = D /\ p.store = o.store /\ p.error = o.error
      /\ p.job = o.job /\ p.held = o.held /\ p.cleaning = o.cleaning /\ p.awaits = o.awaits
  <2> HIDE DEF D, o
  <2> QED BY <1>0, <1>1 DEF Objects
<1>3. r = IF o.alive /\ Inject(d) \intersect names # {} THEN SetEpoch(p, e) ELSE p
  BY <1>2 DEF Refreshed
<1>4. \A n \in Inject(d) : D[n] = IF n \in names THEN Impl(n) ELSE o.deps[n]
  BY SceneTypes
<1>5. Inject(d) \intersect names = {} => SameDeps(d, o, p)
  BY <1>4, <1>2 DEF SameDeps
<1>6. /\ e \in Epochs /\ (~ e.on => e = Inactive)
      /\ e.on => \A n \in Inject(d) : \E m \in Nat : <<n, D[n], m>> \in e.from
      /\ \A n \in Inject(d) : D[n] = None => e = Inactive
  <2> HIDE DEF p, D, o
  <2> QED BY <1>2, WantedType
<1>7. r.deps = D => DepsAre(S, d, names, up, r)
  BY <1>4 DEF DepsAre
<1>8. SameMade(S, S)
  BY DEF SameMade
<1>9. S.fiber[d] = o /\ Local(d, o)
  OBVIOUS
<1>10. o.state = "ACTIVE" /\ Inject(d) \intersect names # {} => e = Inactive /\ o.epoch.on
  <2>1. SUFFICES ASSUME o.state = "ACTIVE", Inject(d) \intersect names # {}
                 PROVE  e = Inactive /\ o.epoch.on
    OBVIOUS
  <2>2. PICK n \in Inject(d) \intersect names : S.services[n] \notin up
    BY <2>1
  <2>3. D[n] = None
    BY <2>2, <1>4
  <2> QED BY <2>3, <2>2, <2>1, <1>6, <1>9 DEF Local, States
<1> HIDE DEF D, o, p, e
<1>11. CASE ~ (o.alive /\ Inject(d) \intersect names # {})
  <2>1. r = p
    BY <1>3, <1>11
  <2>2. States(r) /\ Holdings(r)
    BY <2>1, <1>2, <1>9 DEF Local, States, Holdings
  <2>3. o.state = "ACTIVE" => o.alive /\ Inject(d) \intersect names = {}
    BY <1>11, <1>9 DEF Local, States
  <2>4. Snapshot(d, r)
    <3>1. o.state = "ACTIVE" => \A n \in Inject(d) : D[n] = o.deps[n]
      BY <2>3, <1>4
    <3>2. /\ r.task = o.task /\ r.old = o.old /\ r.store = o.store /\ r.deps = D
          /\ r.state = o.state
      BY <2>1, <1>2
    <3> QED BY <3>1, <3>2, <1>9, SceneTypes, ZenonT(40) DEF Snapshot, Local
  <2>5. Follows(o, r)
    BY <2>1, <1>2 DEF Follows
  <2>6. o.alive => Wanted(S, d, r) = Wanted(S, d, o)
    BY <1>11, <1>5, <1>8, <1>0, <1>2, <2>1, WantedSame
  <2>7. EpochFits(S, d, o) => EpochFits(S, d, r)
    BY <2>6, <2>1, <1>2, <1>9 DEF EpochFits, Local, States
  <2>8. EpochWanted(S, d, o) => EpochWanted(S, d, r)
    BY <2>6, <2>1, <1>2 DEF EpochWanted
  <2> QED BY <2>1, <2>2, <2>3, <2>4, <2>5, <2>7, <2>8, <1>2, <1>7, <1>9, <1>11 DEF Local
<1>12. CASE o.alive /\ Inject(d) \intersect names # {}
  <2>1. r = SetEpoch([o EXCEPT !.deps = D], e)
    BY <1>3, <1>12 DEF p
  <2>2. Offers(d, o, D, e)
    BY <1>6, <1>10, <1>12, InactiveType DEF Offers
  <2>3. /\ r \in Objects /\ Local(d, r) /\ Follows(o, r)
        /\ r.epoch = e /\ r.deps = D /\ r.alive = o.alive
        /\ r.state = "ACTIVE" <=> o.state = "ACTIVE" /\ e = o.epoch
    BY <2>1, <2>2, <1>0, <1>1, <1>9, SetEpochKeeps
  <2>4. SameDeps(d, p, r)
    BY <2>3, <1>2 DEF SameDeps
  <2>5. r.epoch = Wanted(S, d, r)
    BY <2>3, <2>4, <1>2, <1>8, WantedSame DEF e
  <2> QED BY <2>3, <2>5, <1>7, <1>9, <1>10, <1>12, InactiveType DEF EpochFits, EpochWanted
<1> QED BY <1>11, <1>12

-----------------------------------------------------------------------------
(* Notifications                                                           *)

AllFollow(S, R) ==
    /\ R.services = S.services
    /\ \A d \in Fibers : Follows(S.fiber[d], R.fiber[d])

\* What a registered fiber depends on is registered.
DepsServed(S) ==
    \A d \in Fibers, n \in Names :
        S.fiber[d].alive /\ n \in Inject(d) /\ S.fiber[d].deps[n] # None =>
            S.services[n] = S.fiber[d].deps[n]

\* A fiber that is up to date knows its services as they are registered.
LEMMA CurrentServes ==
    ASSUME NEW S, CurrentBut(S, {})
    PROVE  DepsServed(S)
BY DEF CurrentBut, DepsServed

\* Loading, unloading and settling lose no service, no child and nobody who is
\* to be waited for (fiber.ts _reload, _unload).
LEMMA BaseFollows ==
    ASSUME NEW S, Base(S), NEW R, R \in Worlds, AllFollow(S, R), DepsServed(R),
           \A d \in Fibers : Local(d, R.fiber[d])
    PROVE  Base(R)
<1>1. \A f \in Fibers : /\ S.fiber[f] \in Objects /\ R.fiber[f] \in Objects
                        /\ Follows(S.fiber[f], R.fiber[f])
  BY DEF Base, Worlds, AllFollow
<1>2. R.services = S.services
  BY DEF AllFollow
<1>3. Registered(R)
  <2>1. SUFFICES ASSUME NEW f \in Fibers, NEW n \in Names
                 PROVE  /\ S.services[n] = f => n \in R.fiber[f].held \union R.fiber[f].cleaning
                        /\ n \in R.fiber[f].held => S.services[n] = f
    BY <1>2 DEF Registered
  <2> QED BY <1>1 DEF Base, Registered, Follows
<1>4. Children(R)
  <2>1. SUFFICES ASSUME NEW c \in Fibers, Parent(c) \in Fibers, R.fiber[c].state # "DISPOSED"
                 PROVE  c \in R.fiber[Parent(c)].held \union R.fiber[Parent(c)].cleaning
    BY DEF Children
  <2>2. S.fiber[c].state # "DISPOSED"
    BY <2>1, <1>1 DEF Follows
  <2>3. c \in S.fiber[Parent(c)].held \union S.fiber[Parent(c)].cleaning
    BY <2>1, <2>2 DEF Base, Children
  <2> QED BY <2>1, <2>3, <1>1 DEF Follows
<1>5. WaitedFor(R)
  <2>1. SUFFICES ASSUME NEW f \in Fibers, NEW d \in Fibers, NEW n \in Names,
                        n \in R.fiber[f].cleaning, R.services[n] # f,
                        R.fiber[d].alive, n \in Inject(d), R.fiber[d].store[n] = f
                 PROVE  <<n, d, R.fiber[d].made>> \in R.fiber[f].awaits
    BY DEF WaitedFor
  <2>2. S.fiber[d].alive /\ R.fiber[d].made = S.fiber[d].made
    BY <2>1, <1>1 DEF Follows
  <2>3. n \in S.fiber[f].cleaning
    <3>1. n \in S.fiber[f].held \/ n \in S.fiber[f].cleaning
      BY <2>1, <1>1 DEF Follows
    <3>2. n \notin S.fiber[f].held
      BY <2>1, <1>2 DEF Base, Registered
    <3> QED BY <3>1, <3>2
  <2>4. f # None
    BY FibersAssumption
  <2>5. R.fiber[d].deps[n] # f
    BY <2>1, <2>4 DEF DepsServed
  <2>6. S.fiber[d].store[n] = f
    BY <2>1, <2>4, <2>5, <1>1 DEF Follows
  <2>7. <<n, d, S.fiber[d].made>> \in S.fiber[f].awaits
    BY <2>1, <2>2, <2>3, <2>6, <1>2 DEF Base, WaitedFor
  <2> QED BY <2>2, <2>7, <1>1 DEF Follows
<1> QED BY <1>3, <1>4, <1>5 DEF Base

\* An active fiber has every service it injects.
LEMMA ActiveHasAll ==
    ASSUME scene \in Scenes, NEW S, Base(S), NEW X, Linked(S, X), NEW d \in Fibers,
           S.fiber[d].state = "ACTIVE"
    PROVE  /\ S.fiber[d].alive /\ S.fiber[d].task = "none" /\ S.fiber[d].epoch.on
           /\ \A n \in Inject(d) : S.fiber[d].deps[n] # None
<1>1. S \in Worlds /\ S.fiber[d] \in Objects /\ States(S.fiber[d])
  BY DEF Base, Worlds, Local
<1>2. S.fiber[d].epoch.on /\ S.fiber[d].epoch = Wanted(S, d, S.fiber[d])
  BY <1>1 DEF States, Linked, EpochFits
<1> QED BY <1>1, <1>2, WantedType DEF States

\* No active fiber is served what it is about to be told of.
Quiet(S, N) ==
    \A d \in ActiveFibers(S) : \A n \in Inject(d) \intersect N : S.services[n] \notin ActiveFibers(S)

\* The active fibers Notify leaves active.
ServeEachOther(S, N, A) ==
    \A d \in A : \A n \in Inject(d) :
        n \in N \/ S.services[n] \in ActiveFibers(S) => S.services[n] \in A

StayUp(S, N) == UNION {A \in SUBSET ActiveFibers(S) : ServeEachOther(S, N, A)}

Told(S, N) == N \union {n \in Names : S.services[n] \in ActiveFibers(S) \ StayUp(S, N)}

\* reflect.notify() refreshes every fiber at once: the cascade is one function of
\* what stays up.
LEMMA NotifyIs ==
    ASSUME NEW S, NEW N
    PROVE  Notify(S, N) =
             [S EXCEPT !.fiber = [d \in Fibers |-> Refreshed(S, d, Told(S, N), StayUp(S, N))]]
BY DEF Notify, Told, StayUp, ServeEachOther, ActiveFibers

\* What stays up serves itself, and is the largest such set: whoever goes down
\* has lost a service it was told of.
LEMMA StayUpLargest ==
    ASSUME scene \in Scenes, NEW S, NEW N \in SUBSET Names, Quiet(S, N)
    PROVE  /\ StayUp(S, N) \subseteq ActiveFibers(S)
           /\ \A d \in StayUp(S, N) : Inject(d) \intersect Told(S, N) = {}
           /\ \A d \in ActiveFibers(S) \ StayUp(S, N) :
                \E n \in Inject(d) \intersect Told(S, N) : S.services[n] \notin StayUp(S, N)
<1> DEFINE up == StayUp(S, N)
<1>1. up \subseteq ActiveFibers(S)
  BY DEF StayUp
<1>2. ServeEachOther(S, N, up)
  <2>1. SUFFICES ASSUME NEW d \in up, NEW n \in Inject(d),
                        n \in N \/ S.services[n] \in ActiveFibers(S)
                 PROVE  S.services[n] \in up
    BY DEF ServeEachOther
  <2>2. PICK A \in SUBSET ActiveFibers(S) : ServeEachOther(S, N, A) /\ d \in A
    BY <2>1 DEF StayUp
  <2>3. S.services[n] \in A
    BY <2>1, <2>2 DEF ServeEachOther
  <2> QED BY <2>2, <2>3 DEF StayUp
<1>3. \A d \in up : Inject(d) \intersect Told(S, N) = {}
  <2>1. SUFFICES ASSUME NEW d \in up, NEW n \in Inject(d), n \in Told(S, N)
                 PROVE  FALSE
    OBVIOUS
  <2>2. CASE n \in N
    BY <2>1, <2>2, <1>1, <1>2 DEF ServeEachOther, Quiet
  <2>3. CASE S.services[n] \in ActiveFibers(S) \ up
    BY <2>1, <2>3, <1>2 DEF ServeEachOther
  <2> QED BY <2>1, <2>2, <2>3 DEF Told
<1>4. ASSUME NEW d \in ActiveFibers(S), d \notin up
      PROVE  \E n \in Inject(d) \intersect Told(S, N) : S.services[n] \notin up
  <2>1. ~ ServeEachOther(S, N, up \union {d})
    BY <1>1, <1>4 DEF StayUp
  <2>2. PICK n \in Inject(d) : (n \in N \/ S.services[n] \in ActiveFibers(S)) /\ S.services[n] \notin up
    BY <2>1, <1>2 DEF ServeEachOther
  <2>3. n \in Told(S, N)
    BY <2>2, SceneTypes, <1>4 DEF Told, ActiveFibers
  <2> QED BY <2>2, <2>3
<1> QED BY <1>1, <1>3, <1>4

\* Nobody's cleanup loses a disposable.
Onward(S, R) == \A g \in Fibers : S.fiber[g].cleaning \subseteq R.fiber[g].cleaning

\* reflect.notify() brings everyone up to date with N: afterwards exactly the
\* fibers that serve each other are active, and every epoch is the one that the
\* services there are call for.
LEMMA NotifyKeeps ==
    ASSUME scene \in Scenes, NEW S, Base(S), NEW X, Linked(S, X), NEW N \in SUBSET Names,
           CurrentBut(S, N), Quiet(S, N), NEW R, R = Notify(S, N)
    PROVE  /\ Inv(R, X) /\ Onward(S, R)
           /\ \A d \in Fibers : R.fiber[d].alive = S.fiber[d].alive
<1> DEFINE up == StayUp(S, N)
           names == Told(S, N)
<1>1. S \in Worlds /\ names \in SUBSET Names /\ up \subseteq ActiveFibers(S) /\ up \in SUBSET Fibers
  BY StayUpLargest DEF Base, Told, ActiveFibers
<1>2. \A d \in up : Inject(d) \intersect names = {}
  BY StayUpLargest
<1>3. \A d \in ActiveFibers(S) \ up : \E n \in Inject(d) \intersect names : S.services[n] \notin up
  BY StayUpLargest
<1>4. R.services = S.services /\ \A d \in Fibers : R.fiber[d] = Refreshed(S, d, names, up)
  BY <1>1, NotifyIs DEF Worlds
<1>5. R = [fiber |-> R.fiber, services |-> R.services] /\ DOMAIN R.fiber = Fibers
      /\ R.fiber = [d \in Fibers |-> R.fiber[d]]
  BY <1>1, NotifyIs DEF Worlds
<1>6. names \subseteq N \union {n \in Names : S.services[n] \in ActiveFibers(S) \ up}
      /\ N \subseteq names
      /\ \A n \in Names \ names : S.services[n] \in ActiveFibers(S) => S.services[n] \in up
  BY DEF Told
<1> HIDE DEF up, names
<1>7. ASSUME NEW d \in Fibers, NEW r, r = R.fiber[d]
      PROVE  /\ r \in Objects /\ Local(d, r) /\ Follows(S.fiber[d], r)
             /\ r.alive = S.fiber[d].alive
             /\ DepsAre(S, d, names, up, r)
             /\ EpochFits(S, d, S.fiber[d]) => EpochFits(S, d, r)
             /\ EpochWanted(S, d, S.fiber[d]) => EpochWanted(S, d, r)
             /\ r.state = "ACTIVE" <=> S.fiber[d].state = "ACTIVE" /\ Inject(d) \intersect names = {}
  <2>1. S.fiber[d].state = "ACTIVE" /\ Inject(d) \intersect names # {} =>
               \E n \in Inject(d) \intersect names : S.services[n] \notin up
    BY <1>2, <1>3 DEF ActiveFibers
  <2>2. r = Refreshed(S, d, names, up) /\ Local(d, S.fiber[d])
    BY <1>4, <1>7 DEF Base
  <2> QED BY <1>1, <2>1, <2>2, RefreshedKeeps
<1>8. R \in Worlds
  BY <1>1, <1>4, <1>5, <1>7 DEF Worlds
<1>9. ActiveFibers(R) = up
  BY <1>1, <1>2, <1>3, <1>7 DEF ActiveFibers
<1>10. CurrentBut(R, {})
  <2>1. SUFFICES ASSUME NEW d \in Fibers, NEW n \in Names, R.fiber[d].alive, n \in Inject(d)
                 PROVE  R.fiber[d].deps[n] = IF S.services[n] \in up THEN S.services[n] ELSE None
    BY <1>4, <1>9 DEF CurrentBut
  <2>2. S.fiber[d].alive /\ DepsAre(S, d, names, up, R.fiber[d])
    BY <1>7, <2>1
  <2>3. CASE n \in names
    BY <2>1, <2>2, <2>3 DEF DepsAre
  <2>4. CASE n \notin names
    <3>1. R.fiber[d].deps[n] = S.fiber[d].deps[n]
      BY <2>1, <2>2, <2>4 DEF DepsAre
    <3>2. S.fiber[d].deps[n] = IF S.services[n] \in ActiveFibers(S) THEN S.services[n] ELSE None
      BY <2>1, <2>2, <2>4, <1>6 DEF CurrentBut
    <3> QED BY <3>1, <3>2, <2>4, <1>6, <1>1
  <2> QED BY <2>3, <2>4
<1>11. AllFollow(S, R) /\ SameMade(S, R)
  BY <1>4, <1>7 DEF AllFollow, SameMade, Follows
<1>12. Base(R)
  BY <1>7, <1>8, <1>10, <1>11, CurrentServes, BaseFollows
<1>13. Linked(R, X)
  <2>1. SUFFICES ASSUME NEW d \in Fibers
                 PROVE  /\ EpochFits(R, d, R.fiber[d])
                        /\ d \notin X => EpochWanted(R, d, R.fiber[d])
    BY DEF Linked
  <2>2. /\ EpochFits(S, d, R.fiber[d])
        /\ d \notin X => EpochWanted(S, d, R.fiber[d])
    BY <1>7 DEF Linked
  <2>3. SameDeps(d, R.fiber[d], R.fiber[d]) /\ R.fiber[d] \in Objects
    BY <1>7 DEF SameDeps
  <2>4. Wanted(R, d, R.fiber[d]) = Wanted(S, d, R.fiber[d])
    BY <2>3, <1>1, <1>8, <1>11, WantedSame
  <2> QED BY <2>2, <2>4 DEF EpochFits, EpochWanted
<1> QED BY <1>7, <1>10, <1>11, <1>12, <1>13 DEF Inv, Onward, AllFollow, Follows

-----------------------------------------------------------------------------
(* Changes of one fiber                                                    *)

ServicesOf(S, f) == {n \in Names : S.services[n] = f}

Put(S, f, o) == [S EXCEPT !.fiber[f] = o]

SameBut(S, T, f) ==
    T.services = S.services /\ \A d \in Fibers \ {f} : T.fiber[d] = S.fiber[d]

\* f becomes o, and nobody has been told yet.
LEMMA PutKeeps ==
    ASSUME scene \in Scenes, NEW S, NEW X, Inv(S, X), NEW f \in Fibers,
           NEW o \in Objects, Local(f, o), Follows(S.fiber[f], o), o.deps = S.fiber[f].deps,
           EpochFits(S, f, o), NEW Y, X \subseteq Y \union {f}, f \notin Y => EpochWanted(S, f, o),
           NEW T, T = Put(S, f, o)
    PROVE  /\ Base(T) /\ Linked(T, Y) /\ Onward(S, T)
           /\ CurrentBut(T, ServicesOf(S, f))
           /\ (S.fiber[f].state = "ACTIVE" <=> o.state = "ACTIVE") => Inv(T, Y)
           /\ T.fiber[f] = o /\ SameBut(S, T, f)
<1>1. S \in Worlds
  BY DEF Inv, Base
<1>2. /\ T.services = S.services /\ T.fiber[f] = o
      /\ \A d \in Fibers \ {f} : T.fiber[d] = S.fiber[d]
      /\ T \in Worlds
  BY <1>1 DEF Worlds, Put
<1>3. SameMade(S, T)
  BY <1>2 DEF SameMade, Follows
<1>4. AllFollow(S, T) /\ \A d \in Fibers : Local(d, T.fiber[d])
  BY <1>2 DEF AllFollow, Follows, Inv, Base
<1>5. \A d \in Fibers : /\ T.fiber[d].deps = S.fiber[d].deps
                        /\ T.fiber[d].alive => S.fiber[d].alive
  BY <1>2, <1>4 DEF AllFollow, Follows
<1>6. DepsServed(S)
  BY CurrentServes DEF Inv
<1>7. DepsServed(T)
  BY <1>2, <1>5, <1>6 DEF DepsServed
<1>8. Base(T)
  BY <1>2, <1>4, <1>7, BaseFollows DEF Inv
<1>9. Linked(T, Y)
  <2>1. SUFFICES ASSUME NEW d \in Fibers
                 PROVE  /\ EpochFits(T, d, T.fiber[d])
                        /\ d \notin Y => EpochWanted(T, d, T.fiber[d])
    BY DEF Linked
  <2>2. /\ EpochFits(S, d, T.fiber[d])
        /\ d \notin Y => EpochWanted(S, d, T.fiber[d])
    BY <1>2 DEF Linked, Inv
  <2>3. SameDeps(d, T.fiber[d], T.fiber[d]) /\ T.fiber[d] \in Objects
    BY <1>2 DEF SameDeps, Worlds
  <2>4. Wanted(T, d, T.fiber[d]) = Wanted(S, d, T.fiber[d])
    BY <2>3, <1>1, <1>2, <1>3, WantedSame
  <2> QED BY <2>2, <2>4 DEF EpochFits, EpochWanted
<1>10. \A n \in Names : S.services[n] # f =>
          (S.services[n] \in ActiveFibers(T) <=> S.services[n] \in ActiveFibers(S))
  BY <1>2 DEF ActiveFibers
<1>11. CurrentBut(T, ServicesOf(S, f))
  <2>1. SUFFICES ASSUME NEW d \in Fibers, NEW n \in Names, T.fiber[d].alive, n \in Inject(d),
                        S.services[n] # f
                 PROVE  T.fiber[d].deps[n]
                          = IF S.services[n] \in ActiveFibers(T) THEN S.services[n] ELSE None
    BY <1>2 DEF CurrentBut, ServicesOf
  <2>2. S.fiber[d].deps[n] = IF S.services[n] \in ActiveFibers(S) THEN S.services[n] ELSE None
    BY <2>1, <1>5 DEF CurrentBut, Inv
  <2> QED BY <2>1, <2>2, <1>5, <1>10
<1>12. ASSUME S.fiber[f].state = "ACTIVE" <=> o.state = "ACTIVE"
       PROVE  CurrentBut(T, {})
  <2>1. ActiveFibers(T) = ActiveFibers(S)
    BY <1>2, <1>12 DEF ActiveFibers
  <2> QED BY <2>1, <1>2, <1>5 DEF CurrentBut, Inv
<1>13. Onward(S, T)
  BY <1>4 DEF AllFollow, Follows, Onward
<1> QED BY <1>2, <1>8, <1>9, <1>11, <1>12, <1>13 DEF Inv, SameBut

\* _updateState: a fiber that becomes active or stops being active tells those
\* that inject what it provides, and the cascade leaves everyone up to date.
LEMMA UpdateKeeps ==
    ASSUME scene \in Scenes, NEW S, NEW X, Inv(S, X), NEW f \in Fibers,
           NEW o \in Objects, Local(f, o), Follows(S.fiber[f], o), o.deps = S.fiber[f].deps,
           EpochFits(S, f, o), NEW Y, X \subseteq Y \union {f}, f \notin Y => EpochWanted(S, f, o),
           NEW R, R = UpdateState(S, f, o)
    PROVE  Inv(R, Y) /\ Onward(S, R) /\ R.fiber[f].alive = o.alive
<1> DEFINE T == [S EXCEPT !.fiber[f] = o]
           names == ServicesOf(S, f)
           crossed == (S.fiber[f].state = "ACTIVE") # (o.state = "ACTIVE")
<1>0. T = Put(S, f, o)
  BY DEF Put
<1> HIDE DEF T
<1>1. /\ Base(T) /\ Linked(T, Y) /\ Onward(S, T)
      /\ CurrentBut(T, ServicesOf(S, f))
      /\ (S.fiber[f].state = "ACTIVE" <=> o.state = "ACTIVE") => Inv(T, Y)
      /\ T.fiber[f] = o /\ SameBut(S, T, f)
  BY <1>0, PutKeeps
<1>1a. /\ CurrentBut(T, names) /\ (~ crossed => Inv(T, Y))
       /\ T.services = S.services
       /\ \A d \in Fibers \ {f} : T.fiber[d] = S.fiber[d]
  BY <1>1 DEF SameBut
<1>2. R = IF crossed /\ names # {} THEN Notify(T, names) ELSE T
  BY DEF UpdateState, T, ServicesOf
<1>3. names \in SUBSET Names /\ \A n \in names : S.services[n] = f
  BY DEF ServicesOf
<1> HIDE DEF names
<1>4. CASE ~ (crossed /\ names # {})
  <2>1. names = {} => Inv(T, Y)
    BY <1>1, <1>1a DEF Inv
  <2> QED BY <1>1, <1>1a, <1>2, <1>4, <2>1
<1>5. CASE crossed /\ names # {}
  <2>1. Quiet(T, names)
    <3>1. SUFFICES ASSUME NEW d \in ActiveFibers(T), NEW n \in Inject(d) \intersect names,
                          T.services[n] \in ActiveFibers(T)
                   PROVE  FALSE
      BY DEF Quiet
    <3>2. d \in Fibers /\ T.fiber[d].state = "ACTIVE" /\ n \in Names
      BY <1>3 DEF ActiveFibers
    <3>3. S.services[n] = f /\ f \in ActiveFibers(T) /\ f \notin ActiveFibers(S)
      BY <3>1, <1>1, <1>1a, <1>3, <1>5 DEF ActiveFibers
    <3>4. T.fiber[d].alive /\ T.fiber[d].deps[n] # None
      BY <3>2, <1>1, ActiveHasAll
    <3>5. S.fiber[d].alive /\ S.fiber[d].deps = T.fiber[d].deps
      BY <3>2, <3>4, <1>1, <1>1a DEF Follows
    <3> QED BY <3>2, <3>3, <3>4, <3>5 DEF CurrentBut, Inv
  <2>2. R = Notify(T, names)
    BY <1>2, <1>5
  <2>3. /\ Inv(R, Y) /\ Onward(T, R)
        /\ \A d \in Fibers : R.fiber[d].alive = T.fiber[d].alive
    BY <2>1, <2>2, <1>1, <1>1a, <1>3, NotifyKeeps
  <2> QED BY <2>3, <1>1 DEF Onward
<1> QED BY <1>4, <1>5

-----------------------------------------------------------------------------
(* What the code does to one fiber                                         *)

\* The epoch a fiber calls for names one provider for a service.
LEMMA WantedNames ==
    ASSUME scene \in Scenes, NEW S \in Worlds, NEW d \in Fibers, NEW o \in Objects,
           Wanted(S, d, o).on, NEW n \in Inject(d), NEW x, NEW m,
           <<n, x, m>> \in Wanted(S, d, o).from
    PROVE  x = o.deps[n]
<1>1. ~ \E k \in Inject(d) : o.deps[k] = None
  BY InactiveType DEF Wanted
<1>2. Wanted(S, d, o).from = {<<k, o.deps[k], S.fiber[o.deps[k]].made>> : k \in Inject(d)}
  BY <1>1 DEF Wanted
<1> QED BY <1>2

\* _setEpoch and what it tells the others, for an epoch that is off.
LEMMA TurnOffKeeps ==
    ASSUME scene \in Scenes, NEW f \in Fibers, NEW S, Inv(S, {f}),
           NEW R, R = Turn(S, f, Inactive)
    PROVE  Inv(R, {f}) /\ Onward(S, R) /\ R.fiber[f].alive = S.fiber[f].alive
<1> DEFINE o == S.fiber[f]
           q == SetEpoch(o, Inactive)
           X == {f}
<1>1. o \in Objects /\ Local(f, o) /\ o.deps \in [Names -> Fibers \union {None}]
  BY DEF Inv, Base, Worlds, Objects
<1>2. [o EXCEPT !.deps = o.deps] = o
  <2> HIDE DEF o
  <2> QED BY <1>1 DEF Objects
<1>3. q = SetEpoch([o EXCEPT !.deps = o.deps], Inactive)
  BY <1>2
<1>4. R = UpdateState(S, f, q) /\ S.fiber[f] = o /\ X = {f}
  BY DEF Turn
<1> HIDE DEF o, q, X
<1>5. Offers(f, o, o.deps, Inactive)
  BY InactiveType DEF Offers
<1>6. /\ q \in Objects /\ Local(f, q) /\ Follows(o, q)
      /\ q.epoch = Inactive /\ q.deps = o.deps /\ q.alive = o.alive
  <2> DEFINE D == o.deps
             e == Inactive
  <2>1. D \in [Names -> Fibers \union {None}] /\ Offers(f, o, D, e)
        /\ q = SetEpoch([o EXCEPT !.deps = D], e)
    BY <1>1, <1>3, <1>5
  <2>2. D = o.deps /\ e = Inactive
    OBVIOUS
  <2> HIDE DEF D, e
  <2> QED BY <2>1, <2>2, <1>1, SetEpochKeeps
<1>7. EpochFits(S, f, q)
  BY <1>6, InactiveType DEF EpochFits
<1>8. f \in X /\ X \subseteq X \union {f}
  BY <1>4
<1> QED BY <1>4, <1>6, <1>7, <1>8, UpdateKeeps

\* _refresh of a registered fiber brings its epoch up to date.
LEMMA RefreshKeeps ==
    ASSUME scene \in Scenes, NEW f \in Fibers, NEW S, Inv(S, {f}), S.fiber[f].alive,
           NEW R, R = Refresh(S, f)
    PROVE  Inv(R, {}) /\ Onward(S, R)
<1> DEFINE o == S.fiber[f]
           e == Wanted(S, f, o)
           q == SetEpoch(o, e)
           X == {f}
           Y == {}
           D == o.deps
<1>1. o \in Objects /\ Local(f, o) /\ D \in [Names -> Fibers \union {None}] /\ S \in Worlds
  BY DEF Inv, Base, Worlds, Objects
<1>2. [o EXCEPT !.deps = D] = o
  <2>1. D = o.deps
    OBVIOUS
  <2> HIDE DEF o, D
  <2> QED BY <1>1, <2>1 DEF Objects
<1>3. q = SetEpoch([o EXCEPT !.deps = D], e)
  BY <1>2
<1>4. R = UpdateState(S, f, q) /\ S.fiber[f] = o /\ X = {f} /\ e = Wanted(S, f, o)
      /\ Y = {} /\ D = o.deps
  BY DEF Turn, Refresh
<1> HIDE DEF o, q, X, e, Y, D
<1>5. Offers(f, o, D, e)
  <2>1. /\ e \in Epochs /\ (~ e.on => e = Inactive)
        /\ e.on => \A n \in Inject(f) : \E m \in Nat : <<n, o.deps[n], m>> \in e.from
    BY <1>1, <1>4, WantedType
  <2> QED BY <2>1, <1>4 DEF Offers
<1>6. /\ q \in Objects /\ Local(f, q) /\ Follows(o, q)
      /\ q.epoch = e /\ q.deps = D
  BY <1>1, <1>3, <1>5, SetEpochKeeps
<1>7. SameDeps(f, o, q) /\ SameMade(S, S)
  BY <1>4, <1>6 DEF SameDeps, SameMade
<1>8. Wanted(S, f, q) = e
  BY <1>1, <1>4, <1>6, <1>7, WantedSame
<1>9. EpochFits(S, f, q) /\ EpochWanted(S, f, q)
  BY <1>6, <1>8 DEF EpochFits, EpochWanted
<1>10. X \subseteq Y \union {f}
  BY <1>4
<1>11. Inv(S, X)
  BY <1>4
<1>12. q.deps = S.fiber[f].deps /\ Follows(S.fiber[f], q)
  BY <1>4, <1>6
<1>13. Inv(R, Y) /\ Onward(S, R)
  BY <1>4, <1>6, <1>9, <1>10, <1>11, <1>12, UpdateKeeps
<1> QED BY <1>4, <1>13

\* restart(): the epoch taken away and given back.
LEMMA RestartedKeeps ==
    ASSUME scene \in Scenes, NEW f \in Fibers, NEW S, Inv(S, {f}), S.fiber[f].alive,
           NEW R, R = Restarted(S, f)
    PROVE  Inv(R, {}) /\ Onward(S, R)
<1> DEFINE M == Turn(S, f, Inactive)
<1>1. M = Turn(S, f, Inactive) /\ R = Refresh(M, f)
  BY DEF Restarted
<1> HIDE DEF M
<1>2. Inv(M, {f}) /\ Onward(S, M) /\ M.fiber[f].alive
  BY <1>1, TurnOffKeeps
<1>3. Inv(R, {}) /\ Onward(M, R)
  BY <1>1, <1>2, RefreshKeeps
<1> QED BY <1>2, <1>3 DEF Onward

\* o differs from g in its epoch, its error and whether it is registered.
Alike(g, o) ==
    /\ o.made = g.made /\ o.state = g.state /\ o.task = g.task /\ o.old = g.old
    /\ o.deps = g.deps /\ o.store = g.store /\ o.job = g.job
    /\ o.held = g.held /\ o.cleaning = g.cleaning /\ o.awaits = g.awaits

\* A fiber that is not unloading is sent to unload: it has nothing to wait for
\* in its dependencies, or its epoch is up to date.
LEMMA UnloadKeeps ==
    ASSUME scene \in Scenes, NEW f \in Fibers, NEW S, Inv(S, {}), NEW o \in Objects,
           Alike(S.fiber[f], o), o.alive => S.fiber[f].alive,
           S.fiber[f].state # "DISPOSED", S.fiber[f].task # "unload",
           o.epoch.on => o.alive, ~ o.epoch.on => o.epoch = Inactive,
           EpochFits(S, f, o), o.alive /\ ~ o.error => o.epoch = Wanted(S, f, o),
           NEW R, R = UpdateState(S, f, Unloading(o))
    PROVE  Inv(R, {}) /\ Onward(S, R)
<1> DEFINE g == S.fiber[f]
           q == Unloading(o)
           Y == {}
<1>1. g \in Objects /\ Local(f, g) /\ S \in Worlds
  BY DEF Inv, Base, Worlds
<1>2. R = UpdateState(S, f, q) /\ S.fiber[f] = g /\ q = Unloading(o) /\ Y = {}
  OBVIOUS
<1> HIDE DEF g, q, Y
<1>3. /\ q \in Objects
      /\ q.made = o.made /\ q.alive = o.alive /\ q.state = "UNLOADING" /\ q.task = "unload"
      /\ q.epoch = o.epoch /\ q.deps = o.deps /\ q.store = o.store /\ q.error = o.error
      /\ q.job = o.job /\ q.held = {} /\ q.cleaning = o.held /\ q.awaits = o.awaits
  BY <1>2, UnloadingFields
<1>4. g.cleaning = {} /\ Alike(g, o)
  BY <1>1, <1>2 DEF Local, Holdings
<1>5. States(q)
  BY <1>3 DEF States, Loads
<1>6. Holdings(q)
  BY <1>1, <1>3, <1>4 DEF Local, Holdings, Alike
<1>7. Snapshot(f, q)
  BY <1>3 DEF Snapshot, Loads
<1>8. Follows(g, q)
  BY <1>2, <1>3, <1>4 DEF Follows, Alike
<1>9. SameDeps(f, o, q) /\ SameMade(S, S)
  BY <1>3 DEF SameDeps, SameMade
<1>10. Wanted(S, f, q) = Wanted(S, f, o)
  BY <1>1, <1>3, <1>9, WantedSame
<1>11. EpochFits(S, f, q) /\ EpochWanted(S, f, q)
  BY <1>3, <1>10 DEF EpochFits, EpochWanted, Loads
<1>12. Inv(S, Y) /\ Y \subseteq Y \union {f} /\ Local(f, q)
  BY <1>2, <1>5, <1>6, <1>7 DEF Local
<1>13. q.deps = S.fiber[f].deps /\ Follows(S.fiber[f], q)
  BY <1>2, <1>3, <1>4, <1>8 DEF Alike
<1>14. Inv(R, Y) /\ Onward(S, R)
  BY <1>2, <1>3, <1>11, <1>12, <1>13, UpdateKeeps
<1> QED BY <1>2, <1>14

\* A reload comes to rest only with the services it was loaded with; whatever
\* came in between unloads the fiber again (fiber.ts _reload).
LEMMA FinishKeeps ==
    ASSUME scene \in Scenes, NEW f \in Fibers, NEW S, Inv(S, {}), NEW o \in Objects,
           S.fiber[f].task \in Loads, Alike(S.fiber[f], o), o.alive = S.fiber[f].alive,
           o.epoch = S.fiber[f].epoch \/ (o.epoch = Inactive /\ o.error),
           o.epoch = o.old => ~ o.error,
           NEW R, R = FinishReload(S, f, o)
    PROVE  Inv(R, {}) /\ Onward(S, R)
<1> DEFINE g == S.fiber[f]
           q == [o EXCEPT !.task = "none", !.state = StateOf(o)]
           Y == {}
<1>1. g \in Objects /\ Local(f, g) /\ S \in Worlds
  BY DEF Inv, Base, Worlds
<1>2. S.fiber[f] = g /\ Y = {}
  OBVIOUS
<1>3. R = UpdateState(S, f, IF o.epoch = o.old THEN q ELSE Unloading(o))
  BY DEF FinishReload
<1>4. o.epoch = o.old => o.epoch.on
  BY DEF Alike, Inv, Base, Local, Snapshot
<1>5. EpochFits(S, f, g) /\ EpochWanted(S, f, g) /\ States(g)
  BY <1>1, <1>2 DEF Inv, Linked, Local
<1>6. /\ SameDeps(f, g, o) /\ SameMade(S, S)
      /\ o.epoch = g.epoch \/ (o.epoch = Inactive /\ o.error)
      /\ o.alive = g.alive /\ Alike(g, o) /\ g.task \in Loads
  BY DEF SameDeps, SameMade, Alike
<1> HIDE DEF g, q, Y
<1>7. Wanted(S, f, o) = Wanted(S, f, g)
  BY <1>1, <1>6, WantedSame
<1>8. o.alive => g.epoch = Wanted(S, f, g)
  BY <1>5, <1>6 DEF EpochWanted
<1>9. CASE o.epoch # o.old
  <2>1. R = UpdateState(S, f, Unloading(o))
    BY <1>3, <1>9
  <2>2. o.epoch.on => o.alive
    BY <1>5, <1>6, InactiveType DEF States
  <2>3. ~ o.epoch.on => o.epoch = Inactive
    BY <1>5, <1>6, InactiveType DEF States
  <2>4. o.alive /\ ~ o.error => o.epoch = Wanted(S, f, o)
    BY <1>6, <1>7, <1>8
  <2>5. EpochFits(S, f, o)
    BY <1>6, <1>7, <1>8, <2>2, InactiveType DEF EpochFits
  <2>6. S.fiber[f].state # "DISPOSED" /\ S.fiber[f].task # "unload"
    BY <1>2, <1>5, <1>6 DEF States, Loads
  <2>7. Alike(S.fiber[f], o) /\ (o.alive => S.fiber[f].alive)
    BY <1>2, <1>6
  <2> QED BY <2>1, <2>2, <2>3, <2>4, <2>5, <2>6, <2>7, UnloadKeeps
<1>10. CASE o.epoch = o.old
  <2>1. R = UpdateState(S, f, q)
    BY <1>3, <1>10
  <2>2. ~ o.error /\ o.epoch.on /\ o.epoch = g.epoch /\ o.alive /\ g.alive
    BY <1>4, <1>5, <1>6, <1>10, InactiveType DEF States
  <2>3. /\ q \in Objects
        /\ q.made = o.made /\ q.alive = o.alive /\ q.state = "ACTIVE" /\ q.task = "none"
        /\ q.epoch = o.epoch /\ q.deps = o.deps /\ q.store = o.store /\ q.error = o.error
        /\ q.job = o.job /\ q.held = o.held /\ q.cleaning = o.cleaning /\ q.awaits = o.awaits
    BY <2>2 DEF q, StateOf, Objects
  <2>4. States(q)
    BY <2>2, <2>3 DEF States, Loads
  <2>5. Holdings(q)
    BY <1>1, <1>6, <2>3 DEF Local, Holdings, Alike, Loads
  <2>6. Snapshot(f, q)
    <3>1. \A n \in Inject(f) : q.store[n] = q.deps[n]
      <4>1. SUFFICES ASSUME NEW n \in Inject(f)
                     PROVE  o.store[n] = o.deps[n]
        BY <2>3
      <4>2. PICK m \in Nat : <<n, o.store[n], m>> \in o.old.from
        BY <1>1, <1>6 DEF Local, Snapshot, Alike
      <4>3. Wanted(S, f, o).on /\ <<n, o.store[n], m>> \in Wanted(S, f, o).from
        BY <4>2, <1>7, <1>8, <1>10, <2>2
      <4> QED BY <4>3, <1>1, WantedNames
    <3> QED BY <3>1, <2>3 DEF Snapshot, Loads
  <2>7. Follows(S.fiber[f], q) /\ q.deps = S.fiber[f].deps
    BY <1>1, <1>2, <1>5, <1>6, <2>2, <2>3 DEF Follows, Alike, States, Loads
  <2>8. SameDeps(f, o, q)
    BY <2>3 DEF SameDeps
  <2>9. Wanted(S, f, q) = Wanted(S, f, o)
    BY <1>1, <1>6, <2>3, <2>8, WantedSame
  <2>10. EpochFits(S, f, q) /\ EpochWanted(S, f, q)
    BY <2>2, <2>3, <2>9, <1>7, <1>8 DEF EpochFits, EpochWanted
  <2>11. Inv(S, Y) /\ Y \subseteq Y \union {f} /\ Local(f, q)
    BY <1>2, <2>4, <2>5, <2>6 DEF Local
  <2>12. Inv(R, Y) /\ Onward(S, R)
    BY <2>1, <2>3, <2>7, <2>10, <2>11, UpdateKeeps
  <2> QED BY <1>2, <2>12
<1> QED BY <1>9, <1>10

\* _reload's catch unloads the fiber.
LEMMA FailedKeeps ==
    ASSUME scene \in Scenes, NEW f \in Fibers, NEW S, Inv(S, {}), S.fiber[f].task \in Loads,
           NEW R, R = Failed(S, f)
    PROVE  Inv(R, {}) /\ Onward(S, R)
<1> DEFINE g == S.fiber[f]
           o == [g EXCEPT !.error = TRUE, !.epoch = Inactive]
<1>1. g \in Objects /\ Local(f, g) /\ S.fiber[f] = g
  BY DEF Inv, Base, Worlds
<1>2. R = FinishReload(S, f, o)
  BY DEF Failed
<1> HIDE DEF g
<1>3. o \in Objects /\ Alike(g, o) /\ o.alive = g.alive /\ o.epoch = Inactive /\ o.error
      /\ o.old = g.old
  BY <1>1, InactiveType DEF Alike, Objects
<1> HIDE DEF o
<1>4. g.old.on
  BY <1>1 DEF Local, Snapshot
<1>5. o.epoch # o.old
  BY <1>3, <1>4, InactiveType
<1> QED BY <1>1, <1>2, <1>3, <1>5, FinishKeeps

\* The disposer of a fiber: not registered any more, it unloads, or will when
\* what is under way ends.
LEMMA DisposedKeeps ==
    ASSUME scene \in Scenes, NEW f \in Fibers, NEW S, Inv(S, {}), S.fiber[f].alive,
           NEW R, R = Disposed(S, f)
    PROVE  Inv(R, {}) /\ Onward(S, R)
<1> DEFINE g == S.fiber[f]
           p == [g EXCEPT !.alive = FALSE, !.epoch = Inactive]
           o == SetEpoch([g EXCEPT !.alive = FALSE], Inactive)
           Y == {}
<1>1. g \in Objects /\ Local(f, g) /\ S \in Worlds /\ S.fiber[f] = g /\ Y = {} /\ g.alive
  BY DEF Inv, Base, Worlds
<1>2. R = UpdateState(S, f, IF o.task = "none" THEN Unloading(o) ELSE o)
  BY DEF Disposed
<1> HIDE DEF g, Y
<1>3. /\ p \in Objects /\ Alike(g, p) /\ ~ p.alive /\ p.epoch = Inactive /\ p.error = g.error
  BY <1>1, InactiveType DEF Objects, Alike
<1>4. o = IF Inactive = g.epoch \/ g.task # "none" THEN p ELSE Unloading(p)
  <2> DEFINE a == [g EXCEPT !.alive = FALSE]
  <2>1. a.epoch = g.epoch /\ a.task = g.task /\ p = [a EXCEPT !.epoch = Inactive]
    BY <1>1 DEF Objects
  <2> HIDE DEF a, p
  <2>2. SetEpoch(a, Inactive) =
          IF Inactive = g.epoch \/ g.task # "none" THEN p ELSE Unloading(p)
    BY <2>1, InactiveType DEF SetEpoch
  <2> QED BY <2>2 DEF a
<1> HIDE DEF o, p
<1>5. Unloading(p).task = "unload"
  BY <1>3, UnloadingFields
<1>6. R = UpdateState(S, f, IF g.task = "none" THEN Unloading(p) ELSE p)
  BY <1>2, <1>4, <1>5, <1>3 DEF Alike
<1>7. g.state # "DISPOSED"
  BY <1>1 DEF Local, States
<1>8. EpochFits(S, f, p) /\ EpochWanted(S, f, p)
  BY <1>3, InactiveType DEF EpochFits, EpochWanted
<1>9. CASE g.task = "none"
  <2>1. R = UpdateState(S, f, Unloading(p))
    BY <1>6, <1>9
  <2>2. /\ Alike(S.fiber[f], p) /\ (p.alive => S.fiber[f].alive)
        /\ S.fiber[f].state # "DISPOSED" /\ S.fiber[f].task # "unload"
        /\ (p.epoch.on => p.alive) /\ (~ p.epoch.on => p.epoch = Inactive)
        /\ (p.alive /\ ~ p.error => p.epoch = Wanted(S, f, p))
    BY <1>1, <1>3, <1>7, <1>9, InactiveType
  <2> QED BY <2>1, <2>2, <1>3, <1>8, UnloadKeeps
<1>10. CASE g.task # "none"
  <2>1. R = UpdateState(S, f, p)
    BY <1>6, <1>10
  <2>2. States(p) /\ Holdings(p)
    BY <1>1, <1>3, <1>10, InactiveType DEF Local, States, Holdings, Alike, Loads
  <2>3. Snapshot(f, p)
    <3>1. p.task = g.task /\ p.old = g.old /\ p.store = g.store /\ p.state = g.state
          /\ p.deps = g.deps
      BY <1>3 DEF Alike
    <3> QED BY <3>1, <1>1, SceneTypes, Zenon DEF Local, Snapshot
  <2>4. Follows(S.fiber[f], p) /\ p.deps = S.fiber[f].deps
    BY <1>1, <1>3, <1>7 DEF Follows, Alike
  <2>5. Inv(S, Y) /\ Y \subseteq Y \union {f} /\ Local(f, p)
    BY <1>1, <2>2, <2>3 DEF Local
  <2>6. Inv(R, Y) /\ Onward(S, R)
    BY <2>1, <2>4, <2>5, <1>3, <1>8, UpdateKeeps
  <2> QED BY <1>1, <2>6
<1> QED BY <1>9, <1>10

Unloaded(g) == [g EXCEPT !.store = Nothing, !.task = "none"]

\* _unload has ended: loaded again if its services are there, else at rest with
\* nothing held.
LEMMA UnloadEndsKeeps ==
    ASSUME scene \in Scenes, NEW f \in Fibers, NEW S, Inv(S, {}),
           S.fiber[f].task = "unload", S.fiber[f].cleaning = {},
           NEW o, o = Unloaded(S.fiber[f]),
           NEW R, R = UpdateState(S, f, IF o.epoch.on THEN Loading(o)
                                                      ELSE [o EXCEPT !.state = StateOf(o)])
    PROVE  Inv(R, {}) /\ Onward(S, R)
<1> DEFINE g == S.fiber[f]
           q == IF o.epoch.on THEN Loading(o) ELSE [o EXCEPT !.state = StateOf(o)]
           Y == {}
<1>1. g \in Objects /\ Local(f, g) /\ S \in Worlds /\ S.fiber[f] = g /\ Y = {}
      /\ g.task = "unload" /\ g.cleaning = {}
      /\ EpochFits(S, f, g) /\ EpochWanted(S, f, g)
  BY DEF Inv, Base, Worlds, Linked
<1>2. R = UpdateState(S, f, q)
  OBVIOUS
<1> HIDE DEF g, Y
<1>3. /\ o \in Objects
      /\ o.made = g.made /\ o.alive = g.alive /\ o.state = g.state /\ o.task = "none"
      /\ o.epoch = g.epoch /\ o.deps = g.deps /\ o.store = Nothing /\ o.error = g.error
      /\ o.job = g.job /\ o.held = g.held /\ o.cleaning = g.cleaning /\ o.awaits = g.awaits
  BY <1>1, NothingType DEF Objects, Unloaded
<1>4. g.held = {} /\ g.job = "none" /\ g.state # "DISPOSED" /\ g.state # "ACTIVE"
  BY <1>1 DEF Local, Holdings, States
<1>5. /\ q \in Objects
      /\ q.made = g.made /\ q.alive = g.alive
      /\ q.epoch = g.epoch /\ q.deps = g.deps /\ q.error = g.error
      /\ q.job = g.job /\ q.held = {} /\ q.cleaning = {} /\ q.awaits = g.awaits
      /\ q.epoch.on => q.state = "LOADING" /\ q.task = "checkpoint" /\ q.old = q.epoch
                       /\ q.store = q.deps
      /\ ~ q.epoch.on => q.task = "none" /\ q.store = Nothing
                         /\ q.state = IF ~ q.alive THEN "DISPOSED"
                                      ELSE IF q.error THEN "FAILED" ELSE "PENDING"
  <2>1. CASE o.epoch.on
    <3>1. q = Loading(o)
      BY <2>1
    <3> HIDE DEF q
    <3> QED BY <1>1, <1>3, <1>4, <2>1, <3>1, LoadingFields
  <2>2. CASE ~ o.epoch.on
    <3>1. q = [o EXCEPT !.state = StateOf(o)]
      BY <2>2
    <3>2. StateOf(o) = IF ~ o.alive THEN "DISPOSED" ELSE IF o.error THEN "FAILED" ELSE "PENDING"
      BY <2>2 DEF StateOf
    <3> DEFINE s == StateOf(o)
    <3>3. s \in {"FAILED", "DISPOSED", "PENDING"}
      BY <3>2
    <3> HIDE DEF s
    <3>4. q = [o EXCEPT !.state = s]
      BY <3>1 DEF s
    <3> HIDE DEF q
    <3>5. /\ q \in Objects /\ q.state = s
          /\ q.made = g.made /\ q.alive = g.alive /\ q.task = "none" /\ q.store = Nothing
          /\ q.epoch = g.epoch /\ q.deps = g.deps /\ q.error = g.error
          /\ q.job = g.job /\ q.held = g.held /\ q.cleaning = g.cleaning /\ q.awaits = g.awaits
      BY <1>3, <3>3, <3>4 DEF Objects
    <3> QED BY <1>1, <1>3, <1>4, <2>2, <3>2, <3>5 DEF s
  <2> QED BY <2>1, <2>2
<1> HIDE DEF q
<1>6. States(q)
  BY <1>1, <1>5 DEF States, Local, Loads
<1>7. Holdings(q)
  BY <1>4, <1>5 DEF Holdings
<1>8. SameDeps(f, g, q) /\ SameMade(S, S)
  BY <1>5 DEF SameDeps, SameMade
<1>9. Wanted(S, f, q) = Wanted(S, f, g)
  BY <1>1, <1>5, <1>8, WantedSame
<1>10. EpochFits(S, f, q)
  BY <1>1, <1>5, <1>9 DEF EpochFits
<1>11. EpochWanted(S, f, q)
  BY <1>1, <1>5, <1>9, <1>10 DEF EpochWanted, EpochFits, Loads
<1>12. Snapshot(f, q)
  <2>1. q.epoch.on => \A n \in Inject(f) : \E m \in Nat : <<n, q.deps[n], m>> \in q.epoch.from
    BY <1>1, <1>5, <1>10, WantedType DEF EpochFits
  <2> QED BY <2>1, <1>5 DEF Snapshot, Loads
<1>13. Follows(S.fiber[f], q) /\ q.deps = S.fiber[f].deps
  <2>1. \A n \in Names : Nothing[n] = None
    BY DEF Nothing
  <2> QED BY <2>1, <1>1, <1>4, <1>5 DEF Follows
<1>14. Inv(S, Y) /\ Y \subseteq Y \union {f} /\ Local(f, q)
  BY <1>1, <1>6, <1>7, <1>12 DEF Local
<1>15. Inv(R, Y) /\ Onward(S, R)
  BY <1>2, <1>5, <1>10, <1>11, <1>13, <1>14, UpdateKeeps
<1> QED BY <1>1, <1>15

-----------------------------------------------------------------------------
(* A new Fiber object                                                      *)

\* An epoch does not see an object nobody is served by.
LEMMA WantedElse ==
    ASSUME scene \in Scenes, NEW S \in Worlds, NEW R \in Worlds, NEW f \in Fibers,
           SameBut(S, R, f), NEW d \in Fibers, NEW o \in Objects,
           \A n \in Inject(d) : o.deps[n] # f
    PROVE  Wanted(R, d, o) = Wanted(S, d, o)
<1>1. Inject(d) \subseteq Names
  BY SceneTypes
<1>2. CASE \E n \in Inject(d) : o.deps[n] = None
  BY <1>2 DEF Wanted
<1>3. CASE ~ \E n \in Inject(d) : o.deps[n] = None
  <2>1. \A n \in Inject(d) : o.deps[n] \in Fibers \ {f}
    BY <1>1, <1>3 DEF Objects
  <2>2. {<<n, o.deps[n], R.fiber[o.deps[n]].made>> : n \in Inject(d)}
          = {<<n, o.deps[n], S.fiber[o.deps[n]].made>> : n \in Inject(d)}
    BY <2>1 DEF SameBut
  <2> QED BY <1>3, <2>2 DEF Wanted
<1> QED BY <1>2, <1>3

\* new Fiber(): well formed, holding nothing and waiting for nothing.
LEMMA NewObject ==
    ASSUME scene \in Scenes, NEW f \in Fibers, NEW n \in Nat, NEW F, F = Fiber(n)
    PROVE  /\ F \in Objects /\ Local(f, F)
           /\ F.made = n /\ F.alive /\ F.state = "PENDING" /\ F.task = "none"
           /\ F.held = {} /\ F.cleaning = {} /\ F.store = Nothing
<1>1. /\ F \in Objects
      /\ F.made = n /\ F.alive /\ F.state = "PENDING" /\ F.task = "none" /\ F.epoch = Inactive
      /\ ~ F.error /\ F.job = "none"
      /\ F.held = {} /\ F.cleaning = {} /\ F.store = Nothing
  BY NothingType, InactiveType DEF Fiber, Objects
<1>2. States(F) /\ Holdings(F) /\ Snapshot(f, F)
  BY <1>1, InactiveType DEF States, Holdings, Snapshot, Loads
<1> QED BY <1>1, <1>2 DEF Local

\* A fiber that is gone is plugged again: nobody knew of it, and it knows the
\* services that active fibers provide.
LEMMA ConstructedKeeps ==
    ASSUME scene \in Scenes, NEW f \in Fibers, NEW S, Inv(S, {}),
           S.fiber[f].state = "DISPOSED",
           Parent(f) \in Fibers => Parent(f) # f /\ f \in S.fiber[Parent(f)].held,
           NEW R, R = Constructed(S, f)
    PROVE  Inv(R, {}) /\ Onward(S, R)
<1> DEFINE g == S.fiber[f]
           F == Fiber(g.made + 1)
           T == Put(S, f, F)
           up == ActiveFibers(T)
           o == Refreshed(T, f, Names, up)
           q == IF Inject(f) = {} THEN SetEpoch(o, Wanted(T, f, o)) ELSE o
<1>1. g \in Objects /\ Local(f, g) /\ S \in Worlds /\ S.fiber[f] = g /\ g.made + 1 \in Nat
  BY DEF Inv, Base, Worlds, Objects
<1>2. /\ F \in Objects /\ Local(f, F)
      /\ F.made = g.made + 1 /\ F.alive /\ F.state = "PENDING" /\ F.task = "none"
      /\ F.held = {} /\ F.cleaning = {} /\ F.store = Nothing
  BY <1>1, NewObject
<1>3. g.held = {} /\ g.cleaning = {} /\ g.state = "DISPOSED"
  BY <1>1 DEF Local, Holdings, States
<1>4. R = Put(T, f, q)
  BY DEF Constructed, Put, ActiveFibers
<1> HIDE DEF g, F
<1>5. T \in Worlds /\ T.fiber[f] = F /\ SameBut(S, T, f)
  BY <1>1, <1>2 DEF Worlds, Put, SameBut
<1> HIDE DEF T
<1>6. up = ActiveFibers(S) /\ up \in SUBSET Fibers /\ up = ActiveFibers(T)
  BY <1>1, <1>2, <1>3, <1>5 DEF ActiveFibers, SameBut
<1> HIDE DEF up
<1>7. Inject(f) \subseteq Names /\ Inject(f) \intersect Names = Inject(f)
  BY SceneTypes
<1>8. /\ o \in Objects /\ Local(f, o) /\ Follows(F, o) /\ o.alive
      /\ DepsAre(T, f, Names, up, o) /\ o.state # "ACTIVE"
      /\ Inject(f) # {} => o.epoch = Wanted(T, f, o)
  <2> DEFINE all == Names
  <2>1. all \in SUBSET Names /\ all = Names /\ o = Refreshed(T, f, all, up)
    OBVIOUS
  <2> HIDE DEF o, all
  <2> QED BY <2>1, <1>2, <1>5, <1>6, <1>7, RefreshedKeeps
<1> HIDE DEF o
<1>9. /\ q \in Objects /\ Local(f, q) /\ Follows(F, q) /\ q.alive /\ q.deps = o.deps
      /\ q.state # "ACTIVE" /\ q.epoch = Wanted(T, f, q)
  <2>1. CASE Inject(f) # {}
    BY <1>8, <2>1
  <2>2. CASE Inject(f) = {}
    <3> DEFINE D == o.deps
               e == Wanted(T, f, o)
    <3>1. [o EXCEPT !.deps = D] = o
      <4>1. D = o.deps
        OBVIOUS
      <4> HIDE DEF D
      <4> QED BY <1>8, <4>1 DEF Objects
    <3>2. q = SetEpoch([o EXCEPT !.deps = D], e)
      BY <2>2, <3>1
    <3>3. D \in [Names -> Fibers \union {None}] /\ D = o.deps /\ e = Wanted(T, f, o)
      BY <1>8 DEF Objects
    <3> HIDE DEF D, e, q
    <3>4. e \in Epochs /\ (~ e.on => e = Inactive)
      BY <1>5, <1>8, <3>3, WantedType
    <3>5. Offers(f, o, D, e)
      BY <1>8, <2>2, <3>4 DEF Offers
    <3>6. /\ q \in Objects /\ Local(f, q) /\ Follows(o, q)
          /\ q.epoch = e /\ q.deps = D /\ q.alive = o.alive
          /\ q.state = "ACTIVE" <=> o.state = "ACTIVE" /\ e = o.epoch
      <4>1. o \in Objects /\ Local(f, o)
        BY <1>8
      <4> QED BY <4>1, <3>2, <3>3, <3>5, SetEpochKeeps
    <3>7. Follows(F, q)
      BY <1>8, <3>3, <3>6 DEF Follows
    <3>8. SameDeps(f, o, q) /\ SameMade(T, T)
      BY <3>3, <3>6 DEF SameDeps, SameMade
    <3>9. Wanted(T, f, q) = Wanted(T, f, o)
      BY <3>6, <3>8, <1>5, <1>8, WantedSame
    <3> QED BY <1>8, <3>3, <3>6, <3>7, <3>9
  <2> QED BY <2>1, <2>2
<1> HIDE DEF q
<1>10. /\ R.fiber[f] = q /\ R.services = S.services
       /\ \A d \in Fibers \ {f} : R.fiber[d] = S.fiber[d]
       /\ R \in Worlds /\ SameBut(S, R, f)
  BY <1>4, <1>5, <1>9 DEF Worlds, Put, SameBut
<1>11. q.held = {} /\ q.cleaning = {} /\ q.made = F.made
  BY <1>2, <1>9 DEF Follows
<1>12. ActiveFibers(R) = ActiveFibers(S) /\ f \notin ActiveFibers(S)
  BY <1>1, <1>3, <1>9, <1>10 DEF ActiveFibers
<1>13. \A n \in Inject(f) :
         q.deps[n] = IF S.services[n] \in ActiveFibers(S) THEN S.services[n] ELSE None
  BY <1>5, <1>6, <1>7, <1>8, <1>9 DEF DepsAre, SameBut
<1>14. CurrentBut(R, {})
  BY <1>10, <1>12, <1>13 DEF CurrentBut, Inv
<1>15. \A d \in Fibers : Local(d, R.fiber[d])
  BY <1>9, <1>10 DEF Inv, Base
<1>16. Registered(R)
  <2>1. \A n \in Names : S.services[n] # f
    BY <1>1, <1>3 DEF Inv, Base, Registered
  <2> QED BY <2>1, <1>10, <1>11 DEF Inv, Base, Registered
<1>17. Children(R)
  <2>1. SUFFICES ASSUME NEW c \in Fibers, Parent(c) \in Fibers, R.fiber[c].state # "DISPOSED"
                 PROVE  c \in R.fiber[Parent(c)].held \union R.fiber[Parent(c)].cleaning
    BY DEF Children
  <2>2. CASE c = f
    BY <2>1, <2>2, <1>10
  <2>3. CASE c # f
    <3>1. c \in S.fiber[Parent(c)].held \union S.fiber[Parent(c)].cleaning
      BY <2>1, <2>3, <1>10 DEF Inv, Base, Children
    <3>2. Parent(c) # f
      BY <3>1, <1>1, <1>3
    <3> QED BY <3>1, <3>2, <2>1, <1>10
  <2> QED BY <2>2, <2>3
<1>18. WaitedFor(R)
  <2>1. SUFFICES ASSUME NEW h \in Fibers, NEW d \in Fibers, NEW n \in Names,
                        n \in R.fiber[h].cleaning, R.services[n] # h,
                        R.fiber[d].alive, n \in Inject(d), R.fiber[d].store[n] = h
                 PROVE  <<n, d, R.fiber[d].made>> \in R.fiber[h].awaits
    BY DEF WaitedFor
  <2>2. h # f
    BY <2>1, <1>10, <1>11
  <2>3. d # f
    <3>1. SUFFICES ASSUME d = f
                   PROVE  FALSE
      OBVIOUS
    <3>2. q.store[n] \in {None, q.deps[n]}
      BY <1>2, <1>9 DEF Follows, Nothing
    <3>3. h # None
      BY FibersAssumption
    <3> QED BY <2>1, <3>1, <3>2, <3>3, <1>10, <1>13
  <2> QED BY <2>1, <2>2, <2>3, <1>10 DEF Inv, Base, WaitedFor
<1>19. Linked(R, {})
  <2>1. SUFFICES ASSUME NEW d \in Fibers
                 PROVE  EpochFits(R, d, R.fiber[d]) /\ EpochWanted(R, d, R.fiber[d])
    BY DEF Linked
  <2>2. CASE d = f
    <3>1. SameMade(T, R) /\ SameDeps(f, q, q)
      BY <1>5, <1>10, <1>11 DEF SameMade, SameDeps, SameBut
    <3>2. Wanted(R, f, q) = Wanted(T, f, q)
      BY <3>1, <1>5, <1>9, <1>10, WantedSame
    <3> QED BY <2>2, <3>2, <1>9, <1>10 DEF EpochFits, EpochWanted
  <2>3. CASE d # f
    <3> DEFINE p == S.fiber[d]
    <3>1. p = S.fiber[d] /\ R.fiber[d] = p /\ p \in Objects /\ States(p)
          /\ EpochFits(S, d, p) /\ EpochWanted(S, d, p)
      BY <2>3, <1>1, <1>10 DEF Worlds, Inv, Base, Local, Linked
    <3> HIDE DEF p
    <3>2. p.alive => \A n \in Inject(d) : p.deps[n] # f
      <4>1. f # None /\ Inject(d) \subseteq Names
        BY FibersAssumption, SceneTypes
      <4> QED BY <4>1, <3>1, <1>12 DEF Inv, CurrentBut
    <3>3. p.alive => Wanted(R, d, p) = Wanted(S, d, p)
      BY <3>1, <3>2, <1>1, <1>10, WantedElse
    <3> QED BY <3>1, <3>3 DEF EpochFits, EpochWanted, States
  <2> QED BY <2>2, <2>3
<1>20. Onward(S, R)
  BY <1>1, <1>3, <1>10 DEF Onward
<1> QED BY <1>10, <1>14, <1>15, <1>16, <1>17, <1>18, <1>19, <1>20 DEF Inv, Base

-----------------------------------------------------------------------------
(* What a fiber does with what it holds                                    *)

\* o differs from g in what it holds, waits for and has done.
KeptFiber(g, o) ==
    /\ o.made = g.made /\ o.alive = g.alive /\ o.state = g.state
    /\ o.epoch = g.epoch /\ o.error = g.error /\ o.deps = g.deps /\ o.store = g.store
    /\ o.task \in Loads <=> g.task \in Loads

\* f becomes o, and the store of services srv.
Own(S, srv, f, o) == [fiber |-> [S.fiber EXCEPT ![f] = o], services |-> srv]

\* o holds what is registered for f, and waits for who is loaded with it.
HoldsStill(S, srv, f, o) ==
    /\ \A n \in Names : srv[n] = f => n \in o.held \union o.cleaning
    /\ \A n \in Names : n \in o.held => srv[n] = f
    /\ \A c \in Fibers :
         Parent(c) = f /\ S.fiber[c].state # "DISPOSED" => c \in o.held \union o.cleaning
    /\ \A n \in Names, d \in Fibers :
         /\ n \in o.cleaning /\ srv[n] # f
         /\ S.fiber[d].alive /\ n \in Inject(d) /\ S.fiber[d].store[n] = f
         => <<n, d, S.fiber[d].made>> \in o.awaits

\* Only services of f come and go, and only while it is not active.
OnlyOwn(S, srv, f) ==
    /\ srv \in [Names -> Fibers \union {None}]
    /\ \A n \in Names :
         \/ srv[n] = S.services[n]
         \/ f \notin ActiveFibers(S) /\ srv[n] \in {f, None} /\ S.services[n] \in {f, None}

\* A callback's acts, releases and withdrawals touch nobody else.
LEMMA OwnKeeps ==
    ASSUME scene \in Scenes, NEW f \in Fibers, NEW S, Inv(S, {}), NEW srv, OnlyOwn(S, srv, f),
           NEW o \in Objects, Local(f, o), KeptFiber(S.fiber[f], o), HoldsStill(S, srv, f, o),
           NEW R, R = Own(S, srv, f, o)
    PROVE  Inv(R, {})
<1>1. /\ R \in Worlds /\ R.fiber[f] = o /\ R.services = srv /\ S \in Worlds
      /\ \A d \in Fibers \ {f} : R.fiber[d] = S.fiber[d]
  BY DEF Own, Worlds, Inv, Base, OnlyOwn
<1>2. ActiveFibers(R) = ActiveFibers(S)
  BY <1>1 DEF ActiveFibers, KeptFiber
<1>3. \A d \in Fibers : KeptFiber(S.fiber[d], R.fiber[d]) /\ Local(d, R.fiber[d])
  BY <1>1 DEF KeptFiber, Inv, Base
<1>4. None \notin Fibers /\ None \notin ActiveFibers(S)
  BY FibersAssumption DEF ActiveFibers
<1>5. \A n \in Names : srv[n] = S.services[n]
                       \/ (srv[n] \notin ActiveFibers(S) /\ S.services[n] \notin ActiveFibers(S))
  BY <1>4 DEF OnlyOwn
<1>6. \A n \in Names, h \in Fibers \ {f} : srv[n] = h <=> S.services[n] = h
  BY <1>4 DEF OnlyOwn
<1>7. CurrentBut(R, {})
  <2>1. SUFFICES ASSUME NEW d \in Fibers, NEW n \in Names, R.fiber[d].alive, n \in Inject(d)
                 PROVE  R.fiber[d].deps[n] = IF srv[n] \in ActiveFibers(S) THEN srv[n] ELSE None
    BY <1>1, <1>2 DEF CurrentBut
  <2>2. S.fiber[d].deps[n] = IF S.services[n] \in ActiveFibers(S) THEN S.services[n] ELSE None
    BY <2>1, <1>3 DEF CurrentBut, Inv, KeptFiber
  <2> QED BY <2>2, <1>3, <1>5 DEF KeptFiber
<1>8. SameMade(S, R)
  BY <1>3 DEF SameMade, KeptFiber
<1>9. Linked(R, {})
  <2>1. SUFFICES ASSUME NEW d \in Fibers
                 PROVE  EpochFits(R, d, R.fiber[d]) /\ EpochWanted(R, d, R.fiber[d])
    BY DEF Linked
  <2>2. EpochFits(S, d, S.fiber[d]) /\ EpochWanted(S, d, S.fiber[d])
    BY DEF Inv, Linked
  <2>3. KeptFiber(S.fiber[d], R.fiber[d]) /\ R.fiber[d] \in Objects /\ S.fiber[d] \in Objects
    BY <1>1, <1>3 DEF Worlds
  <2>4. SameDeps(d, S.fiber[d], R.fiber[d])
    BY <2>3 DEF SameDeps, KeptFiber
  <2>5. Wanted(R, d, R.fiber[d]) = Wanted(S, d, S.fiber[d])
    BY <2>3, <2>4, <1>1, <1>8, WantedSame
  <2> QED BY <2>2, <2>3, <2>5 DEF EpochFits, EpochWanted, KeptFiber
<1>10. Registered(R)
  <2>1. SUFFICES ASSUME NEW h \in Fibers, NEW n \in Names
                 PROVE  /\ srv[n] = h => n \in R.fiber[h].held \union R.fiber[h].cleaning
                        /\ n \in R.fiber[h].held => srv[n] = h
    BY <1>1 DEF Registered
  <2>2. CASE h = f
    BY <2>2, <1>1 DEF HoldsStill
  <2>3. CASE h # f
    BY <2>3, <1>1, <1>6 DEF Inv, Base, Registered
  <2> QED BY <2>2, <2>3
<1>11. Children(R)
  <2>1. SUFFICES ASSUME NEW c \in Fibers, Parent(c) \in Fibers, R.fiber[c].state # "DISPOSED"
                 PROVE  c \in R.fiber[Parent(c)].held \union R.fiber[Parent(c)].cleaning
    BY DEF Children
  <2>2. S.fiber[c].state # "DISPOSED"
    BY <2>1, <1>3 DEF KeptFiber
  <2>3. CASE Parent(c) = f
    BY <2>2, <2>3, <1>1 DEF HoldsStill
  <2>4. CASE Parent(c) # f
    BY <2>1, <2>2, <2>4, <1>1 DEF Inv, Base, Children
  <2> QED BY <2>3, <2>4
<1>12. WaitedFor(R)
  <2>1. SUFFICES ASSUME NEW h \in Fibers, NEW d \in Fibers, NEW n \in Names,
                        n \in R.fiber[h].cleaning, srv[n] # h,
                        R.fiber[d].alive, n \in Inject(d), R.fiber[d].store[n] = h
                 PROVE  <<n, d, R.fiber[d].made>> \in R.fiber[h].awaits
    BY <1>1 DEF WaitedFor
  <2>2. S.fiber[d].alive /\ S.fiber[d].store[n] = h /\ S.fiber[d].made = R.fiber[d].made
    BY <2>1, <1>3 DEF KeptFiber
  <2>3. CASE h = f
    BY <2>1, <2>2, <2>3, <1>1 DEF HoldsStill
  <2>4. CASE h # f
    BY <2>1, <2>2, <2>4, <1>1, <1>6 DEF Inv, Base, WaitedFor
  <2> QED BY <2>3, <2>4
<1> QED BY <1>1, <1>3, <1>7, <1>9, <1>10, <1>11, <1>12 DEF Inv, Base

\* HoldsStill, for a fiber whose holdings do not change.
LEMMA SameHoldings ==
    ASSUME NEW f \in Fibers, NEW S, Inv(S, {}), NEW o,
           o.held = S.fiber[f].held, o.cleaning = S.fiber[f].cleaning,
           o.awaits = S.fiber[f].awaits
    PROVE  HoldsStill(S, S.services, f, o) /\ OnlyOwn(S, S.services, f)
BY DEF Inv, Base, Registered, Children, WaitedFor, HoldsStill, OnlyOwn, Worlds

-----------------------------------------------------------------------------
(* Steps                                                                   *)

\* The step of ProvidersOutliveUsers.
Outlives ==
    \A f \in Fibers, n \in Names :
        n \in fiber[f].cleaning /\ n \notin fiber'[f].cleaning =>
            \A d \in Fibers : n \in Inject(d) /\ fiber[d].alive => fiber[d].store[n] # f

\* The invariant is about the objects and the services alone.
LEMMA Landed ==
    ASSUME IInv, NEW R, Inv(R, {}), fiber' = R.fiber, services' = R.services, scene' = scene
    PROVE  IInv'
<1>1. R \in Worlds
  BY DEF Inv, Base
<1>2. R = [fiber |-> R.fiber, services |-> R.services]
  BY <1>1 DEF Worlds
<1>3. Now' = R
  BY <1>2 DEF Now
<1>4. \A d \in Fibers : Local(d, R.fiber[d])'
  BY DEF Inv, Base, Local, Snapshot, States, Holdings, Inject
<1>5. Registered(R)' /\ Children(R)' /\ WaitedFor(R)'
  BY DEF Inv, Base, Registered, Children, WaitedFor, Inject, Parent
<1>6. CurrentBut(R, {})'
  BY DEF Inv, CurrentBut, Inject, ActiveFibers
<1>7. Linked(R, {})'
  <2>1. \A d \in Fibers : Inject(d)' = Inject(d)
    BY DEF Inject
  <2>2. \A d \in Fibers : Wanted(R, d, R.fiber[d])' = Wanted(R, d, R.fiber[d])
    BY <2>1 DEF Wanted
  <2> QED BY <2>2 DEF Inv, Linked, EpochFits, EpochWanted
<1> QED BY <1>1, <1>3, <1>4, <1>5, <1>6, <1>7 DEF IInv, Inv, Base

\* A step that loses nothing anybody cleans up.
LEMMA Lands ==
    ASSUME IInv, NEW R, Inv(R, {}), Onward(Now, R), Becomes(R), scene' = scene
    PROVE  IInv' /\ Outlives
<1>1. fiber' = R.fiber /\ services' = R.services
  BY DEF Becomes
<1>2. IInv'
  BY <1>1, Landed
<1>3. Outlives
  BY <1>1 DEF Outlives, Onward, Now
<1> QED BY <1>2, <1>3

\* The state of the program, as the operators on objects see it.
LEMMA HereTypes ==
    ASSUME IInv
    PROVE  /\ scene \in Scenes /\ Inv(Now, {}) /\ Now \in Worlds
           /\ Now.fiber = fiber /\ Now.services = services
           /\ fiber \in [Fibers -> Objects] /\ services \in [Names -> Fibers \union {None}]
           /\ \A f \in Fibers : fiber[f] \in Objects /\ Local(f, fiber[f])
BY DEF IInv, Inv, Base, Now, Worlds

\* A fiber that changes only what it holds, waits for or has done.
LEMMA OwnLands ==
    ASSUME IInv, NEW f \in Fibers, NEW srv, OnlyOwn(Now, srv, f),
           NEW o \in Objects, Local(f, o), KeptFiber(fiber[f], o), HoldsStill(Now, srv, f, o),
           fiber' = [fiber EXCEPT ![f] = o], services' = srv, scene' = scene
    PROVE  /\ IInv' /\ Inv(Own(Now, srv, f, o), {})
           /\ fiber[f].cleaning \intersect Names \subseteq o.cleaning => Outlives
<1> DEFINE R == Own(Now, srv, f, o)
<1>1. Inv(R, {})
  <2>1. R = Own(Now, srv, f, o) /\ Now.fiber[f] = fiber[f]
    BY DEF Now
  <2> HIDE DEF R
  <2> QED BY <2>1, HereTypes, OwnKeeps
<1>2. R.fiber = fiber' /\ R.services = services'
  BY DEF Own, Now
<1> HIDE DEF R
<1>3. IInv'
  BY <1>1, <1>2, Landed
<1>4. ASSUME fiber[f].cleaning \intersect Names \subseteq o.cleaning
      PROVE  Outlives
  BY <1>4, HereTypes DEF Outlives
<1> QED BY <1>1, <1>3, <1>4 DEF R

\* What the act of a running callback is.
LEMMA CallTypes ==
    ASSUME IInv, NEW f \in Fibers, NEW act, Calls(f, act)
    PROVE  /\ fiber[f].task = "executing" /\ fiber[f].state = "LOADING"
           /\ fiber[f].cleaning = {} /\ f \notin ActiveFibers(Now)
           /\ act \in Fibers => Parent(act) = f
<1>1. fiber[f].task = "executing" /\ fiber[f].state = "LOADING" /\ fiber[f].cleaning = {}
  BY HereTypes DEF Calls, Local, States, Holdings, Loads
<1>2. f \notin ActiveFibers(Now)
  BY <1>1 DEF ActiveFibers, Now
<1>3. scene.acts[f] \in Seq(Things) /\ fiber[f].step \in Nat
  BY HereTypes, ScenesAssumption DEF Objects, Things
<1>4. act = scene.acts[f][fiber[f].step + 1] /\ fiber[f].step + 1 \in 1..Len(scene.acts[f])
  BY <1>3 DEF Calls, Acts
<1>5. act \in Fibers => Parent(act) = f
  BY <1>4, HereTypes, ScenesAssumption DEF Parent
<1> QED BY <1>1, <1>2, <1>5

\* _reload goes from its checkpoint to the callback.
LEMMA CheckpointKeeps ==
    ASSUME IInv, NEW f \in Fibers, Checkpoint(f)
    PROVE  IInv' /\ Outlives
<1> DEFINE g == fiber[f]
           o == [g EXCEPT !.task = "executing", !.step = 0]
<1>1. /\ g \in Objects /\ Local(f, g) /\ g.task = "checkpoint" /\ scene' = scene
      /\ Now.fiber[f] = g /\ scene \in Scenes /\ Inv(Now, {}) /\ Now.fiber[f].task \in Loads
  BY HereTypes DEF Checkpoint, Loads
<1>2. CASE g.epoch # g.old
  <2> DEFINE R == FinishReload(Now, f, g)
  <2>1. Becomes(R) /\ R = FinishReload(Now, f, g)
    BY <1>2 DEF Checkpoint
  <2> HIDE DEF R, g
  <2>2. Alike(Now.fiber[f], g) /\ g.alive = Now.fiber[f].alive /\ g.epoch = Now.fiber[f].epoch
    BY <1>1 DEF Alike
  <2>3. Inv(R, {}) /\ Onward(Now, R)
    BY <2>1, <2>2, <1>1, <1>2, FinishKeeps
  <2> QED BY <2>1, <2>3, <1>1, Lands
<1>3. CASE g.epoch = g.old /\ g.raw = "bad"
  <2> DEFINE R == Failed(Now, f)
  <2>1. Becomes(R) /\ R = Failed(Now, f)
    BY <1>3 DEF Checkpoint
  <2> HIDE DEF R, g
  <2>2. Inv(R, {}) /\ Onward(Now, R)
    BY <2>1, <1>1, FailedKeeps
  <2> QED BY <2>1, <2>2, <1>1, Lands
<1>4. CASE g.epoch = g.old /\ g.raw # "bad"
  <2>1. fiber' = [fiber EXCEPT ![f] = o] /\ services' = services
    <3> DEFINE R == [Now EXCEPT !.fiber[f].task = "executing", !.fiber[f].step = 0]
    <3>1. Becomes(R)
      BY <1>4 DEF Checkpoint
    <3>2. R.fiber = [fiber EXCEPT ![f] = o]
      BY HereTypes DEF Now
    <3>3. R.services = services
      BY DEF Now
    <3> QED BY <3>1, <3>2, <3>3 DEF Becomes
  <2> HIDE DEF g
  <2>2. /\ o \in Objects /\ o.task = "executing"
        /\ o.made = g.made /\ o.alive = g.alive /\ o.state = g.state /\ o.epoch = g.epoch
        /\ o.old = g.old /\ o.deps = g.deps /\ o.store = g.store /\ o.error = g.error
        /\ o.job = g.job /\ o.held = g.held /\ o.cleaning = g.cleaning /\ o.awaits = g.awaits
    BY <1>1, ZenonT(60) DEF Objects
  <2> HIDE DEF o
  <2>3. States(o) /\ Holdings(o)
    BY <1>1, <2>2 DEF Local, States, Holdings, Loads
  <2>4. Snapshot(f, o)
    <3>1. o.state = "LOADING" /\ g.task \in Loads
      BY <1>1, <2>2 DEF Local, States, Loads
    <3>2. g.old.on /\ \A n \in Inject(f) : \E m \in Nat : <<n, g.store[n], m>> \in g.old.from
      BY <1>1, <3>1 DEF Local, Snapshot
    <3> QED BY <3>1, <3>2, <2>2 DEF Snapshot
  <2>5. KeptFiber(fiber[f], o)
    BY <1>1, <2>2 DEF KeptFiber, Loads, g
  <2>6. HoldsStill(Now, services, f, o) /\ OnlyOwn(Now, services, f)
    BY <1>1, <2>2, SameHoldings, HereTypes
  <2>7. fiber[f].cleaning \intersect Names \subseteq o.cleaning
    BY <2>2 DEF g
  <2> QED BY <2>1, <2>2, <2>3, <2>4, <2>5, <2>6, <2>7, <1>1, OwnLands DEF Local
<1> QED BY <1>2, <1>3, <1>4

\* Setting one component of a record [fiber, services].
LEMMA WithFiber ==
    ASSUME NEW F, NEW srv, NEW S, S = [fiber |-> F, services |-> srv], NEW G
    PROVE  [S EXCEPT !.fiber = G] = [fiber |-> G, services |-> srv]
OBVIOUS

\* The same for the other component.
LEMMA WithServices ==
    ASSUME NEW F, NEW srv, NEW S, S = [fiber |-> F, services |-> srv], NEW s
    PROVE  [S EXCEPT !.services = s] = [fiber |-> F, services |-> s]
OBVIOUS

\* A callback registers x; the effect's set-up begins when x is the effect.
Grab(g, x, job) == [g EXCEPT !.held = @ \union {x}, !.step = @ + 1, !.job = job]

\* Holding writes the two fields of the object, and nothing else.
LEMMA HoldingIs ==
    ASSUME NEW f \in Fibers, NEW F \in [Fibers -> Objects], NEW srv, NEW x,
           NEW S, S = [fiber |-> F, services |-> srv]
    PROVE  Holding(S, f, x) = [fiber |-> [F EXCEPT ![f] = Grab(F[f], x, F[f].job)], services |-> srv]
<1> DEFINE p == F[f]
           p1 == [p EXCEPT !.held = @ \union {x}]
           p2 == [p1 EXCEPT !.step = @ + 1]
           F1 == [F EXCEPT ![f] = p1]
           F2 == [F EXCEPT ![f] = p2]
           S1 == [S EXCEPT !.fiber = F1]
           S2 == [S1 EXCEPT !.fiber = [F1 EXCEPT ![f] = p2]]
<1>1. S1 = [fiber |-> F1, services |-> srv]
  <2> HIDE DEF F1
  <2> QED BY WithFiber
<1>2. [F1 EXCEPT ![f] = p2] = F2 /\ F1[f] = p1
  <2> HIDE DEF p1, p2
  <2> QED OBVIOUS
<1>3. S2 = [fiber |-> F2, services |-> srv]
  <2>1. S2 = [S1 EXCEPT !.fiber = F2]
    BY <1>2
  <2> HIDE DEF F1, F2, S1, S2
  <2> QED BY <1>1, <2>1, WithFiber
<1>4. Holding(S, f, x) = S2
  <2>1. S.fiber = F /\ S1.fiber = F1
    BY <1>1
  <2> QED BY <2>1, <1>2 DEF Holding
<1>5. p2 = Grab(p, x, p.job)
  <2>1. p \in Objects
    OBVIOUS
  <2> HIDE DEF p
  <2> QED BY <2>1 DEF Grab, Objects
<1> QED BY <1>3, <1>4, <1>5

\* What a callback registers it holds, and nothing else changes.
LEMMA GrabFields ==
    ASSUME NEW f \in Fibers, NEW g \in Objects, Local(f, g), g.task = "executing",
           NEW x \in Things, NEW job, job = g.job \/ (job = "setup" /\ x = "effect"),
           NEW o, o = Grab(g, x, job)
    PROVE  /\ o \in Objects /\ Local(f, o) /\ KeptFiber(g, o)
           /\ o.held = g.held \union {x} /\ o.cleaning = {} /\ o.awaits = g.awaits
<1>1. /\ o \in Objects
      /\ o.made = g.made /\ o.alive = g.alive /\ o.state = g.state /\ o.task = g.task
      /\ o.epoch = g.epoch /\ o.old = g.old /\ o.deps = g.deps /\ o.store = g.store
      /\ o.error = g.error /\ o.job = job /\ o.held = g.held \union {x}
      /\ o.cleaning = g.cleaning /\ o.awaits = g.awaits
  <2> DEFINE H == g.held \union {x}
             k == g.step + 1
  <2>1. H \in SUBSET Things /\ k \in Nat /\ H = g.held \union {x}
        /\ job \in {"none", "setup", "ready", "abandoned", "cleaning"}
    BY DEF Objects
  <2>2. o = [g EXCEPT !.held = H, !.step = k, !.job = job]
    BY DEF Grab
  <2> HIDE DEF H, k
  <2> QED BY <2>1, <2>2, ZenonT(40) DEF Objects
<1>2. States(o)
  BY <1>1 DEF Local, States
<1>3. Holdings(o) /\ o.cleaning = {}
  BY <1>1 DEF Local, Holdings
<1>4. Snapshot(f, o)
  BY <1>1, SceneTypes, Zenon DEF Local, Snapshot
<1> QED BY <1>1, <1>2, <1>3, <1>4 DEF Local, KeptFiber

\* provide(): the service is registered, and those that inject it have nothing
\* new to know while its provider loads. Or it throws.
LEMMA ProvideKeeps ==
    ASSUME IInv, NEW f \in Fibers, NEW n \in Names, Provide(f, n)
    PROVE  IInv' /\ Outlives
<1> DEFINE g == fiber[f]
           srv == [services EXCEPT ![n] = f]
           o == Grab(g, n, g.job)
<1>1. /\ g \in Objects /\ Local(f, g) /\ g.task = "executing" /\ g.cleaning = {}
      /\ f \notin ActiveFibers(Now) /\ scene' = scene
      /\ Now.fiber[f] = g /\ scene \in Scenes /\ Inv(Now, {}) /\ Now.fiber[f].task \in Loads
  BY HereTypes, CallTypes DEF Provide, Loads
<1>2. CASE ~ fiber[f].alive \/ services[n] # None
  <2> DEFINE R == Failed(Now, f)
  <2>1. Becomes(R) /\ R = Failed(Now, f)
    BY <1>2 DEF Provide
  <2> HIDE DEF R, g
  <2>2. Inv(R, {}) /\ Onward(Now, R)
    BY <2>1, <1>1, FailedKeeps
  <2> QED BY <2>1, <2>2, <1>1, Lands
<1>3. CASE fiber[f].alive /\ services[n] = None
  <2>1. fiber' = [fiber EXCEPT ![f] = o] /\ services' = srv
    <3> DEFINE R == Holding([Now EXCEPT !.services[n] = f], f, n)
    <3>1. Becomes(R)
      BY <1>3 DEF Provide
    <3>2. R.fiber = [fiber EXCEPT ![f] = o]
      BY HereTypes, ZenonT(60) DEF Now, Holding, Grab, Objects
    <3>3. R.services = srv
      BY DEF Now, Holding
    <3> QED BY <3>1, <3>2, <3>3 DEF Becomes
  <2>2. /\ o \in Objects /\ Local(f, o) /\ KeptFiber(g, o)
        /\ o.held = g.held \union {n} /\ o.cleaning = {} /\ o.awaits = g.awaits
    <3> DEFINE job == g.job
    <3>1. job = g.job /\ o = Grab(g, n, job) /\ n \in Things
      BY DEF Things
    <3> HIDE DEF g, o, job
    <3> QED BY <3>1, <1>1, GrabFields
  <2> HIDE DEF o
  <2>3. \A m \in Names : srv[m] = IF m = n THEN f ELSE services[m]
    BY HereTypes
  <2>4. srv \in [Names -> Fibers \union {None}]
    BY HereTypes
  <2> HIDE DEF srv
  <2>5. OnlyOwn(Now, srv, f)
    BY <2>3, <2>4, <1>1, <1>3, HereTypes DEF OnlyOwn
  <2>6. HoldsStill(Now, srv, f, o)
    <3>1. \A m \in Names : services[m] = f => m \in g.held
      BY <1>1, HereTypes DEF Inv, Base, Registered
    <3>2. \A m \in Names : m \in g.held => services[m] = f
      BY <1>1, HereTypes DEF Inv, Base, Registered
    <3>3. \A c \in Fibers : Parent(c) = f /\ Now.fiber[c].state # "DISPOSED" => c \in g.held
      BY <1>1, HereTypes DEF Inv, Base, Children
    <3> HIDE DEF g
    <3> QED BY <2>2, <2>3, <3>1, <3>2, <3>3 DEF HoldsStill
  <2>7. fiber[f].cleaning \intersect Names \subseteq o.cleaning /\ KeptFiber(fiber[f], o)
    BY <1>1, <2>2
  <2> HIDE DEF g
  <2> QED BY <2>1, <2>2, <2>5, <2>6, <2>7, <1>1, OwnLands
<1> QED BY <1>2, <1>3, HereTypes

\* HoldsStill, for a fiber that holds one thing more, which is not a service.
LEMMA HoldsMore ==
    ASSUME NEW f \in Fibers, NEW S, Inv(S, {}), NEW x, x \notin Names, NEW o,
           o.held = S.fiber[f].held \union {x}, o.cleaning = {}, S.fiber[f].cleaning = {}
    PROVE  HoldsStill(S, S.services, f, o) /\ OnlyOwn(S, S.services, f)
<1>1. \A m \in Names : S.services[m] = f <=> m \in S.fiber[f].held
  BY DEF Inv, Base, Registered
<1>2. \A c \in Fibers : Parent(c) = f /\ S.fiber[c].state # "DISPOSED" => c \in S.fiber[f].held
  BY DEF Inv, Base, Children
<1> QED BY <1>1, <1>2 DEF HoldsStill, OnlyOwn, Inv, Base, Worlds

\* effect(): the disposer is registered before the set-up begins.
LEMMA EffectKeeps ==
    ASSUME IInv, NEW f \in Fibers, Effect(f)
    PROVE  IInv' /\ Outlives
<1> DEFINE g == fiber[f]
           x == "effect"
           job == "setup"
           o == Grab(g, x, job)
<1>1. /\ g \in Objects /\ Local(f, g) /\ g.task = "executing" /\ g.cleaning = {}
      /\ scene' = scene
      /\ Now.fiber[f] = g /\ scene \in Scenes /\ Inv(Now, {}) /\ Now.fiber[f].task \in Loads
      /\ Now.services = services
  BY HereTypes, CallTypes DEF Effect, Loads
<1>2. CASE ~ fiber[f].alive
  <2> DEFINE R == Failed(Now, f)
  <2>1. Becomes(R) /\ R = Failed(Now, f)
    BY <1>2 DEF Effect
  <2> HIDE DEF R, g
  <2>2. Inv(R, {}) /\ Onward(Now, R)
    BY <2>1, <1>1, FailedKeeps
  <2> QED BY <2>1, <2>2, <1>1, Lands
<1>3. CASE fiber[f].alive
  <2>1. fiber' = [fiber EXCEPT ![f] = o] /\ services' = services
    <3> DEFINE R == Holding([Now EXCEPT !.fiber[f].job = "setup"], f, "effect")
    <3>1. Becomes(R)
      BY <1>3 DEF Effect
    <3>2. R = [fiber |-> [fiber EXCEPT ![f] = o], services |-> services]
      <4> DEFINE p == [g EXCEPT !.job = "setup"]
                 F == [fiber EXCEPT ![f] = p]
                 S == [Now EXCEPT !.fiber = F]
      <4>1. R = Holding(S, f, "effect")
        BY DEF Now
      <4>2. S = [fiber |-> F, services |-> services]
        <5> HIDE DEF F
        <5> QED BY WithFiber DEF Now
      <4>3. p \in Objects /\ p.job = "setup"
        BY <1>1 DEF Objects
      <4>4. F \in [Fibers -> Objects] /\ F[f] = p
        <5> HIDE DEF p, g
        <5> QED BY <1>1, <4>3, HereTypes
      <4>5. Grab(p, "effect", "setup") = o
        BY <1>1 DEF Grab, Objects
      <4>6. [F EXCEPT ![f] = o] = [fiber EXCEPT ![f] = o]
        <5> HIDE DEF p, g, o
        <5> QED BY HereTypes
      <4> HIDE DEF R, S, F, p
      <4>7. R = [fiber |-> [F EXCEPT ![f] = Grab(F[f], "effect", F[f].job)], services |-> services]
        BY <4>1, <4>2, <4>4, HoldingIs
      <4> QED BY <4>3, <4>4, <4>5, <4>6, <4>7
    <3> HIDE DEF R, o
    <3> QED BY <3>1, <3>2 DEF Becomes
  <2>2. o = Grab(g, x, job) /\ x \in Things /\ x = "effect" /\ job = "setup" /\ x \notin Names
    BY KindsAssumption DEF Things
  <2> HIDE DEF g, x, job, o
  <2>3. /\ o \in Objects /\ Local(f, o) /\ KeptFiber(g, o)
        /\ o.held = g.held \union {x} /\ o.cleaning = {} /\ o.awaits = g.awaits
    BY <2>2, <1>1, GrabFields
  <2>4. HoldsStill(Now, Now.services, f, o) /\ OnlyOwn(Now, Now.services, f)
    BY <2>2, <2>3, <1>1, HoldsMore
  <2>5. fiber[f].cleaning \intersect Names \subseteq o.cleaning /\ KeptFiber(fiber[f], o)
    BY <1>1, <2>3 DEF g
  <2> QED BY <2>1, <2>3, <2>4, <2>5, <1>1, OwnLands
<1> QED BY <1>2, <1>3, HereTypes

\* plugin(), in a callback: the child is constructed and its parent holds it.
LEMMA PlugChildKeeps ==
    ASSUME IInv, NEW f \in Fibers, NEW c \in Fibers, PlugChild(f, c)
    PROVE  IInv' /\ Outlives
<1> DEFINE g == fiber[f]
           job == g.job
           o == Grab(g, c, job)
           M == Holding(Now, f, c)
           R == Constructed(M, c)
<1>1. /\ g \in Objects /\ Local(f, g) /\ g.task = "executing" /\ g.cleaning = {}
      /\ scene' = scene /\ Parent(c) = f /\ g.state = "LOADING"
      /\ Now.fiber[f] = g /\ scene \in Scenes /\ Inv(Now, {}) /\ Now.fiber[f].task \in Loads
      /\ Now.services = services /\ Now.fiber = fiber
      /\ fiber \in [Fibers -> Objects]
  BY HereTypes, CallTypes DEF PlugChild, Loads
<1>2. CASE ~ fiber[f].alive
  <2> DEFINE Q == Failed(Now, f)
  <2>1. Becomes(Q) /\ Q = Failed(Now, f)
    BY <1>2 DEF PlugChild
  <2> HIDE DEF Q, g
  <2>2. Inv(Q, {}) /\ Onward(Now, Q)
    BY <2>1, <1>1, FailedKeeps
  <2> QED BY <2>1, <2>2, <1>1, Lands
<1>3. CASE fiber[f].alive
  <2>1. M = Own(Now, services, f, o)
    <3>1. Now = [fiber |-> fiber, services |-> services]
      BY DEF Now
    <3>2. M = [fiber |-> [fiber EXCEPT ![f] = o], services |-> services]
      BY <3>1, <1>1, HoldingIs
    <3> HIDE DEF M, o
    <3> QED BY <3>2, <1>1 DEF Own
  <2>2. Becomes(R) /\ R = Constructed(M, c) /\ fiber[c].state = "DISPOSED"
    BY <1>3 DEF PlugChild, Gone
  <2>3. job = g.job /\ o = Grab(g, c, job) /\ c \in Things /\ c \notin Names
    BY KindsAssumption DEF Things
  <2> HIDE DEF job, o, M, R
  <2>4. /\ o \in Objects /\ Local(f, o) /\ KeptFiber(g, o)
        /\ o.held = g.held \union {c} /\ o.cleaning = {} /\ o.awaits = g.awaits
    <3> HIDE DEF g
    <3> QED BY <2>3, <1>1, GrabFields
  <2>5. HoldsStill(Now, Now.services, f, o) /\ OnlyOwn(Now, Now.services, f)
    <3> HIDE DEF g
    <3> QED BY <2>3, <2>4, <1>1, HoldsMore
  <2>6. c # f
    BY <1>1, <2>2
  <2>7. /\ M.fiber[c].state = "DISPOSED" /\ M.fiber[f] = o
        /\ \A h \in Fibers \ {f} : M.fiber[h] = fiber[h]
    BY <2>1, <2>2, <2>6, <1>1 DEF Own
  <2> HIDE DEF g
  <2>8. Inv(M, {})
    BY <2>1, <2>4, <2>5, <1>1, OwnKeeps
  <2>9. Parent(c) \in Fibers => Parent(c) # c /\ c \in M.fiber[Parent(c)].held
    BY <1>1, <2>4, <2>6, <2>7
  <2>10. Inv(R, {}) /\ Onward(M, R)
    BY <2>2, <2>7, <2>8, <2>9, <1>1, ConstructedKeeps
  <2>11. Onward(Now, R)
    BY <2>7, <2>10, <1>1 DEF Onward
  <2> QED BY <2>2, <2>10, <2>11, <1>1, Lands
<1> QED BY <1>2, <1>3, HereTypes

\* The callback returns, and the reload comes to an end.
LEMMA ExecuteEndsKeeps ==
    ASSUME IInv, NEW f \in Fibers, ExecuteEnds(f)
    PROVE  IInv' /\ Outlives
<1> DEFINE g == Now.fiber[f]
           o == [g EXCEPT !.error = FALSE]
           R == FinishReload(Now, f, o)
<1>1. /\ g \in Objects /\ g.task \in Loads /\ scene' = scene /\ scene \in Scenes
      /\ Inv(Now, {}) /\ g = Now.fiber[f]
  BY HereTypes DEF ExecuteEnds, Loads
<1>2. Becomes(R) /\ R = FinishReload(Now, f, o)
  BY HereTypes DEF ExecuteEnds
<1> HIDE DEF g, R
<1>3. o \in Objects /\ Alike(g, o) /\ o.alive = g.alive /\ o.epoch = g.epoch /\ ~ o.error
  BY <1>1 DEF Alike, Objects
<1> HIDE DEF o
<1>4. Inv(R, {}) /\ Onward(Now, R)
  BY <1>1, <1>2, <1>3, FinishKeeps
<1> QED BY <1>1, <1>2, <1>4, Lands

\* The callback throws, and the catch of _reload unloads.
LEMMA ExecuteThrowsKeeps ==
    ASSUME IInv, NEW f \in Fibers, ExecuteThrows(f)
    PROVE  IInv' /\ Outlives
<1> DEFINE R == Failed(Now, f)
<1>1. /\ Now.fiber[f].task \in Loads /\ scene' = scene /\ scene \in Scenes /\ Inv(Now, {})
      /\ Becomes(R) /\ R = Failed(Now, f)
  BY HereTypes DEF ExecuteThrows, Loads
<1> HIDE DEF R
<1>2. Inv(R, {}) /\ Onward(Now, R)
  BY <1>1, FailedKeeps
<1> QED BY <1>1, <1>2, Lands

\* The set-up and the release of an effect: it is held while it lasts.
LEMMA JobLands ==
    ASSUME IInv, NEW f \in Fibers, fiber[f].job # "none",
           NEW j \in {"setup", "ready", "abandoned", "cleaning"},
           fiber' = [fiber EXCEPT ![f].job = j], services' = services, scene' = scene
    PROVE  IInv' /\ Outlives
<1> DEFINE g == fiber[f]
           o == [g EXCEPT !.job = j]
<1>1. g \in Objects /\ Local(f, g) /\ g = Now.fiber[f] /\ g = fiber[f] /\ g.job # "none"
      /\ Inv(Now, {}) /\ Now.services = services /\ scene \in Scenes
  BY HereTypes
<1>2. fiber' = [fiber EXCEPT ![f] = o]
  OBVIOUS
<1> HIDE DEF g
<1>3. /\ o \in Objects /\ o.task = g.task /\ o.job = j
      /\ o.made = g.made /\ o.alive = g.alive /\ o.state = g.state /\ o.epoch = g.epoch
      /\ o.old = g.old /\ o.deps = g.deps /\ o.store = g.store /\ o.error = g.error
      /\ o.held = g.held /\ o.cleaning = g.cleaning /\ o.awaits = g.awaits
  BY <1>1 DEF Objects
<1> HIDE DEF o
<1>4. States(o) /\ Holdings(o)
  BY <1>1, <1>3 DEF Local, States, Holdings
<1>5. Snapshot(f, o)
  BY <1>1, <1>3, SceneTypes, Zenon DEF Local, Snapshot
<1>6. HoldsStill(Now, Now.services, f, o) /\ OnlyOwn(Now, Now.services, f)
  BY <1>1, <1>3, SameHoldings
<1>7. KeptFiber(fiber[f], o) /\ fiber[f].cleaning \intersect Names \subseteq o.cleaning
  BY <1>1, <1>3 DEF KeptFiber
<1> QED BY <1>1, <1>2, <1>3, <1>4, <1>5, <1>6, <1>7, OwnLands DEF Local

\* The steps of an asynchronous effect, from its set-up to its release.
LEMMA JobKeeps ==
    ASSUME IInv, NEW f \in Fibers,
           SetupEnds(f) \/ SetupThrows(f) \/ Release(f) \/ ReleaseEffect(f)
    PROVE  IInv' /\ Outlives
<1> DEFINE job == fiber[f].job
           fits(j) == j \in {"setup", "ready", "abandoned", "cleaning"}
<1>1. /\ job # "none" /\ services' = services /\ scene' = scene
      /\ \E j : fits(j) /\ fiber' = [fiber EXCEPT ![f].job = j]
  <2>1. CASE SetupEnds(f)
    <3>1. fits(IF job = "setup" THEN "ready" ELSE "cleaning")
      OBVIOUS
    <3> HIDE DEF fits
    <3> QED BY <2>1, <3>1 DEF SetupEnds
  <2>2. CASE SetupThrows(f)
    BY <2>2 DEF SetupThrows
  <2>3. CASE Release(f)
    <3>1. fits(Released(job))
      BY <2>3 DEF Release, Released
    <3> HIDE DEF fits
    <3> QED BY <2>3, <3>1 DEF Release
  <2>4. CASE ReleaseEffect(f)
    <3>1. fits(Released(job))
      BY <2>4 DEF ReleaseEffect, Released
    <3> HIDE DEF fits
    <3> QED BY <2>4, <3>1 DEF ReleaseEffect
  <2> QED BY <2>1, <2>2, <2>3, <2>4
<1>2. PICK j : fits(j) /\ fiber' = [fiber EXCEPT ![f].job = j]
  BY <1>1
<1> QED BY <1>1, <1>2, JobLands

\* A disposable that is finished with leaves nothing registered behind.
LEMMA RemovedLands ==
    ASSUME IInv, NEW f \in Fibers, NEW x, Removed(f, x), services' = services, scene' = scene,
           x \in Names => services[x] # f,
           x \in Fibers /\ Parent(x) = f => fiber[x].state = "DISPOSED"
    PROVE  IInv' /\ (x \notin Names => Outlives)
<1> DEFINE g == fiber[f]
           k == IF x = "effect" THEN "none" ELSE g.job
           o == [g EXCEPT !.held = @ \ {x}, !.cleaning = @ \ {x}, !.job = k]
<1>1. g \in Objects /\ Local(f, g) /\ g = Now.fiber[f] /\ g = fiber[f]
      /\ Inv(Now, {}) /\ Now.services = services /\ scene \in Scenes /\ Now.fiber = fiber
  BY HereTypes
<1>2. fiber' = [fiber EXCEPT ![f] = o]
  BY HereTypes DEF Removed
<1>3. k = (IF x = "effect" THEN "none" ELSE g.job)
      /\ k \in {"none", "setup", "ready", "abandoned", "cleaning"}
  BY <1>1 DEF Objects
<1> HIDE DEF g, k
<1>4. /\ o \in Objects /\ o.task = g.task /\ o.job = k
      /\ o.made = g.made /\ o.alive = g.alive /\ o.state = g.state /\ o.epoch = g.epoch
      /\ o.old = g.old /\ o.deps = g.deps /\ o.store = g.store /\ o.error = g.error
      /\ o.held = g.held \ {x} /\ o.cleaning = g.cleaning \ {x} /\ o.awaits = g.awaits
  BY <1>1, <1>3 DEF Objects
<1> HIDE DEF o
<1>5. States(o) /\ Holdings(o)
  BY <1>1, <1>3, <1>4 DEF Local, States, Holdings
<1>6. Snapshot(f, o)
  BY <1>1, <1>4, SceneTypes, Zenon DEF Local, Snapshot
<1>7. OnlyOwn(Now, Now.services, f)
  BY <1>1, SameHoldings
<1>8. HoldsStill(Now, Now.services, f, o)
  <2>1. HoldsStill(Now, Now.services, f, g)
    BY <1>1, SameHoldings
  <2> QED BY <2>1, <1>1, <1>4 DEF HoldsStill
<1>9. KeptFiber(fiber[f], o)
  BY <1>1, <1>4 DEF KeptFiber
<1>10. x \notin Names => fiber[f].cleaning \intersect Names \subseteq o.cleaning
  BY <1>1, <1>4
<1> QED BY <1>1, <1>2, <1>4, <1>5, <1>6, <1>7, <1>8, <1>9, <1>10, OwnLands DEF Local

\* An effect's disposer is done.
LEMMA CleanedKeeps ==
    ASSUME IInv, NEW f \in Fibers, Cleaned(f)
    PROVE  IInv' /\ Outlives
BY RemovedLands, KindsAssumption DEF Cleaned

\* A child's disposer is done: the child is gone.
LEMMA ChildGoneKeeps ==
    ASSUME IInv, NEW f \in Fibers, NEW c \in Fibers, ChildGone(f, c)
    PROVE  IInv' /\ Outlives
BY RemovedLands, KindsAssumption DEF ChildGone, Gone

\* The withdrawal has ended: nobody is loaded with the implementation.
LEMMA WithdrawEndsKeeps ==
    ASSUME IInv, NEW f \in Fibers, NEW n \in Names, WithdrawEnds(f, n)
    PROVE  IInv' /\ Outlives
<1>1. IInv'
  BY RemovedLands, KindsAssumption DEF WithdrawEnds
<1>2. Outlives
  <2>1. SUFFICES ASSUME NEW h \in Fibers, NEW m \in Names,
                        m \in fiber[h].cleaning, m \notin fiber'[h].cleaning,
                        NEW d \in Fibers, m \in Inject(d), fiber[d].alive,
                        fiber[d].store[m] = h
                 PROVE  FALSE
    BY DEF Outlives
  <2>2. h = f /\ m = n
    <3>1. \A e \in Fibers : fiber'[e].cleaning = IF e = f THEN fiber[f].cleaning \ {n}
                                                 ELSE fiber[e].cleaning
      BY HereTypes DEF WithdrawEnds, Removed, Objects
    <3> QED BY <2>1, <3>1
  <2>3. <<n, d, fiber[d].made>> \in fiber[f].awaits
    BY <2>1, <2>2, HereTypes DEF WithdrawEnds, Inv, Base, WaitedFor
  <2> QED BY <2>3 DEF WithdrawEnds
<1> QED BY <1>1, <1>2

\* The disposer of provide(): whoever is loaded with the service is waited for.
LEMMA WithdrawKeeps ==
    ASSUME IInv, NEW f \in Fibers, NEW n \in Names, Withdraw(f, n)
    PROVE  IInv' /\ Outlives
<1> DEFINE g == fiber[f]
           waits == {<<n, d, fiber[d].made>> : d \in Dependents(Now, n)}
           W == g.awaits \union waits
           o == [g EXCEPT !.awaits = W]
           srv == [services EXCEPT ![n] = None]
           M == [Now EXCEPT !.services = srv, !.fiber = [fiber EXCEPT ![f] = o]]
           N == {n}
           X == {}
           R == Notify(M, N)
<1>1. /\ g \in Objects /\ Local(f, g) /\ g = Now.fiber[f] /\ g = fiber[f]
      /\ Inv(Now, {}) /\ Now.services = services /\ scene \in Scenes /\ Now.fiber = fiber
      /\ n \in g.cleaning /\ services[n] = f /\ scene' = scene
  BY HereTypes DEF Withdraw
<1>2. Becomes(R) /\ R = Notify(M, N) /\ N = {n} /\ N \in SUBSET Names /\ X = {}
  BY DEF Withdraw, Now
<1>3. g.task = "unload" /\ g.held = {} /\ f \notin ActiveFibers(Now)
  BY <1>1 DEF Local, Holdings, States, ActiveFibers
<1>4. W \in SUBSET (Names \X Fibers \X Nat) /\ g.awaits \subseteq W
      /\ \A d \in Fibers : fiber[d].alive /\ n \in Inject(d) => <<n, d, fiber[d].made>> \in W
  <2>1. \A d \in Fibers : fiber[d].made \in Nat
    BY HereTypes DEF Objects
  <2>2. g.awaits \in SUBSET (Names \X Fibers \X Nat)
    BY <1>1 DEF Objects
  <2> QED BY <2>1, <2>2, <1>1 DEF Dependents
<1>5. M = Own(Now, srv, f, o)
  <2> DEFINE G == [fiber EXCEPT ![f] = o]
             A == [Now EXCEPT !.services = srv]
  <2>1. A = [fiber |-> fiber, services |-> srv]
    <3> HIDE DEF srv
    <3> QED BY WithServices DEF Now
  <2>2. M = [A EXCEPT !.fiber = G]
    OBVIOUS
  <2> HIDE DEF A, G, M
  <2>3. M = [fiber |-> G, services |-> srv]
    BY <2>1, <2>2, WithFiber
  <2> QED BY <2>3, <1>1 DEF Own, G
<1>6. \A m \in Names : srv[m] = IF m = n THEN None ELSE services[m]
  BY HereTypes
<1>7. srv \in [Names -> Fibers \union {None}]
  BY HereTypes
<1> HIDE DEF g, W, srv, M, N, R, X
<1>8. /\ o \in Objects /\ o.task = g.task /\ o.job = g.job
      /\ o.made = g.made /\ o.alive = g.alive /\ o.state = g.state /\ o.epoch = g.epoch
      /\ o.old = g.old /\ o.deps = g.deps /\ o.store = g.store /\ o.error = g.error
      /\ o.held = g.held /\ o.cleaning = g.cleaning /\ o.awaits = W
  BY <1>1, <1>4 DEF Objects
<1> HIDE DEF o
<1>9. States(o) /\ Holdings(o)
  BY <1>1, <1>8 DEF Local, States, Holdings
<1>10. Snapshot(f, o)
  BY <1>1, <1>8, SceneTypes, Zenon DEF Local, Snapshot
<1>11. OnlyOwn(Now, srv, f)
  BY <1>1, <1>3, <1>6, <1>7 DEF OnlyOwn
<1>12. HoldsStill(Now, srv, f, o)
  <2>1. HoldsStill(Now, services, f, g)
    BY <1>1, SameHoldings
  <2>2. f # None
    BY FibersAssumption
  <2>3. \A m \in Names : srv[m] = f => m \in o.held \union o.cleaning
    BY <2>1, <2>2, <1>6, <1>8 DEF HoldsStill
  <2>4. ASSUME NEW m \in Names, NEW d \in Fibers,
               m \in o.cleaning, srv[m] # f,
               Now.fiber[d].alive, m \in Inject(d), Now.fiber[d].store[m] = f
        PROVE  <<m, d, Now.fiber[d].made>> \in o.awaits
    <3>1. CASE m = n
      BY <2>4, <3>1, <1>1, <1>4, <1>8
    <3>2. CASE m # n
      BY <2>1, <2>4, <3>2, <1>4, <1>6, <1>8 DEF HoldsStill
    <3> QED BY <3>1, <3>2
  <2> QED BY <2>1, <2>3, <2>4, <1>3, <1>8 DEF HoldsStill
<1>13. KeptFiber(Now.fiber[f], o)
  BY <1>1, <1>8 DEF KeptFiber
<1>14. Inv(M, {})
  BY <1>1, <1>5, <1>8, <1>9, <1>10, <1>11, <1>12, <1>13, OwnKeeps DEF Local
<1>15. Base(M) /\ Linked(M, X) /\ CurrentBut(M, N)
  BY <1>2, <1>14 DEF Inv, CurrentBut
<1>16. M.services = srv /\ Onward(Now, M)
  BY <1>1, <1>5, <1>8, HereTypes DEF Own, Onward
<1>17. Quiet(M, N)
  BY <1>2, <1>6, <1>16, FibersAssumption DEF Quiet, ActiveFibers
<1>18. Inv(R, X) /\ Onward(M, R)
  BY <1>1, <1>2, <1>15, <1>17, NotifyKeeps
<1>19. Inv(R, {}) /\ Onward(Now, R)
  BY <1>2, <1>16, <1>18 DEF Onward
<1> QED BY <1>1, <1>2, <1>19, Lands

\* A dependent seen at rest is not loaded with what is being withdrawn.
LEMMA AwaitedKeeps ==
    ASSUME IInv, NEW f \in Fibers, Awaited(f)
    PROVE  IInv' /\ Outlives
<1> DEFINE g == fiber[f]
<1>1. PICK w \in g.awaits :
        /\ fiber[w[2]].task = "none" \/ fiber[w[2]].made # w[3]
        /\ fiber' = [fiber EXCEPT ![f].awaits = @ \ {w}]
  BY DEF Awaited
<1> DEFINE o == [g EXCEPT !.awaits = @ \ {w}]
<1>2. /\ g \in Objects /\ Local(f, g) /\ g = Now.fiber[f] /\ g = fiber[f]
      /\ Inv(Now, {}) /\ Now.services = services /\ scene \in Scenes /\ Now.fiber = fiber
      /\ services' = services /\ scene' = scene /\ f # None
  BY HereTypes, FibersAssumption DEF Awaited
<1>3. fiber' = [fiber EXCEPT ![f] = o]
  BY <1>1
<1> HIDE DEF g
<1>4. /\ o \in Objects /\ o.task = g.task /\ o.job = g.job
      /\ o.made = g.made /\ o.alive = g.alive /\ o.state = g.state /\ o.epoch = g.epoch
      /\ o.old = g.old /\ o.deps = g.deps /\ o.store = g.store /\ o.error = g.error
      /\ o.held = g.held /\ o.cleaning = g.cleaning /\ o.awaits = g.awaits \ {w}
  BY <1>2 DEF Objects
<1> HIDE DEF o
<1>5. States(o) /\ Holdings(o)
  BY <1>2, <1>4 DEF Local, States, Holdings
<1>6. Snapshot(f, o)
  BY <1>2, <1>4, SceneTypes, Zenon DEF Local, Snapshot
<1>7. OnlyOwn(Now, Now.services, f) /\ HoldsStill(Now, Now.services, f, g)
  BY <1>2, SameHoldings
<1>8. HoldsStill(Now, Now.services, f, o)
  <2>1. ASSUME NEW n \in Names, NEW d \in Fibers,
               n \in o.cleaning, services[n] # f,
               fiber[d].alive, n \in Inject(d), fiber[d].store[n] = f
        PROVE  <<n, d, fiber[d].made>> \in o.awaits
    <3>1. <<n, d, fiber[d].made>> \in g.awaits
      BY <2>1, <1>2, <1>4, <1>7 DEF HoldsStill
    <3>2. ASSUME w = <<n, d, fiber[d].made>>
          PROVE  FALSE
      <4>1. fiber[d].task = "none"
        BY <3>2, <1>1
      <4>2. /\ Local(d, fiber[d])
            /\ fiber[d].deps[n] = IF services[n] \in ActiveFibers(Now) THEN services[n] ELSE None
        BY <2>1, HereTypes DEF Inv, CurrentBut
      <4>3. CASE fiber[d].state = "ACTIVE"
        <5>1. fiber[d].store[n] = fiber[d].deps[n]
          BY <2>1, <4>2, <4>3 DEF Local, Snapshot
        <5> QED BY <5>1, <4>2, <2>1, <1>2
      <4>4. CASE fiber[d].state # "ACTIVE"
        BY <4>1, <4>2, <4>4, <2>1, <1>2 DEF Local, Holdings, Nothing
      <4> QED BY <4>3, <4>4
    <3> QED BY <3>1, <3>2, <1>4
  <2> QED BY <2>1, <1>2, <1>4, <1>7 DEF HoldsStill
<1>9. KeptFiber(fiber[f], o) /\ fiber[f].cleaning \intersect Names \subseteq o.cleaning
  BY <1>2, <1>4 DEF KeptFiber
<1> QED BY <1>2, <1>3, <1>4, <1>5, <1>6, <1>7, <1>8, <1>9, OwnLands DEF Local

\* A fiber is disposed by its parent, or from outside.
LEMMA DisposeKeeps ==
    ASSUME IInv, NEW c \in Fibers, fiber[c].alive, Becomes(Disposed(Now, c)), scene' = scene
    PROVE  IInv' /\ Outlives
<1> DEFINE R == Disposed(Now, c)
<1>1. R = Disposed(Now, c) /\ Becomes(R) /\ Inv(Now, {}) /\ Now.fiber[c].alive /\ scene \in Scenes
  BY HereTypes
<1> HIDE DEF R
<1>2. Inv(R, {}) /\ Onward(Now, R)
  BY <1>1, DisposedKeeps
<1> QED BY <1>1, <1>2, Lands

\* _unload ends when every disposer has.
LEMMA UnloadEndsLands ==
    ASSUME IInv, NEW f \in Fibers, UnloadEnds(f)
    PROVE  IInv' /\ Outlives
<1> DEFINE o == Unloaded(Now.fiber[f])
           R == UpdateState(Now, f, IF o.epoch.on THEN Loading(o)
                                    ELSE [o EXCEPT !.state = StateOf(o)])
<1>1. /\ Now.fiber[f].task = "unload" /\ Now.fiber[f].cleaning = {}
      /\ Inv(Now, {}) /\ scene \in Scenes /\ scene' = scene
      /\ o = Unloaded(Now.fiber[f])
  BY HereTypes DEF UnloadEnds
<1>2. Becomes(R)
  BY HereTypes DEF UnloadEnds, Unloaded
<1>3. R = UpdateState(Now, f, IF o.epoch.on THEN Loading(o) ELSE [o EXCEPT !.state = StateOf(o)])
  OBVIOUS
<1> HIDE DEF o, R
<1>4. Inv(R, {}) /\ Onward(Now, R)
  BY <1>1, <1>3, UnloadEndsKeeps
<1> QED BY <1>1, <1>2, <1>4, Lands

\* plugin() from outside: a fiber without a parent is constructed.
LEMMA PlugKeeps ==
    ASSUME IInv, NEW f \in Fibers, Plug(f)
    PROVE  IInv' /\ Outlives
<1> DEFINE R == Constructed(Now, f)
<1>1. /\ R = Constructed(Now, f) /\ Becomes(R) /\ Inv(Now, {}) /\ scene \in Scenes
      /\ scene' = scene /\ Now.fiber[f].state = "DISPOSED" /\ Parent(f) \notin Fibers
  BY HereTypes, FibersAssumption DEF Plug, Gone
<1> HIDE DEF R
<1>2. Inv(R, {}) /\ Onward(Now, R)
  BY <1>1, ConstructedKeeps
<1> QED BY <1>1, <1>2, Lands

\* restart() of a fiber by itself.
LEMMA RestartKeeps ==
    ASSUME IInv, NEW f \in Fibers, Restart(f)
    PROVE  IInv' /\ Outlives
<1> DEFINE R == Restarted(Now, f)
<1>1. /\ R = Restarted(Now, f) /\ Becomes(R) /\ Inv(Now, {}) /\ scene \in Scenes
      /\ scene' = scene /\ Now.fiber[f].alive
  BY HereTypes DEF Restart, Change
<1>2. Inv(Now, {f})
  BY <1>1 DEF Inv, Linked
<1> HIDE DEF R
<1>3. Inv(R, {}) /\ Onward(Now, R)
  BY <1>1, <1>2, RestartedKeeps
<1> QED BY <1>1, <1>3, Lands

\* update(): a new config, and all but an active fiber with a bad one restarted.
LEMMA UpdateConfigKeeps ==
    ASSUME IInv, NEW f \in Fibers, NEW config \in {"good", "bad"}, Update(f, config)
    PROVE  IInv' /\ Outlives
<1> DEFINE g == fiber[f]
           kept == g.state = "ACTIVE" /\ config = "bad"
           e == IF kept THEN g.error ELSE FALSE
           o == [g EXCEPT !.raw = config, !.error = e]
           S == [Now EXCEPT !.fiber[f].raw = config]
           T == [S EXCEPT !.fiber[f].error = FALSE]
           X == {}
           Y == {f}
<1>1. /\ g \in Objects /\ Local(f, g) /\ g = Now.fiber[f] /\ g = fiber[f] /\ g.alive
      /\ Inv(Now, {}) /\ Now.services = services /\ scene \in Scenes /\ Now.fiber = fiber
      /\ scene' = scene /\ X = {} /\ Y = {f}
  BY HereTypes DEF Update, Change
<1>2. e \in BOOLEAN /\ (kept => e = g.error) /\ (~ kept => e = FALSE)
  BY <1>1 DEF Objects
<1>3. kept => fiber' = [fiber EXCEPT ![f] = o] /\ services' = services
  <2>1. kept => Becomes(S)
    BY DEF Update
  <2>2. kept => o = [g EXCEPT !.raw = config]
    BY <1>1 DEF Objects
  <2>3. S.fiber = [fiber EXCEPT ![f] = [g EXCEPT !.raw = config]]
    BY DEF Now
  <2>4. S.services = services
    BY DEF Now
  <2> HIDE DEF S, o, kept
  <2> QED BY <2>1, <2>2, <2>3, <2>4 DEF Becomes
<1>4. ~ kept => T = Put(Now, f, o) /\ Becomes(Restarted(T, f))
  <2>1. ~ kept => Becomes(Restarted(T, f))
    BY DEF Update
  <2>2. ~ kept => T = Put(Now, f, o)
    <3> DEFINE p == [g EXCEPT !.raw = config]
               q == [p EXCEPT !.error = FALSE]
               F == [fiber EXCEPT ![f] = p]
               G == [fiber EXCEPT ![f] = q]
    <3>1. S = [fiber |-> F, services |-> services]
      <4>1. S = [Now EXCEPT !.fiber = F]
        BY DEF Now
      <4> HIDE DEF F, S
      <4> QED BY <4>1, WithFiber DEF Now
    <3>2. F[f] = p /\ [F EXCEPT ![f] = q] = G
      <4> HIDE DEF p, q
      <4> QED BY HereTypes
    <3>3. T = [S EXCEPT !.fiber = [F EXCEPT ![f] = q]]
      BY <3>1, <3>2
    <3>4. T = [fiber |-> G, services |-> services]
      <4> HIDE DEF F, G, S, T, q
      <4>1. T = [S EXCEPT !.fiber = G]
        BY <3>2, <3>3
      <4> QED BY <3>1, <4>1, WithFiber
    <3>5. ~ kept => q = o
      BY <1>1 DEF Objects
    <3>6. Put(Now, f, q) = [fiber |-> G, services |-> services]
      <4>1. Put(Now, f, q) = [Now EXCEPT !.fiber = G]
        BY DEF Put, Now
      <4> HIDE DEF G, q
      <4> QED BY <4>1, WithFiber DEF Now
    <3> HIDE DEF T, q, G, kept, o
    <3> QED BY <3>4, <3>5, <3>6
  <2> QED BY <2>1, <2>2
<1> HIDE DEF g, e, X, Y, S, T
<1>5. /\ o \in Objects /\ o.task = g.task /\ o.job = g.job /\ o.error = e
      /\ o.made = g.made /\ o.alive = g.alive /\ o.state = g.state /\ o.epoch = g.epoch
      /\ o.old = g.old /\ o.deps = g.deps /\ o.store = g.store
      /\ o.held = g.held /\ o.cleaning = g.cleaning /\ o.awaits = g.awaits
  BY <1>1, <1>2 DEF Objects
<1> HIDE DEF o
<1>6. States(o) /\ Holdings(o)
  BY <1>1, <1>2, <1>5 DEF Local, States, Holdings
<1>7. Snapshot(f, o)
  BY <1>1, <1>5, SceneTypes, Zenon DEF Local, Snapshot
<1>8. Local(f, o)
  BY <1>6, <1>7 DEF Local
<1>9. CASE kept
  <2>1. KeptFiber(fiber[f], o) /\ fiber[f].cleaning \intersect Names \subseteq o.cleaning
    BY <1>1, <1>2, <1>5, <1>9 DEF KeptFiber
  <2>2. HoldsStill(Now, Now.services, f, o) /\ OnlyOwn(Now, Now.services, f)
    BY <1>1, <1>5, SameHoldings
  <2> HIDE DEF kept
  <2> QED BY <1>1, <1>3, <1>5, <1>8, <1>9, <2>1, <2>2, OwnLands
<1>10. CASE ~ kept
  <2> DEFINE P == Put(Now, f, o)
  <2>1. Follows(Now.fiber[f], o) /\ o.deps = Now.fiber[f].deps
    BY <1>1, <1>5 DEF Follows
  <2>2. EpochFits(Now, f, o)
    <3>1. EpochFits(Now, f, g) /\ SameDeps(f, g, o) /\ SameMade(Now, Now) /\ Now \in Worlds
      BY <1>1, <1>5, HereTypes DEF Inv, Linked, SameDeps, SameMade
    <3>2. Wanted(Now, f, o) = Wanted(Now, f, g)
      BY <3>1, <1>1, <1>5, WantedSame
    <3> QED BY <3>1, <3>2, <1>5 DEF EpochFits
  <2>3. X \subseteq Y \union {f} /\ f \in Y /\ Inv(Now, X)
    BY <1>1
  <2>4. P = Put(Now, f, o) /\ P = T /\ Becomes(Restarted(T, f))
    BY <1>4, <1>10
  <2> HIDE DEF P, kept
  <2>5. Inv(P, Y) /\ Onward(Now, P) /\ P.fiber[f] = o
    <3>1. Now.fiber[f].state = "ACTIVE" <=> o.state = "ACTIVE"
      BY <1>1, <1>5
    <3>2. scene \in Scenes /\ o \in Objects /\ P = Put(Now, f, o)
      BY <1>1, <1>5, <2>4
    <3>3. (Now.fiber[f].state = "ACTIVE" <=> o.state = "ACTIVE") => Inv(P, Y)
      BY <2>1, <2>2, <2>3, <3>2, <1>8, PutKeeps
    <3>4. Onward(Now, P)
      BY <2>1, <2>2, <2>3, <3>2, <1>8, PutKeeps
    <3>5. P.fiber[f] = o
      BY <2>1, <2>2, <2>3, <3>2, <1>8, PutKeeps
    <3> QED BY <3>1, <3>3, <3>4, <3>5
  <2> DEFINE R == Restarted(P, f)
  <2>6. R = Restarted(P, f) /\ Becomes(R) /\ Inv(P, {f}) /\ P.fiber[f].alive
    BY <2>4, <2>5, <1>1, <1>5
  <2> HIDE DEF R
  <2>7. Inv(R, {}) /\ Onward(P, R)
    BY <2>6, <1>1, RestartedKeeps
  <2>8. Onward(Now, R)
    BY <2>5, <2>7 DEF Onward
  <2> QED BY <2>6, <2>7, <2>8, <1>1, Lands
<1> QED BY <1>9, <1>10

\* Nothing is plugged at first.
LEMMA InitHolds == Init => IInv
<1> SUFFICES ASSUME Init PROVE IInv
  OBVIOUS
<1>1. /\ Absent \in Objects /\ Absent.state = "DISPOSED" /\ Absent.task = "none" /\ ~ Absent.alive
      /\ Absent.epoch = Inactive /\ Absent.held = {} /\ Absent.cleaning = {}
      /\ Absent.store = Nothing /\ Absent.job = "none"
  <2> DEFINE F == Fiber(0)
  <2>1. /\ F \in Objects /\ F.task = "none" /\ F.epoch = Inactive /\ F.held = {}
        /\ F.cleaning = {} /\ F.store = Nothing /\ F.job = "none"
    BY NothingType, InactiveType DEF Fiber, Objects
  <2>2. Absent = [F EXCEPT !.alive = FALSE, !.state = "DISPOSED"]
    BY DEF Absent
  <2> HIDE DEF F
  <2> QED BY <2>1, <2>2 DEF Objects
<1>2. \A d \in Fibers : Local(d, Absent)
  BY <1>1, InactiveType DEF Local, States, Holdings, Snapshot, Loads
<1>3. Now.fiber = [f \in Fibers |-> Absent] /\ Now.services = Nothing /\ Now \in Worlds
  BY <1>1, NothingType DEF Init, Now, Worlds
<1>4. \A d \in Fibers : Now.fiber[d] = Absent
  BY <1>3
<1>5. \A n \in Names : Now.services[n] = None
  BY <1>3 DEF Nothing
<1>6. Registered(Now) /\ Children(Now) /\ WaitedFor(Now)
  BY <1>1, <1>4, <1>5, FibersAssumption DEF Registered, Children, WaitedFor
<1>7. CurrentBut(Now, {}) /\ Linked(Now, {})
  BY <1>1, <1>4, InactiveType DEF CurrentBut, Linked, EpochFits, EpochWanted
<1> QED BY <1>2, <1>3, <1>4, <1>6, <1>7 DEF IInv, Inv, Base, Init

\* Every step keeps the invariant, and lets go of a service only when nobody is
\* loaded with it.
LEMMA NextHolds == IInv /\ [Next]_vars => IInv' /\ Outlives
<1> SUFFICES ASSUME IInv, [Next]_vars PROVE IInv' /\ Outlives
  OBVIOUS
<1>1. ASSUME NEW f \in Fibers,
             \/ Checkpoint(f)
             \/ \E n \in Names : Provide(f, n)
             \/ Effect(f)
             \/ \E c \in Fibers : PlugChild(f, c)
             \/ ExecuteEnds(f)
             \/ ExecuteThrows(f)
      PROVE  IInv' /\ Outlives
  BY <1>1, CheckpointKeeps, ProvideKeeps, EffectKeeps, PlugChildKeeps, ExecuteEndsKeeps,
     ExecuteThrowsKeeps
<1>2. ASSUME NEW f \in Fibers,
             \/ SetupEnds(f)
             \/ SetupThrows(f)
             \/ Release(f)
             \/ ReleaseEffect(f)
             \/ Cleaned(f)
             \/ \E c \in Fibers : ChildGone(f, c)
             \/ \E n \in Names : WithdrawEnds(f, n)
      PROVE  IInv' /\ Outlives
  BY <1>2, JobKeeps, CleanedKeeps, ChildGoneKeeps, WithdrawEndsKeeps
<1>3. ASSUME NEW f \in Fibers,
             \/ \E n \in Names : Withdraw(f, n)
             \/ Awaited(f)
             \/ \E c \in Fibers : DisposeChild(f, c)
             \/ Dispose(f)
      PROVE  IInv' /\ Outlives
  BY <1>3, WithdrawKeeps, AwaitedKeeps, DisposeKeeps DEF DisposeChild, Dispose, Change
<1>4. ASSUME NEW f \in Fibers,
             \/ UnloadEnds(f)
             \/ Plug(f)
             \/ Restart(f)
             \/ \E config \in {"good", "bad"} : Update(f, config)
      PROVE  IInv' /\ Outlives
  BY <1>4, UnloadEndsLands, PlugKeeps, RestartKeeps, UpdateConfigKeeps
<1>5. CASE Progress
  <2>1. PICK f \in Fibers :
          \/ Checkpoint(f) \/ (\E n \in Names : Provide(f, n)) \/ Effect(f)
          \/ (\E c \in Fibers : PlugChild(f, c)) \/ ExecuteEnds(f)
          \/ SetupEnds(f) \/ Cleaned(f) \/ ReleaseEffect(f)
          \/ (\E n \in Names : Withdraw(f, n)) \/ Awaited(f)
          \/ (\E n \in Names : WithdrawEnds(f, n)) \/ (\E c \in Fibers : DisposeChild(f, c))
          \/ (\E c \in Fibers : ChildGone(f, c)) \/ UnloadEnds(f)
    BY <1>5 DEF Progress
  <2> QED BY <2>1, <1>1, <1>2, <1>3, <1>4
<1>6. CASE Outside
  <2>1. PICK f \in Fibers :
          \/ ExecuteThrows(f) \/ SetupThrows(f) \/ Release(f) \/ Plug(f) \/ Dispose(f)
          \/ Restart(f) \/ \E config \in {"good", "bad"} : Update(f, config)
    BY <1>6 DEF Outside
  <2> QED BY <2>1, <1>1, <1>2, <1>3, <1>4
<1>7. CASE UNCHANGED vars
  <2>1. fiber' = fiber /\ services' = services /\ scene' = scene
    BY <1>7 DEF vars
  <2>2. Inv(Now, {}) /\ Onward(Now, Now) /\ Becomes(Now)
    BY <2>1, HereTypes DEF Onward, Becomes
  <2> QED BY <2>1, <2>2, Lands
<1> QED BY <1>5, <1>6, <1>7 DEF Next

\* The invariant holds in every reachable state.
LEMMA IInvAlways == Spec => []IInv
<1>1. IInv /\ [Next]_vars => IInv'
  BY NextHolds
<1> QED BY <1>1, InitHolds, PTL DEF Spec

-----------------------------------------------------------------------------
(* Theorems                                                                *)

\* Every reachable state of the fibers and of the service store is well typed,
\* whatever the plugins inject, provide and plug (fiber.ts, reflect.ts).
THEOREM TypeCorrect == Spec => []TypeOK
<1>1. IInv => TypeOK
  <2> SUFFICES ASSUME IInv PROVE TypeOK
    OBVIOUS
  <2> QED BY HereTypes DEF TypeOK, Objects, Things
<1> QED BY <1>1, IInvAlways, PTL

\* A plugin that is ACTIVE finds behind every service it injects the
\* implementation it was loaded with, registered by the same fiber object,
\* itself active (fiber.ts _reload, reflect.ts notify).
THEOREM ActiveAreServed == Spec => []ServedWhileActive
<1>1. IInv => ServedWhileActive
  <2> SUFFICES ASSUME IInv, NEW f \in Fibers, fiber[f].state = "ACTIVE", NEW n \in Inject(f),
                      NEW p, p = fiber[f].store[n]
               PROVE  /\ p # None /\ services[n] = p /\ fiber[p].state = "ACTIVE"
                      /\ <<n, p, fiber[p].made>> \in fiber[f].epoch.from
    BY DEF ServedWhileActive
  <2>1. n \in Names
    BY HereTypes, SceneTypes
  <2>2. fiber[f].alive /\ fiber[f].epoch.on /\ fiber[f].deps[n] # None
    BY HereTypes, ActiveHasAll DEF Inv
  <2>3. p = fiber[f].deps[n]
    BY HereTypes DEF Local, Snapshot
  <2>4. services[n] \in ActiveFibers(Now) /\ p = services[n]
    BY <2>1, <2>2, <2>3, HereTypes DEF Inv, CurrentBut
  <2>5. fiber[f].epoch = Wanted(Now, f, fiber[f])
    BY <2>2, HereTypes DEF Inv, Linked, EpochFits
  <2>6. <<n, p, fiber[p].made>> \in fiber[f].epoch.from
    BY <2>2, <2>3, <2>5, HereTypes, WantedType
  <2> QED BY <2>2, <2>3, <2>4, <2>6, HereTypes DEF ActiveFibers
<1> QED BY <1>1, IInvAlways, PTL

\* A fiber at rest that is not active has nothing left of what its callback did,
\* wherever the callback was when the fiber was unloaded (fiber.ts effect, _unload).
THEOREM RestLeavesNothing == Spec => []NothingLeftBehind
<1>1. IInv => NothingLeftBehind
  <2> SUFFICES ASSUME IInv, NEW f \in Fibers, fiber[f].task = "none", fiber[f].state # "ACTIVE"
               PROVE  /\ fiber[f].held = {} /\ fiber[f].job = "none"
                      /\ \A n \in Names : services[n] # f
                      /\ \A c \in Fibers : Parent(c) = f => Gone(c)
    BY DEF NothingLeftBehind
  <2>1. fiber[f].held = {} /\ fiber[f].cleaning = {} /\ fiber[f].job = "none"
    BY HereTypes DEF Local, Holdings
  <2>2. \A n \in Names : services[n] # f
    BY <2>1, HereTypes DEF Inv, Base, Registered
  <2>3. \A c \in Fibers : Parent(c) = f => Gone(c)
    BY <2>1, HereTypes DEF Inv, Base, Children, Gone
  <2> QED BY <2>1, <2>2, <2>3
<1> QED BY <1>1, IInvAlways, PTL

\* When everything is at rest, exactly the fibers whose services are all provided
\* have left PENDING, however transitions overlapped (fiber.ts _setEpoch).
THEOREM RestConverges == Spec => []RestIsConverged
<1>1. IInv => RestIsConverged
  <2> SUFFICES ASSUME IInv, NEW f \in Fibers, fiber[f].alive, fiber[f].task = "none",
                      NEW served,
                      served <=> \A n \in Inject(f) :
                          services[n] # None /\ fiber[services[n]].state = "ACTIVE"
               PROVE  /\ fiber[f].state = "ACTIVE" => served
                      /\ fiber[f].state = "PENDING" => ~ served
    BY DEF RestIsConverged
  <2>1. Inject(f) \subseteq Names /\ None \notin ActiveFibers(Now)
    BY HereTypes, SceneTypes, FibersAssumption DEF ActiveFibers
  <2>2. \A n \in Inject(f) : fiber[f].deps[n] = IF services[n] \in ActiveFibers(Now) THEN services[n] ELSE None
    BY <2>1, HereTypes DEF Inv, CurrentBut
  <2>3. \A n \in Inject(f) : fiber[f].deps[n] # None =>
          services[n] # None /\ fiber[services[n]].state = "ACTIVE"
    BY <2>2, HereTypes DEF ActiveFibers
  <2>4. ASSUME fiber[f].state = "ACTIVE"
        PROVE  served
    BY <2>3, <2>4, HereTypes, ActiveHasAll DEF Inv
  <2>5. ASSUME fiber[f].state = "PENDING", served
        PROVE  FALSE
    <3>1. ~ fiber[f].error /\ fiber[f].epoch = Inactive
      BY <2>5, HereTypes DEF Local, States
    <3>2. ~ Wanted(Now, f, fiber[f]).on
      BY <3>1, InactiveType, HereTypes DEF Inv, Linked, EpochWanted
    <3>3. PICK n \in Inject(f) : fiber[f].deps[n] = None
      BY <3>2 DEF Wanted
    <3>4. services[n] \in Fibers /\ fiber[services[n]].state = "ACTIVE"
      BY <2>1, <2>5, HereTypes
    <3> QED BY <3>3, <3>4, <2>1, <2>2, HereTypes DEF ActiveFibers
  <2> QED BY <2>4, <2>5
<1> QED BY <1>1, IInvAlways, PTL

\* A provider is done withdrawing a service only when no registered fiber is
\* loaded with its implementation any more (the disposer of provide()).
THEOREM WithdrawnLast == Spec => ProvidersOutliveUsers
<1>1. IInv /\ [Next]_vars => [\A f \in Fibers, n \in Names :
        n \in fiber[f].cleaning /\ n \notin fiber'[f].cleaning =>
            \A d \in Fibers : n \in Inject(d) /\ fiber[d].alive => fiber[d].store[n] # f]_vars
  BY NextHolds DEF Outlives
<1> QED BY <1>1, IInvAlways, PTL DEF Spec, ProvidersOutliveUsers

-----------------------------------------------------------------------------
(* Generation: what its variables hold *)

Parts == Nat \X Nat
Past == UNION {ToSet(s) : s \in Earlier}

Messages ==
    {e.body : e \in {e \in Past : e.type = "message"}}
      \union {UserMessage(t) : t \in Turns}
      \union [role : {"assistant"}, request : Nat \ {Before}, text : Seq(Parts), calls : Seq(Parts)]
      \union [role : {"tool"}, call : Parts, isError : BOOLEAN, elided : {FALSE}]

Summaries ==
    {e.body : e \in {e \in Past : e.type = "context.compacted"}}
      \union {Compaction(s) : s \in Seq(Messages)}

Entries ==
    Past \union {Message(m) : m \in Messages} \union {Compacted(c) : c \in Summaries}

\* What a request shows.
Shown ==
    {System} \union Messages \union {Placeholder(m) : m \in Messages}
      \union {SummaryMessage(c) : c \in Summaries}

Events == {Done} \union [kind : {"message-delta", "tool-intent"}, piece : Parts]

Requested ==
    [turn : Turns, kind : {"step", "summary"}, step : Nat, attempt : Nat,
     messages : Seq(Shown), history : Seq(Messages), text : Seq(Parts), calls : Seq(Parts),
     end : Answers \union Errors \union {"none", "cancelled"},
     recorded : Seq({"model.completed", "model.failed"})]

Working == {"compact", "summarize", "unfolded", "attempt", "request", "consume", "result", "tools"}

LoopStates ==
    [pc : Working \union Over \union {"idle", "drive"}, history : Seq(Messages),
     compaction : Summaries \union {NoSummary}, compactions : 0 .. MaxCompactions,
     step : 0 .. MaxSteps, retry : 0 .. MaxRetries, cap : 1 .. MaxCap, item : Nat,
     view : Seq(Shown), text : Seq(Parts), intents : Seq(Parts), refused : BOOLEAN]

Unended == {"connecting", "streaming", "buffered"}

CallStates ==
    [request : Nat, phase : Unended \union {"none", "settled", "recorded", "unrecorded"},
     queue : Seq(Events), fragments : Seq(Parts)]

Items == [turn : Turns, type : {"message"}, of : Nat]
           \union [turn : Turns, type : {"tool_call"}, of : Parts]

GenerationShape ==
    /\ stream \in Seq(Entries)
    /\ open \subseteq Items
    /\ requests \in Seq(Requested)
    /\ gen \in [Turns -> LoopStates]
    /\ call \in [Turns -> CallStates]
    /\ \A t \in Turns : IF call[t].phase = "none" THEN call[t].request = 0
                        ELSE call[t].request \in 1 .. Len(requests)
    /\ aborted \subseteq Turns
    /\ faults \in 0 .. MaxFaults

-----------------------------------------------------------------------------
(* Generation: the inductive invariant *)

\* What ViewIsFaithful says of one request: messages show the history h.
Faithful(messages, h) ==
    LET view == Tail(messages)
        folded == view # <<>> /\ view[1].role = "summary"
        n == IF folded THEN Len(view[1].of) ELSE 0
        rest == IF folded THEN Tail(view) ELSE view
    IN /\ folded => view[1].of = Prefix(h, n)
       /\ Len(rest) = Len(h) - n
       /\ \A i \in DOMAIN rest : ShowsMessage(rest[i], h[n + i])

RequestOk(r) ==
    /\ r.kind = "step" => Faithful(r.messages, r.history)
    /\ r.end \notin {"end_turn", "tool_calls"} => r.calls = <<>>

\* An assistant message of this behaviour is a recorded answer.
MessageOk(m) ==
    m.role = "assistant" /\ m.request # Before =>
        /\ m.request \in DOMAIN requests
        /\ LET r == requests[m.request] IN
              /\ r.kind = "step" /\ r.end \in {"end_turn", "tool_calls"}
              /\ m.text = r.text /\ m.calls = r.calls
              /\ r.recorded = <<"model.completed">>

\* What request r says, by where call c of turn t, which made it, is.
CallIs(t, c, r) ==
    /\ r.turn = t
    /\ c.phase \in {"connecting", "buffered"} => r.text = <<>>
    /\ c.phase \in Unended => r.end = "none"
    /\ c.phase \notin Unended => r.end # "none"
    /\ c.phase # "recorded" => r.recorded = <<>>
    /\ c.phase = "recorded" =>
          r.recorded = <<IF r.end \in Errors THEN "model.failed" ELSE "model.completed">>

\* What the provider pushes, one after the other: the text, the calls, the end.
Pushed(r, n) ==
    IF n <= Len(r.text) THEN [kind |-> "message-delta", piece |-> r.text[n]]
    ELSE IF n <= Len(r.text) + Len(r.calls) THEN ToolIntent(r.calls[n - Len(r.text)])
    ELSE Done

Begins(s, u) == Len(s) <= Len(u) /\ \A i \in DOMAIN s : s[i] = u[i]

\* At the end of an answer comes one thing more.
AtEnd(c) == IF c.phase \in Unended THEN 0 ELSE 1

\* The attempt has taken the first things its request's provider pushed, and the
\* queue holds the others.
Takings(g, c, r) ==
    LET taken == Len(g.text) + Len(g.intents)
        pushed == Len(r.text) + Len(r.calls) + AtEnd(c)
    IN /\ Begins(g.text, r.text) /\ Begins(g.intents, r.calls)
       /\ g.intents # <<>> => Len(g.text) = Len(r.text)
       /\ taken + Len(c.queue) = pushed
       /\ \A i \in DOMAIN c.queue : c.queue[i] = Pushed(r, taken + i)

AttemptIs(g, c, r) ==
    /\ g.pc \in {"consume", "result"} => c.phase # "none" /\ r.kind = "step"
    /\ g.pc = "consume" => Takings(g, c, r)
    /\ g.pc = "result" => c.phase \notin Unended /\ g.text = r.text /\ g.intents = r.calls

ViewsAre(g) ==
    /\ g.pc \in Working => g.step < MaxSteps
    /\ g.compaction # NoSummary => g.compaction.count <= Len(g.history)
    /\ g.pc \in {"attempt", "request", "consume", "result"} => Faithful(g.view, g.history)

\* Of a turn that has made n step requests: its open items are those of its attempt.
ItemsAre(g, c, n, items) ==
    /\ g.pc = "idle" => n = 0
    /\ g.pc \notin Over =>
          /\ n = IF g.pc = "request" THEN g.item - 1 ELSE g.item
          /\ \A i \in items :
                IF i.type = "message"
                THEN g.pc \in {"request", "consume", "result"} /\ i.of = g.item
                ELSE g.pc \in {"consume", "result", "tools"} /\ i.of \in ToSet(g.intents)
    /\ g.pc \in Over =>
          \A i \in items :
             IF i.type = "message" THEN n < i.of \/ (g.refused /\ n = i.of)
             ELSE g.pc = "cancelled" \/ g.refused \/ c.phase = "unrecorded"

TurnIs(t, g, c, r, n, items, stopped) ==
    /\ c.phase # "none" => CallIs(t, c, r) /\ (r.end = "cancelled" => stopped)
    /\ AttemptIs(g, c, r) /\ ViewsAre(g) /\ ItemsAre(g, c, n, items)

StepsOf(t) == Cardinality(StepRequests(t))

TurnOk(t) ==
    TurnIs(t, gen[t], call[t], TheRequest(t), StepsOf(t), OpenOf(t), t \in aborted)

MessagesOk == \A i \in DOMAIN stream : stream[i].type = "message" => MessageOk(stream[i].body)
RequestsOk == \A i \in DOMAIN requests : RequestOk(requests[i])

GInv == GenerationShape /\ MessagesOk /\ RequestsOk /\ \A t \in Turns : TurnOk(t)

-----------------------------------------------------------------------------
(* Generation: the operators *)

LEMMA PastIs ==
    ASSUME NEW e \in Past
    PROVE  \/ e.type = "message" /\ EarlierMessage(e.body)
           \/ e.type = "context.compacted" /\ EarlierCompaction(e.body)
BY EarlierAssumption, Zenon DEF Past

LEMMA MessageFields ==
    ASSUME NEW m \in Messages
    PROVE  /\ m.role \in {"user", "assistant", "tool"}
           /\ m.role = "assistant" /\ m.request # Before => m.request \in Nat
           /\ m.role = "tool" => m.isError \in BOOLEAN /\ Placeholder(m).role = "tool"
           /\ System.role = "system"
<1>1. CASE \E e \in Past : e.type = "message" /\ m = e.body
  <2>1. EarlierMessage(m)
    BY <1>1, PastIs
  <2>2. QED  BY <2>1 DEF EarlierMessage, UserMessage, AssistantMessage, ToolMessage, Placeholder, System
<1>2. CASE \E t \in Turns : m = UserMessage(t)
  BY <1>2 DEF UserMessage, System
<1>3. CASE m \in [role : {"assistant"}, request : Nat \ {Before}, text : Seq(Parts), calls : Seq(Parts)]
  BY <1>3 DEF System
<1>4. CASE m \in [role : {"tool"}, call : Parts, isError : BOOLEAN, elided : {FALSE}]
  BY <1>4 DEF Placeholder, System
<1>5. QED  BY <1>1, <1>2, <1>3, <1>4 DEF Messages

LEMMA SummaryFields ==
    ASSUME NEW c \in Summaries
    PROVE  /\ c.summary = c.digest /\ c.count = Len(c.digest) /\ c.count \in Nat
           /\ c.digest \in Seq(ToSet(c.digest))
           /\ SummaryMessage(c).role = "summary" /\ SummaryMessage(c).of = c.digest
<1>1. c.digest \in Seq(ToSet(c.digest)) /\ c = Compaction(c.digest)
  <2>1. CASE \E e \in Past : e.type = "context.compacted" /\ c = e.body
    BY <2>1, PastIs DEF EarlierCompaction
  <2>2. CASE \E s \in Seq(Messages) : c = Compaction(s)
    <3>1. PICK s \in Seq(Messages) : c = Compaction(s)
      BY <2>2
    <3>2. s \in Seq(ToSet(s)) /\ c.digest = s
      BY <3>1 DEF Compaction, ToSet
    <3>3. QED  BY <3>1, <3>2
  <2>3. QED  BY <2>1, <2>2 DEF Summaries
<1>2. QED  BY <1>1 DEF Compaction, SummaryMessage

LEMMA EntryIs ==
    ASSUME NEW e \in Entries
    PROVE  /\ e.type \in {"message", "context.compacted"}
           /\ e.type = "message" => e.body \in Messages
           /\ e.type = "context.compacted" => e.body \in Summaries
<1>1. CASE e \in Past
  BY <1>1, PastIs DEF Messages, Summaries
<1>2. CASE \E m \in Messages : e = Message(m)
  BY <1>2 DEF Message
<1>3. CASE \E c \in Summaries : e = Compacted(c)
  BY <1>3 DEF Compacted
<1>4. QED  BY <1>1, <1>2, <1>3 DEF Entries

LEMMA SelectType ==
    ASSUME NEW D, NEW s \in Seq(D), NEW S
    PROVE  Select(s, S) \in Seq(D \intersect S)
<1>1. \A kept \in Seq(D \intersect S) : \A e \in D : Kept(S, kept, e) \in Seq(D \intersect S)
  BY DEF Kept
<1>2. << >> \in Seq(D \intersect S)
  OBVIOUS
<1>3. K!Folding(S, << >>, s) \in Seq(D \intersect S)
  BY <1>1, <1>2, K!FoldsInto
<1>4. Select(s, S) = K!Folding(S, << >>, s)
  BY DEF Select, K!Folding, FoldLeft, K!FoldLeft, MapThenFoldSet, K!MapThenFoldSet, Max, K!Max
<1>5. QED  BY <1>3, <1>4

LEMMA OfTypeIs ==
    ASSUME NEW s \in Seq(Entries), NEW type, NEW B, \A e \in Entries : e.type = type => e.body \in B
    PROVE  OfType(s, type) \in Seq(B)
<1> DEFINE all == {e \in ToSet(s) : e.type = type}
           chosen == Select(s, all)
<1>1. chosen \in Seq(Entries \intersect all)
  BY SelectType
<1>2. \A e \in Entries \intersect all : e.body \in B
  OBVIOUS
<1> HIDE DEF all
<1>3. Len(chosen) \in Nat /\ DOMAIN chosen = 1 .. Len(chosen)
      /\ \A i \in DOMAIN chosen : chosen[i] \in Entries \intersect all
  BY <1>1
<1>4. OfType(s, type) = [i \in DOMAIN chosen |-> chosen[i].body]
  BY DEF OfType, all
<1> HIDE DEF chosen
<1>5. QED  BY <1>2, <1>3, <1>4

\* The messages and the compactions of a stream.
LEMMA HistoryIs ==
    ASSUME NEW s \in Seq(Entries)
    PROVE  /\ messagesFromEvents(s) \in Seq(Messages)
           /\ OfType(s, "context.compacted") \in Seq(Summaries)
BY EntryIs, OfTypeIs DEF messagesFromEvents

LEMMA GreatestPlace ==
    ASSUME NEW n \in Nat, NEW S \in SUBSET (1 .. n), S # {}
    PROVE  Max(S) \in S
<1> DEFINE T == {n - i : i \in S}
<1>1. T \in SUBSET Nat /\ T # {}
  <2>1. \A i \in S : n - i \in Nat
    OBVIOUS
  <2>2. QED  BY <2>1
<1>2. PICK k \in T : \A j \in T : k <= j
  <2> HIDE DEF T
  <2>1. QED  BY <1>1, K!LeastNumber
<1>3. n - k \in S /\ \A i \in S : n - k >= i
  BY <1>2
<1>4. QED  BY <1>3, Zenon DEF Max

\* A compaction that applies is found, or none.
LEMMA LoadCompactionIs ==
    ASSUME NEW s \in Seq(Summaries), NEW h \in Seq(Messages)
    PROVE  LET c == LoadCompaction(s, h) IN
           c \in Summaries \union {NoSummary} /\ (c # NoSummary => c.count <= Len(h))
<1> DEFINE applicable == {i \in DOMAIN s : Applies(s[i], h)}
<1>1. Len(s) \in Nat /\ applicable \in SUBSET (1 .. Len(s))
  OBVIOUS
<1>2. applicable # {} => Max(applicable) \in applicable
  <2> HIDE DEF applicable
  <2>1. QED  BY <1>1, GreatestPlace
<1>3. QED  BY <1>2 DEF LoadCompaction, Applies

LEMMA PrefixIs ==
    ASSUME NEW D, NEW s \in Seq(D), NEW n \in 0 .. Len(s)
    PROVE  Prefix(s, n) \in Seq(D) /\ Len(Prefix(s, n)) = n
BY DEF Prefix

\* What a compaction would cover of a history.
LEMMA CoveredIs ==
    ASSUME NEW h \in Seq(Messages), NEW c \in Summaries \union {NoSummary},
           c # NoSummary => c.count <= Len(h)
    PROVE  /\ CoveredCount(h, c) \in 0 .. Len(h)
           /\ Compaction(Prefix(h, CoveredCount(h, c))) \in Summaries
           /\ Compaction(Prefix(h, CoveredCount(h, c))).count <= Len(h)
<1>1. c # NoSummary => c.count \in Nat
  BY SummaryFields
<1>2. CoveredCount(h, c) \in 0 .. Len(h)
  BY <1>1, ViewAssumption DEF CoveredCount
<1>3. QED  BY <1>2, PrefixIs DEF Summaries, Compaction

\* What is folded of a view are results that went well.
LEMMA ElidedAre ==
    ASSUME NEW messages, NEW i \in Elided(messages)
    PROVE  i \in DOMAIN messages /\ messages[i].role = "tool" /\ ~ messages[i].isError
BY DEF Elided

LEMMA CompactViewIs ==
    ASSUME NEW h \in Seq(Messages), NEW c \in Summaries \union {NoSummary},
           c # NoSummary => c.count <= Len(h)
    PROVE  \/ compactView(h, c) = h
           \/ /\ c \in Summaries /\ c.digest = Prefix(h, c.count)
              /\ compactView(h, c) \in Seq({SummaryMessage(c)} \union Messages)
              /\ Len(compactView(h, c)) = Len(h) - c.count + 1
              /\ compactView(h, c)[1] = SummaryMessage(c)
              /\ \A i \in 1 .. Len(h) - c.count : compactView(h, c)[i + 1] = h[c.count + i]
<1>1. CASE c = NoSummary \/ Prefix(h, c.count) # c.digest
  BY <1>1 DEF compactView
<1>2. CASE c # NoSummary /\ Prefix(h, c.count) = c.digest
  <2>1. c \in Summaries /\ c.count \in Nat /\ c.count <= Len(h)
    BY <1>2, SummaryFields
  <2> DEFINE rest == SubSeq(h, c.count + 1, Len(h))
  <2>2. rest \in Seq(Messages) /\ Len(rest) = Len(h) - c.count
        /\ \A i \in 1 .. Len(rest) : rest[i] = h[c.count + i]
    BY <2>1
  <2>3. compactView(h, c) = <<SummaryMessage(c)>> \o rest
    BY <1>2 DEF compactView
  <2> HIDE DEF rest
  <2>4. QED  BY <1>2, <2>1, <2>2, <2>3
<1>3. QED  BY <1>1, <1>2

\* A view of a history shows the history.
LEMMA ViewShows ==
    ASSUME NEW h \in Seq(Messages), NEW c \in Summaries \union {NoSummary},
           c # NoSummary => c.count <= Len(h)
    PROVE  LET view == projectHistory(Assembled(h, c)) IN
           view \in Seq(Shown) /\ Faithful(view, h)
<1> DEFINE v == compactView(h, c)
           m == Assembled(h, c)
           view == projectHistory(m)
           seen(x) == Placeholder(x)
<1>1. v \in Seq({SummaryMessage(c)} \union Messages) /\ (v \in Seq(Messages) \/ c \in Summaries)
  <2>1. h \in Seq({SummaryMessage(c)} \union Messages)
    OBVIOUS
  <2>2. QED  BY <2>1, CompactViewIs
<1>2. m = <<System>> \o v
  BY DEF Assembled
<1> HIDE DEF v, m
<1>3. /\ DOMAIN m = 1 .. Len(v) + 1 /\ m[1] = System /\ Len(v) \in Nat /\ DOMAIN v = 1 .. Len(v)
      /\ \A i \in 1 .. Len(v) : m[i + 1] = v[i]
  BY <1>1, <1>2
<1>4. /\ view = [i \in DOMAIN m |-> IF i \in Elided(m) THEN Placeholder(m[i]) ELSE m[i]]
      /\ \A i \in Elided(m) : m[i].role = "tool" /\ ~ m[i].isError
  BY ElidedAre DEF projectHistory
<1> HIDE DEF view
<1>5. DOMAIN view = 1 .. Len(v) + 1 /\ view[1] = System
  <2>1. System.role # "tool"
    BY DEF System
  <2>2. QED  BY <1>3, <1>4, <2>1
<1>6. ASSUME NEW i \in 1 .. Len(v)
      PROVE  \/ view[i + 1] = v[i]
             \/ v[i].role = "tool" /\ ~ v[i].isError /\ view[i + 1] = Placeholder(v[i])
  BY <1>3, <1>4
<1>7. ASSUME NEW i \in 1 .. Len(v)
      PROVE  view[i + 1] \in Shown
  <2>1. CASE v[i] \in Messages
    BY <1>6, <2>1 DEF Shown
  <2>2. CASE v[i] = SummaryMessage(c) /\ c \in Summaries
    <3>1. v[i].role = "summary"
      BY <2>2, SummaryFields
    <3>2. QED  BY <1>6, <2>2, <3>1 DEF Shown
  <2>3. v[i] \in Messages \/ (v[i] = SummaryMessage(c) /\ c \in Summaries)
    BY <1>1
  <2>4. QED  BY <2>1, <2>2, <2>3
<1>8. view \in Seq(Shown)
  <2>1. \A i \in 1 .. Len(v) + 1 : view[i] \in Shown
    <3>1. \A i \in 1 .. Len(v) + 1 : i = 1 \/ (i - 1 \in 1 .. Len(v) /\ (i - 1) + 1 = i)
      BY <1>3
    <3>2. System \in Shown
      BY DEF Shown
    <3>3. QED  BY <1>5, <1>7, <3>1, <3>2
  <2>2. Len(v) + 1 \in Nat
    BY <1>3
  <2>3. view = [i \in 1 .. Len(v) + 1 |-> view[i]]
    BY <1>3, <1>4
  <2> HIDE DEF seen
  <2>4. QED  BY <2>1, <2>2, <2>3
<1> DEFINE shown == Tail(view)
<1>9. /\ shown \in Seq(Shown) /\ Len(shown) = Len(v)
      /\ \A i \in 1 .. Len(v) : shown[i] = view[i + 1]
  <2>1. Len(view) = Len(v) + 1
    BY <1>3, <1>5, <1>8
  <2>2. QED  BY <1>3, <1>8, <2>1
<1> HIDE DEF shown
<1>10. \A i \in 1 .. Len(v) : ShowsMessage(shown[i], v[i])
  BY <1>6, <1>9 DEF ShowsMessage
<1>11. ASSUME v = h
       PROVE  Faithful(view, h)
  <2>1. ASSUME shown # << >>
        PROVE  shown[1].role # "summary"
    <3>1. 1 \in 1 .. Len(v) /\ v[1] \in Messages
      BY <1>9, <1>11, <2>1
    <3>2. shown[1] = v[1] \/ (v[1].role = "tool" /\ shown[1] = Placeholder(v[1]))
      BY <1>6, <1>9, <3>1
    <3>3. v[1].role # "summary" /\ (v[1].role = "tool" => Placeholder(v[1]).role = "tool")
      BY <3>1, MessageFields
    <3>4. QED  BY <3>2, <3>3
  <2>2. Len(shown) = Len(h) - 0 /\ DOMAIN shown = 1 .. Len(v)
        /\ \A i \in DOMAIN shown : ShowsMessage(shown[i], h[0 + i])
    BY <1>3, <1>9, <1>10, <1>11
  <2>3. QED  BY <2>1, <2>2 DEF Faithful, shown
<1>12. ASSUME v # h
       PROVE  Faithful(view, h)
  <2>1. /\ c \in Summaries /\ c.digest = Prefix(h, c.count)
        /\ Len(v) = Len(h) - c.count + 1 /\ v[1] = SummaryMessage(c)
        /\ \A i \in 1 .. Len(h) - c.count : v[i + 1] = h[c.count + i]
    BY <1>12, CompactViewIs DEF v
  <2>2. c.count \in Nat /\ c.count <= Len(h) /\ Len(h) \in Nat /\ c.count = Len(c.digest)
        /\ v[1].role = "summary" /\ v[1].of = c.digest
    <3>1. c # NoSummary \/ NoSummary \in Summaries
      BY <2>1
    <3>2. v = <<SummaryMessage(c)>> \o SubSeq(h, c.count + 1, Len(h)) /\ c # NoSummary
      BY <1>12 DEF v, compactView
    <3>3. QED  BY <2>1, <3>2, SummaryFields
  <2>3. shown # << >> /\ shown[1] = v[1]
    <3>1. 1 \in 1 .. Len(v)
      BY <2>1, <2>2
    <3>2. shown[1] = v[1]
      BY <1>6, <1>9, <2>2, <3>1
    <3>3. QED  BY <1>9, <3>1, <3>2
  <2>4. /\ Len(Tail(shown)) = Len(h) - c.count /\ DOMAIN Tail(shown) = 1 .. Len(h) - c.count
        /\ \A i \in 1 .. Len(h) - c.count : Tail(shown)[i] = shown[i + 1]
    BY <1>9, <2>1, <2>2, <2>3
  <2>5. \A i \in DOMAIN Tail(shown) : ShowsMessage(Tail(shown)[i], h[c.count + i])
    <3>1. \A i \in 1 .. Len(h) - c.count : i + 1 \in 1 .. Len(v)
      BY <2>1, <2>2
    <3>2. QED  BY <1>10, <2>1, <2>4, <3>1
  <2>6. QED  BY <2>1, <2>2, <2>3, <2>4, <2>5 DEF Faithful, shown
<1>13. QED  BY <1>8, <1>11, <1>12 DEF view, m

-----------------------------------------------------------------------------
(* Generation: one turn moves *)

\* Turn t begins request q, or goes on with its last one, which becomes q.
Begun(t, q) ==
    /\ q \in Requested /\ q.turn = t /\ RequestOk(q)
    /\ requests' = Append(requests, q)

Altered(t, q) ==
    /\ q \in Requested /\ q.turn = t /\ RequestOk(q)
    /\ call[t].phase \notin {"none", "recorded"}
    /\ q.kind = TheRequest(t).kind
    /\ requests' = [requests EXCEPT ![call[t].request] = q]

LEMMA StepsAreFinite ==
    ASSUME GenerationShape, NEW t \in Turns
    PROVE  /\ StepRequests(t) \subseteq 1 .. Len(requests)
           /\ IsFiniteSet(StepRequests(t)) /\ StepsOf(t) \in Nat
<1>1. Len(requests) \in Nat /\ StepRequests(t) \subseteq 1 .. Len(requests)
  BY DEF GenerationShape, StepRequests
<1>2. IsFiniteSet(1 .. Len(requests))
  BY <1>1, FS_Interval
<1>3. QED  BY <1>1, <1>2, FS_Subset, FS_CardinalityType DEF StepsOf

LEMMA RequestOf ==
    ASSUME GInv, NEW t \in Turns, call[t].phase # "none"
    PROVE  /\ call[t].request \in 1 .. Len(requests) /\ TheRequest(t) \in Requested
           /\ CallIs(t, call[t], TheRequest(t)) /\ RequestOk(TheRequest(t))
           /\ TheRequest(t).end = "cancelled" => t \in aborted
BY DEF GInv, GenerationShape, TurnOk, TurnIs, TheRequest, RequestsOk

LEMMA RequestBegun ==
    ASSUME GInv, NEW t \in Turns, NEW q, Begun(t, q)
    PROVE  /\ requests' \in Seq(Requested) /\ Len(requests') = Len(requests) + 1
           /\ requests'[Len(requests) + 1] = q
           /\ \A i \in 1 .. Len(requests) : requests'[i] = requests[i]
           /\ RequestsOk'
           /\ \A u \in Turns : u # t => StepsOf(u)' = StepsOf(u)
           /\ StepsOf(t)' = IF q.kind = "step" THEN StepsOf(t) + 1 ELSE StepsOf(t)
<1>1. /\ requests' \in Seq(Requested) /\ Len(requests') = Len(requests) + 1 /\ Len(requests) \in Nat
      /\ requests'[Len(requests) + 1] = q
      /\ \A i \in 1 .. Len(requests) : requests'[i] = requests[i]
      /\ DOMAIN requests = 1 .. Len(requests) /\ DOMAIN requests' = 1 .. Len(requests) + 1
  BY DEF GInv, GenerationShape, Begun
<1>2. RequestsOk'
  <2>1. \A i \in 1 .. Len(requests) + 1 : i = Len(requests) + 1 \/ i \in 1 .. Len(requests)
    BY <1>1
  <2>2. RequestOk(q) /\ \A i \in 1 .. Len(requests) : RequestOk(requests[i])
    BY <1>1 DEF GInv, RequestsOk, Begun
  <2>3. \A i \in 1 .. Len(requests) + 1 : RequestOk(requests'[i])
    BY <1>1, <2>1, <2>2
  <2>4. QED  BY <1>1, <2>3 DEF RequestsOk, RequestOk
<1>3. ASSUME NEW u \in Turns
      PROVE  StepRequests(u)' = IF u = t /\ q.kind = "step" THEN StepRequests(u) \union {Len(requests) + 1}
                                ELSE StepRequests(u)
  <2>1. q.turn = t
    BY DEF Begun
  <2>2. \A i \in 1 .. Len(requests) + 1 : i = Len(requests) + 1 \/ i \in 1 .. Len(requests)
    BY <1>1
  <2>3. \A i : i \in StepRequests(u)' <=>
           i \in 1 .. Len(requests) + 1 /\ requests'[i].turn = u /\ requests'[i].kind = "step"
    BY <1>1 DEF StepRequests
  <2>4. \A i : i \in StepRequests(u) <=>
           i \in 1 .. Len(requests) /\ requests[i].turn = u /\ requests[i].kind = "step"
    BY <1>1 DEF StepRequests
  <2>5. \A i \in 1 .. Len(requests) : i \in StepRequests(u)' <=> i \in StepRequests(u)
    BY <1>1, <2>3, <2>4
  <2>6. Len(requests) + 1 \in StepRequests(u)' <=> u = t /\ q.kind = "step"
    BY <1>1, <2>1, <2>3
  <2>7. Len(requests) + 1 \notin 1 .. Len(requests)
    BY <1>1
  <2>8. StepRequests(u)' \subseteq 1 .. Len(requests) + 1 /\ StepRequests(u) \subseteq 1 .. Len(requests)
    BY <2>3, <2>4
  <2>9. QED  BY <2>2, <2>5, <2>6, <2>8
<1>4. \A u \in Turns : u # t => StepsOf(u)' = StepsOf(u)
  BY <1>3 DEF StepsOf
<1>5. StepsOf(t)' = IF q.kind = "step" THEN StepsOf(t) + 1 ELSE StepsOf(t)
  <2>1. IsFiniteSet(StepRequests(t)) /\ Len(requests) + 1 \notin StepRequests(t)
    BY <1>1, StepsAreFinite DEF GInv
  <2>2. Cardinality(StepRequests(t) \union {Len(requests) + 1}) = Cardinality(StepRequests(t)) + 1
    BY <2>1, FS_AddElement
  <2>3. QED  BY <1>3, <2>2 DEF StepsOf
<1>6. QED  BY <1>1, <1>2, <1>4, <1>5

LEMMA RequestAltered ==
    ASSUME GInv, NEW t \in Turns, NEW q, Altered(t, q)
    PROVE  /\ requests' \in Seq(Requested) /\ Len(requests') = Len(requests)
           /\ requests'[call[t].request] = q
           /\ \A i \in 1 .. Len(requests) : i # call[t].request => requests'[i] = requests[i]
           /\ RequestsOk'
           /\ \A u \in Turns : StepsOf(u)' = StepsOf(u)
           /\ TheRequest(t).recorded = << >>
<1>1. /\ call[t].request \in 1 .. Len(requests) /\ CallIs(t, call[t], TheRequest(t))
      /\ call[t].phase # "recorded"
  BY RequestOf DEF Altered
<1>2. /\ requests' \in Seq(Requested) /\ Len(requests') = Len(requests) /\ Len(requests) \in Nat
      /\ requests'[call[t].request] = q
      /\ \A i \in 1 .. Len(requests) : i # call[t].request => requests'[i] = requests[i]
      /\ DOMAIN requests = 1 .. Len(requests) /\ DOMAIN requests' = 1 .. Len(requests)
  BY <1>1 DEF GInv, GenerationShape, Altered
<1>3. RequestsOk'
  <2>1. RequestOk(q) /\ \A i \in 1 .. Len(requests) : RequestOk(requests[i])
    BY <1>2 DEF GInv, RequestsOk, Altered
  <2>2. \A i \in 1 .. Len(requests) : RequestOk(requests'[i])
    BY <1>2, <2>1
  <2>3. QED  BY <1>2, <2>2 DEF RequestsOk, RequestOk
<1>4. ASSUME NEW u \in Turns
      PROVE  StepRequests(u)' = StepRequests(u)
  <2>1. q.turn = TheRequest(t).turn /\ q.kind = TheRequest(t).kind
    BY <1>1 DEF Altered, CallIs
  <2>2. \A i \in 1 .. Len(requests) :
           requests'[i].turn = requests[i].turn /\ requests'[i].kind = requests[i].kind
    BY <1>2, <2>1 DEF TheRequest
  <2>3. QED  BY <1>2, <2>2 DEF StepRequests
<1>5. QED  BY <1>1, <1>2, <1>3, <1>4 DEF StepsOf, CallIs

RequestsMove(t) == requests' = requests \/ \E q : Begun(t, q) \/ Altered(t, q)

\* No other turn sees the difference, and what is recorded stays.
LEMMA RequestsMoved ==
    ASSUME GInv, NEW t \in Turns, RequestsMove(t)
    PROVE  /\ requests' \in Seq(Requested) /\ Len(requests') \in Nat /\ Len(requests') >= Len(requests)
           /\ RequestsOk'
           /\ \A i \in 1 .. Len(requests) :
                 requests'[i] = requests[i]
                 \/ (requests[i].turn = t /\ requests[i].recorded = << >>)
           /\ \A u \in Turns : u # t => StepsOf(u)' = StepsOf(u)
<1>1. CASE requests' = requests
  BY <1>1 DEF GInv, GenerationShape, RequestsOk, RequestOk, StepsOf, StepRequests
<1>2. CASE \E q : Begun(t, q)
  <2>1. PICK q : Begun(t, q)
    BY <1>2
  <2>2. Len(requests) \in Nat
    BY DEF GInv, GenerationShape
  <2>3. QED  BY <2>1, <2>2, RequestBegun
<1>3. CASE \E q : Altered(t, q)
  <2>1. PICK q : Altered(t, q)
    BY <1>3
  <2>2. Len(requests) \in Nat /\ TheRequest(t).turn = t
    BY <2>1, RequestOf DEF GInv, GenerationShape, Altered, CallIs
  <2>3. QED  BY <2>1, <2>2, RequestAltered DEF TheRequest
<1>4. QED  BY <1>1, <1>2, <1>3 DEF RequestsMove

LEMMA MessagesStay ==
    ASSUME GInv, NEW t \in Turns, RequestsMove(t), NEW m, MessageOk(m)
    PROVE  MessageOk(m)'
<1>1. SUFFICES ASSUME m.role = "assistant", m.request # Before
               PROVE  MessageOk(m)'
  BY DEF MessageOk
<1>2. /\ m.request \in 1 .. Len(requests) /\ m.request \in 1 .. Len(requests')
      /\ DOMAIN requests' = 1 .. Len(requests')
      /\ requests[m.request].recorded = <<"model.completed">>
      /\ requests'[m.request] = requests[m.request] \/ requests[m.request].recorded = << >>
  <2>1. Len(requests) \in Nat /\ DOMAIN requests = 1 .. Len(requests)
    BY DEF GInv, GenerationShape
  <2>2. m.request \in 1 .. Len(requests) /\ requests[m.request].recorded = <<"model.completed">>
    BY <1>1, <2>1 DEF MessageOk
  <2>3. Len(requests') \in Nat /\ DOMAIN requests' = 1 .. Len(requests') /\ Len(requests') >= Len(requests)
    BY RequestsMoved
  <2>4. m.request \in 1 .. Len(requests')
    BY <2>1, <2>2, <2>3
  <2>5. requests'[m.request] = requests[m.request] \/ requests[m.request].recorded = << >>
    BY <2>2, RequestsMoved
  <2>6. QED  BY <2>2, <2>3, <2>4, <2>5
<1>3. requests'[m.request] = requests[m.request]
  BY <1>2
<1>4. QED  BY <1>1, <1>2, <1>3 DEF MessageOk

LEMMA OneTurnMoves ==
    ASSUME GInv, NEW t \in Turns, NEW g \in LoopStates, NEW c \in CallStates,
           gen' = [gen EXCEPT ![t] = g], call' = [call EXCEPT ![t] = c],
           IF c.phase = "none" THEN c.request = 0 ELSE c.request \in 1 .. Len(requests'),
           RequestsMove(t),
           open' \subseteq Items, \A i \in Items : i.turn # t => (i \in open' <=> i \in open),
           aborted' \subseteq Turns, \A u \in Turns : u # t => (u \in aborted' <=> u \in aborted),
           faults' \in 0 .. MaxFaults,
           NEW new \in Seq(Entries), stream' = stream \o new,
           \A i \in DOMAIN new : new[i].type = "message" => MessageOk(new[i].body)',
           TurnIs(t, g, c, requests'[c.request], StepsOf(t)', OpenOf(t)', t \in aborted')
    PROVE  GInv'
<1>1. /\ gen' \in [Turns -> LoopStates] /\ call' \in [Turns -> CallStates]
      /\ gen'[t] = g /\ call'[t] = c
      /\ \A u \in Turns : u # t => gen'[u] = gen[u] /\ call'[u] = call[u]
  BY DEF GInv, GenerationShape
<1>2. GenerationShape'
  <2>1. stream' \in Seq(Entries)
    BY DEF GInv, GenerationShape
  <2>2. ASSUME NEW u \in Turns
        PROVE  IF call'[u].phase = "none" THEN call'[u].request = 0
               ELSE call'[u].request \in 1 .. Len(requests')
    <3>1. CASE u = t
      BY <1>1, <3>1
    <3>2. CASE u # t
      <4>1. Len(requests) \in Nat /\ Len(requests') \in Nat /\ Len(requests') >= Len(requests)
        BY RequestsMoved DEF GInv, GenerationShape
      <4>2. IF call[u].phase = "none" THEN call[u].request = 0
            ELSE call[u].request \in 1 .. Len(requests)
        BY DEF GInv, GenerationShape
      <4>3. QED  BY <1>1, <3>2, <4>1, <4>2
    <3>3. QED  BY <3>1, <3>2
  <2>3. QED  BY <1>1, <2>1, <2>2, RequestsMoved DEF GenerationShape
<1>3. MessagesOk'
  <2>1. ASSUME NEW m, \E i \in DOMAIN stream : stream[i].type = "message" /\ m = stream[i].body
        PROVE  MessageOk(m)'
    <3>1. MessageOk(m)
      BY <2>1 DEF GInv, MessagesOk
    <3>2. QED  BY <3>1, MessagesStay
  <2>2. stream \in Seq(Entries)
    BY DEF GInv, GenerationShape
  <2>3. \A i \in DOMAIN stream' :
           (i \in DOMAIN stream /\ stream'[i] = stream[i])
           \/ \E k \in DOMAIN new : stream'[i] = new[k]
    <3>1. ASSUME NEW i \in DOMAIN stream', i \notin DOMAIN stream
          PROVE  i - Len(stream) \in DOMAIN new /\ stream'[i] = new[i - Len(stream)]
      BY <2>2, <3>1
    <3>2. \A i \in DOMAIN stream : stream'[i] = stream[i]
      BY <2>2
    <3>3. QED  BY <3>1, <3>2
  <2>4. ASSUME NEW m, \E i \in DOMAIN stream' : stream'[i].type = "message" /\ m = stream'[i].body
        PROVE  MessageOk(m)'
    BY <2>1, <2>3, <2>4
  <2>5. QED  BY <2>4 DEF MessagesOk, MessageOk
<1>4. ASSUME NEW u \in Turns, u # t
      PROVE  TurnOk(u)'
  <2>1. OpenOf(u)' = OpenOf(u)
    <3>1. open \subseteq Items
      BY DEF GInv, GenerationShape
    <3>2. QED  BY <1>4, <3>1 DEF OpenOf
  <2>2. StepsOf(u)' = StepsOf(u)
    BY <1>4, RequestsMoved
  <2>3. call[u].phase # "none" => TheRequest(u)' = TheRequest(u)
    <3>1. ASSUME call[u].phase # "none"
          PROVE  call[u].request \in 1 .. Len(requests) /\ TheRequest(u).turn = u
      BY <3>1, RequestOf DEF CallIs
    <3>2. ASSUME call[u].phase # "none"
          PROVE  requests'[call[u].request] = requests[call[u].request]
      BY <1>4, <3>1, <3>2, RequestsMoved DEF TheRequest
    <3>3. QED  BY <1>1, <1>4, <3>2 DEF TheRequest
  <2>4. TurnOk(u)
    BY DEF GInv
  <2>5. call'[u] = call[u] /\ gen'[u] = gen[u] /\ (u \in aborted' <=> u \in aborted)
    BY <1>1, <1>4
  <2>6. TurnIs(u, gen[u], call[u], TheRequest(u)', StepsOf(u), OpenOf(u), u \in aborted)
    BY <2>3, <2>4 DEF TurnOk, TurnIs, AttemptIs
  <2>7. TurnIs(u, gen'[u], call'[u], TheRequest(u)', StepsOf(u)', OpenOf(u)', u \in aborted')
    BY <2>1, <2>2, <2>5, <2>6 DEF TurnIs
  <2>8. QED  BY <2>7 DEF TurnOk
<1>5. TurnOk(t)'
  <2>1. TheRequest(t)' = requests'[c.request]
    BY <1>1 DEF TheRequest
  <2>2. QED  BY <1>1, <2>1 DEF TurnOk
<1>6. QED  BY <1>2, <1>3, <1>4, <1>5, RequestsMoved DEF GInv

LEMMA TurnNow ==
    ASSUME GInv, NEW t \in Turns
    PROVE  /\ gen[t] \in LoopStates /\ call[t] \in CallStates /\ StepsOf(t) \in Nat
           /\ gen \in [Turns -> LoopStates] /\ call \in [Turns -> CallStates]
           /\ AttemptIs(gen[t], call[t], TheRequest(t)) /\ ViewsAre(gen[t])
           /\ ItemsAre(gen[t], call[t], StepsOf(t), OpenOf(t))
           /\ OpenOf(t) \subseteq Items /\ open \subseteq Items
           /\ IF call[t].phase = "none" THEN call[t].request = 0
              ELSE call[t].request \in 1 .. Len(requests)
           /\ stream \in Seq(Entries) /\ stream = stream \o << >> /\ << >> \in Seq(Entries)
           /\ aborted \subseteq Turns /\ faults \in 0 .. MaxFaults
<1>1. TurnOk(t)
  BY DEF GInv
<1>2. StepsOf(t) \in Nat
  BY StepsAreFinite DEF GInv
<1>3. stream \in Seq(Entries) /\ stream = stream \o << >> /\ << >> \in Seq(Entries)
  BY DEF GInv, GenerationShape
<1>4. QED  BY <1>1, <1>2, <1>3 DEF TurnOk, TurnIs, GInv, GenerationShape, OpenOf

\* A turn goes on without a word to its provider, but that it takes from the queue.
LEMMA LoopMoves ==
    ASSUME GInv, NEW t \in Turns, NEW g \in LoopStates, NEW c \in CallStates,
           gen' = [gen EXCEPT ![t] = g], call' = [call EXCEPT ![t] = c],
           c.request = call[t].request, c.phase = call[t].phase,
           requests' = requests, aborted' = aborted, faults' \in 0 .. MaxFaults,
           open' \subseteq Items, \A i \in Items : i.turn # t => (i \in open' <=> i \in open),
           NEW new \in Seq(Entries), stream' = stream \o new,
           \A i \in DOMAIN new : new[i].type = "message" => MessageOk(new[i].body),
           AttemptIs(g, c, TheRequest(t)), ViewsAre(g), ItemsAre(g, c, StepsOf(t), OpenOf(t)')
    PROVE  GInv'
<1>1. RequestsMove(t)
  BY DEF RequestsMove
<1>2. requests'[c.request] = TheRequest(t)
  BY DEF TheRequest
<1>3. StepsOf(t)' = StepsOf(t)
  BY DEF StepsOf, StepRequests
<1>4. \A i \in DOMAIN new : new[i].type = "message" => MessageOk(new[i].body)'
  BY DEF MessageOk
<1>5. c.phase # "none" => CallIs(t, c, TheRequest(t)) /\ (TheRequest(t).end = "cancelled" => t \in aborted)
  BY RequestOf DEF CallIs
<1>6. IF c.phase = "none" THEN c.request = 0 ELSE c.request \in 1 .. Len(requests')
  BY TurnNow
<1>7. TurnIs(t, g, c, TheRequest(t), StepsOf(t), OpenOf(t)', t \in aborted)
  BY <1>5 DEF TurnIs
<1>8. TurnIs(t, g, c, requests'[c.request], StepsOf(t)', OpenOf(t)', t \in aborted')
  BY <1>2, <1>3, <1>7
<1>9. aborted' \subseteq Turns
      /\ \A u \in Turns : u # t => (u \in aborted' <=> u \in aborted)
  BY TurnNow
<1>10. QED  BY <1>1, <1>4, <1>6, <1>8, <1>9, OneTurnMoves

\* The call of a turn goes on by itself: its request becomes q.
LEMMA ProviderMoves ==
    ASSUME GInv, NEW t \in Turns, NEW q, NEW c \in CallStates, Altered(t, q),
           call' = [call EXCEPT ![t] = c], c.request = call[t].request, c.phase # "none",
           stream' = stream, gen' = gen, open' = open, aborted' = aborted,
           faults' \in 0 .. MaxFaults, call[t].phase # "unrecorded",
           CallIs(t, c, q), q.end = "cancelled" => t \in aborted,
           gen[t].pc \in {"consume", "result"} => AttemptIs(gen[t], c, q)
    PROVE  GInv'
<1>1. RequestsMove(t)
  BY DEF RequestsMove
<1>2. /\ requests'[c.request] = q /\ StepsOf(t)' = StepsOf(t)
      /\ c.request \in 1 .. Len(requests')
  <2>1. requests'[call[t].request] = q /\ StepsOf(t)' = StepsOf(t) /\ Len(requests') = Len(requests)
    BY RequestAltered
  <2>2. call[t].request \in 1 .. Len(requests)
    BY RequestOf DEF Altered
  <2>3. QED  BY <2>1, <2>2
<1>3. ItemsAre(gen[t], c, StepsOf(t), OpenOf(t))
  BY TurnNow DEF ItemsAre
<1>4. AttemptIs(gen[t], c, q) /\ ViewsAre(gen[t])
  BY TurnNow DEF AttemptIs
<1>5. TurnIs(t, gen[t], c, q, StepsOf(t), OpenOf(t), t \in aborted)
  BY <1>3, <1>4 DEF TurnIs
<1>6. OpenOf(t)' = OpenOf(t)
  BY DEF OpenOf
<1>7. TurnIs(t, gen[t], c, requests'[c.request], StepsOf(t)', OpenOf(t)', t \in aborted')
  BY <1>2, <1>5, <1>6
<1>8. /\ gen' = [gen EXCEPT ![t] = gen[t]] /\ gen[t] \in LoopStates
      /\ open' \subseteq Items /\ aborted' \subseteq Turns
      /\ stream' = stream \o << >> /\ << >> \in Seq(Entries)
      /\ \A i \in DOMAIN << >> : FALSE
  BY TurnNow
<1>9. QED  BY <1>1, <1>2, <1>7, <1>8, OneTurnMoves

LEMMA IdleType ==
    ASSUME NEW result \in Over, NEW refused \in BOOLEAN
    PROVE  /\ Ended(result, refused) \in LoopStates
           /\ \A c, r : AttemptIs(Ended(result, refused), c, r)
           /\ ViewsAre(Ended(result, refused))
           /\ Ended(result, refused).pc = result /\ Ended(result, refused).refused = refused
<1>1. 0 \in 0 .. MaxCompactions /\ 0 \in 0 .. MaxSteps /\ 0 \in 0 .. MaxRetries /\ 1 \in 1 .. MaxCap
  BY GenerationAssumption
<1>2. << >> \in Seq(Messages) /\ << >> \in Seq(Shown) /\ << >> \in Seq(Parts)
  OBVIOUS
<1>3. Idle \in LoopStates /\ Idle.compaction = NoSummary
  BY <1>1, <1>2 DEF LoopStates, Idle
<1>4. PICK g : g = Ended(result, refused)
  OBVIOUS
<1>5. g \in LoopStates /\ g.pc = result /\ g.refused = refused /\ g.compaction = NoSummary
  BY <1>3, <1>4 DEF LoopStates, Ended
<1>6. (\A c, r : AttemptIs(g, c, r)) /\ ViewsAre(g)
  BY <1>5 DEF AttemptIs, ViewsAre, Over, Working
<1>7. QED  BY <1>4, <1>5, <1>6

\* A turn ends; what it leaves open is what ItemsSettle allows.
LEMMA TurnStops ==
    ASSUME GInv, NEW t \in Turns, NEW result \in Over, NEW refused \in BOOLEAN,
           gen' = [gen EXCEPT ![t] = Ended(result, refused)],
           NEW c \in CallStates, call' = [call EXCEPT ![t] = c],
           c.request = call[t].request, c.phase = call[t].phase,
           UNCHANGED <<stream, requests, aborted>>, faults' \in 0 .. MaxFaults,
           open' \subseteq open, \A i \in open : i.turn # t => i \in open',
           \A i \in OpenOf(t)' :
              IF i.type = "message" THEN StepsOf(t) < i.of \/ (refused /\ StepsOf(t) = i.of)
              ELSE result = "cancelled" \/ refused \/ call[t].phase = "unrecorded"
    PROVE  GInv'
<1> DEFINE g == Ended(result, refused)
<1>1. g \in LoopStates /\ AttemptIs(g, c, TheRequest(t)) /\ ViewsAre(g) /\ g.pc = result
      /\ g.refused = refused
  BY IdleType
<1>2. gen' = [gen EXCEPT ![t] = g]
  OBVIOUS
<1> HIDE DEF g
<1>3. ItemsAre(g, c, StepsOf(t), OpenOf(t)')
  BY <1>1 DEF ItemsAre, Over
<1>4. /\ stream' = stream \o << >> /\ << >> \in Seq(Entries) /\ open' \subseteq Items
      /\ \A i \in Items : i.turn # t => (i \in open' <=> i \in open)
      /\ \A i \in DOMAIN << >> : FALSE
  BY TurnNow
<1>5. QED  BY <1>1, <1>2, <1>3, <1>4, LoopMoves

LEMMA TurnEnds ==
    ASSUME GInv, NEW t \in Turns, NEW result \in Over, Ends(t, result), NEW c \in CallStates,
           call' = [call EXCEPT ![t] = c],
           c.request = call[t].request, c.phase = call[t].phase,
           UNCHANGED <<stream, requests, aborted>>, faults' \in 0 .. MaxFaults,
           open' \subseteq open, \A i \in open : i.turn # t => i \in open',
           \A i \in OpenOf(t)' : IF i.type = "message" THEN StepsOf(t) < i.of
                                 ELSE result = "cancelled" \/ call[t].phase = "unrecorded"
    PROVE  GInv'
<1>1. gen' = [gen EXCEPT ![t] = Ended(result, FALSE)] /\ FALSE \in BOOLEAN
  BY DEF Ends
<1>2. QED  BY <1>1, TurnStops

-----------------------------------------------------------------------------
(* Generation: the steps of a turn *)

LEMMA FaultType ==
    ASSUME GInv, Fault \/ UNCHANGED faults
    PROVE  faults' \in 0 .. MaxFaults
BY GenerationAssumption DEF GInv, GenerationShape, Fault

LEMMA RunTurnKeeps ==
    ASSUME GInv, NEW t \in Turns, RunTurn(t)
    PROVE  GInv'
<1> DEFINE carried == messagesFromEvents(stream)
           said == UserMessage(t)
           c == LoadCompaction(OfType(stream, "context.compacted"), carried)
           g == [Idle EXCEPT !.pc = "drive", !.history = Append(carried, said), !.compaction = c]
           new == <<Message(said)>>
<1>1. carried \in Seq(Messages) /\ said \in Messages /\ said.role = "user"
  BY TurnNow, HistoryIs DEF Messages, UserMessage
<1>2. c \in Summaries \union {NoSummary} /\ (c # NoSummary => c.count <= Len(carried))
  <2>1. OfType(stream, "context.compacted") \in Seq(Summaries)
    BY TurnNow, HistoryIs
  <2> HIDE DEF carried
  <2>2. QED  BY <1>1, <2>1, LoadCompactionIs
<1>3. Message(said) \in Entries /\ Message(said).body = said
  BY <1>1 DEF Entries, Message
<1>4. gen' = [gen EXCEPT ![t] = g] /\ stream' = stream \o new
      /\ gen[t].pc = "idle" /\ UNCHANGED <<open, requests, call, aborted, faults>>
  BY DEF RunTurn, AppendEvents
<1> HIDE DEF carried, said, c
<1>5. Append(carried, said) \in Seq(Messages) /\ Len(Append(carried, said)) = Len(carried) + 1
      /\ Len(carried) \in Nat
  BY <1>1
<1>6. g \in LoopStates /\ g.pc = "drive" /\ g.item = 0 /\ g.intents = << >>
      /\ g.history = Append(carried, said) /\ g.compaction = c
  <2>1. 0 \in 0 .. MaxCompactions /\ 0 \in 0 .. MaxSteps /\ 0 \in 0 .. MaxRetries /\ 1 \in 1 .. MaxCap
    BY GenerationAssumption
  <2>2. << >> \in Seq(Messages) /\ << >> \in Seq(Shown) /\ << >> \in Seq(Parts)
    OBVIOUS
  <2>3. QED  BY <1>2, <1>5, <2>1, <2>2 DEF LoopStates, Idle
<1> HIDE DEF g
<1>7. ViewsAre(g) /\ AttemptIs(g, call[t], TheRequest(t))
  <2>1. g.compaction # NoSummary => g.compaction.count <= Len(g.history)
    <3>1. c # NoSummary => c.count \in Nat
      BY <1>2, SummaryFields
    <3>2. QED  BY <1>2, <1>5, <1>6, <3>1
  <2>2. QED  BY <1>6, <2>1 DEF ViewsAre, AttemptIs, Working
<1>8. ItemsAre(g, call[t], StepsOf(t), OpenOf(t)')
  <2>1. OpenOf(t)' = OpenOf(t)
    BY <1>4 DEF OpenOf
  <2>2. ItemsAre(gen[t], call[t], StepsOf(t), OpenOf(t)) /\ gen[t].pc = "idle"
    BY <1>4, TurnNow
  <2>3. QED  BY <1>6, <2>1, <2>2 DEF ItemsAre, Over
<1>9. new \in Seq(Entries) /\ \A i \in DOMAIN new : MessageOk(new[i].body)
  <2>1. new \in Seq(Entries) /\ \A i \in DOMAIN new : new[i] = Message(said)
    BY <1>3
  <2>2. MessageOk(said)
    BY <1>1 DEF MessageOk
  <2>3. QED  BY <1>3, <2>1, <2>2
<1> HIDE DEF new
<1>10. call' = [call EXCEPT ![t] = call[t]] /\ open' \subseteq Items /\ faults' \in 0 .. MaxFaults
       /\ call[t] \in CallStates
  BY <1>4, TurnNow
<1>11. QED  BY <1>4, <1>6, <1>7, <1>8, <1>9, <1>10, LoopMoves

LEMMA AbortKeeps ==
    ASSUME GInv, NEW t \in Turns, Abort(t)
    PROVE  GInv'
<1>1. TurnOk(t)
  BY DEF GInv
<1>2. UNCHANGED <<stream, open, requests, gen, call>> /\ aborted' = aborted \union {t}
      /\ faults' \in 0 .. MaxFaults
  BY FaultType DEF Abort
<1>3. RequestsMove(t) /\ StepsOf(t)' = StepsOf(t) /\ OpenOf(t)' = OpenOf(t)
      /\ requests'[call[t].request] = TheRequest(t)
  BY <1>2 DEF RequestsMove, StepsOf, StepRequests, OpenOf, TheRequest
<1>4. TurnIs(t, gen[t], call[t], TheRequest(t), StepsOf(t), OpenOf(t), TRUE)
  BY <1>1 DEF TurnOk, TurnIs
<1>5. TurnIs(t, gen[t], call[t], requests'[call[t].request], StepsOf(t)', OpenOf(t)', t \in aborted')
  <2>1. (t \in aborted') = TRUE
    BY <1>2
  <2>2. QED  BY <1>3, <1>4, <2>1
<1>6. /\ gen' = [gen EXCEPT ![t] = gen[t]] /\ call' = [call EXCEPT ![t] = call[t]]
      /\ open' \subseteq Items /\ aborted' \subseteq Turns
      /\ stream' = stream \o << >> /\ << >> \in Seq(Entries) /\ gen[t] \in LoopStates
      /\ call[t] \in CallStates
      /\ IF call[t].phase = "none" THEN call[t].request = 0 ELSE call[t].request \in 1 .. Len(requests')
      /\ \A i \in DOMAIN << >> : FALSE
      /\ \A u \in Turns : u # t => (u \in aborted' <=> u \in aborted)
  BY <1>2, TurnNow
<1>7. QED  BY <1>2, <1>3, <1>5, <1>6, OneTurnMoves

\* A step of the turn alone: nothing is taken, said, opened or closed.
LEMMA GoesOn ==
    ASSUME GInv, NEW t \in Turns, NEW g \in LoopStates, gen' = [gen EXCEPT ![t] = g],
           UNCHANGED <<stream, open, requests, call, aborted>>, faults' \in 0 .. MaxFaults,
           AttemptIs(g, call[t], TheRequest(t)), ViewsAre(g),
           ItemsAre(g, call[t], StepsOf(t), OpenOf(t))
    PROVE  GInv'
<1>1. OpenOf(t)' = OpenOf(t)
  BY DEF OpenOf
<1>2. /\ call' = [call EXCEPT ![t] = call[t]] /\ call[t] \in CallStates /\ open' \subseteq Items
      /\ stream' = stream \o << >> /\ << >> \in Seq(Entries) /\ \A i \in DOMAIN << >> : FALSE
  BY TurnNow
<1>3. QED  BY <1>1, <1>2, LoopMoves

\* A turn that has nothing open ends.
LEMMA EndsBare ==
    ASSUME GInv, NEW t \in Turns, NEW result \in Over, Ends(t, result),
           UNCHANGED <<stream, open, requests, call, aborted>>, faults' \in 0 .. MaxFaults,
           \A i \in OpenOf(t) : FALSE
    PROVE  GInv'
<1>1. OpenOf(t)' = OpenOf(t)
  BY DEF OpenOf
<1>2. call' = [call EXCEPT ![t] = call[t]] /\ call[t] \in CallStates
  BY TurnNow
<1>3. QED  BY <1>1, <1>2, TurnEnds

LEMMA DriveKeeps ==
    ASSUME GInv, NEW t \in Turns, Drive(t)
    PROVE  GInv'
<1>1. gen[t].pc = "drive" /\ UNCHANGED <<stream, open, requests, call, aborted>>
      /\ faults' \in 0 .. MaxFaults
  BY TurnNow DEF Drive
<1>2. \A i \in OpenOf(t) : FALSE
  BY <1>1, TurnNow DEF ItemsAre, Over
<1>3. CASE \E result \in Over : Ends(t, result)
  BY <1>1, <1>2, <1>3, EndsBare
<1>4. CASE gen[t].step < MaxSteps /\ gen' = [gen EXCEPT ![t].pc = "compact"]
  <2> DEFINE g == [gen[t] EXCEPT !.pc = "compact"]
  <2>1. gen' = [gen EXCEPT ![t] = g] /\ g \in LoopStates /\ g.pc = "compact" /\ g.item = gen[t].item
        /\ g.step = gen[t].step /\ g.history = gen[t].history /\ g.compaction = gen[t].compaction
    BY <1>4, TurnNow, ZenonT(40) DEF LoopStates, Working
  <2> HIDE DEF g
  <2>2. ViewsAre(g) /\ AttemptIs(g, call[t], TheRequest(t))
    BY <1>4, <2>1, TurnNow DEF ViewsAre, AttemptIs
  <2>3. ItemsAre(g, call[t], StepsOf(t), OpenOf(t))
    BY <1>1, <1>2, <2>1, TurnNow DEF ItemsAre, Over
  <2>4. QED  BY <1>1, <2>1, <2>2, <2>3, GoesOn
<1>5. gen[t].step \in 0 .. MaxSteps /\ MaxSteps \in Nat
  BY TurnNow, GenerationAssumption DEF LoopStates
<1>6. QED  BY <1>3, <1>4, <1>5 DEF Drive, Over

LEMMA ShowsKeeps ==
    ASSUME GInv, NEW t \in Turns, gen[t].pc \in {"compact", "summarize", "unfolded"},
           NEW c \in Summaries \union {NoSummary}, c # NoSummary => c.count <= Len(gen[t].history),
           Shows(t, c), UNCHANGED <<open, requests, call, aborted>>, faults' \in 0 .. MaxFaults,
           NEW new \in Seq(Entries), stream' = stream \o new,
           \A i \in DOMAIN new : new[i].type # "message"
    PROVE  GInv'
<1> DEFINE view == projectHistory(Assembled(gen[t].history, c))
           g == [gen[t] EXCEPT !.pc = "attempt", !.retry = 0, !.compaction = c, !.view = view]
<1>1. gen[t].history \in Seq(Messages)
  BY TurnNow DEF LoopStates
<1>2. view \in Seq(Shown) /\ Faithful(view, gen[t].history)
  <2> HIDE DEF view
  <2>1. QED  BY <1>1, ViewShows DEF view
<1>3. gen' = [gen EXCEPT ![t] = g]
  BY TurnNow DEF Shows
<1> HIDE DEF view
<1>4. g \in LoopStates /\ g.pc = "attempt" /\ g.item = gen[t].item /\ g.step = gen[t].step
      /\ g.history = gen[t].history /\ g.compaction = c /\ g.view = view
  <2>1. 0 \in 0 .. MaxRetries
    BY GenerationAssumption
  <2>2. QED  BY <1>2, <2>1, TurnNow, ZenonT(40) DEF LoopStates, Working
<1> HIDE DEF g
<1>5. ViewsAre(g) /\ AttemptIs(g, call[t], TheRequest(t))
  BY <1>2, <1>4, TurnNow DEF ViewsAre, AttemptIs, Working
<1>6. ItemsAre(g, call[t], StepsOf(t), OpenOf(t)')
  <2>1. OpenOf(t)' = OpenOf(t)
    BY DEF OpenOf
  <2>2. ItemsAre(gen[t], call[t], StepsOf(t), OpenOf(t))
    BY TurnNow
  <2>3. QED  BY <1>4, <2>1, <2>2 DEF ItemsAre, Over
<1>7. call' = [call EXCEPT ![t] = call[t]] /\ call[t] \in CallStates /\ open' \subseteq Items
  BY TurnNow
<1>8. QED  BY <1>3, <1>4, <1>5, <1>6, <1>7, LoopMoves

\* A request is recorded, and its call begins.
LEMMA RequestsKeep ==
    ASSUME GInv, NEW t \in Turns, NEW kind \in {"step", "summary"}, NEW messages \in Seq(Shown),
           NEW history \in Seq(Messages), kind = "step" => Faithful(messages, history),
           Requests(t, kind, messages, history), UNCHANGED <<stream, open, aborted>>,
           NEW g \in LoopStates, gen' = [gen EXCEPT ![t] = g], ViewsAre(g), g.pc # "result",
           g.pc = "consume" => kind = "step" /\ g.text = << >> /\ g.intents = << >>,
           \A c : ItemsAre(g, c, IF kind = "step" THEN StepsOf(t) + 1 ELSE StepsOf(t), OpenOf(t))
    PROVE  GInv'
<1> DEFINE q == [turn |-> t, kind |-> kind, step |-> gen[t].step,
                 attempt |-> IF kind = "summary" THEN 0 ELSE gen[t].retry,
                 messages |-> messages, history |-> history, text |-> << >>, calls |-> << >>,
                 end |-> "none", recorded |-> << >>]
           c == [NoCall EXCEPT !.request = Len(requests) + 1, !.phase = "connecting"]
<1>1. requests' = Append(requests, q) /\ call' = [call EXCEPT ![t] = c] /\ faults' = faults
  BY DEF Requests
<1>2. /\ q \in Requested /\ q.turn = t /\ q.kind = kind /\ q.end = "none" /\ q.text = << >>
      /\ q.calls = << >> /\ q.recorded = << >> /\ q.messages = messages /\ q.history = history
  <2>1. gen[t].step \in Nat /\ gen[t].retry \in Nat
    <3>1. gen[t].step \in 0 .. MaxSteps /\ gen[t].retry \in 0 .. MaxRetries
      BY TurnNow DEF LoopStates
    <3>2. QED  BY <3>1, GenerationAssumption
  <2>2. << >> \in Seq(Parts) /\ << >> \in Seq({"model.completed", "model.failed"})
    OBVIOUS
  <2>3. QED  BY <2>1, <2>2 DEF Requested
<1>3. c \in CallStates /\ c.phase = "connecting" /\ c.request = Len(requests) + 1 /\ c.queue = << >>
  <2>1. Len(requests) \in Nat /\ << >> \in Seq(Events) /\ << >> \in Seq(Parts)
    BY DEF GInv, GenerationShape
  <2>2. NoCall \in CallStates /\ NoCall.queue = << >>
    BY <2>1 DEF NoCall, CallStates
  <2>3. "connecting" \in Unended /\ Len(requests) + 1 \in Nat
    BY <2>1 DEF Unended
  <2>4. QED  BY <2>2, <2>3 DEF CallStates
<1> HIDE DEF q, c
<1>4. Begun(t, q)
  BY <1>1, <1>2 DEF Begun, RequestOk
<1>5. RequestsMove(t) /\ requests'[c.request] = q /\ c.request \in 1 .. Len(requests')
      /\ StepsOf(t)' = IF kind = "step" THEN StepsOf(t) + 1 ELSE StepsOf(t)
  <2>1. Len(requests) \in Nat
    BY DEF GInv, GenerationShape
  <2>2. QED  BY <1>2, <1>3, <1>4, <2>1, RequestBegun DEF RequestsMove
<1>6. CallIs(t, c, q) /\ q.end # "cancelled"
  BY <1>2, <1>3 DEF CallIs, Unended
<1>7. AttemptIs(g, c, q)
  <2>1. ASSUME g.pc = "consume"
        PROVE  Takings(g, c, q)
    <3>1. /\ g.text = << >> /\ g.intents = << >> /\ q.text = << >> /\ q.calls = << >>
          /\ c.queue = << >> /\ c.phase \in Unended
      BY <1>2, <1>3, <2>1 DEF Unended
    <3>2. Len(<< >>) = 0 /\ \A i \in DOMAIN << >> : FALSE
      OBVIOUS
    <3>3. QED  BY <3>1, <3>2 DEF Takings, Begins, AtEnd
  <2>2. QED  BY <1>2, <1>3, <2>1 DEF AttemptIs
<1>8. OpenOf(t)' = OpenOf(t)
  BY DEF OpenOf
<1>9. TurnIs(t, g, c, requests'[c.request], StepsOf(t)', OpenOf(t)', t \in aborted')
  BY <1>5, <1>6, <1>7, <1>8 DEF TurnIs
<1>10. /\ open' \subseteq Items /\ aborted' \subseteq Turns /\ faults' \in 0 .. MaxFaults
       /\ stream' = stream \o << >> /\ << >> \in Seq(Entries) /\ \A i \in DOMAIN << >> : FALSE
       /\ \A i \in Items : i.turn # t => (i \in open' <=> i \in open)
       /\ \A u \in Turns : u # t => (u \in aborted' <=> u \in aborted)
       /\ IF c.phase = "none" THEN c.request = 0 ELSE c.request \in 1 .. Len(requests')
  BY <1>1, <1>3, <1>5, TurnNow
<1>11. QED  BY <1>1, <1>3, <1>5, <1>9, <1>10, OneTurnMoves

LEMMA CompactKeeps ==
    ASSUME GInv, NEW t \in Turns, Compact(t)
    PROVE  GInv'
<1>1. /\ gen[t].pc = "compact" /\ gen[t].history \in Seq(Messages)
      /\ gen[t].compaction \in Summaries \union {NoSummary}
      /\ gen[t].compaction # NoSummary => gen[t].compaction.count <= Len(gen[t].history)
      /\ gen[t].compactions \in 0 .. MaxCompactions
      /\ UNCHANGED <<stream, open, aborted>>
  BY TurnNow DEF Compact, LoopStates, ViewsAre
<1>2. CASE Shows(t, gen[t].compaction) /\ UNCHANGED <<requests, call, faults>>
  <2>1. stream' = stream \o << >> /\ << >> \in Seq(Entries) /\ \A i \in DOMAIN << >> : FALSE
    BY <1>1, TurnNow
  <2>2. faults' \in 0 .. MaxFaults
    BY <1>2, FaultType
  <2>3. QED  BY <1>1, <1>2, <2>1, <2>2, ShowsKeeps
<1>3. ASSUME NEW pc \in {"summarize", "unfolded"}, gen[t].compactions < MaxCompactions,
             gen' = [gen EXCEPT ![t].pc = pc, ![t].compactions = @ + 1]
      PROVE  \E g \in LoopStates :
                /\ gen' = [gen EXCEPT ![t] = g] /\ g.pc = pc /\ ViewsAre(g)
                /\ \A c, r : AttemptIs(g, c, r)
                /\ \A c : ItemsAre(g, c, StepsOf(t), OpenOf(t))
  <2> DEFINE g == [gen[t] EXCEPT !.pc = pc, !.compactions = @ + 1]
  <2>1. gen' = [gen EXCEPT ![t] = g]
    BY <1>3, TurnNow
  <2>2. g \in LoopStates /\ g.pc = pc /\ g.item = gen[t].item /\ g.step = gen[t].step
        /\ g.history = gen[t].history /\ g.compaction = gen[t].compaction
    <3>1. gen[t].compactions + 1 \in 0 .. MaxCompactions
      BY <1>1, <1>3, GenerationAssumption
    <3>2. QED  BY <3>1, TurnNow, ZenonT(40) DEF LoopStates, Working
  <2> HIDE DEF g
  <2>3. ViewsAre(g) /\ \A c, r : AttemptIs(g, c, r)
    BY <1>1, <2>2, TurnNow DEF ViewsAre, AttemptIs, Working
  <2>4. \A c : ItemsAre(g, c, StepsOf(t), OpenOf(t))
    BY <1>1, <2>2, TurnNow DEF ItemsAre, Over
  <2>5. QED  BY <2>1, <2>2, <2>3, <2>4
<1>4. CASE /\ gen[t].compactions < MaxCompactions
           /\ gen' = [gen EXCEPT ![t].pc = "summarize", ![t].compactions = @ + 1]
           /\ Requests(t, "summary", Covered(t), gen[t].history)
  <2>1. PICK g \in LoopStates :
           /\ gen' = [gen EXCEPT ![t] = g] /\ g.pc = "summarize" /\ ViewsAre(g)
           /\ \A c : ItemsAre(g, c, StepsOf(t), OpenOf(t))
    BY <1>3, <1>4
  <2>2. Covered(t) \in Seq(Shown)
    <3>1. Covered(t) \in Seq(Messages)
      BY <1>1, CoveredIs, PrefixIs DEF Covered
    <3>2. QED  BY <3>1 DEF Shown
  <2>3. QED  BY <1>1, <1>4, <2>1, <2>2, RequestsKeep
<1>5. CASE /\ gen[t].compactions < MaxCompactions
           /\ gen' = [gen EXCEPT ![t].pc = "unfolded", ![t].compactions = @ + 1]
           /\ RequestFails
  <2>1. PICK g \in LoopStates :
           /\ gen' = [gen EXCEPT ![t] = g] /\ ViewsAre(g) /\ AttemptIs(g, call[t], TheRequest(t))
           /\ ItemsAre(g, call[t], StepsOf(t), OpenOf(t))
    BY <1>3, <1>5
  <2>2. UNCHANGED <<requests, call>> /\ faults' \in 0 .. MaxFaults
    BY <1>5, FaultType DEF RequestFails
  <2>3. QED  BY <1>1, <2>1, <2>2, GoesOn
<1>6. QED  BY <1>2, <1>4, <1>5 DEF Compact

LEMMA SummarizedKeeps ==
    ASSUME GInv, NEW t \in Turns, Summarized(t)
    PROVE  GInv'
<1> DEFINE c == Compaction(Covered(t))
<1>1. /\ gen[t].pc = "summarize" /\ gen[t].history \in Seq(Messages)
      /\ gen[t].compaction \in Summaries \union {NoSummary}
      /\ gen[t].compaction # NoSummary => gen[t].compaction.count <= Len(gen[t].history)
      /\ UNCHANGED <<open, requests, call, aborted>> /\ faults' \in 0 .. MaxFaults
  BY TurnNow DEF Summarized, LoopStates, ViewsAre
<1>2. c \in Summaries /\ c.count <= Len(gen[t].history)
  BY <1>1, CoveredIs DEF Covered
<1>3. CASE AppendEvents(<<Compacted(c)>>) /\ Shows(t, c)
  <2>1. Compacted(c) \in Entries /\ Compacted(c).type # "message"
    BY <1>2 DEF Entries, Compacted
  <2> HIDE DEF c
  <2>2. <<Compacted(c)>> \in Seq(Entries) /\ \A i \in DOMAIN <<Compacted(c)>> : <<Compacted(c)>>[i].type # "message"
    BY <2>1
  <2>3. QED  BY <1>1, <1>2, <1>3, <2>2, ShowsKeeps DEF AppendEvents
<1>4. CASE Shows(t, gen[t].compaction) /\ UNCHANGED stream
  <2>1. stream' = stream \o << >> /\ << >> \in Seq(Entries) /\ \A i \in DOMAIN << >> : FALSE
    BY <1>4, TurnNow
  <2>2. QED  BY <1>1, <1>4, <2>1, ShowsKeeps
<1>5. QED  BY <1>3, <1>4 DEF Summarized

LEMMA ProceedUnfoldedKeeps ==
    ASSUME GInv, NEW t \in Turns, ProceedUnfolded(t)
    PROVE  GInv'
<1>1. /\ gen[t].pc = "unfolded"
      /\ gen[t].compaction \in Summaries \union {NoSummary}
      /\ gen[t].compaction # NoSummary => gen[t].compaction.count <= Len(gen[t].history)
      /\ UNCHANGED <<stream, open, requests, call, aborted>> /\ faults' \in 0 .. MaxFaults
      /\ stream' = stream \o << >> /\ << >> \in Seq(Entries) /\ \A i \in DOMAIN << >> : FALSE
  BY TurnNow DEF ProceedUnfolded, LoopStates, ViewsAre
<1>2. QED  BY <1>1, ShowsKeeps DEF ProceedUnfolded

LEMMA AttemptKeeps ==
    ASSUME GInv, NEW t \in Turns, Attempt(t)
    PROVE  GInv'
<1> DEFINE n == gen[t].item + 1
           g == [gen[t] EXCEPT !.pc = "request", !.item = n]
<1>1. /\ gen[t].pc = "attempt" /\ UNCHANGED <<stream, requests, call, aborted>>
      /\ faults' \in 0 .. MaxFaults /\ \A i \in OpenOf(t) : FALSE
  BY TurnNow DEF Attempt, ItemsAre, Over
<1>2. CASE Ends(t, "cancelled") /\ UNCHANGED open
  BY <1>1, <1>2, EndsBare DEF Over
<1>3. CASE open' = open \union {MessageItem(t, n)} /\ gen' = [gen EXCEPT ![t] = g]
  <2>1. /\ g \in LoopStates /\ g.pc = "request" /\ g.item = n /\ g.step = gen[t].step /\ n \in Nat
        /\ g.history = gen[t].history /\ g.compaction = gen[t].compaction /\ g.view = gen[t].view
        /\ gen[t].item = n - 1
    <3>1. gen[t] \in LoopStates
      BY TurnNow
    <3>2. gen[t].item \in Nat
      BY <3>1 DEF LoopStates
    <3>3. n \in Nat /\ gen[t].item = n - 1
      BY <3>2
    <3> HIDE DEF n
    <3>4. QED  BY <3>1, <3>3 DEF LoopStates, Working
  <2>2. MessageItem(t, n) \in Items /\ MessageItem(t, n).turn = t /\ MessageItem(t, n).type = "message"
        /\ MessageItem(t, n).of = n
    BY <2>1 DEF MessageItem, Items
  <2> HIDE DEF n, g
  <2>3. ViewsAre(g) /\ AttemptIs(g, call[t], TheRequest(t))
    BY <1>1, <2>1, TurnNow DEF ViewsAre, AttemptIs, Working
  <2>4. OpenOf(t)' = {MessageItem(t, n)}
    BY <1>1, <1>3, <2>2 DEF OpenOf
  <2>5. ItemsAre(g, call[t], StepsOf(t), OpenOf(t)')
    BY <1>1, <2>1, <2>2, <2>4, TurnNow DEF ItemsAre, Over
  <2>6. /\ open' \subseteq Items /\ \A i \in Items : i.turn # t => (i \in open' <=> i \in open)
        /\ call' = [call EXCEPT ![t] = call[t]] /\ call[t] \in CallStates
        /\ stream' = stream \o << >> /\ << >> \in Seq(Entries) /\ \A i \in DOMAIN << >> : FALSE
    BY <1>1, <1>3, <2>2, TurnNow
  <2>7. QED  BY <1>1, <1>3, <2>1, <2>3, <2>5, <2>6, LoopMoves
<1>4. gen[t].pc = "attempt" => \/ Ends(t, "cancelled") /\ UNCHANGED open
                               \/ open' = open \union {MessageItem(t, n)} /\ gen' = [gen EXCEPT ![t] = g]
  BY TurnNow DEF Attempt
<1>5. QED  BY <1>1, <1>2, <1>3, <1>4

LEMMA RequestKeeps ==
    ASSUME GInv, NEW t \in Turns, Request(t)
    PROVE  GInv'
<1> DEFINE g == [gen[t] EXCEPT !.pc = "consume", !.text = << >>, !.intents = << >>]
<1>1. /\ gen[t].pc = "request" /\ UNCHANGED <<stream, open, aborted>>
      /\ gen[t].view \in Seq(Shown) /\ gen[t].history \in Seq(Messages)
      /\ Faithful(gen[t].view, gen[t].history) /\ gen[t].item \in Nat
  BY TurnNow DEF Request, LoopStates, ViewsAre
<1>2. /\ StepsOf(t) = gen[t].item - 1
      /\ \A i \in OpenOf(t) : i.type = "message" /\ i.of = gen[t].item
  BY <1>1, TurnNow DEF ItemsAre, Over
<1>3. CASE Requests(t, "step", gen[t].view, gen[t].history) /\ gen' = [gen EXCEPT ![t] = g]
  <2>1. /\ g \in LoopStates /\ g.pc = "consume" /\ g.text = << >> /\ g.intents = << >>
        /\ g.item = gen[t].item /\ g.step = gen[t].step
        /\ g.history = gen[t].history /\ g.compaction = gen[t].compaction /\ g.view = gen[t].view
    <3>1. << >> \in Seq(Parts)
      OBVIOUS
    <3>2. QED  BY <3>1, TurnNow, ZenonT(40) DEF LoopStates, Working
  <2> HIDE DEF g
  <2>2. ViewsAre(g)
    BY <1>1, <2>1, TurnNow DEF ViewsAre, Working
  <2>3. \A c : ItemsAre(g, c, StepsOf(t) + 1, OpenOf(t))
    BY <1>1, <1>2, <2>1, TurnNow DEF ItemsAre, Over
  <2>4. QED  BY <1>1, <1>3, <2>1, <2>2, <2>3, RequestsKeep
<1>4. CASE RequestFails /\ \E result \in {"cancelled", "failed"} : Ends(t, result)
  <2>1. UNCHANGED <<stream, open, requests, call, aborted>> /\ faults' \in 0 .. MaxFaults
    BY <1>1, <1>4, FaultType DEF RequestFails
  <2>2. \A i \in OpenOf(t)' : i.type = "message" /\ StepsOf(t) < i.of
    BY <1>1, <1>2, <2>1 DEF OpenOf
  <2>3. call' = [call EXCEPT ![t] = call[t]] /\ call[t] \in CallStates
    BY <2>1, TurnNow
  <2>4. QED  BY <1>4, <2>1, <2>2, <2>3, TurnEnds DEF Over
<1>5. \/ Requests(t, "step", gen[t].view, gen[t].history) /\ gen' = [gen EXCEPT ![t] = g]
      \/ RequestFails /\ \E result \in {"cancelled", "failed"} : Ends(t, result)
  BY TurnNow DEF Request
<1>6. QED  BY <1>3, <1>4, <1>5

LEMMA ItemOf ==
    ASSUME GInv, NEW t \in Turns, NEW gone
    PROVE  /\ open \ gone \subseteq Items
           /\ MessageItem(t, gen[t].item).turn = t /\ MessageItem(t, gen[t].item).type = "message"
           /\ \A i \in OpenOf(t) : i.type = "message" /\ i.of = gen[t].item => i = ThisItem(t)
<1>1. \A i \in OpenOf(t) : i.turn = t
  BY DEF OpenOf
<1>2. \A i \in OpenOf(t) : i.type = "message" => i \in [turn : Turns, type : {"message"}, of : Nat]
  BY TurnNow DEF Items
<1>3. QED  BY <1>1, <1>2, TurnNow DEF MessageItem, ThisItem

\* The assistant item of a turn fails; what it leaves open are tool items.
LEMMA OnlyTools ==
    ASSUME GInv, NEW t \in Turns, gen[t].pc \in {"consume", "result"},
           open' = open \ {ThisItem(t)}
    PROVE  /\ open' \subseteq open /\ open' \subseteq Items
           /\ \A i \in Items : i.turn # t => (i \in open' <=> i \in open)
           /\ \A i \in OpenOf(t)' : i \in OpenOf(t) /\ i.type = "tool_call" /\ i.of \in ToSet(gen[t].intents)
<1>1. ThisItem(t).turn = t
  BY DEF ThisItem, MessageItem
<1>2. OpenOf(t)' = OpenOf(t) \ {ThisItem(t)}
  BY DEF OpenOf
<1>3. \A i \in OpenOf(t) : IF i.type = "message" THEN i.of = gen[t].item ELSE i.of \in ToSet(gen[t].intents)
  BY TurnNow DEF ItemsAre, Over
<1>4. \A i \in OpenOf(t)' : i.type # "message"
  BY <1>2, <1>3, ItemOf
<1>5. \A i \in OpenOf(t) : i.type \in {"message", "tool_call"}
  BY TurnNow DEF Items
<1>6. QED  BY <1>1, <1>2, <1>3, <1>4, <1>5, TurnNow

\* The next thing of the queue is taken.
LEMMA TakesIs ==
    ASSUME GInv, NEW t \in Turns, call[t].queue # << >>, Takes(t)
    PROVE  LET c == [call[t] EXCEPT !.queue = Tail(@)] IN
           /\ c \in CallStates /\ call' = [call EXCEPT ![t] = c]
           /\ c.request = call[t].request /\ c.phase = call[t].phase
           /\ Len(c.queue) = Len(call[t].queue) - 1 /\ Len(call[t].queue) \in Nat \ {0}
           /\ DOMAIN call[t].queue = 1 .. Len(call[t].queue)
           /\ DOMAIN c.queue = 1 .. Len(call[t].queue) - 1
           /\ \A i \in 1 .. Len(call[t].queue) - 1 : c.queue[i] = call[t].queue[i + 1]
           /\ Head(call[t].queue) = call[t].queue[1] /\ Head(call[t].queue) \in Events
<1> DEFINE q == call[t].queue
<1>1. q \in Seq(Events) /\ q # << >>
  BY TurnNow DEF CallStates
<1> HIDE DEF q
<1>2. /\ Tail(q) \in Seq(Events) /\ Len(Tail(q)) = Len(q) - 1 /\ Len(q) \in Nat \ {0}
      /\ DOMAIN q = 1 .. Len(q) /\ DOMAIN Tail(q) = 1 .. Len(q) - 1
      /\ \A i \in 1 .. Len(q) - 1 : Tail(q)[i] = q[i + 1]
      /\ Head(q) = q[1] /\ Head(q) \in Events
  BY <1>1
<1>3. call' = [call EXCEPT ![t] = [call[t] EXCEPT !.queue = Tail(q)]]
  BY TurnNow DEF Takes, q
<1>4. QED  BY <1>2, <1>3, TurnNow DEF CallStates, q

LEMMA ConsumeAbortedKeeps ==
    ASSUME GInv, NEW t \in Turns, ConsumeAborted(t)
    PROVE  GInv'
<1> DEFINE c == [call[t] EXCEPT !.queue = Tail(@)]
<1>1. /\ gen[t].pc = "consume" /\ open' = open \ {ThisItem(t)} /\ Ends(t, "cancelled")
      /\ UNCHANGED <<stream, requests, aborted>> /\ faults' \in 0 .. MaxFaults
  BY TurnNow DEF ConsumeAborted
<1>2. c \in CallStates /\ call' = [call EXCEPT ![t] = c]
      /\ c.request = call[t].request /\ c.phase = call[t].phase
  BY TakesIs DEF ConsumeAborted
<1> HIDE DEF c
<1>3. /\ open' \subseteq open /\ \A i \in open : i.turn # t => i \in open'
      /\ \A i \in OpenOf(t)' : i.type # "message"
  BY <1>1, OnlyTools, TurnNow
<1>4. QED  BY <1>1, <1>2, <1>3, TurnEnds DEF Over

LEMMA EventKinds ==
    ASSUME NEW e \in Events
    PROVE  \/ e = Done /\ e.kind = "done"
           \/ e \in [kind : {"message-delta", "tool-intent"}, piece : Parts]
BY DEF Events, Done

LEMMA BeginsMore ==
    ASSUME NEW s \in Seq(Parts), NEW u \in Seq(Parts), Begins(s, u)
    PROVE  /\ Len(s) <= Len(u)
           /\ Len(s) = Len(u) => s = u
           /\ Len(s) < Len(u) => Begins(Append(s, u[Len(s) + 1]), u)
<1>1. Len(s) <= Len(u) /\ \A i \in 1 .. Len(s) : s[i] = u[i]
  BY DEF Begins
<1>2. ASSUME Len(s) = Len(u)
      PROVE  s = u
  BY <1>1, <1>2
<1>3. ASSUME Len(s) < Len(u)
      PROVE  Begins(Append(s, u[Len(s) + 1]), u)
  <2> DEFINE w == Append(s, u[Len(s) + 1])
  <2>1. u[Len(s) + 1] \in Parts
    BY <1>3
  <2>2. /\ Len(w) = Len(s) + 1 /\ DOMAIN w = 1 .. Len(s) + 1 /\ w[Len(s) + 1] = u[Len(s) + 1]
        /\ \A i \in 1 .. Len(s) : w[i] = s[i]
    BY <2>1
  <2> HIDE DEF w
  <2>3. \A i \in 1 .. Len(s) + 1 : w[i] = u[i]
    BY <1>1, <2>2
  <2>4. Len(w) <= Len(u)
    BY <1>3, <2>2
  <2>5. QED  BY <2>2, <2>3, <2>4 DEF Begins, w
<1>4. QED  BY <1>1, <1>2, <1>3

\* Call d is call c with the first event of its queue taken.
Took(c, d) ==
    /\ d.phase = c.phase
    /\ c.queue # << >> /\ Len(d.queue) = Len(c.queue) - 1 /\ DOMAIN d.queue = 1 .. Len(c.queue) - 1
    /\ \A i \in 1 .. Len(c.queue) - 1 : d.queue[i] = c.queue[i + 1]

\* Where the next thing is, of an answer of x pieces of text and y calls, when a
\* and b of them are taken and n things are left.
LEMMA NextPlace ==
    ASSUME NEW a \in Nat, NEW b \in Nat, NEW x \in Nat, NEW y \in Nat, NEW n \in Nat,
           NEW last \in {0, 1}, a <= x, b <= y, b # 0 => a = x, a + b + n = x + y + last, n # 0
    PROVE  \/ a + b + 1 <= x /\ b = 0 /\ a < x
           \/ ~ (a + b + 1 <= x) /\ a + b + 1 <= x + y /\ a = x /\ b < y /\ a + b + 1 - x = b + 1
           \/ ~ (a + b + 1 <= x) /\ ~ (a + b + 1 <= x + y) /\ last = 1 /\ a = x /\ b = y
OBVIOUS

LEMMA TakingsAre ==
    ASSUME NEW g \in LoopStates, NEW c \in CallStates, NEW r \in Requested, Takings(g, c, r)
    PROVE  /\ g.text \in Seq(Parts) /\ g.intents \in Seq(Parts) /\ r.text \in Seq(Parts)
           /\ r.calls \in Seq(Parts) /\ c.queue \in Seq(Events)
           /\ Len(g.text) \in Nat /\ Len(g.intents) \in Nat /\ Len(r.text) \in Nat /\ Len(r.calls) \in Nat
           /\ Len(c.queue) \in Nat /\ DOMAIN c.queue = 1 .. Len(c.queue)
           /\ (Len(g.intents) = 0 <=> g.intents = << >>) /\ (Len(c.queue) = 0 <=> c.queue = << >>)
           /\ Len(g.text) <= Len(r.text) /\ Len(g.intents) <= Len(r.calls)
           /\ (Len(g.text) = Len(r.text) => g.text = r.text)
           /\ (Len(g.intents) = Len(r.calls) => g.intents = r.calls)
           /\ (g.intents # << >> => Len(g.text) = Len(r.text))
           /\ Len(g.text) + Len(g.intents) + Len(c.queue)
                = Len(r.text) + Len(r.calls) + AtEnd(c)
           /\ \A i \in DOMAIN c.queue : c.queue[i] = Pushed(r, Len(g.text) + Len(g.intents) + i)
<1>1. /\ g.text \in Seq(Parts) /\ g.intents \in Seq(Parts) /\ r.text \in Seq(Parts)
      /\ r.calls \in Seq(Parts) /\ c.queue \in Seq(Events)
  BY DEF LoopStates, CallStates, Requested
<1>2. /\ Begins(g.text, r.text) /\ Begins(g.intents, r.calls)
      /\ g.intents # << >> => Len(g.text) = Len(r.text)
      /\ Len(g.text) + Len(g.intents) + Len(c.queue)
           = Len(r.text) + Len(r.calls) + AtEnd(c)
      /\ \A i \in DOMAIN c.queue : c.queue[i] = Pushed(r, Len(g.text) + Len(g.intents) + i)
  BY Zenon DEF Takings
<1>3. /\ Len(g.text) \in Nat /\ Len(g.intents) \in Nat /\ Len(r.text) \in Nat /\ Len(r.calls) \in Nat
      /\ Len(c.queue) \in Nat /\ DOMAIN c.queue = 1 .. Len(c.queue)
      /\ (Len(g.intents) = 0 <=> g.intents = << >>) /\ (Len(c.queue) = 0 <=> c.queue = << >>)
  BY <1>1
<1>4. Len(g.text) <= Len(r.text) /\ Len(g.intents) <= Len(r.calls)
      /\ (Len(g.text) = Len(r.text) => g.text = r.text)
      /\ (Len(g.intents) = Len(r.calls) => g.intents = r.calls)
  BY <1>1, <1>2, BeginsMore
<1>5. QED  BY <1>1, <1>2, <1>3, <1>4, Zenon

\* What an attempt takes is the next thing of the answer.
LEMMA TakesNext ==
    ASSUME NEW g \in LoopStates, NEW c \in CallStates, NEW d \in CallStates, NEW r \in Requested,
           Takings(g, c, r), Took(c, d)
    PROVE  LET e == c.queue[1] IN
           /\ e.kind = "message-delta" =>
                 /\ g.intents = << >> /\ Len(g.text) < Len(r.text)
                 /\ e.piece = r.text[Len(g.text) + 1]
           /\ e.kind = "tool-intent" =>
                 /\ Len(g.text) = Len(r.text) /\ Len(g.intents) < Len(r.calls)
                 /\ e.piece = r.calls[Len(g.intents) + 1]
           /\ e = Done => c.phase \notin Unended /\ g.text = r.text /\ g.intents = r.calls
<1> DEFINE a == Len(g.text)
           b == Len(g.intents)
           x == Len(r.text)
           y == Len(r.calls)
           n == Len(c.queue)
           last == AtEnd(c)
           e == c.queue[1]
<1>1. /\ (a = x => g.text = r.text) /\ (b = y => g.intents = r.calls) /\ (b = 0 => g.intents = << >>)
      /\ (last = 1 => c.phase \notin Unended)
  <2>1. (a = x => g.text = r.text) /\ (b = y => g.intents = r.calls)
    BY TakingsAre, Zenon
  <2>2. b = 0 => g.intents = << >>
    BY TakingsAre, Zenon
  <2>3. last = 1 => c.phase \notin Unended
    BY DEF AtEnd
  <2>4. QED  BY <2>1, <2>2, <2>3, Zenon
<1>2. /\ a \in Nat /\ b \in Nat /\ x \in Nat /\ y \in Nat /\ n \in Nat /\ last \in {0, 1}
      /\ a <= x /\ b <= y /\ (b # 0 => a = x) /\ a + b + n = x + y + last /\ n # 0
  <2>1. last \in {0, 1}
    BY DEF AtEnd
  <2>2. /\ a \in Nat /\ b \in Nat /\ x \in Nat /\ y \in Nat /\ n \in Nat
        /\ a <= x /\ b <= y /\ (b # 0 => a = x) /\ a + b + n = x + y + last /\ n # 0
    BY TakingsAre, Zenon DEF Took
  <2>3. QED  BY <2>1, <2>2
<1>3. e = Pushed(r, a + b + 1)
  <2>1. DOMAIN c.queue = 1 .. n /\ \A i \in DOMAIN c.queue : c.queue[i] = Pushed(r, a + b + i)
    BY TakingsAre, Zenon
  <2> HIDE DEF a, b, x, y, n, last
  <2>2. 1 \in 1 .. n
    BY <1>2
  <2>3. QED  BY <2>1, <2>2
<1>4. e = IF a + b + 1 <= x THEN [kind |-> "message-delta", piece |-> r.text[a + b + 1]]
          ELSE IF a + b + 1 <= x + y THEN ToolIntent(r.calls[a + b + 1 - x]) ELSE Done
  BY <1>3 DEF Pushed
<1> HIDE DEF a, b, x, y, n, last, e
<1>5. Done.kind = "done" /\ \A p : ToolIntent(p).kind = "tool-intent" /\ ToolIntent(p).piece = p
  BY DEF Done, ToolIntent
<1>6. CASE a + b + 1 <= x /\ b = 0 /\ a < x
  <2>1. e.kind = "message-delta" /\ e.piece = r.text[a + 1]
    BY <1>2, <1>4, <1>6
  <2>2. g.intents = << >> /\ a < x
    BY <1>1, <1>6
  <2>3. QED  BY <1>5, <2>1, <2>2 DEF e, a, x
<1>7. CASE ~ (a + b + 1 <= x) /\ a + b + 1 <= x + y /\ a = x /\ b < y /\ a + b + 1 - x = b + 1
  <2>1. e = ToolIntent(r.calls[b + 1])
    BY <1>4, <1>7
  <2>2. e.kind = "tool-intent" /\ e.piece = r.calls[b + 1] /\ e # Done
    BY <1>5, <2>1
  <2>3. QED  BY <1>7, <2>2 DEF e, a, b, x, y
<1>8. CASE ~ (a + b + 1 <= x) /\ ~ (a + b + 1 <= x + y) /\ last = 1 /\ a = x /\ b = y
  <2>1. e = Done
    BY <1>4, <1>8
  <2>2. QED  BY <1>1, <1>5, <1>8, <2>1 DEF e
<1>9. QED  BY <1>2, <1>6, <1>7, <1>8, NextPlace, SMTT(30)

LEMMA TakenIs ==
    ASSUME NEW g \in LoopStates, NEW c \in CallStates, NEW d \in CallStates, NEW r \in Requested,
           Takings(g, c, r), Took(c, d), NEW h \in LoopStates,
           Begins(h.text, r.text), Begins(h.intents, r.calls),
           h.intents # << >> => Len(h.text) = Len(r.text),
           \/ Len(h.text) = Len(g.text) + 1 /\ Len(h.intents) = Len(g.intents)
           \/ Len(h.text) = Len(g.text) /\ Len(h.intents) = Len(g.intents) + 1
    PROVE  Takings(h, d, r)
<1> DEFINE a == Len(g.text)
           b == Len(g.intents)
           x == Len(r.text)
           y == Len(r.calls)
           n == Len(c.queue)
           m == Len(d.queue)
           v == Len(h.text)
           w == Len(h.intents)
           last == AtEnd(c)
<1>1. /\ a \in Nat /\ b \in Nat /\ x \in Nat /\ y \in Nat /\ n \in Nat
      /\ a + b + n = x + y + last
  BY TakingsAre, Zenon
<1>2. last \in {0, 1} /\ last = AtEnd(d)
  BY DEF AtEnd, Took
<1>3. DOMAIN c.queue = 1 .. n /\ \A i \in DOMAIN c.queue : c.queue[i] = Pushed(r, a + b + i)
  BY TakingsAre, Zenon
<1>4. m = n - 1 /\ DOMAIN d.queue = 1 .. n - 1 /\ \A i \in 1 .. n - 1 : d.queue[i] = c.queue[i + 1]
  BY DEF Took
<1>5. (v = a + 1 /\ w = b) \/ (v = a /\ w = b + 1)
  OBVIOUS
<1> HIDE DEF a, b, x, y, n, m, v, w, last
<1>6. \A i \in 1 .. n - 1 : i + 1 \in 1 .. n /\ a + b + (i + 1) = a + b + 1 + i
  BY <1>1
<1>7. \A i \in 1 .. n - 1 : d.queue[i] = Pushed(r, a + b + 1 + i)
  BY <1>3, <1>4, <1>6
<1>8. a + b + 1 + m = x + y + last
  BY <1>1, <1>2, <1>4
<1>9. v + w = a + b + 1
  BY <1>1, <1>5
<1>10. QED  BY <1>2, <1>4, <1>7, <1>8, <1>9 DEF Takings, x, y, m, v, w

LEMMA BeginsSame ==
    ASSUME NEW g \in LoopStates, NEW c \in CallStates, NEW r \in Requested, Takings(g, c, r)
    PROVE  Begins(g.text, r.text) /\ Begins(g.intents, r.calls)
BY Zenon DEF Takings

\* The attempt goes on to read, with what it took.
LEMMA TakesPiece ==
    ASSUME GInv, NEW t \in Turns, gen[t].pc = "consume", NEW g \in LoopStates, NEW c \in CallStates,
           g.pc = "consume", g.item = gen[t].item, g.step = gen[t].step,
           g.history = gen[t].history, g.compaction = gen[t].compaction, g.view = gen[t].view,
           gen' = [gen EXCEPT ![t] = g], call' = [call EXCEPT ![t] = c],
           c.request = call[t].request, c.phase = call[t].phase,
           UNCHANGED <<stream, requests, aborted, faults>>,
           open \subseteq open',
           \A i \in open' : i \in open \/ \E p \in Parts : p \in ToSet(g.intents) /\ i = ToolItem(t, p),
           ToSet(gen[t].intents) \subseteq ToSet(g.intents),
           Takings(g, c, TheRequest(t))
    PROVE  GInv'
<1>1. \A p \in Parts : ToolItem(t, p) \in Items /\ ToolItem(t, p).turn = t
                      /\ ToolItem(t, p).type = "tool_call" /\ ToolItem(t, p).of = p
  BY DEF ToolItem, Items
<1>2. AttemptIs(g, c, TheRequest(t)) /\ ViewsAre(g)
  BY TurnNow DEF AttemptIs, ViewsAre, Working
<1>3. \A i \in OpenOf(t)' :
         i \in OpenOf(t) \/ \E p \in Parts : p \in ToSet(g.intents) /\ i = ToolItem(t, p)
  BY DEF OpenOf
<1>4. \A i \in OpenOf(t)' :
         IF i.type = "message" THEN i.of = gen[t].item ELSE i.of \in ToSet(g.intents)
  <2>1. \A i \in OpenOf(t) :
           IF i.type = "message" THEN i.of = gen[t].item ELSE i.of \in ToSet(gen[t].intents)
    BY TurnNow DEF ItemsAre, Over
  <2>2. QED  BY <1>1, <1>3, <2>1
<1>5. ItemsAre(g, c, StepsOf(t), OpenOf(t)')
  BY <1>4, TurnNow DEF ItemsAre, Over
<1>6. /\ open' \subseteq Items /\ \A i \in Items : i.turn # t => (i \in open' <=> i \in open)
      /\ stream' = stream \o << >> /\ << >> \in Seq(Entries) /\ \A i \in DOMAIN << >> : FALSE
      /\ faults' \in 0 .. MaxFaults
  BY <1>1, TurnNow
<1>7. QED  BY <1>2, <1>5, <1>6, LoopMoves

LEMMA ToSetAppend ==
    ASSUME NEW s \in Seq(Parts), NEW p \in Parts
    PROVE  Append(s, p) \in Seq(Parts) /\ p \in ToSet(Append(s, p))
           /\ ToSet(s) \subseteq ToSet(Append(s, p))
           /\ Len(Append(s, p)) = Len(s) + 1 /\ Len(s) \in Nat /\ Append(s, p) # << >>
<1> DEFINE w == Append(s, p)
<1>1. /\ w \in Seq(Parts) /\ DOMAIN w = 1 .. Len(s) + 1 /\ w[Len(s) + 1] = p /\ Len(s) \in Nat
      /\ Len(w) = Len(s) + 1 /\ DOMAIN s = 1 .. Len(s)
      /\ \A i \in 1 .. Len(s) : w[i] = s[i] /\ i \in 1 .. Len(s) + 1
  OBVIOUS
<1> HIDE DEF w
<1>2. w # << >>
  BY <1>1
<1>3. p \in ToSet(w)
  BY <1>1 DEF ToSet
<1>4. ToSet(s) \subseteq ToSet(w)
  BY <1>1 DEF ToSet
<1>5. QED  BY <1>1, <1>2, <1>3, <1>4 DEF w

LEMMA ConsumeKeeps ==
    ASSUME GInv, NEW t \in Turns, Consume(t)
    PROVE  GInv'
<1> DEFINE c == [call[t] EXCEPT !.queue = Tail(@)]
           r == TheRequest(t)
           e == Head(call[t].queue)
<1>1. /\ gen[t].pc = "consume" /\ call[t].queue # << >> /\ Takes(t)
      /\ UNCHANGED <<stream, requests, aborted, faults>>
  BY DEF Consume
<1>2. /\ c \in CallStates /\ call' = [call EXCEPT ![t] = c]
      /\ c.request = call[t].request /\ c.phase = call[t].phase /\ Took(call[t], c)
      /\ e = call[t].queue[1] /\ e \in Events
  BY <1>1, TakesIs DEF Took
<1>3. /\ gen[t] \in LoopStates /\ call[t] \in CallStates /\ call[t].phase # "none"
      /\ r \in Requested /\ Takings(gen[t], call[t], r) /\ r.kind = "step"
      /\ gen[t].text \in Seq(Parts) /\ gen[t].intents \in Seq(Parts)
      /\ r.text \in Seq(Parts) /\ r.calls \in Seq(Parts)
  <2>1. call[t].phase # "none" /\ Takings(gen[t], call[t], r) /\ r.kind = "step"
    BY <1>1, TurnNow DEF AttemptIs
  <2>2. r \in Requested
    BY <2>1, RequestOf
  <2>3. QED  BY <2>1, <2>2, TurnNow DEF LoopStates, Requested
<1> HIDE DEF c, r, e
<1>4. /\ e.kind = "message-delta" =>
            /\ gen[t].intents = << >> /\ Len(gen[t].text) < Len(r.text)
            /\ e.piece = r.text[Len(gen[t].text) + 1]
      /\ e.kind = "tool-intent" =>
            /\ Len(gen[t].text) = Len(r.text) /\ Len(gen[t].intents) < Len(r.calls)
            /\ e.piece = r.calls[Len(gen[t].intents) + 1]
      /\ e = Done => call[t].phase \notin Unended /\ gen[t].text = r.text /\ gen[t].intents = r.calls
  BY <1>2, <1>3, TakesNext
<1>5. Begins(gen[t].text, r.text) /\ Begins(gen[t].intents, r.calls)
  BY <1>3, BeginsSame
<1>6. \/ e = Done /\ e.kind = "done"
      \/ e.kind \in {"message-delta", "tool-intent"} /\ e.piece \in Parts
  BY <1>2, EventKinds
<1>7. \/ /\ e.kind = "message-delta"
         /\ gen' = [gen EXCEPT ![t].text = Append(@, e.piece)] /\ UNCHANGED open
      \/ /\ e.kind = "tool-intent"
         /\ gen' = [gen EXCEPT ![t].intents = Append(@, e.piece)]
         /\ open' = open \union {ToolItem(t, e.piece)}
      \/ /\ e = Done
         /\ gen' = [gen EXCEPT ![t].pc = "result"] /\ UNCHANGED open
  BY <1>6 DEF Consume, e
<1>8. CASE /\ e.kind = "message-delta"
           /\ gen' = [gen EXCEPT ![t].text = Append(@, e.piece)] /\ UNCHANGED open
  <2> DEFINE text == Append(gen[t].text, e.piece)
             g == [gen[t] EXCEPT !.text = text]
  <2>1. e.piece \in Parts
    BY <1>6, <1>8 DEF Done
  <2>2. text \in Seq(Parts) /\ Len(text) = Len(gen[t].text) + 1 /\ Len(gen[t].text) \in Nat
    BY <1>3, <2>1, ToSetAppend
  <2>3. Begins(text, r.text)
    BY <1>3, <1>4, <1>5, <1>8, BeginsMore
  <2>4. gen' = [gen EXCEPT ![t] = g]
    BY <1>8, TurnNow
  <2> HIDE DEF text
  <2>5. /\ g \in LoopStates /\ g.pc = "consume" /\ g.item = gen[t].item /\ g.step = gen[t].step
        /\ g.history = gen[t].history /\ g.compaction = gen[t].compaction /\ g.view = gen[t].view
        /\ g.text = text /\ g.intents = gen[t].intents
    BY <1>1, <1>3, <2>2 DEF LoopStates
  <2> HIDE DEF g
  <2>6. Takings(g, c, r)
    <3>1. g.intents = << >> /\ g.intents = gen[t].intents /\ Len(g.intents) \in Nat
          /\ Len(g.text) = Len(gen[t].text) + 1 /\ Len(gen[t].text) \in Nat
      BY <1>3, <1>4, <1>8, <2>2, <2>5
    <3>2. QED  BY <1>2, <1>3, <1>5, <2>3, <2>5, <3>1, TakenIs
  <2>7. open \subseteq open' /\ \A i \in open' : i \in open
    BY <1>8
  <2>8. QED  BY <1>1, <1>2, <2>4, <2>5, <2>6, <2>7, TakesPiece DEF r
<1>9. CASE /\ e.kind = "tool-intent"
           /\ gen' = [gen EXCEPT ![t].intents = Append(@, e.piece)]
           /\ open' = open \union {ToolItem(t, e.piece)}
  <2> DEFINE intents == Append(gen[t].intents, e.piece)
             g == [gen[t] EXCEPT !.intents = intents]
  <2>1. e.piece \in Parts
    BY <1>6, <1>9 DEF Done
  <2>2. /\ intents \in Seq(Parts) /\ Len(intents) = Len(gen[t].intents) + 1
        /\ Len(gen[t].intents) \in Nat /\ e.piece \in ToSet(intents)
        /\ ToSet(gen[t].intents) \subseteq ToSet(intents)
    BY <1>3, <2>1, ToSetAppend
  <2>3. Begins(intents, r.calls)
    BY <1>3, <1>4, <1>5, <1>9, BeginsMore
  <2>4. gen' = [gen EXCEPT ![t] = g]
    BY <1>9, TurnNow
  <2> HIDE DEF intents
  <2>5. /\ g \in LoopStates /\ g.pc = "consume" /\ g.item = gen[t].item /\ g.step = gen[t].step
        /\ g.history = gen[t].history /\ g.compaction = gen[t].compaction /\ g.view = gen[t].view
        /\ g.text = gen[t].text /\ g.intents = intents
    BY <1>1, <1>3, <2>2 DEF LoopStates
  <2> HIDE DEF g
  <2>6. Takings(g, c, r)
    <3>1. Len(g.text) \in Nat /\ g.text = gen[t].text
          /\ Len(g.intents) = Len(gen[t].intents) + 1 /\ Len(gen[t].intents) \in Nat
      BY <1>3, <2>2, <2>5
    <3>2. Len(g.text) = Len(r.text)
      BY <1>4, <1>9, <2>5
    <3>3. QED  BY <1>2, <1>3, <1>5, <2>3, <2>5, <3>1, <3>2, TakenIs
  <2>7. /\ open \subseteq open'
        /\ \A i \in open' : i \in open \/ \E p \in Parts : p \in ToSet(g.intents) /\ i = ToolItem(t, p)
    BY <1>9, <2>1, <2>2, <2>5
  <2>8. QED  BY <1>1, <1>2, <2>2, <2>4, <2>5, <2>6, <2>7, TakesPiece DEF r
<1>10. CASE e = Done /\ gen' = [gen EXCEPT ![t].pc = "result"] /\ UNCHANGED open
  <2> DEFINE g == [gen[t] EXCEPT !.pc = "result"]
  <2>1. gen' = [gen EXCEPT ![t] = g]
    BY <1>10, TurnNow
  <2>2. /\ g \in LoopStates /\ g.pc = "result" /\ g.item = gen[t].item /\ g.step = gen[t].step
        /\ g.history = gen[t].history /\ g.compaction = gen[t].compaction /\ g.view = gen[t].view
        /\ g.text = gen[t].text /\ g.intents = gen[t].intents
    BY <1>3 DEF LoopStates, Working
  <2> HIDE DEF g
  <2>3. AttemptIs(g, c, r)
    BY <1>2, <1>3, <1>4, <1>10, <2>2 DEF AttemptIs
  <2>4. ViewsAre(g)
    BY <1>1, <2>2, TurnNow DEF ViewsAre, Working
  <2>5. ItemsAre(g, c, StepsOf(t), OpenOf(t)')
    <3>1. OpenOf(t)' = OpenOf(t)
      BY <1>10 DEF OpenOf
    <3>2. QED  BY <1>1, <2>2, <3>1, TurnNow DEF ItemsAre, Over
  <2>6. /\ open' \subseteq Items /\ stream' = stream \o << >> /\ << >> \in Seq(Entries)
        /\ \A i \in DOMAIN << >> : FALSE /\ faults' \in 0 .. MaxFaults
    BY <1>1, <1>10, TurnNow
  <2>7. faults' \in 0 .. MaxFaults
    BY <1>1, TurnNow
  <2>8. QED  BY <1>1, <1>2, <1>10, <2>1, <2>2, <2>3, <2>4, <2>5, <2>6, <2>7, LoopMoves DEF r
<1>11. QED  BY <1>7, <1>8, <1>9, <1>10

LEMMA AppendRefusedKeeps ==
    ASSUME GInv, NEW t \in Turns, AppendRefused(t)
    PROVE  GInv'
<1> DEFINE After(result) == gen' = [gen EXCEPT ![t] = Ended(result, TRUE)]
<1>0. \E result \in Over : After(result) /\ (AppendsInAttempt(t) \/ AppendsInDrive(t))
  <2> HIDE DEF After
  <2>1. \E result \in Over :
          /\ \/ AppendsInAttempt(t) /\ result = IF t \in aborted THEN "cancelled" ELSE "failed"
             \/ AppendsInDrive(t) /\ result = "thrown"
          /\ After(result)
    BY Zenon DEF AppendRefused, After
  <2>2. QED  BY <2>1
<1>1. PICK result \in Over :
         /\ AppendsInAttempt(t) \/ AppendsInDrive(t)
         /\ gen' = [gen EXCEPT ![t] = Ended(result, TRUE)]
  BY <1>0
<1>2. /\ UNCHANGED <<stream, open, requests, aborted>> /\ faults' \in 0 .. MaxFaults
      /\ gen[t].pc \in {"attempt", "consume", "result", "summarize", "tools"}
  BY <1>1, FaultType DEF AppendRefused, AppendsInAttempt, AppendsInDrive
<1>3. PICK c \in CallStates :
         /\ call' = [call EXCEPT ![t] = c]
         /\ c.request = call[t].request /\ c.phase = call[t].phase
  <2>1. CASE UNCHANGED call
    BY <2>1, TurnNow
  <2>2. CASE call[t].queue # << >> /\ Takes(t)
    BY <2>2, TakesIs
  <2>3. QED  BY <1>1, <2>1, <2>2 DEF AppendsInAttempt, AppendsInDrive
<1>4. \A i \in OpenOf(t)' : i.type = "message" => StepsOf(t) = i.of
  <2>1. OpenOf(t)' = OpenOf(t)
    BY <1>2 DEF OpenOf
  <2>2. QED  BY <1>2, <2>1, TurnNow DEF ItemsAre, Over
<1>5. open' \subseteq open /\ \A i \in open : i.turn # t => i \in open'
  BY <1>2
<1>6. TRUE \in BOOLEAN /\ UNCHANGED <<stream, requests, aborted>>
  BY <1>2
<1>7. QED  BY <1>1, <1>2, <1>3, <1>4, <1>5, <1>6, TurnStops

\* Where the result of an attempt is read, and what its request says.
LEMMA ResultNow ==
    ASSUME GInv, NEW t \in Turns, gen[t].pc = "result"
    PROVE  /\ call[t].phase \notin Unended /\ call[t].phase # "none"
           /\ TheRequest(t) \in Requested /\ TheRequest(t).kind = "step"
           /\ call[t].request \in 1 .. Len(requests)
           /\ gen[t].text = TheRequest(t).text /\ gen[t].intents = TheRequest(t).calls
           /\ CallIs(t, call[t], TheRequest(t))
           /\ TheRequest(t).end \notin {"end_turn", "tool_calls"} => gen[t].intents = << >>
           /\ TheRequest(t).end # "none" /\ (TheRequest(t).end = "cancelled" => t \in aborted)
           /\ StepsOf(t) = gen[t].item
<1>1. /\ call[t].phase \notin Unended /\ call[t].phase # "none" /\ TheRequest(t).kind = "step"
      /\ gen[t].text = TheRequest(t).text /\ gen[t].intents = TheRequest(t).calls
  BY TurnNow DEF AttemptIs
<1>2. /\ call[t].request \in 1 .. Len(requests) /\ TheRequest(t) \in Requested
      /\ CallIs(t, call[t], TheRequest(t)) /\ RequestOk(TheRequest(t))
      /\ TheRequest(t).end = "cancelled" => t \in aborted
  BY <1>1, RequestOf
<1>3. StepsOf(t) = gen[t].item
  BY TurnNow DEF ItemsAre, Over
<1>4. QED  BY <1>1, <1>2, <1>3 DEF CallIs, RequestOk

LEMMA NoIntents ==
    ASSUME GInv, NEW t \in Turns, gen[t].pc = "result", open' = open \ {ThisItem(t)},
           gen[t].intents = << >>
    PROVE  \A i \in OpenOf(t)' : FALSE
<1>1. ToSet(<< >>) = {}
  BY DEF ToSet
<1>2. QED  BY <1>1, OnlyTools

\* The turn goes on; nothing is open.
LEMMA GoesOnBare ==
    ASSUME GInv, NEW t \in Turns, NEW g \in LoopStates, gen' = [gen EXCEPT ![t] = g],
           g.pc \in {"attempt", "drive"}, g.item = StepsOf(t), ViewsAre(g),
           UNCHANGED <<requests, call, aborted>>, faults' \in 0 .. MaxFaults,
           open' \subseteq Items, \A i \in Items : i.turn # t => (i \in open' <=> i \in open),
           \A i \in OpenOf(t)' : FALSE,
           NEW new \in Seq(Entries), stream' = stream \o new,
           \A i \in DOMAIN new : new[i].type = "message" => MessageOk(new[i].body)
    PROVE  GInv'
<1>1. AttemptIs(g, call[t], TheRequest(t)) /\ ItemsAre(g, call[t], StepsOf(t), OpenOf(t)')
  BY DEF AttemptIs, ItemsAre, Over
<1>2. call' = [call EXCEPT ![t] = call[t]] /\ call[t] \in CallStates
  BY TurnNow
<1>3. QED  BY <1>1, <1>2, LoopMoves

LEMMA ResultFailsKeeps ==
    ASSUME GInv, NEW t \in Turns, ResultFails(t)
    PROVE  GInv'
<1>1. /\ gen[t].pc = "result" /\ Settled(t) /\ ~ Answered(t) /\ open' = open \ {ThisItem(t)}
      /\ UNCHANGED <<stream, requests, call, aborted, faults>>
      /\ call' = [call EXCEPT ![t] = call[t]] /\ call[t] \in CallStates
  BY TurnNow DEF ResultFails
<1>2. /\ open' \subseteq open /\ open' \subseteq Items
      /\ \A i \in open : i.turn # t => i \in open'
      /\ \A i \in Items : i.turn # t => (i \in open' <=> i \in open)
      /\ \A i \in OpenOf(t)' : i.type # "message"
  BY <1>1, OnlyTools, TurnNow
<1>3. call[t].phase = "unrecorded" \/ \A i \in OpenOf(t)' : FALSE
  <2>1. CASE call[t].phase = "unrecorded"
    BY <2>1
  <2>2. CASE call[t].phase = "recorded"
    <3>1. TheRequest(t).end \notin Answers
      BY <1>1, <2>2 DEF Answered
    <3>2. gen[t].intents = << >>
      BY <1>1, <3>1, ResultNow DEF Answers
    <3>3. QED  BY <1>1, <3>2, NoIntents
  <2>3. QED  BY <1>1, <2>1, <2>2 DEF Settled
<1>4. faults' \in 0 .. MaxFaults /\ stream' = stream \o << >> /\ << >> \in Seq(Entries)
      /\ \A i \in DOMAIN << >> : FALSE
  BY <1>1, TurnNow
<1>5. CASE \E result \in {"cancelled", "failed"} : Ends(t, result)
  BY <1>1, <1>2, <1>3, <1>4, <1>5, TurnEnds DEF Over
<1>6. CASE /\ call[t].phase = "recorded" /\ gen[t].retry < MaxRetries
           /\ gen' = [gen EXCEPT ![t].pc = "attempt", ![t].retry = @ + 1]
  <2> DEFINE g == [gen[t] EXCEPT !.pc = "attempt", !.retry = @ + 1]
  <2>1. gen' = [gen EXCEPT ![t] = g]
    BY <1>6, TurnNow
  <2>2. /\ g \in LoopStates /\ g.pc = "attempt" /\ g.item = gen[t].item /\ g.step = gen[t].step
        /\ g.history = gen[t].history /\ g.compaction = gen[t].compaction /\ g.view = gen[t].view
    <3>1. gen[t].retry + 1 \in 0 .. MaxRetries
      <4>1. gen[t].retry \in 0 .. MaxRetries /\ MaxRetries \in Nat
        BY TurnNow, GenerationAssumption DEF LoopStates
      <4>2. QED  BY <1>6, <4>1
    <3>2. QED  BY <3>1, TurnNow, ZenonT(40) DEF LoopStates, Working
  <2> HIDE DEF g
  <2>3. ViewsAre(g)
    BY <1>1, <2>2, TurnNow DEF ViewsAre, Working
  <2>4. \A i \in OpenOf(t)' : FALSE
    BY <1>3, <1>6
  <2>5. g.item = StepsOf(t)
    BY <1>1, <2>2, ResultNow
  <2>6. QED  BY <1>1, <1>2, <1>4, <2>1, <2>2, <2>3, <2>4, <2>5, GoesOnBare
<1>7. QED  BY <1>5, <1>6 DEF ResultFails

LEMMA ResultCutKeeps ==
    ASSUME GInv, NEW t \in Turns, ResultCut(t)
    PROVE  GInv'
<1>1. /\ gen[t].pc = "result" /\ open' = open \ {ThisItem(t)}
      /\ TheRequest(t).end = "max_tokens"
      /\ UNCHANGED <<stream, requests, call, aborted, faults>>
      /\ call' = [call EXCEPT ![t] = call[t]] /\ call[t] \in CallStates
  BY TurnNow DEF ResultCut
<1>2. /\ open' \subseteq open /\ open' \subseteq Items
      /\ \A i \in open : i.turn # t => i \in open'
      /\ \A i \in Items : i.turn # t => (i \in open' <=> i \in open)
  BY <1>1, OnlyTools, TurnNow
<1>3. \A i \in OpenOf(t)' : FALSE
  BY <1>1, ResultNow, NoIntents
<1>4. faults' \in 0 .. MaxFaults /\ stream' = stream \o << >> /\ << >> \in Seq(Entries)
      /\ \A i \in DOMAIN << >> : FALSE
  BY <1>1, TurnNow
<1>5. CASE Ends(t, "failed")
  BY <1>1, <1>2, <1>3, <1>4, <1>5, TurnEnds DEF Over
<1>6. CASE gen' = [gen EXCEPT ![t].pc = "drive", ![t].cap = IF 2 * @ < MaxCap THEN 2 * @ ELSE MaxCap]
  <2> DEFINE cap == IF 2 * gen[t].cap < MaxCap THEN 2 * gen[t].cap ELSE MaxCap
             g == [gen[t] EXCEPT !.pc = "drive", !.cap = cap]
  <2>1. gen' = [gen EXCEPT ![t] = g]
    BY <1>6, TurnNow
  <2>2. cap \in 1 .. MaxCap
    <3>1. gen[t].cap \in 1 .. MaxCap /\ MaxCap \in Nat \ {0}
      BY TurnNow, GenerationAssumption DEF LoopStates
    <3>2. QED  BY <3>1
  <2> HIDE DEF cap
  <2>3. /\ g \in LoopStates /\ g.pc = "drive" /\ g.item = gen[t].item
        /\ g.history = gen[t].history /\ g.compaction = gen[t].compaction
    BY <2>2, TurnNow, ZenonT(40) DEF LoopStates
  <2> HIDE DEF g
  <2>4. ViewsAre(g)
    BY <2>3, TurnNow DEF ViewsAre, Working
  <2>5. g.item = StepsOf(t)
    BY <1>1, <2>3, ResultNow
  <2>6. QED  BY <1>1, <1>2, <1>3, <1>4, <2>1, <2>3, <2>4, <2>5, GoesOnBare
<1>7. QED  BY <1>5, <1>6 DEF ResultCut

\* A history that grows is described by its compaction as before.
LEMMA HistoryGrows ==
    ASSUME GInv, NEW t \in Turns, NEW more \in Seq(Messages)
    PROVE  /\ gen[t].history \o more \in Seq(Messages)
           /\ gen[t].compaction # NoSummary =>
                 gen[t].compaction.count <= Len(gen[t].history \o more)
<1>1. gen[t].history \in Seq(Messages) /\ gen[t].compaction \in Summaries \union {NoSummary}
      /\ (gen[t].compaction # NoSummary => gen[t].compaction.count <= Len(gen[t].history))
  BY TurnNow DEF LoopStates, ViewsAre
<1>2. gen[t].compaction # NoSummary => gen[t].compaction.count \in Nat
  BY <1>1, SummaryFields
<1>3. gen[t].history \o more \in Seq(Messages)
      /\ Len(gen[t].history \o more) = Len(gen[t].history) + Len(more)
      /\ Len(gen[t].history) \in Nat /\ Len(more) \in Nat
  BY <1>1
<1>4. QED  BY <1>1, <1>2, <1>3

LEMMA ResultTakenKeeps ==
    ASSUME GInv, NEW t \in Turns, ResultTaken(t)
    PROVE  GInv'
<1> DEFINE m == AssistantMessage(call[t].request, gen[t].text, gen[t].intents)
           history == gen[t].history \o <<m>>
           g == [gen[t] EXCEPT !.pc = "tools", !.history = history]
<1>1. /\ gen[t].pc = "result" /\ call[t].phase = "recorded" /\ TheRequest(t).end \in Answers
      /\ TheRequest(t).end # "max_tokens" /\ open' = open \ {ThisItem(t)}
      /\ UNCHANGED <<requests, call, aborted, faults>>
  BY DEF ResultTaken, Answered
<1>2. /\ call[t].request \in 1 .. Len(requests) /\ TheRequest(t).kind = "step"
      /\ gen[t].text = TheRequest(t).text /\ gen[t].intents = TheRequest(t).calls
      /\ CallIs(t, call[t], TheRequest(t))
  BY <1>1, ResultNow
<1>3. m \in Messages /\ m.role = "assistant" /\ m.request = call[t].request
      /\ m.text = gen[t].text /\ m.calls = gen[t].intents
  <2>1. gen[t].text \in Seq(Parts) /\ gen[t].intents \in Seq(Parts)
    BY TurnNow DEF LoopStates
  <2>2. call[t].request \in Nat \ {Before}
    <3>1. Len(requests) \in Nat
      BY DEF GInv, GenerationShape
    <3>2. QED  BY <1>2, <3>1 DEF Before
  <2>3. QED  BY <2>1, <2>2 DEF Messages, AssistantMessage
<1> HIDE DEF m
<1>4. MessageOk(m)
  <2>1. m.request \in DOMAIN requests /\ requests[m.request] = TheRequest(t)
    <3>1. DOMAIN requests = 1 .. Len(requests)
      BY DEF GInv, GenerationShape
    <3>2. QED  BY <1>2, <1>3, <3>1 DEF TheRequest
  <2>2. TheRequest(t).end \in {"end_turn", "tool_calls"} /\ TheRequest(t).end \notin Errors
    BY <1>1 DEF Answers, Errors
  <2>3. TheRequest(t).recorded = <<"model.completed">>
    BY <1>1, <1>2, <2>2 DEF CallIs
  <2>4. QED  BY <1>2, <1>3, <2>1, <2>2, <2>3 DEF MessageOk
<1>5. <<m>> \in Seq(Messages) /\ <<Message(m)>> \in Seq(Entries)
      /\ \A i \in DOMAIN <<Message(m)>> : <<Message(m)>>[i] = Message(m)
  <2>1. Message(m) \in Entries
    BY <1>3 DEF Entries
  <2>2. QED  BY <1>3, <2>1
<1>6. history \in Seq(Messages)
      /\ (gen[t].compaction # NoSummary => gen[t].compaction.count <= Len(history))
  BY <1>5, HistoryGrows
<1>7. gen' = [gen EXCEPT ![t] = g] /\ stream' = stream \o <<Message(m)>>
  <2>1. gen[t].history \in Seq(Messages)
    BY TurnNow DEF LoopStates
  <2>2. Append(gen[t].history, m) = history
    BY <1>3, <2>1
  <2>3. gen' = [gen EXCEPT ![t].pc = "tools", ![t].history = Append(@, m)]
        /\ stream' = stream \o <<Message(m)>>
    BY DEF ResultTaken, AppendEvents, m
  <2> HIDE DEF history
  <2>4. QED  BY <2>2, <2>3, TurnNow
<1> HIDE DEF history
<1>8. /\ g \in LoopStates /\ g.pc = "tools" /\ g.item = gen[t].item /\ g.step = gen[t].step
      /\ g.history = history /\ g.compaction = gen[t].compaction /\ g.intents = gen[t].intents
  BY <1>6, TurnNow, ZenonT(40) DEF LoopStates, Working
<1> HIDE DEF g
<1>9. ViewsAre(g) /\ AttemptIs(g, call[t], TheRequest(t))
  BY <1>1, <1>6, <1>8, TurnNow DEF ViewsAre, AttemptIs, Working
<1>10. /\ open' \subseteq Items /\ \A i \in Items : i.turn # t => (i \in open' <=> i \in open)
       /\ \A i \in OpenOf(t)' : i.type = "tool_call" /\ i.of \in ToSet(gen[t].intents)
  BY <1>1, OnlyTools
<1>11. ItemsAre(g, call[t], StepsOf(t), OpenOf(t)')
  BY <1>1, <1>8, <1>10, ResultNow DEF ItemsAre, Over
<1>12. \A i \in DOMAIN <<Message(m)>> : MessageOk(<<Message(m)>>[i].body)
  BY <1>4, <1>5 DEF Message
<1>13. faults' \in 0 .. MaxFaults /\ call' = [call EXCEPT ![t] = call[t]] /\ call[t] \in CallStates
  BY <1>1, TurnNow
<1>14. QED  BY <1>1, <1>5, <1>7, <1>8, <1>9, <1>10, <1>11, <1>12, <1>13, LoopMoves

LEMMA RunIntentsKeeps ==
    ASSUME GInv, NEW t \in Turns, RunIntents(t)
    PROVE  GInv'
<1> DEFINE calls == gen[t].intents
<1>1. /\ gen[t].pc = "tools" /\ UNCHANGED <<requests, call, aborted, faults>>
      /\ calls \in Seq(Parts) /\ faults' \in 0 .. MaxFaults
      /\ call' = [call EXCEPT ![t] = call[t]] /\ call[t] \in CallStates
  BY TurnNow DEF RunIntents, LoopStates
<1>2. StepsOf(t) = gen[t].item
      /\ \A i \in OpenOf(t) : i.type = "tool_call" /\ i.of \in ToSet(calls)
  <2>1. StepsOf(t) = gen[t].item
        /\ \A i \in OpenOf(t) : i.type # "message" /\ i.of \in ToSet(calls)
    BY <1>1, TurnNow DEF ItemsAre, Over
  <2>2. \A i \in OpenOf(t) : i.type \in {"message", "tool_call"}
    BY TurnNow DEF Items
  <2>3. QED  BY <2>1, <2>2
<1>3. CASE calls = << >> /\ Ends(t, "completed") /\ UNCHANGED <<stream, open>>
  <2>1. \A i \in OpenOf(t) : FALSE
    BY <1>2, <1>3 DEF ToSet
  <2>2. QED  BY <1>1, <1>3, <2>1, EndsBare DEF Over
<1>4. CASE Ends(t, "cancelled") /\ UNCHANGED <<stream, open>>
  <2>1. \A i \in OpenOf(t)' : i.type = "tool_call"
    BY <1>2, <1>4 DEF OpenOf
  <2>2. QED  BY <1>1, <1>4, <2>1, TurnEnds DEF Over
<1>5. ASSUME NEW bad,
             LET results == [i \in DOMAIN calls |-> ToolMessage(calls[i], calls[i] \in bad)] IN
             /\ AppendEvents([i \in DOMAIN calls |-> Message(results[i])])
             /\ gen' = [gen EXCEPT ![t].pc = "drive", ![t].step = @ + 1,
                                   ![t].history = @ \o results],
             open' = open \ {ToolItem(t, p) : p \in ToSet(calls)}
      PROVE  GInv'
  <2> DEFINE results == [i \in DOMAIN calls |-> ToolMessage(calls[i], calls[i] \in bad)]
             new == [i \in DOMAIN calls |-> Message(results[i])]
             history == gen[t].history \o results
             step == gen[t].step + 1
             g == [gen[t] EXCEPT !.pc = "drive", !.step = step, !.history = history]
  <2>1. stream' = stream \o new /\ gen' = [gen EXCEPT ![t] = g]
    BY <1>5, TurnNow DEF AppendEvents
  <2>2. DOMAIN calls = 1 .. Len(calls) /\ Len(calls) \in Nat
        /\ \A i \in DOMAIN calls : calls[i] \in Parts
    BY <1>1
  <2> HIDE DEF calls
  <2>3. \A i \in DOMAIN calls : results[i] \in Messages /\ results[i].role = "tool"
    BY <2>2 DEF Messages, ToolMessage
  <2>4. results \in Seq(Messages)
    BY <2>2, <2>3
  <2> HIDE DEF results
  <2>5. \A i \in DOMAIN calls : new[i] \in Entries /\ new[i].body = results[i]
    BY <2>3 DEF Entries, Message
  <2>6. new \in Seq(Entries) /\ DOMAIN new = DOMAIN calls
    BY <2>2, <2>5
  <2> HIDE DEF new
  <2>7. \A i \in DOMAIN new : MessageOk(new[i].body)
    BY <2>3, <2>5, <2>6 DEF MessageOk
  <2>8. history \in Seq(Messages)
        /\ (gen[t].compaction # NoSummary => gen[t].compaction.count <= Len(history))
    BY <2>4, HistoryGrows
  <2> HIDE DEF history
  <2>9. step \in 0 .. MaxSteps
    <3>1. gen[t].step < MaxSteps /\ gen[t].step \in 0 .. MaxSteps /\ MaxSteps \in Nat
      BY <1>1, TurnNow, GenerationAssumption DEF ViewsAre, Working, LoopStates
    <3>2. QED  BY <3>1
  <2> HIDE DEF step
  <2>10. /\ g \in LoopStates /\ g.pc = "drive" /\ g.item = gen[t].item
         /\ g.history = history /\ g.compaction = gen[t].compaction
    BY <2>8, <2>9, TurnNow, ZenonT(40) DEF LoopStates
  <2> HIDE DEF g
  <2>11. ViewsAre(g)
    BY <2>8, <2>10 DEF ViewsAre, Working
  <2>12. \A p : ToolItem(t, p).turn = t
    BY DEF ToolItem
  <2>13. open' \subseteq Items /\ \A i \in Items : i.turn # t => (i \in open' <=> i \in open)
    BY <1>5, <2>12, TurnNow DEF calls
  <2>14. \A i \in OpenOf(t)' : FALSE
    <3>1. \A i \in OpenOf(t) : i = ToolItem(t, i.of)
      <4>1. \A i \in OpenOf(t) : i.turn = t /\ i.type = "tool_call" /\ i \in Items
        BY <1>2, TurnNow DEF OpenOf
      <4>2. QED  BY <4>1 DEF Items, ToolItem
    <3>2. \A i \in OpenOf(t) : i \notin open'
      BY <1>2, <1>5, <3>1 DEF calls
    <3>3. \A i \in OpenOf(t)' : i \in OpenOf(t) /\ i \in open'
      BY <1>5 DEF OpenOf
    <3>4. QED  BY <3>2, <3>3
  <2>15. QED  BY <1>1, <1>2, <2>1, <2>6, <2>7, <2>10, <2>11, <2>13, <2>14, GoesOnBare
<1>6. QED  BY <1>3, <1>4, <1>5 DEF RunIntents

-----------------------------------------------------------------------------
(* Generation: the steps of a provider *)

\* A call that has not been recorded yet, and its request.
LEMMA CallNow ==
    ASSUME GInv, NEW t \in Turns, call[t].phase \in Unended \union {"settled"}
    PROVE  LET r == TheRequest(t) IN
           /\ call[t] \in CallStates /\ call[t].phase \notin {"none", "recorded", "unrecorded"}
           /\ gen[t] \in LoopStates
           /\ call[t].request \in 1 .. Len(requests)
           /\ r \in Requested /\ r.turn = t /\ RequestOk(r) /\ CallIs(t, call[t], r)
           /\ r.recorded = << >> /\ r.text \in Seq(Parts) /\ r.calls \in Seq(Parts)
           /\ call[t].queue \in Seq(Events) /\ call[t].fragments \in Seq(Parts)
           /\ r.end = "cancelled" => t \in aborted
           /\ call[t].phase \in Unended => r.end = "none" /\ r.calls = << >>
           /\ call[t].phase \in {"connecting", "buffered"} => r.text = << >>
           /\ AttemptIs(gen[t], call[t], r)
<1>1. call[t].phase \notin {"none", "recorded", "unrecorded"}
  BY DEF Unended
<1>2. /\ call[t].request \in 1 .. Len(requests) /\ TheRequest(t) \in Requested
      /\ CallIs(t, call[t], TheRequest(t)) /\ RequestOk(TheRequest(t))
      /\ TheRequest(t).end = "cancelled" => t \in aborted
  BY <1>1, RequestOf
<1>3. /\ call[t] \in CallStates /\ gen[t] \in LoopStates /\ AttemptIs(gen[t], call[t], TheRequest(t))
  BY TurnNow
<1>4. /\ TheRequest(t).text \in Seq(Parts) /\ TheRequest(t).calls \in Seq(Parts)
      /\ call[t].queue \in Seq(Events) /\ call[t].fragments \in Seq(Parts)
  BY <1>2, <1>3 DEF Requested, CallStates
<1>5. TheRequest(t).turn = t /\ TheRequest(t).recorded = << >>
      /\ (call[t].phase \in Unended => TheRequest(t).end = "none" /\ TheRequest(t).calls = << >>)
      /\ (call[t].phase \in {"connecting", "buffered"} => TheRequest(t).text = << >>)
  BY <1>1, <1>2 DEF CallIs, RequestOk
<1>6. QED  BY <1>1, <1>2, <1>3, <1>4, <1>5

\* What the attempt has taken stays taken when nothing is pushed.
LEMMA NothingPushed ==
    ASSUME NEW g, NEW c, NEW d, NEW r, NEW q, AttemptIs(g, c, r),
           q.text = r.text, q.calls = r.calls, q.kind = r.kind,
           d.queue = c.queue, d.phase # "none", d.phase \in Unended <=> c.phase \in Unended
    PROVE  AttemptIs(g, d, q)
<1>1. AtEnd(d) = AtEnd(c) /\ \A n : Pushed(q, n) = Pushed(r, n)
  BY DEF AtEnd, Pushed
<1>2. Takings(g, c, r) => Takings(g, d, q)
  BY <1>1 DEF Takings
<1>3. QED  BY <1>2 DEF AttemptIs

\* What is pushed is the next part of the answer, and perhaps its end.
LEMMA MorePushed ==
    ASSUME NEW g \in LoopStates, NEW c \in CallStates, NEW d \in CallStates,
           NEW r \in Requested, NEW q \in Requested,
           AttemptIs(g, c, r), c.phase \in Unended, r.calls = << >>, d.phase # "none",
           q.kind = r.kind, Begins(r.text, q.text),
           NEW more \in Seq(Events), d.queue = c.queue \o more,
           Len(r.text) + Len(more) = Len(q.text) + Len(q.calls) + AtEnd(d),
           \A i \in DOMAIN more : more[i] = Pushed(q, Len(r.text) + i)
    PROVE  AttemptIs(g, d, q)
<1>1. SUFFICES ASSUME g.pc = "consume"
               PROVE  Takings(g, d, q)
  BY DEF AttemptIs
<1>2. Takings(g, c, r) /\ Begins(g.text, r.text) /\ Begins(g.intents, r.calls)
  BY <1>1, BeginsSame DEF AttemptIs
<1> DEFINE a == Len(g.text)
           x == Len(r.text)
           z == Len(q.text)
           y == Len(q.calls)
           n == Len(c.queue)
           m == Len(more)
           last == AtEnd(d)
<1>3. g.intents = << >> /\ a \in Nat /\ x \in Nat /\ n \in Nat /\ a + n = x
      /\ \A i \in 1 .. n : c.queue[i] = Pushed(r, a + i)
  <2>1. AtEnd(c) = 0
    BY DEF AtEnd
  <2>2. Len(g.intents) \in Nat /\ Len(g.intents) <= Len(r.calls) /\ (Len(g.intents) = 0 <=> g.intents = << >>)
    BY <1>2, TakingsAre, Zenon
  <2>3. Len(r.calls) = 0 /\ Len(g.intents) = 0
    BY <2>2
  <2>4. a \in Nat /\ x \in Nat /\ n \in Nat /\ a + Len(g.intents) + n = x + Len(r.calls) + AtEnd(c)
        /\ DOMAIN c.queue = 1 .. n
        /\ \A i \in DOMAIN c.queue : c.queue[i] = Pushed(r, a + Len(g.intents) + i)
    BY <1>2, TakingsAre, Zenon
  <2> HIDE DEF a, x, n
  <2>5. a + n = x
    BY <2>1, <2>3, <2>4
  <2>6. \A i \in 1 .. n : c.queue[i] = Pushed(r, a + i)
    <3>1. a + Len(g.intents) = a
      BY <2>3, <2>4
    <3>2. QED  BY <2>4, <3>1
  <2>7. QED  BY <2>2, <2>3, <2>4, <2>5, <2>6
<1>4. /\ z \in Nat /\ y \in Nat /\ m \in Nat /\ last \in {0, 1} /\ x + m = z + y + last /\ x <= z
      /\ \A i \in 1 .. x : r.text[i] = q.text[i]
  <2>1. q.text \in Seq(Parts) /\ q.calls \in Seq(Parts) /\ r.text \in Seq(Parts)
    BY DEF Requested
  <2>2. last \in {0, 1} /\ x <= z /\ \A i \in 1 .. x : r.text[i] = q.text[i]
    BY <2>1 DEF AtEnd, Begins
  <2>3. z \in Nat /\ y \in Nat /\ m \in Nat
    BY <2>1
  <2>4. QED  BY <2>2, <2>3
<1>5. /\ Len(d.queue) = n + m /\ DOMAIN d.queue = 1 .. n + m /\ DOMAIN more = 1 .. m
      /\ \A i \in 1 .. n : d.queue[i] = c.queue[i]
      /\ \A i \in 1 .. m : d.queue[n + i] = more[i]
  <2>1. c.queue \in Seq(Events)
    BY DEF CallStates
  <2>2. QED  BY <2>1
<1>6. Begins(g.text, q.text)
  <2>1. a <= x /\ DOMAIN g.text = 1 .. a /\ \A i \in 1 .. a : g.text[i] = r.text[i]
    <3>1. g.text \in Seq(Parts)
      BY DEF LoopStates
    <3>2. QED  BY <1>2, <3>1 DEF Begins
  <2> HIDE DEF a, x, z
  <2>2. \A i \in 1 .. a : i \in 1 .. x /\ g.text[i] = q.text[i]
    BY <1>3, <1>4, <2>1
  <2>3. a <= z
    BY <1>3, <1>4, <2>1
  <2>4. QED  BY <2>1, <2>2, <2>3 DEF Begins, a, z
<1>7. \A i \in 1 .. m : more[i] = Pushed(q, x + i)
  BY <1>5
<1>8. \A k : 1 <= k /\ k \in Nat /\ k <= x => Pushed(r, k) = [kind |-> "message-delta", piece |-> r.text[k]]
  BY DEF Pushed
<1>9. \A k : k <= z => Pushed(q, k) = [kind |-> "message-delta", piece |-> q.text[k]]
  BY DEF Pushed
<1> HIDE DEF a, x, z, y, n, m, last
<1>10. \A i \in 1 .. n + m : d.queue[i] = Pushed(q, a + i)
  <2>1. ASSUME NEW i \in 1 .. n
        PROVE  d.queue[i] = Pushed(q, a + i)
    <3>1. a + i \in 1 .. x /\ a + i <= z /\ 1 <= a + i /\ a + i \in Nat /\ a + i <= x
      BY <1>3, <1>4
    <3>2. Pushed(r, a + i) = Pushed(q, a + i)
      BY <1>4, <1>8, <1>9, <3>1, ZenonT(40)
    <3>3. QED  BY <1>3, <1>5, <3>2
  <2>2. ASSUME NEW i \in 1 .. n + m, ~ (i <= n)
        PROVE  d.queue[i] = Pushed(q, a + i)
    <3>1. i - n \in 1 .. m /\ n + (i - n) = i /\ x + (i - n) = a + i
      BY <1>3, <1>4, <2>2
    <3>2. QED  BY <1>5, <1>7, <3>1
  <2>3. \A i \in 1 .. n + m : i \in 1 .. n \/ ~ (i <= n)
    BY <1>3, <1>4
  <2>4. QED  BY <2>1, <2>2, <2>3
<1>11. a + (n + m) = z + y + last
  BY <1>3, <1>4
<1>12. Begins(g.intents, q.calls) /\ Len(g.intents) = 0 /\ a + 0 = a
  BY <1>3, <1>4 DEF Begins, y
<1>13. Len(g.text) + Len(g.intents) = a
  BY <1>12 DEF a
<1>14. QED  BY <1>3, <1>5, <1>6, <1>10, <1>11, <1>12, <1>13 DEF Takings, z, y, last

LEMMA JoinedIs ==
    ASSUME NEW a \in Seq(Events), NEW b \in Seq(Events)
    PROVE  /\ a \o b \in Seq(Events) /\ Len(a \o b) = Len(a) + Len(b)
           /\ DOMAIN (a \o b) = 1 .. Len(a) + Len(b)
           /\ \A i \in 1 .. Len(a) : (a \o b)[i] = a[i]
           /\ \A i \in 1 .. Len(b) : (a \o b)[Len(a) + i] = b[i]
OBVIOUS

\* What is pushed as a call settles: the rest of the text, the calls, the end.
LEMMA RestPushed ==
    ASSUME NEW q \in Requested, NEW x \in Nat, NEW pushed \in Seq(Events),
           x + Len(pushed) = Len(q.text),
           \A i \in DOMAIN pushed : pushed[i] = [kind |-> "message-delta", piece |-> q.text[x + i]]
    PROVE  LET calls == q.calls
               more == pushed \o [k \in DOMAIN calls |-> ToolIntent(calls[k])] \o <<Done>>
           IN /\ [k \in DOMAIN calls |-> ToolIntent(calls[k])] \in Seq(Events)
              /\ more \in Seq(Events)
              /\ x + Len(more) = Len(q.text) + Len(q.calls) + 1
              /\ \A i \in DOMAIN more : more[i] = Pushed(q, x + i)
<1> DEFINE calls == q.calls
           intents == [k \in DOMAIN calls |-> ToolIntent(calls[k])]
           more == pushed \o intents \o <<Done>>
           m == Len(pushed)
           y == Len(calls)
           z == Len(q.text)
<1>1. q.text \in Seq(Parts) /\ calls \in Seq(Parts) /\ m \in Nat /\ y \in Nat /\ z \in Nat
  <2>1. q.text \in Seq(Parts) /\ calls \in Seq(Parts)
    BY DEF Requested
  <2>2. QED  BY <2>1
<1>2. intents \in Seq(Events) /\ Len(intents) = y /\ \A k \in 1 .. y : intents[k] = ToolIntent(calls[k])
  <2>1. \A k \in DOMAIN calls : ToolIntent(calls[k]) \in Events
    BY <1>1 DEF Events, ToolIntent
  <2>2. DOMAIN calls = 1 .. y
    BY <1>1
  <2> HIDE DEF calls
  <2>3. QED  BY <1>1, <2>1, <2>2
<1>3. Done \in Events
  BY DEF Events
<1> HIDE DEF intents
<1>4. /\ more \in Seq(Events) /\ Len(more) = m + y + 1 /\ DOMAIN more = 1 .. m + y + 1
      /\ \A i \in 1 .. m : more[i] = pushed[i]
      /\ \A i \in 1 .. y : more[m + i] = intents[i]
      /\ more[m + y + 1] = Done
  <2> DEFINE two == pushed \o intents
             ended == <<Done>>
  <2>1. ended \in Seq(Events) /\ Len(ended) = 1 /\ ended[1] = Done
    BY <1>3
  <2>2. /\ two \in Seq(Events) /\ Len(two) = m + Len(intents)
        /\ \A i \in 1 .. m : two[i] = pushed[i]
        /\ \A i \in 1 .. Len(intents) : two[m + i] = intents[i]
    BY <1>2, JoinedIs, Zenon
  <2> HIDE DEF two, ended
  <2>3. /\ two \o ended \in Seq(Events) /\ Len(two \o ended) = Len(two) + Len(ended)
        /\ DOMAIN (two \o ended) = 1 .. Len(two) + Len(ended)
        /\ \A i \in 1 .. Len(two) : (two \o ended)[i] = two[i]
        /\ \A i \in 1 .. Len(ended) : (two \o ended)[Len(two) + i] = ended[i]
    BY <2>1, <2>2, JoinedIs, Zenon
  <2>4. more = two \o ended
    BY DEF two, ended
  <2> HIDE DEF m, y, more
  <2>5. Len(two) = m + y /\ Len(ended) = 1
    BY <1>2, <2>1, <2>2
  <2>6. /\ more \in Seq(Events) /\ Len(more) = m + y + 1 /\ DOMAIN more = 1 .. m + y + 1
        /\ \A i \in 1 .. m + y : more[i] = two[i]
        /\ \A i \in 1 .. 1 : more[m + y + i] = ended[i]
    BY <2>3, <2>4, <2>5, Zenon
  <2>7. \A i \in 1 .. m : more[i] = pushed[i]
    <3>1. \A i \in 1 .. m : i \in 1 .. m + y
      BY <1>1
    <3>2. QED  BY <2>2, <2>6, <3>1
  <2>8. \A i \in 1 .. y : more[m + i] = intents[i]
    <3>1. \A i \in 1 .. y : m + i \in 1 .. m + y
      BY <1>1
    <3>2. QED  BY <1>2, <2>2, <2>6, <3>1
  <2>9. more[m + y + 1] = Done
    BY <2>1, <2>6
  <2>10. QED  BY <2>6, <2>7, <2>8, <2>9
<1> HIDE DEF more
<1>5. x + m = z /\ \A i \in 1 .. m : pushed[i] = [kind |-> "message-delta", piece |-> q.text[x + i]]
  OBVIOUS
<1>6. /\ \A k : k <= z => Pushed(q, k) = [kind |-> "message-delta", piece |-> q.text[k]]
      /\ \A k : ~ (k <= z) /\ k <= z + y => Pushed(q, k) = ToolIntent(calls[k - z])
      /\ \A k : ~ (k <= z) /\ ~ (k <= z + y) => Pushed(q, k) = Done
  BY DEF Pushed
<1> HIDE DEF m, y, z, calls
<1>7. ASSUME NEW i \in 1 .. m + y + 1
      PROVE  more[i] = Pushed(q, x + i)
  <2>1. CASE i <= m
    <3>1. i \in 1 .. m /\ x + i <= z
      BY <1>1, <1>5, <2>1
    <3>2. QED  BY <1>4, <1>5, <1>6, <3>1
  <2>2. CASE m < i /\ i <= m + y
    <3>1. i - m \in 1 .. y /\ m + (i - m) = i /\ (x + i) - z = i - m
      BY <1>1, <1>5, <2>2
    <3>2. ~ (x + i <= z) /\ x + i <= z + y
      BY <1>1, <1>5, <2>2
    <3>3. Pushed(q, x + i) = ToolIntent(calls[(x + i) - z])
      BY <1>6, <3>2, Zenon
    <3>4. more[i] = intents[i - m] /\ intents[i - m] = ToolIntent(calls[i - m])
      <4> DEFINE j == i - m
      <4>1. j \in 1 .. y /\ m + j = i
        BY <3>1
      <4> HIDE DEF j
      <4>2. more[m + j] = intents[j] /\ intents[j] = ToolIntent(calls[j])
        BY <1>2, <1>4, <4>1, Zenon
      <4>3. QED  BY <4>1, <4>2 DEF j
    <3>5. QED  BY <3>1, <3>3, <3>4, Zenon
  <2>3. CASE i = m + y + 1
    <3>1. ~ (x + i <= z) /\ ~ (x + i <= z + y)
      BY <1>1, <1>5, <2>3
    <3>2. Pushed(q, x + i) = Done
      BY <1>6, <3>1, Zenon
    <3>3. QED  BY <1>4, <2>3, <3>2
  <2>4. QED  BY <1>1, <2>1, <2>2, <2>3
<1>8. x + (m + y + 1) = z + y + 1
  BY <1>1, <1>5
<1>9. QED  BY <1>2, <1>4, <1>7, <1>8 DEF more, intents, calls, y, z

LEMMA CountsEndType ==
    ASSUME GInv, NEW end, CountsEnd(end)
    PROVE  faults' \in 0 .. MaxFaults
BY FaultType DEF CountsEnd

LEMMA SettlesKeeps ==
    ASSUME GInv, NEW t \in Turns, call[t].phase \in Unended,
           NEW end \in Answers \union Errors \union {"cancelled"},
           NEW pushed \in Seq(Events), NEW text \in Seq(Parts), NEW calls \in Seq(Parts),
           Settles(t, end, pushed, text, calls), UNCHANGED <<stream, open, gen, aborted>>,
           end \notin {"end_turn", "tool_calls"} => calls = << >>,
           end = "cancelled" => t \in aborted,
           Begins(TheRequest(t).text, text),
           Len(TheRequest(t).text) + Len(pushed) = Len(text),
           \A i \in DOMAIN pushed :
              pushed[i] = [kind |-> "message-delta", piece |-> text[Len(TheRequest(t).text) + i]]
    PROVE  GInv'
<1> DEFINE r == TheRequest(t)
           q == [r EXCEPT !.end = end, !.text = text, !.calls = calls]
           more == pushed \o [k \in DOMAIN calls |-> ToolIntent(calls[k])] \o <<Done>>
           c == [call[t] EXCEPT !.phase = "settled", !.queue = @ \o more]
<1>1. /\ call[t] \in CallStates /\ call[t].phase \notin {"none", "recorded", "unrecorded"}
      /\ gen[t] \in LoopStates /\ call[t].request \in 1 .. Len(requests)
      /\ r \in Requested /\ r.turn = t /\ RequestOk(r) /\ CallIs(t, call[t], r)
      /\ r.recorded = << >> /\ r.text \in Seq(Parts) /\ r.calls = << >>
      /\ call[t].queue \in Seq(Events) /\ AttemptIs(gen[t], call[t], r)
  BY CallNow
<1> HIDE DEF r
<1>2. /\ q \in Requested /\ q.turn = t /\ q.kind = r.kind /\ q.end = end /\ q.text = text
      /\ q.calls = calls /\ q.recorded = << >> /\ q.messages = r.messages /\ q.history = r.history
  BY <1>1 DEF Requested
<1> HIDE DEF q
<1>3. RequestOk(q)
  BY <1>1, <1>2 DEF RequestOk
<1>4. Len(r.text) \in Nat /\ Begins(r.text, q.text) /\ Len(r.text) + Len(pushed) = Len(q.text)
      /\ \A i \in DOMAIN pushed :
            pushed[i] = [kind |-> "message-delta", piece |-> q.text[Len(r.text) + i]]
  BY <1>1, <1>2 DEF r
<1>5. /\ [k \in DOMAIN calls |-> ToolIntent(calls[k])] \in Seq(Events)
      /\ more \in Seq(Events)
      /\ Len(r.text) + Len(more) = Len(q.text) + Len(q.calls) + 1
      /\ \A i \in DOMAIN more : more[i] = Pushed(q, Len(r.text) + i)
  <2>1. LET qc == q.calls
            qmore == pushed \o [k \in DOMAIN qc |-> ToolIntent(qc[k])] \o <<Done>>
        IN /\ [k \in DOMAIN qc |-> ToolIntent(qc[k])] \in Seq(Events)
           /\ qmore \in Seq(Events)
           /\ Len(r.text) + Len(qmore) = Len(q.text) + Len(qc) + 1
           /\ \A i \in DOMAIN qmore : qmore[i] = Pushed(q, Len(r.text) + i)
    BY <1>2, <1>4, RestPushed, Zenon
  <2>2. QED  BY <1>2, <2>1, Zenon
<1>6. /\ requests' = [requests EXCEPT ![call[t].request] = q]
      /\ call' = [call EXCEPT ![t] = c]
  <2>1. requests \in Seq(Requested) /\ call \in [Turns -> CallStates]
    BY DEF GInv, GenerationShape
  <2>2. requests' = [requests EXCEPT ![call[t].request].end = end,
                                     ![call[t].request].text = text,
                                     ![call[t].request].calls = calls]
        /\ call' = [call EXCEPT ![t].phase = "settled", ![t].queue = @ \o more]
    BY DEF Settles
  <2> HIDE DEF more
  <2>3. call' = [call EXCEPT ![t] = c]
    BY <2>1, <2>2
  <2>4. requests' = [requests EXCEPT ![call[t].request] = q]
    BY <1>1, <2>1, <2>2 DEF q, r, TheRequest
  <2>5. QED  BY <2>3, <2>4
<1>7. /\ c \in CallStates /\ c.phase = "settled" /\ c.request = call[t].request
      /\ c.queue = call[t].queue \o more
  <2>1. call[t].queue \o more \in Seq(Events)
    BY <1>1, <1>5
  <2> HIDE DEF more
  <2>2. QED  BY <1>1, <2>1 DEF CallStates
<1> HIDE DEF more, c
<1>8. CallIs(t, c, q) /\ (q.end = "cancelled" => t \in aborted)
  BY <1>2, <1>7 DEF CallIs, Unended, Answers, Errors
<1>9. AttemptIs(gen[t], c, q)
  <2>1. AtEnd(c) = 1 /\ c.phase # "none"
    BY <1>7 DEF AtEnd, Unended
  <2>2. Len(r.text) + Len(more) = Len(q.text) + Len(q.calls) + AtEnd(c)
    BY <1>5, <2>1
  <2>3. more \in Seq(Events) /\ \A i \in DOMAIN more : more[i] = Pushed(q, Len(r.text) + i)
    BY <1>5
  <2>4. QED  BY <1>1, <1>2, <1>4, <1>7, <2>1, <2>2, <2>3, MorePushed
<1>10. Altered(t, q)
  BY <1>1, <1>2, <1>3, <1>6 DEF Altered, r
<1>11. faults' \in 0 .. MaxFaults
  BY CountsEndType DEF Settles
<1>12. QED  BY <1>1, <1>6, <1>7, <1>8, <1>9, <1>10, <1>11, ProviderMoves

LEMMA StopsKeeps ==
    ASSUME GInv, NEW t \in Turns, call[t].phase \in Unended,
           NEW end \in Errors \union {"cancelled"}, Stops(t, end),
           end = "cancelled" => t \in aborted, UNCHANGED <<stream, open, gen, aborted>>
    PROVE  GInv'
<1> DEFINE text == TheRequest(t).text
<1>1. text \in Seq(Parts) /\ Len(text) + 0 = Len(text)
  BY CallNow
<1>2. Settles(t, end, << >>, text, << >>)
  BY DEF Stops
<1>3. Begins(text, text)
  BY <1>1 DEF Begins
<1>4. << >> \in Seq(Events) /\ << >> \in Seq(Parts) /\ Len(<< >>) = 0 /\ \A i \in DOMAIN << >> : FALSE
  OBVIOUS
<1>5. Len(text) + Len(<< >>) = Len(text)
  BY <1>1, <1>4
<1>6. end \in Answers \union Errors \union {"cancelled"}
  OBVIOUS
<1> HIDE DEF text
<1>7. QED  BY <1>1, <1>2, <1>3, <1>4, <1>5, <1>6, SettlesKeeps DEF text

\* A call goes on, and its request as it is.
LEMMA CallGoesOn ==
    ASSUME GInv, NEW t \in Turns, call[t].phase \in Unended \union {"settled"},
           NEW c \in CallStates, call' = [call EXCEPT ![t] = c],
           c.request = call[t].request, c.queue = call[t].queue, c.phase # "none",
           c.phase \in Unended <=> call[t].phase \in Unended,
           CallIs(t, c, TheRequest(t)),
           UNCHANGED <<stream, open, gen, aborted, requests>>, faults' \in 0 .. MaxFaults
    PROVE  GInv'
<1> DEFINE r == TheRequest(t)
<1>1. /\ call[t].phase \notin {"none", "recorded", "unrecorded"}
      /\ r \in Requested /\ r.turn = t /\ RequestOk(r)
      /\ r.end = "cancelled" => t \in aborted
      /\ AttemptIs(gen[t], call[t], r)
  BY CallNow
<1>2. requests' = [requests EXCEPT ![call[t].request] = r]
  BY DEF GInv, GenerationShape, TheRequest
<1>3. Altered(t, r)
  BY <1>1, <1>2 DEF Altered
<1> HIDE DEF r
<1>4. AttemptIs(gen[t], c, r)
  BY <1>1, NothingPushed
<1>5. QED  BY <1>1, <1>3, <1>4, ProviderMoves DEF r

LEMMA RecordTerminalKeeps ==
    ASSUME GInv, NEW t \in Turns, RecordTerminal(t)
    PROVE  GInv'
<1> DEFINE r == TheRequest(t)
<1>1. call[t].phase = "settled" /\ UNCHANGED <<stream, open, gen, aborted>>
  BY DEF RecordTerminal
<1>2. /\ call[t] \in CallStates /\ call[t].phase \notin {"none", "recorded", "unrecorded"}
      /\ call[t].request \in 1 .. Len(requests) /\ call[t].phase \notin Unended
      /\ r \in Requested /\ r.turn = t /\ RequestOk(r) /\ CallIs(t, call[t], r)
      /\ r.recorded = << >> /\ (r.end = "cancelled" => t \in aborted)
      /\ AttemptIs(gen[t], call[t], r)
  BY <1>1, CallNow DEF Unended
<1>3. requests \in Seq(Requested) /\ call \in [Turns -> CallStates]
  BY DEF GInv, GenerationShape
<1> DEFINE said == IF r.end \in Errors THEN "model.failed" ELSE "model.completed"
           c(phase) == [call[t] EXCEPT !.phase = phase]
<1>4. ASSUME NEW phase \in {"recorded", "unrecorded"}
      PROVE  /\ c(phase) \in CallStates /\ c(phase).phase = phase
             /\ c(phase).request = call[t].request /\ c(phase).queue = call[t].queue
             /\ phase # "none" /\ phase \notin Unended
  BY <1>2 DEF CallStates, Unended
<1>5. CASE /\ requests' = [requests EXCEPT ![call[t].request].recorded = Append(@, said)]
           /\ call' = [call EXCEPT ![t].phase = "recorded"] /\ UNCHANGED faults
  <2> DEFINE q == [r EXCEPT !.recorded = <<said>>]
             d == c("recorded")
  <2>1. said \in {"model.completed", "model.failed"}
    OBVIOUS
  <2>2. call' = [call EXCEPT ![t] = d]
    BY <1>3, <1>5
  <2>3. requests' = [requests EXCEPT ![call[t].request] = q]
    <3>1. requests[call[t].request].recorded = << >>
      BY <1>2 DEF TheRequest
    <3>2. Append(requests[call[t].request].recorded, said) = <<said>>
      BY <3>1
    <3> HIDE DEF said
    <3>3. requests' = [requests EXCEPT ![call[t].request].recorded = <<said>>]
      BY <1>5, <3>2
    <3>4. QED  BY <1>2, <1>3, <3>3 DEF TheRequest
  <2>4. /\ q \in Requested /\ q.turn = t /\ q.kind = r.kind /\ q.end = r.end /\ q.text = r.text
        /\ q.calls = r.calls /\ q.recorded = <<said>> /\ q.messages = r.messages
        /\ q.history = r.history
    <3> HIDE DEF said
    <3>1. <<said>> \in Seq({"model.completed", "model.failed"})
      BY <2>1
    <3> DEFINE one == <<said>>
    <3> HIDE DEF r, one
    <3>2. QED  BY <1>2, <3>1 DEF Requested, one
  <2>5. /\ d \in CallStates /\ d.phase = "recorded" /\ d.request = call[t].request
        /\ d.queue = call[t].queue /\ d.phase # "none" /\ d.phase \notin Unended
    BY <1>4
  <2>6. q.recorded = <<IF q.end \in Errors THEN "model.failed" ELSE "model.completed">>
    BY <2>4
  <2> HIDE DEF q, d, said, r
  <2>7. RequestOk(q)
    BY <1>2, <2>4 DEF RequestOk
  <2>8. CallIs(t, d, q)
    BY <1>2, <2>4, <2>5, <2>6 DEF CallIs
  <2>9. AttemptIs(gen[t], d, q)
    BY <1>2, <2>4, <2>5, NothingPushed
  <2>10. Altered(t, q)
    BY <1>2, <2>3, <2>4, <2>7 DEF Altered, r
  <2>11. faults' \in 0 .. MaxFaults
    BY <1>5, FaultType
  <2>12. QED  BY <1>1, <1>2, <2>2, <2>4, <2>5, <2>8, <2>9, <2>10, <2>11, ProviderMoves
<1>6. CASE Fault /\ call' = [call EXCEPT ![t].phase = "unrecorded"] /\ UNCHANGED requests
  <2> DEFINE d == c("unrecorded")
  <2>1. call' = [call EXCEPT ![t] = d]
    BY <1>3, <1>6
  <2>2. /\ d \in CallStates /\ d.phase = "unrecorded" /\ d.request = call[t].request
        /\ d.queue = call[t].queue /\ d.phase # "none" /\ d.phase \notin Unended
    BY <1>4
  <2> HIDE DEF d, r
  <2>3. CallIs(t, d, r)
    BY <1>2, <2>2 DEF CallIs, Unended
  <2>4. faults' \in 0 .. MaxFaults
    BY <1>6, FaultType
  <2>5. QED  BY <1>1, <1>2, <1>6, <2>1, <2>2, <2>3, <2>4, CallGoesOn DEF r
<1>7. QED  BY <1>5, <1>6 DEF RecordTerminal

LEMMA ConnectKeeps ==
    ASSUME GInv, NEW t \in Turns, Connect(t)
    PROVE  GInv'
<1>1. call[t].phase = "connecting" /\ call[t].phase \in Unended /\ UNCHANGED <<stream, open, gen, aborted>>
  BY DEF Connect, Unended
<1>2. CASE t \in aborted /\ Stops(t, "cancelled")
  BY <1>1, <1>2, StopsKeeps
<1>3. CASE \E end \in Errors \ {"protocol"} : Stops(t, end)
  <2>1. PICK end \in Errors \ {"protocol"} : Stops(t, end)
    BY <1>3
  <2>2. end # "cancelled"
    BY DEF Errors
  <2>3. QED  BY <1>1, <2>1, <2>2, StopsKeeps
<1>4. CASE /\ call' = [call EXCEPT ![t].phase = IF streams THEN "streaming" ELSE "buffered"]
           /\ UNCHANGED <<requests, faults>>
  <2> DEFINE phase == IF streams THEN "streaming" ELSE "buffered"
             c == [call[t] EXCEPT !.phase = phase]
  <2>1. call' = [call EXCEPT ![t] = c]
    BY <1>4, TurnNow
  <2>2. phase \in {"streaming", "buffered"}
    OBVIOUS
  <2> HIDE DEF phase
  <2>3. /\ c \in CallStates /\ c.phase = phase /\ c.request = call[t].request
        /\ c.queue = call[t].queue /\ c.phase # "none" /\ c.phase \in Unended
    BY <2>2, TurnNow DEF CallStates, Unended
  <2> HIDE DEF c
  <2>4. CallIs(t, c, TheRequest(t))
    BY <1>1, <2>2, <2>3, CallNow DEF CallIs, Unended
  <2>5. faults' \in 0 .. MaxFaults
    BY <1>4, FaultType
  <2>6. QED  BY <1>1, <1>4, <2>1, <2>3, <2>4, <2>5, CallGoesOn
<1>5. QED  BY <1>2, <1>3, <1>4 DEF Connect

\* A piece of text arrives, and is pushed.
LEMMA TextKeeps ==
    ASSUME GInv, NEW t \in Turns, call[t].phase = "streaming", NEW k \in Nat,
           requests' = [requests EXCEPT ![call[t].request].text = Append(@, <<call[t].request, k>>)],
           call' = [call EXCEPT ![t].queue = Append(@, Delta(call[t].request, k))],
           UNCHANGED <<stream, open, gen, aborted, faults>>
    PROVE  GInv'
<1> DEFINE r == TheRequest(t)
           piece == <<call[t].request, k>>
           event == Delta(call[t].request, k)
           text == Append(r.text, piece)
           q == [r EXCEPT !.text = text]
           c == [call[t] EXCEPT !.queue = @ \o <<event>>]
<1>1. /\ call[t] \in CallStates /\ call[t].phase \in Unended
      /\ call[t].phase \notin {"none", "recorded", "unrecorded"}
      /\ gen[t] \in LoopStates /\ call[t].request \in 1 .. Len(requests)
      /\ r \in Requested /\ r.turn = t /\ RequestOk(r) /\ CallIs(t, call[t], r)
      /\ r.recorded = << >> /\ r.text \in Seq(Parts) /\ r.calls = << >> /\ r.end = "none"
      /\ call[t].queue \in Seq(Events) /\ AttemptIs(gen[t], call[t], r)
  <2>1. call[t].phase \in Unended
    BY DEF Unended
  <2>2. QED  BY <2>1, CallNow
<1>2. requests \in Seq(Requested) /\ call \in [Turns -> CallStates] /\ Len(requests) \in Nat
  BY DEF GInv, GenerationShape
<1>3. /\ piece \in Parts /\ event \in Events /\ event = [kind |-> "message-delta", piece |-> piece]
  <2>1. call[t].request \in Nat
    BY <1>1, <1>2
  <2>2. piece \in Parts /\ event = [kind |-> "message-delta", piece |-> piece]
    BY <2>1 DEF Parts, Delta
  <2> HIDE DEF piece, event
  <2>3. QED  BY <2>2 DEF Events
<1>4. requests' = [requests EXCEPT ![call[t].request] = q]
  BY <1>1, <1>2 DEF TheRequest
<1>5. call' = [call EXCEPT ![t] = c]
  <2>1. call' = [call EXCEPT ![t].queue = Append(@, event)]
    OBVIOUS
  <2> HIDE DEF event
  <2>2. Append(call[t].queue, event) = call[t].queue \o <<event>>
    <3> DEFINE queue == call[t].queue
    <3>1. queue \in Seq(Events) /\ event \in Events
      BY <1>1, <1>3
    <3> HIDE DEF queue
    <3>2. Append(queue, event) = queue \o <<event>>
      BY <3>1
    <3>3. QED  BY <3>2 DEF queue
  <2>3. QED  BY <1>2, <2>1, <2>2
<1> HIDE DEF piece, event, r
<1>6. /\ text \in Seq(Parts) /\ Len(text) = Len(r.text) + 1 /\ Len(r.text) \in Nat
      /\ DOMAIN r.text = 1 .. Len(r.text) /\ \A i \in 1 .. Len(r.text) : text[i] = r.text[i]
      /\ text[Len(r.text) + 1] = piece
  BY <1>1, <1>3
<1> HIDE DEF text
<1>7. /\ q \in Requested /\ q.turn = t /\ q.kind = r.kind /\ q.end = "none" /\ q.text = text
      /\ q.calls = << >> /\ q.recorded = << >> /\ q.messages = r.messages /\ q.history = r.history
  BY <1>1, <1>6 DEF Requested
<1> HIDE DEF q
<1>8. RequestOk(q)
  BY <1>1, <1>7 DEF RequestOk
<1>9. <<event>> \in Seq(Events) /\ Len(<<event>>) = 1 /\ DOMAIN <<event>> = 1 .. 1 /\ <<event>>[1] = event
  BY <1>3
<1>10. /\ c \in CallStates /\ c.phase = "streaming" /\ c.request = call[t].request
       /\ c.queue = call[t].queue \o <<event>>
  <2> DEFINE queue == call[t].queue \o <<event>>
  <2>1. queue \in Seq(Events)
    BY <1>1, <1>9
  <2> HIDE DEF queue
  <2>2. c = [call[t] EXCEPT !.queue = queue]
    BY DEF queue
  <2>3. QED  BY <1>1, <2>1, <2>2 DEF CallStates, queue
<1> HIDE DEF c
<1>11. Begins(r.text, q.text)
  BY <1>6, <1>7 DEF Begins
<1>12. AttemptIs(gen[t], c, q)
  <2> DEFINE more == <<event>>
  <2>1. more \in Seq(Events) /\ Len(more) = 1 /\ DOMAIN more = 1 .. 1 /\ more[1] = event
        /\ c.queue = call[t].queue \o more
    BY <1>9, <1>10
  <2> HIDE DEF more
  <2>2. AtEnd(c) = 0 /\ Len(q.calls) = 0 /\ c.phase # "none"
    BY <1>7, <1>10 DEF AtEnd, Unended
  <2>3. Len(r.text) + Len(more) = Len(q.text) + Len(q.calls) + AtEnd(c)
    BY <1>6, <1>7, <2>1, <2>2
  <2>4. Pushed(q, Len(r.text) + 1) = event
    BY <1>3, <1>6, <1>7 DEF Pushed
  <2>5. \A i \in DOMAIN more : more[i] = Pushed(q, Len(r.text) + i)
    BY <2>1, <2>4
  <2>6. QED  BY <1>1, <1>7, <1>10, <1>11, <2>1, <2>2, <2>3, <2>5, MorePushed
<1>13. CallIs(t, c, q) /\ q.end # "cancelled"
  BY <1>7, <1>10 DEF CallIs, Unended
<1>14. Altered(t, q)
  BY <1>1, <1>4, <1>7, <1>8 DEF Altered, r
<1>15. faults' \in 0 .. MaxFaults
  BY FaultType
<1>16. QED  BY <1>1, <1>5, <1>7, <1>10, <1>12, <1>13, <1>14, <1>15, ProviderMoves

LEMMA ReadChunkKeeps ==
    ASSUME GInv, NEW t \in Turns, ReadChunk(t)
    PROVE  GInv'
<1> DEFINE k == Pieces(t) + 1
           piece == <<call[t].request, k>>
<1>1. /\ call[t].phase = "streaming" /\ call[t].phase \in Unended
      /\ UNCHANGED <<stream, open, gen, aborted, faults>>
  BY DEF ReadChunk, Unended
<1>2. /\ call[t] \in CallStates /\ call[t].request \in 1 .. Len(requests)
      /\ TheRequest(t).text \in Seq(Parts) /\ call[t].fragments \in Seq(Parts)
      /\ CallIs(t, call[t], TheRequest(t))
  BY <1>1, CallNow
<1>3. k \in Nat /\ piece[2] = k
  <2> DEFINE a == Len(TheRequest(t).text)
             b == Len(call[t].fragments)
  <2>1. a \in Nat /\ b \in Nat /\ Pieces(t) = a + b
    BY <1>2 DEF Pieces
  <2> HIDE DEF a, b
  <2>2. Pieces(t) \in Nat
    BY <2>1
  <2>3. k \in Nat
    BY <2>2
  <2> HIDE DEF k
  <2>4. piece[2] = k
    OBVIOUS
  <2>5. QED  BY <2>3, <2>4
<1>4. CASE /\ requests' = [requests EXCEPT ![call[t].request].text = Append(@, piece)]
           /\ call' = [call EXCEPT ![t].queue = Append(@, Delta(call[t].request, k))]
  <2> HIDE DEF k
  <2>1. QED  BY <1>1, <1>3, <1>4, TextKeeps
<1>5. CASE /\ call' = [call EXCEPT ![t].fragments = Append(@, piece)]
           /\ UNCHANGED requests
  <2> DEFINE fragments == Append(call[t].fragments, piece)
             c == [call[t] EXCEPT !.fragments = fragments]
  <2>1. call' = [call EXCEPT ![t] = c]
    BY <1>5, TurnNow
  <2>2. piece \in Parts
    <3> HIDE DEF k
    <3>1. call[t].request \in Nat
      BY <1>2 DEF GInv, GenerationShape
    <3>2. QED  BY <1>3, <3>1 DEF Parts
  <2> HIDE DEF piece
  <2>3. fragments \in Seq(Parts)
    BY <1>2, <2>2
  <2> HIDE DEF fragments
  <2>4. /\ c \in CallStates /\ c.phase = "streaming" /\ c.request = call[t].request
        /\ c.queue = call[t].queue /\ c.phase # "none" /\ c.phase \in Unended
    BY <1>1, <1>2, <2>3 DEF CallStates
  <2> HIDE DEF c
  <2>5. CallIs(t, c, TheRequest(t))
    BY <1>1, <1>2, <2>4 DEF CallIs
  <2>6. faults' \in 0 .. MaxFaults
    BY <1>1, FaultType
  <2>7. QED  BY <1>1, <1>5, <2>1, <2>4, <2>5, <2>6, CallGoesOn
<1>6. QED  BY <1>3, <1>4, <1>5 DEF ReadChunk

LEMMA BrokenKeeps ==
    ASSUME GInv, NEW t \in Turns, call[t].phase \in Unended, UNCHANGED <<stream, open, gen, aborted>>,
           \/ t \in aborted /\ Stops(t, "cancelled")
           \/ \E end \in {"retryable", "protocol"} : Stops(t, end)
    PROVE  GInv'
<1>1. CASE t \in aborted /\ Stops(t, "cancelled")
  BY <1>1, StopsKeeps
<1>2. CASE \E end \in {"retryable", "protocol"} : Stops(t, end)
  <2>1. PICK end \in {"retryable", "protocol"} : Stops(t, end)
    BY <1>2
  <2>2. end \in Errors /\ end # "cancelled"
    BY DEF Errors
  <2>3. QED  BY <2>1, <2>2, StopsKeeps
<1>3. QED  BY <1>1, <1>2

LEMMA StopReasonIs ==
    ASSUME NEW calls, NEW end \in StopReasons(calls)
    PROVE  /\ end \in Answers \union Errors \union {"cancelled"} /\ end # "cancelled"
           /\ end \notin {"end_turn", "tool_calls"} => calls = << >>
BY DEF StopReasons, Answers

LEMMA EndStreamKeeps ==
    ASSUME GInv, NEW t \in Turns, EndStream(t)
    PROVE  GInv'
<1> DEFINE text == TheRequest(t).text
           calls == call[t].fragments
<1>1. call[t].phase \in Unended /\ UNCHANGED <<stream, open, gen, aborted>>
  BY DEF EndStream, Unended
<1>2. CASE \/ t \in aborted /\ Stops(t, "cancelled")
           \/ \E end \in {"retryable", "protocol"} : Stops(t, end)
  BY <1>1, <1>2, BrokenKeeps
<1>3. ASSUME NEW end \in StopReasons(calls), Settles(t, end, << >>, text, calls)
      PROVE  GInv'
  <2>1. text \in Seq(Parts) /\ calls \in Seq(Parts)
    BY <1>1, CallNow
  <2>2. Begins(text, text) /\ Len(text) + Len(<< >>) = Len(text)
    BY <2>1 DEF Begins
  <2>3. << >> \in Seq(Events) /\ \A i \in DOMAIN << >> : FALSE
    OBVIOUS
  <2>4. /\ end \in Answers \union Errors \union {"cancelled"} /\ end # "cancelled"
        /\ end \notin {"end_turn", "tool_calls"} => calls = << >>
    BY <1>3, StopReasonIs
  <2> HIDE DEF text, calls
  <2>5. QED  BY <1>1, <1>3, <2>1, <2>2, <2>3, <2>4, SettlesKeeps DEF text
<1>4. QED  BY <1>2, <1>3 DEF EndStream

LEMMA ReadBodyKeeps ==
    ASSUME GInv, NEW t \in Turns, ReadBody(t)
    PROVE  GInv'
<1> DEFINE r == call[t].request
<1>1. /\ call[t].phase = "buffered" /\ call[t].phase \in Unended
      /\ UNCHANGED <<stream, open, gen, aborted>>
  BY DEF ReadBody, Unended
<1>2. CASE \/ t \in aborted /\ Stops(t, "cancelled")
           \/ \E end \in {"retryable", "protocol"} : Stops(t, end)
  BY <1>1, <1>2, BrokenKeeps
<1>3. r \in Nat /\ TheRequest(t).text = << >>
  <2>1. r \in 1 .. Len(requests) /\ TheRequest(t).text = << >>
    BY <1>1, CallNow
  <2>2. QED  BY <2>1 DEF GInv, GenerationShape
<1>4. ASSUME NEW text \in {<< >>, <<<<r, 1>>>>}, NEW n \in Nat,
             NEW end \in StopReasons([k \in 1 .. n |-> <<r, k + 1>>]),
             Settles(t, end, [k \in DOMAIN text |-> Delta(r, k)], text, [k \in 1 .. n |-> <<r, k + 1>>])
      PROVE  GInv'
  <2> DEFINE calls == [k \in 1 .. n |-> <<r, k + 1>>]
             pushed == [k \in DOMAIN text |-> Delta(r, k)]
  <2> HIDE DEF r
  <2>1. text \in Seq(Parts) /\ Len(text) \in Nat /\ DOMAIN text = 1 .. Len(text)
        /\ \A k \in DOMAIN text : text[k] = <<r, k>>
    <3>1. CASE text = << >>
      BY <3>1
    <3>2. CASE text = <<<<r, 1>>>>
      <4> DEFINE p == <<r, 1>>
      <4>1. p \in Parts
        BY <1>3 DEF Parts
      <4> HIDE DEF p
      <4>2. text \in Seq(Parts) /\ Len(text) = 1 /\ DOMAIN text = 1 .. 1 /\ text[1] = p
        BY <3>2, <4>1 DEF p
      <4>3. QED  BY <4>2 DEF p
    <3>3. QED  BY <3>1, <3>2
  <2>2. calls \in Seq(Parts)
    BY <1>3 DEF Parts
  <2>3. \A k \in DOMAIN text : Delta(r, k) = [kind |-> "message-delta", piece |-> text[k]]
    BY <2>1 DEF Delta
  <2>4. pushed \in Seq(Events) /\ Len(pushed) = Len(text) /\ DOMAIN pushed = DOMAIN text
    <3>1. \A k \in DOMAIN text : Delta(r, k) \in Events
      BY <2>1, <2>3 DEF Events
    <3>2. QED  BY <2>1, <3>1
  <2>5. /\ end \in Answers \union Errors \union {"cancelled"} /\ end # "cancelled"
        /\ end \notin {"end_turn", "tool_calls"} => calls = << >>
    BY <1>4, StopReasonIs
  <2>6. /\ Begins(TheRequest(t).text, text) /\ Len(TheRequest(t).text) = 0
        /\ Len(TheRequest(t).text) + Len(pushed) = Len(text)
    BY <1>3, <2>1, <2>4 DEF Begins
  <2>7. \A i \in DOMAIN pushed :
           pushed[i] = [kind |-> "message-delta", piece |-> text[Len(TheRequest(t).text) + i]]
    <3>1. \A i \in DOMAIN text : Len(TheRequest(t).text) + i = i
      BY <2>1, <2>6
    <3>2. QED  BY <2>3, <2>4, <3>1
  <2>8. Settles(t, end, pushed, text, calls)
    BY <1>4
  <2> HIDE DEF calls, pushed
  <2>9. QED  BY <1>1, <2>1, <2>2, <2>4, <2>5, <2>6, <2>7, <2>8, SettlesKeeps
<1>5. ASSUME NEW b, NEW n \in 0 .. b
      PROVE  n \in Nat
  OBVIOUS
<1>6. ASSUME ~ \/ t \in aborted /\ Stops(t, "cancelled")
               \/ \E end \in {"retryable", "protocol"} : Stops(t, end)
      PROVE  \E text \in {<< >>, <<<<r, 1>>>>} : \E n \in Nat :
                \E end \in StopReasons([k \in 1 .. n |-> <<r, k + 1>>]) :
                   Settles(t, end, [k \in DOMAIN text |-> Delta(r, k)], text,
                           [k \in 1 .. n |-> <<r, k + 1>>])
  <2>1. PICK text \in {<< >>} \union {<<<<r, 1>>>> : i \in 1 .. (MaxPieces - Delivered)} :
           \E n \in 0 .. (MaxPieces - Delivered) - Len(text) :
              \E end \in StopReasons([k \in 1 .. n |-> <<r, k + 1>>]) :
                 Settles(t, end, [k \in DOMAIN text |-> Delta(r, k)], text,
                         [k \in 1 .. n |-> <<r, k + 1>>])
    BY <1>6 DEF ReadBody
  <2>2. text \in {<< >>, <<<<r, 1>>>>}
    OBVIOUS
  <2>3. QED  BY <1>5, <2>1, <2>2
<1>7. QED  BY <1>2, <1>4, <1>6

-----------------------------------------------------------------------------
(* Generation: the theorems *)

LEMMA GenerationStarts ==
    ASSUME GenerationInit
    PROVE  GInv
<1>1. /\ stream \in Earlier /\ open = {} /\ requests = << >> /\ gen = [t \in Turns |-> Idle]
      /\ call = [t \in Turns |-> NoCall] /\ aborted = {} /\ faults = 0
  BY DEF GenerationInit
<1>2. stream \in Seq(Entries) /\ \A i \in DOMAIN stream : stream[i] \in Past
  <2>1. stream \in Seq(ToSet(stream)) /\ ToSet(stream) \subseteq Past
    BY <1>1, EarlierAssumption DEF Past
  <2>2. Past \subseteq Entries
    BY DEF Entries
  <2>3. stream \in Seq(Entries)
    BY <2>1, <2>2
  <2>4. QED  BY <2>1, <2>3
<1>3. Idle \in LoopStates /\ Idle.pc = "idle" /\ Idle.compaction = NoSummary
  <2>1. 0 \in 0 .. MaxCompactions /\ 0 \in 0 .. MaxSteps /\ 0 \in 0 .. MaxRetries /\ 1 \in 1 .. MaxCap
    BY GenerationAssumption
  <2>2. << >> \in Seq(Messages) /\ << >> \in Seq(Shown) /\ << >> \in Seq(Parts)
    OBVIOUS
  <2>3. QED  BY <2>1, <2>2 DEF LoopStates, Idle
<1>4. NoCall \in CallStates /\ NoCall.phase = "none" /\ NoCall.request = 0
  <2>1. << >> \in Seq(Events) /\ << >> \in Seq(Parts)
    OBVIOUS
  <2>2. QED  BY <2>1 DEF NoCall, CallStates
<1>5. GenerationShape
  <2>1. faults \in 0 .. MaxFaults
    BY <1>1, GenerationAssumption
  <2>2. QED  BY <1>1, <1>2, <1>3, <1>4, <2>1 DEF GenerationShape
<1>6. MessagesOk
  <2>1. ASSUME NEW m, EarlierMessage(m)
        PROVE  MessageOk(m)
    BY <2>1 DEF EarlierMessage, UserMessage, AssistantMessage, ToolMessage, MessageOk
  <2>2. \A i \in DOMAIN stream : stream[i].type = "message" => EarlierMessage(stream[i].body)
    BY <1>2, PastIs
  <2>3. QED  BY <2>1, <2>2 DEF MessagesOk
<1>7. RequestsOk
  BY <1>1 DEF RequestsOk
<1>8. ASSUME NEW t \in Turns
      PROVE  TurnOk(t)
  <2>1. StepsOf(t) = 0
    <3>1. StepRequests(t) = {}
      BY <1>1 DEF StepRequests
    <3>2. QED  BY <3>1, FS_EmptySet DEF StepsOf
  <2>2. OpenOf(t) = {} /\ gen[t] = Idle /\ call[t] = NoCall
    BY <1>1 DEF OpenOf
  <2>3. Idle.item = 0
    BY DEF Idle
  <2>4. TurnIs(t, Idle, NoCall, TheRequest(t), 0, {}, t \in aborted)
    BY <1>3, <1>4, <2>3 DEF TurnIs, AttemptIs, ViewsAre, ItemsAre, Working, Over
  <2>5. QED  BY <2>1, <2>2, <2>4 DEF TurnOk
<1>9. QED  BY <1>5, <1>6, <1>7, <1>8 DEF GInv

LEMMA LoopKeeps ==
    ASSUME GInv, NEW t \in Turns, Loop(t)
    PROVE  GInv'
BY DriveKeeps, CompactKeeps, SummarizedKeeps, ProceedUnfoldedKeeps, AttemptKeeps, RequestKeeps,
   ConsumeAbortedKeeps, ConsumeKeeps, ResultFailsKeeps, ResultCutKeeps, ResultTakenKeeps,
   RunIntentsKeeps DEF Loop

LEMMA ProviderKeeps ==
    ASSUME GInv, NEW t \in Turns, Provider(t)
    PROVE  GInv'
BY ConnectKeeps, ReadChunkKeeps, EndStreamKeeps, ReadBodyKeeps, RecordTerminalKeeps DEF Provider

LEMMA GenerationHolds == GenerationSpec => []GInv
<1>1. GenerationInit => GInv
  BY GenerationStarts
<1>2. GInv /\ [GenerationNext]_generationVars => GInv'
  <2>1. SUFFICES ASSUME GInv, [GenerationNext]_generationVars
                 PROVE  GInv'
    OBVIOUS
  <2>2. CASE \E t \in Turns : Loop(t)
    BY <2>1, <2>2, LoopKeeps
  <2>3. CASE \E t \in Turns : Provider(t)
    BY <2>1, <2>3, ProviderKeeps
  <2>4. CASE \E t \in Turns : RunTurn(t) \/ Abort(t) \/ AppendRefused(t)
    BY <2>1, <2>4, RunTurnKeeps, AbortKeeps, AppendRefusedKeeps
  <2>5. CASE UNCHANGED generationVars
    <3>1. GenerationShape' /\ MessagesOk' /\ RequestsOk'
      BY <2>1, <2>5 DEF generationVars, GInv, GenerationShape, MessagesOk, MessageOk, RequestsOk, RequestOk
    <3>2. ASSUME NEW t \in Turns
          PROVE  TurnOk(t)'
      <4>1. TurnOk(t)
        BY <2>1 DEF GInv
      <4>2. QED  BY <2>5, <4>1 DEF generationVars, TurnOk, TheRequest, StepsOf, StepRequests, OpenOf
    <3>3. QED  BY <3>1, <3>2 DEF GInv
  <2>6. QED  BY <2>1, <2>2, <2>3, <2>4, <2>5 DEF GenerationNext
<1>3. QED  BY <1>1, <1>2, PTL DEF GenerationSpec

\* Type correctness.
THEOREM GenerationTyped == GenerationSpec => []GenerationTypes
<1>1. ASSUME GInv
      PROVE  GenerationTypes
  <2>1. GenerationShape
    BY <1>1 DEF GInv
  <2>2. \A i \in DOMAIN stream : stream[i].type \in {"message", "context.compacted"}
    BY <2>1, EntryIs DEF GenerationShape
  <2>3. \A i \in open : i.turn \in Turns /\ i.type \in {"message", "tool_call"}
    BY <2>1 DEF GenerationShape, Items
  <2>4. \A r \in DOMAIN requests :
           /\ requests[r].turn \in Turns /\ requests[r].kind \in {"step", "summary"}
           /\ requests[r].end \in Answers \union Errors \union {"none", "cancelled"}
    <3>1. \A r \in DOMAIN requests : requests[r] \in Requested
      BY <2>1 DEF GenerationShape
    <3>2. QED  BY <3>1 DEF Requested
  <2>5. ASSUME NEW t \in Turns
        PROVE  /\ gen[t].step \in 0 .. MaxSteps /\ gen[t].retry \in 0 .. MaxRetries
               /\ gen[t].cap \in 1 .. MaxCap /\ gen[t].compactions \in 0 .. MaxCompactions
               /\ call[t].request \in 0 .. Len(requests)
    <3>1. gen[t] \in LoopStates
      BY <2>1 DEF GenerationShape
    <3>2. Len(requests) \in Nat
      BY <2>1 DEF GenerationShape
    <3>3. IF call[t].phase = "none" THEN call[t].request = 0 ELSE call[t].request \in 1 .. Len(requests)
      BY <2>1 DEF GenerationShape
    <3>4. call[t].request \in 0 .. Len(requests)
      BY <3>2, <3>3
    <3>5. QED  BY <3>1, <3>4 DEF LoopStates
  <2>6. aborted \subseteq Turns /\ faults \in 0 .. MaxFaults
    BY <2>1 DEF GenerationShape
  <2>7. QED  BY <2>2, <2>3, <2>4, <2>5, <2>6 DEF GenerationTypes
<1>2. QED  BY <1>1, GenerationHolds, PTL

\* An assistant message of the history is the whole answer of one request that
\* was recorded as completed. (#attempt, ModelRequestService.generate)
THEOREM HistoryIsAnswers == GenerationSpec => []MessagesAreAnswers
<1>1. ASSUME GInv
      PROVE  MessagesAreAnswers
  BY <1>1 DEF GInv, MessagesOk, MessageOk, MessagesAreAnswers
<1>2. QED  BY <1>1, GenerationHolds, PTL

\* A request shows every message of the history it was made from, folded only as
\* the two levels may. (#compactView, projectHistory, #loadCompaction)
THEOREM RequestsShowHistory == GenerationSpec => []ViewIsFaithful
<1>1. ASSUME GInv
      PROVE  ViewIsFaithful
  <2>1. \A r \in DOMAIN requests : requests[r].kind = "step" => Faithful(requests[r].messages, requests[r].history)
    BY <1>1 DEF GInv, RequestsOk, RequestOk
  <2>2. QED  BY <2>1, Zenon DEF ViewIsFaithful, Faithful
<1>2. QED  BY <1>1, GenerationHolds, PTL

\* Whatever way a turn ends, appends that are refused among them, it leaves no item
\* of an earlier attempt open, and of its last only those nobody answered for or
\* whose end could not be stored. (#attempt's exits, the catch of #generate)
THEOREM ItemsAreSettled == GenerationSpec => []ItemsSettle
<1>1. ASSUME GInv
      PROVE  ItemsSettle
  <2>1. \A t \in Turns : ItemsAre(gen[t], call[t], StepsOf(t), OpenOf(t))
    BY <1>1, TurnNow
  <2>2. QED  BY <2>1 DEF ItemsAre, ItemsSettle, StepsOf
<1>2. QED  BY <1>1, GenerationHolds, PTL

=============================================================================
