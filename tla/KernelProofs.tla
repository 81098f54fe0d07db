---------------------------- MODULE KernelProofs ----------------------------
(***************************************************************************)
(* What TLAPS proves of Kernel, for any finite set of turns and any        *)
(* generations, structures, differences between them and refused appends.  *)
(***************************************************************************)
EXTENDS Kernel, FiniteSetTheorems, TLAPS

-----------------------------------------------------------------------------
(* Counting leases *)

Leased(g) == {t \in Turns : turn[t].lease = g}

LEMMA LeasedCounts ==
    ASSUME NEW g
    PROVE  /\ IsFiniteSet(Leased(g))
           /\ Cardinality(Leased(g)) \in 0 .. Cardinality(Turns)
           /\ Cardinality(Leased(g)) = 0 <=> Leased(g) = {}
<1>1. Leased(g) \in SUBSET Turns
  BY DEF Leased
<1>2. IsFiniteSet(Leased(g)) /\ Cardinality(Leased(g)) <= Cardinality(Turns)
  BY <1>1, TurnsAssumption, FS_Subset
<1>3. Cardinality(Leased(g)) \in Nat /\ Cardinality(Turns) \in Nat
  BY <1>2, TurnsAssumption, FS_CardinalityType
<1>4. Cardinality(Leased(g)) = 0 <=> Leased(g) = {}
  BY <1>2, FS_EmptySet
<1>5. QED  BY <1>2, <1>3, <1>4

\* Where no lease changes hands and no count changes, the counts stay right.
LEMMA SameLeases ==
    ASSUME RefsCountLeases,
           \A t \in Turns : turn'[t].lease = turn[t].lease,
           \A g \in Gens : gen'[g].refs = gen[g].refs
    PROVE  RefsCountLeases'
<1>1. \A g \in Gens : {t \in Turns : turn'[t].lease = g} = {t \in Turns : turn[t].lease = g}
  OBVIOUS
<1>2. QED  BY <1>1 DEF RefsCountLeases

Generations == [state : GenStates, structure : Structures \union {None},
                refs : Int, disposing : BOOLEAN]

\* Everything TypeOK says, with the counts left open.
Shape ==
    /\ host \in {"down", "restoring", "starting", "up", "stopping", "halting"}
    /\ gen \in [Gens -> Generations]
    /\ listed \subseteq Gens
    /\ active \in Gens \union {None}
    /\ op \in Ops
    /\ durable \in Structures \union {None}
    /\ turn \in [Turns -> [status : {"idle", "running", "suspended", "interrupted"},
                           lease : Gens \union {None}, kept : BOOLEAN]]
    /\ source \in [value : Structures, pending : BOOLEAN]
    /\ controller \in [queued : BOOLEAN, phase : {"idle", "waiting", "busy"},
                       loaded : Structures \union {None}, threw : BOOLEAN]
    /\ controller.phase # "idle" => controller.loaded \in Structures
    /\ faults \in 0 .. MaxFaults

LEMMA TypeShape == TypeOK => Shape
<1>1. SUFFICES ASSUME TypeOK PROVE gen \in [Gens -> Generations]
  BY DEF TypeOK, Shape
<1>2. Cardinality(Turns) \in Nat
  BY TurnsAssumption, FS_CardinalityType
<1>3. 0 .. Cardinality(Turns) \subseteq Int
  BY <1>2
<1>4. QED  BY <1>1, <1>3 DEF TypeOK, Generations

LEMMA ShapeType == Shape /\ RefsCountLeases => TypeOK
<1>1. SUFFICES ASSUME Shape, RefsCountLeases
               PROVE  \A g \in Gens : gen[g].refs \in 0 .. Cardinality(Turns)
  BY <1>1 DEF Shape, TypeOK, Generations
<1>2. \A g \in Gens : gen[g].refs = Cardinality(Leased(g))
  BY <1>1 DEF RefsCountLeases, Leased
<1>3. \A g \in Gens : Cardinality(Leased(g)) \in 0 .. Cardinality(Turns)
  BY LeasedCounts
<1>4. QED  BY <1>2, <1>3

LEMMA NextShapeType == Shape' /\ RefsCountLeases' => TypeOK'
BY ShapeType, PTL

-----------------------------------------------------------------------------
(* The initial state *)

LEMMA InitIInv == Init => IInv
<1>1. SUFFICES ASSUME Init PROVE IInv
  OBVIOUS
<1>2. Shape
  BY <1>1, KernelAssumption DEF Init, Shape, Generations, Unused, GenStates,
                                  NoOp, Ops, NoTurn, Unleased, Quiet
<1>3. \A g \in Gens : Leased(g) = {}
  BY <1>1, KernelAssumption DEF Init, Leased, NoTurn, Unleased
<1>4. RefsCountLeases
  BY <1>1, <1>3, FS_EmptySet DEF Init, RefsCountLeases, Leased, Unused
<1>5. LeasesAreKept
  BY <1>1 DEF Init, LeasesAreKept, NoTurn, Unleased
<1>6. ServingIsUp /\ OpIsOrdered
  BY <1>1 DEF Init, ServingIsUp, OpIsOrdered, Unused, NoOp
<1>7. QED  BY <1>2, <1>4, <1>5, <1>6, ShapeType DEF IInv

-----------------------------------------------------------------------------
(* Steps of a reconciliation that leave generations and turns alone *)

\* An operation under way is not the absent one.
LEMMA OpShape ==
    ASSUME op \in Ops, op.phase # "idle"
    PROVE  op \in [phase : Phases, origin : {"boot", "config", "admin"}, target : Structures,
                   gen : Gens \union {None}, prev : Gens \union {None}]
BY DEF Ops, NoOp

LEMMA GotoShape ==
    ASSUME op \in Ops, op.phase # "idle", NEW p \in Phases, Goto(p)
    PROVE  /\ op' \in Ops
           /\ op'.phase = p /\ op'.gen = op.gen /\ op'.prev = op.prev
BY OpShape DEF Goto, Ops

LEMMA SettleShape ==
    ASSUME Shape, NEW o, Settle(o)
    PROVE  /\ op' \in Ops /\ op'.phase = "idle"
           /\ controller' \in [queued : BOOLEAN, phase : {"idle", "waiting", "busy"},
                               loaded : Structures \union {None}, threw : BOOLEAN]
           /\ controller'.phase # "idle" => controller'.loaded \in Structures
BY DEF Settle, Ops, NoOp, Shape

LEMMA StartShape ==
    ASSUME NEW s \in Structures, NEW origin \in {"boot", "config", "admin"}, Start(s, origin)
    PROVE  op' \in Ops /\ op'.phase = "resolve"
BY DEF Start, Reconcile, NoOp, Ops, Phases

\* The steps that change neither a generation nor a turn.
Quiescent ==
    \/ Resolve \/ GraphFails \/ Unchanged \/ PlanRestart \/ PlanUpdate
    \/ UpdateFails \/ Prepare \/ Undone \/ (op.origin # "boot" /\ EmitRestart) \/ EmitUpdated
    \/ EmitActivated \/ AwaitDrain \/ AppendFails
    \/ (\E s \in Posted : AdminReconcile(s)) \/ (\E s \in Edited : EditSource(s))
    \/ Notify \/ Load \/ LoadFails \/ StartRefresh
    \/ Boot \/ Supersede \/ StartController \/ Booted \/ Stop

LEMMA QuiescentFrame == Quiescent => UNCHANGED <<gen, listed, active, turn>>
BY DEF Quiescent, Resolve, GraphFails, Unchanged, PlanRestart, PlanUpdate, UpdateFails,
       Prepare, Undone, EmitRestart, EmitUpdated, EmitActivated, AwaitDrain, AppendFails,
       AdminReconcile, EditSource, Notify, Load, LoadFails, StartRefresh, Boot, Supersede, StartController, Booted, Stop,
       kernelVars, hostVars

LEMMA QuiescentShape == ASSUME Shape, Quiescent PROVE Shape'
<1>1. Resolve \/ GraphFails \/ PlanRestart \/ Prepare \/ Undone => Shape'
  BY GotoShape DEF Resolve, GraphFails, PlanRestart, Prepare, Undone, Differs, Shape, Phases,
                   kernelVars, hostVars
<1>2. PlanUpdate \/ UpdateFails => Shape'
  BY OpShape DEF PlanUpdate, UpdateFails, Differs, Shape, Ops, Phases, kernelVars, hostVars
<1>3. Unchanged \/ (op.origin # "boot" /\ EmitRestart) \/ AwaitDrain => Shape'
  BY SettleShape DEF Unchanged, EmitRestart, AwaitDrain, Shape, kernelVars, hostVars
<1>4. EmitUpdated => Shape'
  BY SettleShape, OpShape DEF EmitUpdated, Shape, kernelVars, hostVars
<1>5. EmitActivated => Shape'
  BY SettleShape, OpShape, GotoShape DEF EmitActivated, Shape, Phases, kernelVars, hostVars
<1>6. AppendFails => Shape'
  <2>1. SUFFICES ASSUME AppendFails PROVE Shape'
    OBVIOUS
  <2>2. /\ faults' \in 0 .. MaxFaults
        /\ UNCHANGED <<host, durable, gen, listed, active, turn, source>>
    <3>1. faults' = faults + 1 /\ faults < MaxFaults
      BY <2>1 DEF AppendFails
    <3>2. UNCHANGED <<host, durable, gen, listed, active, turn, source>>
      BY <2>1 DEF AppendFails, kernelVars
    <3>3. QED  BY <3>1, <3>2, KernelAssumption DEF Shape
  <2>3. CASE Settle(op)
    BY <2>2, <2>3, SettleShape DEF Shape
  <2>4. CASE op.phase # "idle" /\ Goto("emit failed") /\ UNCHANGED controller
    BY <2>2, <2>4, GotoShape DEF Shape, Phases
  <2>5. \/ Settle(op)
        \/ op.phase \in {"emit prepared", "emit activated", "emit draining"}
           /\ Goto("emit failed") /\ UNCHANGED controller
    BY <2>1 DEF AppendFails, Settle, Goto
  <2>6. QED  BY <2>3, <2>4, <2>5
<1>7. (\E s \in Posted : AdminReconcile(s)) => Shape'
  BY StartShape, KernelAssumption DEF AdminReconcile, Shape, kernelVars, hostVars
<1>8. (\E s \in Edited : EditSource(s)) => Shape'
  BY KernelAssumption DEF EditSource, Subscribed, Shape, kernelVars
<1>9. Notify => Shape'
  <2>1. SUFFICES ASSUME Notify PROVE Shape'
    OBVIOUS
  <2>2. UNCHANGED <<host, durable, op, turn, faults, gen, listed, active>>
    BY <2>1 DEF Notify, kernelVars
  <2>3. /\ source' \in [value : Structures, pending : BOOLEAN]
        /\ controller' = [controller EXCEPT !.queued = TRUE]
    BY <2>1 DEF Notify, Shape
  <2>4. /\ controller' \in [queued : BOOLEAN, phase : {"idle", "waiting", "busy"},
                            loaded : Structures \union {None}, threw : BOOLEAN]
        /\ controller'.phase # "idle" => controller'.loaded \in Structures
    BY <2>3 DEF Shape
  <2>5. QED  BY <2>2, <2>3, <2>4 DEF Shape
<1>10. Load => Shape'
  <2>1. SUFFICES ASSUME Load PROVE Shape'
    OBVIOUS
  <2>2. UNCHANGED <<host, durable, op, turn, source, faults, gen, listed, active>>
    BY <2>1 DEF Load, kernelVars, hostVars
  <2>3. source.value \in Structures
    BY DEF Shape
  <2>4. controller' = [queued |-> FALSE, phase |-> "waiting", loaded |-> source.value,
                       threw |-> FALSE]
    BY <2>1 DEF Load, Quiet
  <2>5. /\ controller' \in [queued : BOOLEAN, phase : {"idle", "waiting", "busy"},
                            loaded : Structures \union {None}, threw : BOOLEAN]
        /\ controller'.loaded \in Structures
    BY <2>3, <2>4
  <2>6. QED  BY <2>2, <2>5 DEF Shape
<1>11. StartRefresh => Shape'
  BY StartShape DEF StartRefresh, Shape, kernelVars, hostVars
<1>12. Boot => Shape'
  <2>1. SUFFICES ASSUME Boot PROVE Shape'
    OBVIOUS
  <2>2. PICK s \in {Default} \union readActiveStructure : Start(s, "boot")
    BY <2>1 DEF Boot
  <2>3. s \in Structures
    BY KernelAssumption DEF Shape, readActiveStructure
  <2>4. QED  BY <2>1, <2>2, <2>3, StartShape DEF Boot, Shape, kernelVars, hostVars
<1>13. Supersede => Shape'
  BY StartShape, KernelAssumption DEF Supersede, Shape, kernelVars, hostVars
<1>14. Booted \/ Stop \/ StartController => Shape'
  BY DEF Booted, Stop, StartController, Shape, kernelVars, hostVars
<1>15. LoadFails => Shape'
  <2>1. SUFFICES ASSUME LoadFails PROVE Shape'
    OBVIOUS
  <2>2. UNCHANGED <<host, durable, op, turn, source, faults, gen, listed, active>>
    BY <2>1 DEF LoadFails, kernelVars, hostVars
  <2>3. controller' = [queued |-> FALSE, phase |-> "idle", loaded |-> None, threw |-> TRUE]
    BY <2>1 DEF LoadFails, Quiet
  <2>4. QED  BY <2>2, <2>3 DEF Shape
<1>16. QED
  BY <1>1, <1>2, <1>3, <1>4, <1>5, <1>6, <1>7, <1>8, <1>9, <1>10, <1>11, <1>12, <1>13, <1>14,
     <1>15 DEF Quiescent

-----------------------------------------------------------------------------
(* Generations *)

LEMMA DisposingRecord ==
    ASSUME NEW r \in Generations
    PROVE  /\ Disposing(r) \in Generations
           /\ Disposing(r).refs = r.refs /\ Disposing(r).state = r.state
           /\ Disposing(r).structure = r.structure
           /\ Disposing(r).disposing
BY DEF Disposing, Generations

LEMMA DrainedRecord ==
    ASSUME NEW r \in Generations
    PROVE  /\ Drained(r) \in Generations
           /\ Drained(r).refs = r.refs
           /\ Drained(r).state = IF r.state = "active" THEN "draining" ELSE r.state
           /\ Drained(r).structure = r.structure
           /\ r.refs # 0 => Drained(r).disposing = r.disposing
           /\ r.refs = 0 /\ r.state # "disposed" => Drained(r).disposing
BY DEF Drained, Disposing, Generations, GenStates

LEMMA ReleasedRecord ==
    ASSUME NEW r \in Generations, NEW k \in Int
    PROVE  /\ Released(r, k) \in Generations
           /\ Released(r, k).refs = r.refs - k
           /\ Released(r, k).state = r.state
           /\ Released(r, k).structure = r.structure
           /\ r.refs - k # 0 \/ r.state # "draining" => Released(r, k).disposing = r.disposing
           /\ k > 0 /\ r.refs - k = 0 /\ r.state = "draining" => Released(r, k).disposing
           /\ k = 0 => Released(r, k) = r
<1> DEFINE n == [r EXCEPT !.refs = @ - k]
<1>1. /\ n \in Generations
      /\ n.refs = r.refs - k /\ n.state = r.state /\ n.structure = r.structure
      /\ n.disposing = r.disposing
      /\ k = 0 => n = r
  BY DEF Generations
<1>2. Released(r, k) = IF k > 0 /\ n.refs = 0 /\ r.state = "draining" THEN Disposing(n) ELSE n
  BY DEF Released
<1> HIDE DEF n
<1>3. QED  BY <1>1, <1>2, DisposingRecord

LEMMA StateRecord ==
    ASSUME NEW r \in Generations, NEW s \in GenStates
    PROVE  /\ [r EXCEPT !.state = s] \in Generations
           /\ [r EXCEPT !.state = s].refs = r.refs
           /\ [r EXCEPT !.state = s].state = s
           /\ [r EXCEPT !.state = s].disposing = r.disposing
BY DEF Generations

\* One generation becomes r, which has the references of the old one.
LEMMA OneChanges ==
    ASSUME gen \in [Gens -> Generations], NEW g, NEW r, gen' = [gen EXCEPT ![g] = r],
           g \in Gens => r \in Generations /\ r.refs = gen[g].refs
    PROVE  /\ gen' \in [Gens -> Generations]
           /\ \A h \in Gens : gen'[h].refs = gen[h].refs
OBVIOUS

\* The steps that change generations and leave the turns alone.
Reshaping ==
    \/ PlanSwap \/ Update \/ PrepareFails \/ EmitPrepared \/ EmitDraining
    \/ (op.origin # "boot" /\ EmitFailed)
    \/ \E g \in Gens : DisposeEnds(g) \/ StopGeneration(g)

LEMMA ReshapingKeepsRefs ==
    ASSUME Shape, Reshaping
    PROVE  /\ gen' \in [Gens -> Generations]
           /\ \A g \in Gens : gen'[g].refs = gen[g].refs
           /\ UNCHANGED turn
<1> DEFINE Keeps == /\ gen' \in [Gens -> Generations]
                    /\ \A g \in Gens : gen'[g].refs = gen[g].refs
<1>1. gen \in [Gens -> Generations]
  BY DEF Shape
<1>2. UNCHANGED turn
  BY DEF Reshaping, PlanSwap, Update, PrepareFails, EmitPrepared, EmitDraining, EmitFailed,
         DisposeEnds, StopGeneration, hostVars
<1>3. CASE PlanSwap
  <2>1. PICK g \in Gens : gen[g] = Unused /\ gen' = [gen EXCEPT ![g] = Generation(op.target)]
    BY <1>3 DEF PlanSwap
  <2>2. op.target \in Structures
    BY <1>3, OpShape DEF PlanSwap, Shape
  <2>3. Generation(op.target) = [state |-> "preparing", structure |-> op.target,
                                 refs |-> 0, disposing |-> FALSE]
    BY DEF Generation
  <2>4. Generation(op.target) \in Generations /\ Generation(op.target).refs = gen[g].refs
    BY <2>1, <2>2, <2>3 DEF Unused, Generations, GenStates
  <2>5. Keeps
    BY <1>1, <2>1, <2>4, OneChanges
  <2>6. QED  BY <1>2, <2>5
<1>4. CASE Update
  <2>1. op.target \in Structures
    BY <1>4, OpShape DEF Update, Shape
  <2>2. gen' = [gen EXCEPT ![op.gen] = [gen[op.gen] EXCEPT !.structure = op.target]]
    BY <1>4 DEF Update
  <2>3. \A r \in Generations : /\ [r EXCEPT !.structure = op.target] \in Generations
                               /\ [r EXCEPT !.structure = op.target].refs = r.refs
    BY <2>1 DEF Generations
  <2>4. Keeps
    BY <1>1, <2>2, <2>3, OneChanges
  <2>5. QED  BY <1>2, <2>4
<1>5. CASE PrepareFails
  <2>1. gen' = [gen EXCEPT ![op.gen] = Disposing([gen[op.gen] EXCEPT !.state = "failed"])]
    BY <1>5 DEF PrepareFails
  <2>2. ASSUME op.gen \in Gens
        PROVE  /\ Disposing([gen[op.gen] EXCEPT !.state = "failed"]) \in Generations
               /\ Disposing([gen[op.gen] EXCEPT !.state = "failed"]).refs = gen[op.gen].refs
    <3>1. gen[op.gen] \in Generations /\ "failed" \in GenStates
      BY <1>1, <2>2 DEF GenStates
    <3>2. QED  BY <3>1, StateRecord, DisposingRecord, ZenonT(30)
  <2>3. Keeps
    BY <1>1, <2>1, <2>2, OneChanges
  <2>4. QED  BY <1>2, <2>3
<1>6. CASE EmitPrepared
  <2>1. gen' = [gen EXCEPT ![op.gen] = [gen[op.gen] EXCEPT !.state = "active"]]
    BY <1>6 DEF EmitPrepared
  <2>2. "active" \in GenStates
    BY DEF GenStates
  <2>3. ASSUME op.gen \in Gens
        PROVE  /\ [gen[op.gen] EXCEPT !.state = "active"] \in Generations
               /\ [gen[op.gen] EXCEPT !.state = "active"].refs = gen[op.gen].refs
    BY <1>1, <2>2, <2>3, StateRecord
  <2>4. Keeps
    BY <1>1, <2>1, <2>3, OneChanges
  <2>5. QED  BY <1>2, <2>4
<1>7. CASE EmitDraining
  <2>1. gen' = [gen EXCEPT ![op.prev] = Drained(gen[op.prev])]
    BY <1>7 DEF EmitDraining
  <2>2. ASSUME op.prev \in Gens
        PROVE  /\ Drained(gen[op.prev]) \in Generations
               /\ Drained(gen[op.prev]).refs = gen[op.prev].refs
    BY <1>1, <2>2, DrainedRecord
  <2>3. Keeps
    BY <1>1, <2>1, <2>2, OneChanges
  <2>4. QED  BY <1>2, <2>3
<1>8. CASE op.origin # "boot" /\ EmitFailed
  BY <1>1, <1>2, <1>8 DEF EmitFailed
<1>9. CASE \E g \in Gens : DisposeEnds(g)
  <2>1. PICK g \in Gens : DisposeEnds(g)
    BY <1>9
  <2>2. \/ gen[g].refs = 0 /\ gen' = [gen EXCEPT ![g] = Unused]
        \/ gen' = [gen EXCEPT ![g] = [gen[g] EXCEPT !.state = "disposed"]]
    BY <2>1 DEF DisposeEnds
  <2>3. Unused \in Generations /\ Unused.refs = 0 /\ "disposed" \in GenStates
    BY DEF Unused, Generations, GenStates
  <2>4. CASE gen[g].refs = 0 /\ gen' = [gen EXCEPT ![g] = Unused]
    BY <1>1, <1>2, <2>3, <2>4, OneChanges
  <2>5. CASE gen' = [gen EXCEPT ![g] = [gen[g] EXCEPT !.state = "disposed"]]
    <3>1. /\ [gen[g] EXCEPT !.state = "disposed"] \in Generations
          /\ [gen[g] EXCEPT !.state = "disposed"].refs = gen[g].refs
      BY <1>1, <2>3, StateRecord
    <3>2. QED  BY <1>1, <1>2, <2>5, <3>1, OneChanges
  <2>6. QED  BY <2>2, <2>4, <2>5
<1>10. CASE \E g \in Gens : StopGeneration(g)
  <2>1. PICK g \in Gens : gen' = [gen EXCEPT ![g] = Disposing(Drained(gen[g]))]
    BY <1>10 DEF StopGeneration
  <2>2. Keeps
    BY <1>1, <2>1, DrainedRecord, DisposingRecord, OneChanges
  <2>3. QED  BY <1>2, <2>2
<1>11. QED
  BY <1>3, <1>4, <1>5, <1>6, <1>7, <1>8, <1>9, <1>10 DEF Reshaping

LEMMA ReshapingShape == ASSUME Shape, Reshaping PROVE Shape'
<1>1. gen' \in [Gens -> Generations] /\ UNCHANGED turn
  BY ReshapingKeepsRefs
<1>2. PlanSwap => Shape'
  BY <1>1, OpShape DEF PlanSwap, Shape, Ops, Phases, hostVars
<1>3. Update => Shape'
  BY <1>1, GotoShape DEF Update, Shape, Phases, hostVars
<1>4. PrepareFails => Shape'
  BY <1>1, GotoShape DEF PrepareFails, Shape, Phases, hostVars
<1>5. EmitPrepared => Shape'
  BY <1>1, OpShape DEF EmitPrepared, Shape, Ops, Phases, hostVars
<1>6. EmitDraining => Shape'
  BY <1>1, GotoShape, SettleShape DEF EmitDraining, Shape, Phases, hostVars
<1>7. op.origin # "boot" /\ EmitFailed => Shape'
  BY <1>1, SettleShape DEF EmitFailed, Shape, hostVars
<1>8. ASSUME NEW g \in Gens, DisposeEnds(g) PROVE Shape'
  BY <1>1, <1>8 DEF DisposeEnds, Shape
<1>9. ASSUME NEW g \in Gens, StopGeneration(g) PROVE Shape'
  BY <1>1, <1>9 DEF StopGeneration, Shape, turnFrame
<1>10. QED
  BY <1>2, <1>3, <1>4, <1>5, <1>6, <1>7, <1>8, <1>9 DEF Reshaping

-----------------------------------------------------------------------------
(* Leases that change hands *)

\* Turn t takes a lease on h.
LEMMA OneLeases ==
    ASSUME RefsCountLeases, NEW t \in Turns, NEW h \in Gens, turn[t].lease = None,
           \A u \in Turns : turn'[u].lease = IF u = t THEN h ELSE turn[u].lease,
           \A g \in Gens : gen'[g].refs = IF g = h THEN gen[g].refs + 1 ELSE gen[g].refs
    PROVE  RefsCountLeases'
<1>1. SUFFICES ASSUME NEW g \in Gens
               PROVE  gen'[g].refs = Cardinality({u \in Turns : turn'[u].lease = g})
  BY DEF RefsCountLeases
<1>2. gen[g].refs = Cardinality(Leased(g))
  BY DEF RefsCountLeases, Leased
<1>3. CASE g = h
  <2>1. {u \in Turns : turn'[u].lease = g} = Leased(g) \union {t}
    BY <1>3 DEF Leased
  <2>2. t \notin Leased(g)
    BY KernelAssumption DEF Leased
  <2>3. Cardinality(Leased(g) \union {t}) = Cardinality(Leased(g)) + 1
    BY <2>2, LeasedCounts, FS_AddElement
  <2>4. QED  BY <1>2, <1>3, <2>1, <2>3
<1>4. CASE g # h
  <2>1. {u \in Turns : turn'[u].lease = g} = Leased(g)
    BY <1>4, KernelAssumption DEF Leased
  <2>2. QED  BY <1>2, <1>4, <2>1
<1>5. QED  BY <1>3, <1>4

\* The turns of a set give theirs back.
LEMMA SomeRelease ==
    ASSUME Shape, RefsCountLeases, NEW leases \in SUBSET Turns, Release(leases),
           \A u \in Turns : turn'[u].lease = IF u \in leases THEN None ELSE turn[u].lease
    PROVE  /\ gen' \in [Gens -> Generations]
           /\ RefsCountLeases'
           /\ \A g \in Gens :
                 /\ gen'[g].refs \in 0 .. gen[g].refs
                 /\ gen'[g].state = gen[g].state
                 /\ gen'[g].structure = gen[g].structure
                 /\ gen'[g].refs # 0 \/ gen[g].state # "draining"
                       => gen'[g].disposing = gen[g].disposing
                 /\ gen[g].refs = 0 => gen'[g] = gen[g]
                 /\ gen[g].state = "draining" /\ gen[g].refs # 0 /\ gen'[g].refs = 0
                       => gen'[g].disposing
<1> DEFINE K(g) == Cardinality({u \in leases : turn[u].lease = g})
<1>1. ASSUME NEW g \in Gens
      PROVE  /\ K(g) \in Int
             /\ gen[g].refs - K(g) = Cardinality({u \in Turns : turn'[u].lease = g})
             /\ gen[g].refs - K(g) \in 0 .. gen[g].refs
  <2>1. {u \in leases : turn[u].lease = g} = Leased(g) \intersect leases
    BY DEF Leased
  <2>2. {u \in Turns : turn'[u].lease = g} = Leased(g) \ leases
    BY KernelAssumption DEF Leased
  <2>3. IsFiniteSet(Leased(g)) /\ Cardinality(Leased(g)) \in Nat
    BY LeasedCounts, FS_CardinalityType
  <2>4. Cardinality(Leased(g) \ leases)
            = Cardinality(Leased(g)) - Cardinality(Leased(g) \intersect leases)
    BY <2>3, FS_Difference
  <2>5. IsFiniteSet(Leased(g) \intersect leases) /\ IsFiniteSet(Leased(g) \ leases)
    BY <2>3, FS_Difference, FS_Intersection
  <2>6. /\ Cardinality(Leased(g) \intersect leases) \in Nat
        /\ Cardinality(Leased(g) \ leases) \in Nat
    BY <2>5, FS_CardinalityType
  <2>7. gen[g].refs = Cardinality(Leased(g))
    BY DEF RefsCountLeases, Leased
  <2>8. K(g) = Cardinality(Leased(g) \intersect leases)
    BY <2>1
  <2>9. Cardinality({u \in Turns : turn'[u].lease = g}) = Cardinality(Leased(g) \ leases)
    BY <2>2
  <2> HIDE DEF K
  <2>10. QED  BY <2>3, <2>4, <2>6, <2>7, <2>8, <2>9
<1>2. gen' = [g \in Gens |-> Released(gen[g], K(g))]
  BY DEF Release
<1>3. ASSUME NEW g \in Gens
      PROVE  /\ gen'[g] \in Generations
             /\ gen'[g].refs = gen[g].refs - K(g)
             /\ gen'[g].state = gen[g].state
             /\ gen'[g].structure = gen[g].structure
             /\ gen'[g].refs # 0 \/ gen[g].state # "draining"
                   => gen'[g].disposing = gen[g].disposing
             /\ gen[g].refs = 0 => gen'[g] = gen[g]
             /\ gen[g].state = "draining" /\ gen[g].refs # 0 /\ gen'[g].refs = 0
                   => gen'[g].disposing
  <2>1. gen[g] \in Generations /\ gen'[g] = Released(gen[g], K(g)) /\ K(g) \in Int
    BY <1>1, <1>2 DEF Shape
  <2>2. gen[g].refs - K(g) \in 0 .. gen[g].refs /\ gen[g].refs \in Int
    BY <1>1, <2>1 DEF Generations
  <2> HIDE DEF K
  <2>3. /\ gen'[g] \in Generations
        /\ gen'[g].refs = gen[g].refs - K(g)
        /\ gen'[g].state = gen[g].state
        /\ gen'[g].structure = gen[g].structure
        /\ gen'[g].refs # 0 \/ gen[g].state # "draining" => gen'[g].disposing = gen[g].disposing
        /\ K(g) > 0 /\ gen'[g].refs = 0 /\ gen[g].state = "draining" => gen'[g].disposing
        /\ K(g) = 0 => gen'[g] = gen[g]
    BY <2>1, ReleasedRecord
  <2>4. /\ gen[g].refs = 0 => K(g) = 0
        /\ gen[g].refs # 0 /\ gen'[g].refs = 0 => K(g) > 0
    BY <2>1, <2>2, <2>3
  <2>5. QED  BY <2>3, <2>4
<1>4. gen' \in [Gens -> Generations]
  BY <1>2, <1>3
<1> HIDE DEF K
<1>5. RefsCountLeases'
  BY <1>1, <1>3 DEF RefsCountLeases
<1>6. QED  BY <1>1, <1>3, <1>4, <1>5

TurnRecords == [status : {"idle", "running", "suspended", "interrupted"},
                lease : Gens \union {None}, kept : BOOLEAN]

\* What a step of the host leaves as it was, given what it makes of gen and turn.
LEMMA TurnShape ==
    ASSUME Shape, gen' \in [Gens -> Generations], turn' \in [Turns -> TurnRecords],
           UNCHANGED turnFrame, host' \in {host, "halting"}
    PROVE  Shape'
BY DEF Shape, turnFrame, TurnRecords

LEMMA Acquiring ==
    ASSUME Shape, Acquirable, Acquire
    PROVE  /\ active \in Gens
           /\ gen' \in [Gens -> Generations]
           /\ \A g \in Gens : /\ gen'[g].refs = IF g = active THEN gen[g].refs + 1 ELSE gen[g].refs
                              /\ gen'[g].state = gen[g].state
                              /\ gen'[g].structure = gen[g].structure
                              /\ gen'[g].disposing = gen[g].disposing
                              /\ g # active => gen'[g] = gen[g]
<1>1. active \in Gens
  BY DEF Shape, Acquirable
<1>2. gen[active] \in Generations
  BY <1>1 DEF Shape
<1> DEFINE r == [gen[active] EXCEPT !.refs = @ + 1]
<1>3. /\ r \in Generations
      /\ r.refs = gen[active].refs + 1
      /\ r.state = gen[active].state /\ r.disposing = gen[active].disposing
      /\ r.structure = gen[active].structure
  BY <1>2 DEF Generations
<1>4. gen' = [gen EXCEPT ![active] = r]
  BY DEF Acquire
<1> HIDE DEF r
<1>5. QED  BY <1>1, <1>3, <1>4 DEF Shape

\* A turn begins on the generation that serves, or is taken up again on it
\* because no lease is kept for it.
LEMMA LeaseTaken ==
    ASSUME Shape, RefsCountLeases, LeasesAreKept,
           Acquirable, Acquire, UNCHANGED <<host, turnFrame>>,
           NEW t \in Turns, turn[t].status # "running", ~turn[t].kept,
           turn' = [turn EXCEPT ![t] = [status |-> "running", lease |-> active, kept |-> FALSE]]
    PROVE  Shape' /\ RefsCountLeases' /\ LeasesAreKept'
<1>1. turn \in [Turns -> TurnRecords]
  BY DEF Shape, TurnRecords
<1>2. turn' \in [Turns -> TurnRecords]
  BY <1>1, Acquiring DEF TurnRecords
<1>3. Shape'
  BY <1>2, Acquiring, TurnShape
<1>4. RefsCountLeases'
  <2>1. turn[t].lease = None
    BY DEF LeasesAreKept
  <2>2. \A u \in Turns : turn'[u].lease = IF u = t THEN active ELSE turn[u].lease
    BY <1>1
  <2>3. QED  BY <2>1, <2>2, Acquiring, OneLeases
<1>5. LeasesAreKept'
  BY <1>1 DEF LeasesAreKept
<1>6. QED  BY <1>3, <1>4, <1>5

\* A turn keeps the lease it has.
LEMMA LeaseKept ==
    ASSUME Shape, RefsCountLeases, LeasesAreKept, UNCHANGED <<host, gen, turnFrame>>,
           NEW t \in Turns, NEW s \in {"running", "suspended"},
           turn' = [turn EXCEPT ![t] = [status |-> s, lease |-> turn[t].lease, kept |-> TRUE]]
    PROVE  Shape' /\ RefsCountLeases' /\ LeasesAreKept'
<1>1. turn \in [Turns -> TurnRecords]
  BY DEF Shape, TurnRecords
<1>2. turn' \in [Turns -> TurnRecords]
  BY <1>1 DEF TurnRecords
<1>3. Shape'
  BY <1>2, TurnShape DEF Shape
<1>4. RefsCountLeases'
  BY <1>1, SameLeases
<1>5. LeasesAreKept'
  BY <1>1 DEF LeasesAreKept
<1>6. QED  BY <1>3, <1>4, <1>5

\* The records of the turns when those of a set lose their leases.
LEMMA LeasesGiven ==
    ASSUME Shape, RefsCountLeases, LeasesAreKept, UNCHANGED turnFrame, host' \in {host, "halting"},
           NEW leases \in SUBSET Turns, Release(leases), turn' \in [Turns -> TurnRecords],
           \A u \in Turns : turn'[u].lease = IF u \in leases THEN None ELSE turn[u].lease,
           \A u \in Turns : \/ turn'[u].lease = None /\ (turn'[u].status = "idle" => ~turn'[u].kept)
                            \/ turn'[u].kept /\ turn'[u].status # "idle"
                            \/ turn'[u] = turn[u]
    PROVE  Shape' /\ RefsCountLeases' /\ LeasesAreKept'
<1>1. Shape'
  BY SomeRelease, TurnShape
<1>2. RefsCountLeases'
  BY SomeRelease
<1>3. LeasesAreKept'
  BY DEF LeasesAreKept
<1>4. QED  BY <1>1, <1>2, <1>3

\* The steps of the turns.
Turning == (\E t \in Turns : \/ BeginTurn(t) \/ Reenter(t) \/ SuspendTurn(t)
                             \/ FinishTurn(t) \/ TurnThrows(t))
           \/ StopLoop

LEMMA TurningKeeps ==
    ASSUME Shape, RefsCountLeases, LeasesAreKept, Turning
    PROVE  Shape' /\ RefsCountLeases' /\ LeasesAreKept'
<1>1. turn \in [Turns -> TurnRecords]
  BY DEF Shape, TurnRecords
<1>2. ASSUME NEW t \in Turns, BeginTurn(t)
      PROVE  Shape' /\ RefsCountLeases' /\ LeasesAreKept'
  <2>1. turn[t].status # "running" /\ ~turn[t].kept
    BY <1>2 DEF BeginTurn, LeasesAreKept
  <2>2. QED  BY <1>2, <2>1, LeaseTaken DEF BeginTurn, TakeLease
<1>3. ASSUME NEW t \in Turns, Reenter(t)
      PROVE  Shape' /\ RefsCountLeases' /\ LeasesAreKept'
  <2>1. turn[t].status # "running" /\ UNCHANGED <<host, turnFrame>>
    BY <1>3 DEF Reenter
  <2>2. CASE ~turn[t].kept /\ TakeLease(t)
    BY <2>1, <2>2, LeaseTaken DEF TakeLease
  <2>3. CASE /\ turn[t].kept
             /\ turn' = [turn EXCEPT ![t] = Keeping("running", turn[t].lease)]
             /\ UNCHANGED gen
    BY <2>1, <2>3, LeaseKept DEF Keeping
  <2>4. QED  BY <1>3, <2>2, <2>3 DEF Reenter
<1>4. ASSUME NEW t \in Turns, SuspendTurn(t)
      PROVE  Shape' /\ RefsCountLeases' /\ LeasesAreKept'
  BY <1>4, LeaseKept DEF SuspendTurn, Keeping
<1>5. ASSUME NEW t \in Turns, FinishTurn(t)
      PROVE  Shape' /\ RefsCountLeases' /\ LeasesAreKept'
  <2>1. /\ turn' \in [Turns -> TurnRecords]
        /\ \A u \in Turns : turn'[u] = IF u = t THEN NoTurn ELSE turn[u]
    BY <1>1, <1>5 DEF FinishTurn, NoTurn, Unleased, TurnRecords
  <2>2. /\ \A u \in Turns : turn'[u].lease = IF u \in {t} THEN None ELSE turn[u].lease
        /\ \A u \in Turns : \/ turn'[u].lease = None /\ ~turn'[u].kept
                            \/ turn'[u] = turn[u]
    BY <2>1 DEF NoTurn, Unleased
  <2>3. UNCHANGED <<host, turnFrame>> /\ Release({t})
    BY <1>5 DEF FinishTurn
  <2>4. QED  BY <2>1, <2>2, <2>3, LeasesGiven
<1>6. ASSUME NEW t \in Turns, TurnThrows(t)
      PROVE  Shape' /\ RefsCountLeases' /\ LeasesAreKept'
  <2>1. PICK s \in {"suspended", "interrupted"} :
            turn' = [turn EXCEPT ![t] = IF turn[t].kept THEN Keeping(s, turn[t].lease)
                                        ELSE Unleased(s)]
    BY <1>6 DEF TurnThrows
  <2>2. UNCHANGED <<host, turnFrame>>
    BY <1>6 DEF TurnThrows
  <2>3. CASE turn[t].kept
    <3>1. /\ turn' \in [Turns -> TurnRecords]
          /\ \A u \in Turns : turn'[u].lease = turn[u].lease
          /\ turn'[t].kept /\ turn'[t].status # "idle"
          /\ \A u \in Turns : u # t => turn'[u] = turn[u]
      BY <1>1, <2>1, <2>3 DEF TurnRecords, Keeping
    <3>2. Release({})
      BY <1>6, <2>3 DEF TurnThrows
    <3>3. /\ \A u \in Turns : turn'[u].lease = IF u \in {} THEN None ELSE turn[u].lease
          /\ \A u \in Turns : \/ turn'[u].kept /\ turn'[u].status # "idle"
                              \/ turn'[u] = turn[u]
      BY <3>1
    <3>4. QED  BY <2>2, <3>1, <3>2, <3>3, LeasesGiven
  <2>4. CASE ~turn[t].kept
    <3>2. /\ turn' \in [Turns -> TurnRecords]
          /\ turn'[t].lease = None /\ ~turn'[t].kept
          /\ \A u \in Turns : u # t => turn'[u] = turn[u]
      BY <1>1, <2>1, <2>4 DEF TurnRecords, Unleased
    <3>3. Release({t})
      BY <1>6, <2>4 DEF TurnThrows
    <3>4. /\ \A u \in Turns : turn'[u].lease = IF u \in {t} THEN None ELSE turn[u].lease
          /\ \A u \in Turns : \/ turn'[u].lease = None /\ ~turn'[u].kept
                              \/ turn'[u] = turn[u]
      BY <3>2
    <3>5. QED  BY <2>2, <3>2, <3>3, <3>4, LeasesGiven
  <2>5. QED  BY <2>3, <2>4
<1>7. CASE StopLoop
  <2>2. \A u \in Turns : turn[u].status \in {"idle", "running", "suspended", "interrupted"}
    BY <1>1 DEF TurnRecords
  <2>3. turn' = [u \in Turns |->
                    IF u \in Kept THEN [status |-> turn[u].status, lease |-> None, kept |-> FALSE]
                    ELSE turn[u]]
    BY <1>7 DEF StopLoop, Unleased
  <2>4. /\ turn' \in [Turns -> TurnRecords]
        /\ \A u \in Turns : turn'[u].lease = IF u \in Kept THEN None ELSE turn[u].lease
        /\ \A u \in Turns : \/ turn'[u].lease = None /\ ~turn'[u].kept
                            \/ turn'[u] = turn[u]
    BY <1>1, <2>3 DEF TurnRecords
  <2>5. UNCHANGED turnFrame /\ host' = "halting" /\ Release(Kept) /\ Kept \subseteq Turns
    BY <1>7 DEF StopLoop, Kept
  <2>6. QED  BY <2>4, <2>5, LeasesGiven
<1>8. QED  BY <1>2, <1>3, <1>4, <1>5, <1>6, <1>7 DEF Turning

\* A process that ends leaves no lease and no generation.
LEMMA EndKeeps ==
    ASSUME Shape, ProcessEnds
    PROVE  /\ Shape' /\ RefsCountLeases' /\ LeasesAreKept'
           /\ ServingIsUp' /\ OpIsOrdered'
<1>1. ASSUME NEW t \in Turns
      PROVE  CutOff(t) \in TurnRecords /\ CutOff(t).lease = None /\ ~CutOff(t).kept
  <2> DEFINE s == IF turn[t].status = "running" THEN "interrupted" ELSE turn[t].status
  <2>1. s \in {"idle", "running", "suspended", "interrupted"}
    BY DEF Shape
  <2>2. CutOff(t) = [status |-> s, lease |-> None, kept |-> FALSE]
    BY DEF CutOff, Unleased
  <2> HIDE DEF s
  <2>3. QED  BY <2>1, <2>2 DEF TurnRecords
<1>2. turn' = [t \in Turns |-> CutOff(t)] /\ gen' = [g \in Gens |-> Unused]
  BY DEF ProcessEnds
<1>3. turn' \in [Turns -> TurnRecords] /\ \A t \in Turns : turn'[t].lease = None /\ ~turn'[t].kept
  BY <1>1, <1>2
<1>4. gen' \in [Gens -> Generations] /\ \A g \in Gens : gen'[g].refs = 0
  BY <1>2, KernelAssumption DEF Unused, Generations, GenStates
<1>5. source' \in [value : Structures, pending : BOOLEAN]
  BY DEF ProcessEnds, Shape
<1>6. Shape'
  BY <1>3, <1>4, <1>5 DEF ProcessEnds, Shape, TurnRecords, Quiet, Ops, NoOp
<1>7. RefsCountLeases'
  <2>1. \A g \in Gens : {t \in Turns : turn'[t].lease = g} = {}
    BY <1>3, KernelAssumption
  <2>2. QED  BY <1>4, <2>1, FS_EmptySet DEF RefsCountLeases
<1>8. LeasesAreKept'
  BY <1>3 DEF LeasesAreKept
<1>9. ServingIsUp' /\ OpIsOrdered'
  BY <1>4 DEF ProcessEnds, ServingIsUp, OpIsOrdered, NoOp
<1>10. QED  BY <1>6, <1>7, <1>8, <1>9

-----------------------------------------------------------------------------
(* The counts, for every step *)

\* Every step is one of these.
LEMMA NextIsOneOf ==
    ASSUME Next
    PROVE  Quiescent \/ Reshaping \/ Turning \/ ProcessEnds
<1>1. OpStep => Quiescent \/ Reshaping \/ ProcessEnds
  <2>1. EmitFailed => Reshaping \/ ProcessEnds
    BY DEF EmitFailed, Reshaping
  <2>2. EmitRestart => Quiescent \/ ProcessEnds
    BY DEF EmitRestart, Quiescent
  <2>3. QED  BY <2>1, <2>2 DEF OpStep, Quiescent, Reshaping
<1>2. Stopped \/ Crash => ProcessEnds
  BY DEF Stopped, Crash
<1>3. (\E g \in Gens : DisposeEnds(g) \/ StopGeneration(g)) => Reshaping
  BY DEF Reshaping
<1>4. QED  BY <1>1, <1>2, <1>3 DEF Next, Quiescent, Turning

Counts == Shape /\ RefsCountLeases /\ LeasesAreKept

LEMMA NextCounts == Counts /\ [Next]_vars => Counts'
<1>1. SUFFICES ASSUME Shape, RefsCountLeases, LeasesAreKept, [Next]_vars
               PROVE  Shape' /\ RefsCountLeases' /\ LeasesAreKept'
  BY DEF Counts
<1>2. CASE Quiescent
  <2>1. Shape' /\ UNCHANGED <<gen, turn>>
    BY <1>1, <1>2, QuiescentShape, QuiescentFrame
  <2>2. QED  BY <1>1, <2>1 DEF RefsCountLeases, LeasesAreKept
<1>3. CASE Reshaping
  <2>1. Shape'
    BY <1>1, <1>3, ReshapingShape
  <2>2. UNCHANGED turn /\ \A g \in Gens : gen'[g].refs = gen[g].refs
    BY <1>1, <1>3, ReshapingKeepsRefs
  <2>3. RefsCountLeases'
    BY <1>1, <2>2, SameLeases
  <2>4. LeasesAreKept'
    BY <1>1, <2>2 DEF LeasesAreKept
  <2>5. QED  BY <2>1, <2>3, <2>4
<1>4. CASE Turning
  BY <1>1, <1>4, TurningKeeps
<1>5. CASE ProcessEnds
  BY <1>1, <1>5, EndKeeps
<1>6. CASE UNCHANGED vars
  <2>1. UNCHANGED <<gen, turn>> /\ Shape'
    BY <1>1, <1>6 DEF vars, Shape
  <2>2. QED  BY <1>1, <2>1 DEF RefsCountLeases, LeasesAreKept
<1>7. QED  BY <1>1, <1>2, <1>3, <1>4, <1>5, <1>6, NextIsOneOf

LEMMA CountsAlways == Spec => []Counts
<1>1. Init => Counts
  BY InitIInv, TypeShape DEF IInv, Counts
<1>2. QED  BY <1>1, NextCounts, PTL DEF Spec

\* Every variable has its type in every state, and the references of a
\* generation, which the code only ever adds to and subtracts from, never drop
\* below zero or exceed the turns there are.
THEOREM TypeCorrect == Spec => []TypeOK
<1>1. Counts => TypeOK
  BY ShapeType DEF Counts
<1>2. QED  BY <1>1, CountsAlways, PTL

\* Kernel.beginTurn, GenerationLease.release and PinnedAgentLoop keep the count of
\* each generation equal to the turns that hold a lease on it, for any number
\* of turns, whatever is reconciled, fails, stops or dies meanwhile.
THEOREM EveryLeaseCounts == Spec => []RefsCountLeases
<1>1. Counts => RefsCountLeases
  BY DEF Counts
<1>2. QED  BY <1>1, CountsAlways, PTL

-----------------------------------------------------------------------------
(* Pinned generations, for every step *)

\* A host that is halting halts until its process ends.
LEMMA HaltingHalts ==
    ASSUME Quiescent \/ Reshaping \/ Turning, host = "halting"
    PROVE  host' = "halting"
BY DEF Quiescent, Reshaping, Turning,
       Resolve, GraphFails, Unchanged, PlanRestart, PlanUpdate, UpdateFails, Prepare, Undone,
       EmitRestart, EmitUpdated, EmitActivated, AwaitDrain, AppendFails, AdminReconcile,
       EditSource, Notify, Load, LoadFails, StartRefresh, Boot, Supersede, StartController, Booted, Stop, PlanSwap, Update,
       PrepareFails, EmitPrepared, EmitDraining, EmitFailed, DisposeEnds, StopGeneration,
       BeginTurn, Reenter, SuspendTurn, FinishTurn, TurnThrows, StopLoop

\* Where no generation is touched, a reconciliation may only move on.
LEMMA QuiescentServes ==
    ASSUME Shape, Quiescent, ServingIsUp, OpIsOrdered
    PROVE  ServingIsUp' /\ OpIsOrdered'
<1>1. UNCHANGED <<gen, active>>
  BY QuiescentFrame
<1>2. ServingIsUp'
  BY <1>1 DEF ServingIsUp
<1>3. \/ op' = op
      \/ op'.phase \notin {"prepare", "emit prepared", "emit activated", "emit draining"}
      \/ op.phase = "prepare" /\ op' = [op EXCEPT !.phase = "emit prepared"]
      \/ op.phase = "emit activated" /\ op' = [op EXCEPT !.phase = "emit draining"]
  <2>1. Resolve \/ GraphFails \/ PlanRestart \/ Undone
          => op'.phase \notin {"prepare", "emit prepared", "emit activated", "emit draining"}
    BY GotoShape DEF Resolve, GraphFails, PlanRestart, Undone, Differs, Shape, Phases
  <2>2. PlanUpdate \/ UpdateFails
          => op'.phase \notin {"prepare", "emit prepared", "emit activated", "emit draining"}
    BY OpShape DEF PlanUpdate, UpdateFails, Differs, Shape
  <2>3. Unchanged \/ (op.origin # "boot" /\ EmitRestart) \/ EmitUpdated \/ AwaitDrain => op'.phase = "idle"
    BY SettleShape DEF Unchanged, EmitRestart, EmitUpdated, AwaitDrain
  <2>4. AppendFails => op'.phase \in {"idle", "emit failed"}
    <3>1. SUFFICES ASSUME AppendFails PROVE op'.phase \in {"idle", "emit failed"}
      OBVIOUS
    <3>2. \/ Settle(op)
          \/ op.phase # "idle" /\ Goto("emit failed")
      BY <3>1 DEF AppendFails, Settle, Goto
    <3>3. CASE Settle(op)
      BY <3>3, SettleShape
    <3>4. CASE op.phase # "idle" /\ Goto("emit failed")
      BY <3>4, GotoShape DEF Shape, Phases
    <3>5. QED  BY <3>2, <3>3, <3>4
  <2>5. (\E s \in Posted : AdminReconcile(s)) \/ StartRefresh \/ Boot \/ Supersede
          => op'.phase = "resolve"
    BY DEF AdminReconcile, StartRefresh, Boot, Supersede, Start, Reconcile, NoOp
  <2>6. (\E s \in Edited : EditSource(s)) \/ Notify \/ Load \/ LoadFails
        \/ StartController \/ Booted \/ Stop => op' = op
    BY DEF EditSource, Notify, Load, LoadFails, StartController, Booted, Stop
  <2>7. Prepare => op.phase = "prepare" /\ op' = [op EXCEPT !.phase = "emit prepared"]
    BY DEF Prepare, Goto
  <2>8. EmitActivated => \/ op'.phase = "idle"
                         \/ /\ op.phase = "emit activated"
                            /\ op' = [op EXCEPT !.phase = "emit draining"]
    <3>1. SUFFICES ASSUME EmitActivated
                   PROVE  \/ op'.phase = "idle"
                          \/ op' = [op EXCEPT !.phase = "emit draining"]
      BY DEF EmitActivated
    <3>2. CASE op.prev = None
      <4>1. op' = NoOp
        BY <3>1, <3>2 DEF EmitActivated, Settle
      <4>2. QED  BY <4>1 DEF NoOp
    <3>3. CASE op.prev # None
      BY <3>1, <3>3 DEF EmitActivated, Goto
    <3>4. QED  BY <3>2, <3>3
  <2>9. QED  BY <2>1, <2>2, <2>3, <2>4, <2>5, <2>6, <2>7, <2>8 DEF Quiescent
<1>4. OpIsOrdered'
  <2>1. ASSUME op.phase # "idle", NEW p \in Phases, op' = [op EXCEPT !.phase = p]
        PROVE  op'.phase = p /\ op'.gen = op.gen /\ op'.prev = op.prev
    BY <2>1, GotoShape DEF Shape, Goto
  <2>2. CASE op' = op
    BY <1>1, <2>2 DEF OpIsOrdered
  <2>3. CASE op'.phase \notin {"prepare", "emit prepared", "emit activated", "emit draining"}
    BY <2>3 DEF OpIsOrdered
  <2>4. CASE op.phase = "prepare" /\ op' = [op EXCEPT !.phase = "emit prepared"]
    BY <1>1, <2>1, <2>4 DEF OpIsOrdered, Phases
  <2>5. CASE op.phase = "emit activated" /\ op' = [op EXCEPT !.phase = "emit draining"]
    BY <1>1, <2>1, <2>5 DEF OpIsOrdered, Phases
  <2>6. QED  BY <1>3, <2>2, <2>3, <2>4, <2>5
<1>5. QED  BY <1>2, <1>4

\* A step of the turns keeps states, and disposes only what nobody pins and
\* what does not serve.
LEMMA PinsKeptServe ==
    ASSUME Shape, ServingIsUp, OpIsOrdered, UNCHANGED <<active, op>>,
           \A g \in Gens : /\ gen'[g].state = gen[g].state
                           /\ gen'[g].refs > 0 => gen[g].refs > 0 \/ g = active
                           /\ gen'[g].refs > 0 \/ gen[g].state # "draining"
                                 => gen'[g].disposing = gen[g].disposing
    PROVE  ServingIsUp' /\ OpIsOrdered'
<1>1. ServingIsUp'
  BY KernelAssumption DEF ServingIsUp, Shape
<1>2. OpIsOrdered'
  BY DEF OpIsOrdered
<1>3. QED  BY <1>1, <1>2

LEMMA TurningServes ==
    ASSUME Shape, RefsCountLeases, LeasesAreKept, Turning, ServingIsUp, OpIsOrdered
    PROVE  ServingIsUp' /\ OpIsOrdered'
<1>1. ASSUME NEW t \in Turns, TakeLease(t), UNCHANGED turnFrame
      PROVE  ServingIsUp' /\ OpIsOrdered'
  BY <1>1, Acquiring, PinsKeptServe DEF TakeLease, turnFrame
<1>2. ASSUME UNCHANGED <<gen, turnFrame>>
      PROVE  ServingIsUp' /\ OpIsOrdered'
  BY <1>2 DEF turnFrame, ServingIsUp, OpIsOrdered
<1>3. ASSUME NEW leases \in SUBSET Turns, Release(leases), UNCHANGED turnFrame,
             \A u \in Turns : turn'[u].lease = IF u \in leases THEN None ELSE turn[u].lease
      PROVE  ServingIsUp' /\ OpIsOrdered'
  <2>1. \A g \in Gens : /\ gen'[g].refs \in 0 .. gen[g].refs
                        /\ gen'[g].state = gen[g].state
                        /\ gen'[g].refs # 0 \/ gen[g].state # "draining"
                              => gen'[g].disposing = gen[g].disposing
    BY <1>3, SomeRelease
  <2>2. \A g \in Gens : gen[g].refs \in Int
    BY DEF Shape, Generations
  <2>3. QED  BY <1>3, <2>1, <2>2, PinsKeptServe DEF turnFrame
<1>4. ASSUME NEW t \in Turns, BeginTurn(t) \/ Reenter(t) \/ SuspendTurn(t)
      PROVE  ServingIsUp' /\ OpIsOrdered'
  <2>1. UNCHANGED turnFrame /\ (TakeLease(t) \/ UNCHANGED gen)
    BY <1>4 DEF BeginTurn, Reenter, SuspendTurn
  <2>2. QED  BY <1>1, <1>2, <2>1
<1>5. ASSUME NEW t \in Turns, FinishTurn(t) \/ TurnThrows(t)
      PROVE  ServingIsUp' /\ OpIsOrdered'
  <2>1. turn \in [Turns -> TurnRecords]
    BY DEF Shape, TurnRecords
  <2>2. PICK leases \in {{}, {t}} :
          /\ Release(leases) /\ UNCHANGED turnFrame
          /\ \A u \in Turns : turn'[u].lease = IF u \in leases THEN None ELSE turn[u].lease
    <3>1. CASE FinishTurn(t)
      BY <2>1, <3>1 DEF FinishTurn, NoTurn, Unleased, TurnRecords
    <3>2. CASE TurnThrows(t)
      BY <2>1, <3>2 DEF TurnThrows, Unleased, Keeping, TurnRecords
    <3>3. QED  BY <1>5, <3>1, <3>2
  <2>3. QED  BY <1>3, <2>2
<1>6. CASE StopLoop
  <2>1. /\ Kept \in SUBSET Turns /\ Release(Kept) /\ UNCHANGED turnFrame
        /\ \A u \in Turns : turn'[u].lease = IF u \in Kept THEN None ELSE turn[u].lease
    BY <1>6 DEF StopLoop, Kept, Unleased
  <2>2. QED  BY <1>3, <2>1
<1>7. QED  BY <1>4, <1>5, <1>6 DEF Turning

\* A step of a reconciliation or a disposal: who serves stays up, and what has
\* references is not what fails, is replaced unpinned, or goes away.
LEMMA ReshapingServes ==
    ASSUME Shape, Reshaping, host # "halting" \/ ~Idle, ServingIsUp, OpIsOrdered
    PROVE  ServingIsUp' /\ OpIsOrdered'
<1>1. gen \in [Gens -> Generations] /\ active \in Gens \union {None}
  BY DEF Shape
<1>2. CASE PlanSwap
  <2>1. PICK g \in Gens : /\ gen[g] = Unused
                          /\ gen' = [gen EXCEPT ![g] = Generation(op.target)]
                          /\ op' = [op EXCEPT !.phase = "prepare", !.gen = g]
    BY <1>2 DEF PlanSwap
  <2>2. UNCHANGED active /\ op.phase = "graph"
    BY <1>2 DEF PlanSwap
  <2>3. g # active
    BY <2>1, KernelAssumption DEF ServingIsUp, Unused
  <2>4. gen'[g].state = "preparing" /\ gen'[g].refs = 0 /\ ~gen'[g].disposing
    BY <1>1, <2>1 DEF Generation
  <2>5. \A h \in Gens : h # g => gen'[h] = gen[h]
    BY <1>1, <2>1
  <2>6. op'.phase = "prepare" /\ op'.gen = g
    BY <2>1, <2>2, OpShape DEF Shape
  <2>7. ServingIsUp'
    BY <1>1, <2>2, <2>3, <2>4, <2>5 DEF ServingIsUp
  <2>8. OpIsOrdered'
    BY <2>2, <2>3, <2>4, <2>6 DEF OpIsOrdered
  <2>9. QED  BY <2>7, <2>8
<1>3. CASE Update
  <2>1. gen' = [gen EXCEPT ![op.gen] = [gen[op.gen] EXCEPT !.structure = op.target]]
    BY <1>3 DEF Update
  <2>2. \A r \in Generations : LET n == [r EXCEPT !.structure = op.target]
                               IN  n.state = r.state /\ n.refs = r.refs /\ n.disposing = r.disposing
    BY DEF Generations
  <2>3. \A g \in Gens : /\ gen'[g].state = gen[g].state /\ gen'[g].refs = gen[g].refs
                        /\ gen'[g].disposing = gen[g].disposing
    BY <1>1, <2>1, <2>2
  <2>4. UNCHANGED active /\ op'.phase = "emit updated"
    BY <1>3, GotoShape DEF Update, Shape, Phases
  <2>5. ServingIsUp'
    BY <1>1, <2>3, <2>4 DEF ServingIsUp
  <2>6. QED  BY <2>4, <2>5 DEF OpIsOrdered
<1>4. CASE PrepareFails
  <2>1. /\ op.gen \in Gens /\ op.gen # active
        /\ gen[op.gen].state = "preparing"
    BY <1>4 DEF PrepareFails, OpIsOrdered
  <2>2. /\ gen' = [gen EXCEPT ![op.gen] = Disposing([gen[op.gen] EXCEPT !.state = "failed"])]
        /\ UNCHANGED active
    BY <1>4 DEF PrepareFails
  <2>3. \A h \in Gens : h # op.gen => gen'[h] = gen[h]
    BY <1>1, <2>2
  <2>4. gen'[op.gen].refs = gen[op.gen].refs
    BY <1>4, <2>1, ReshapingKeepsRefs
  <2>5. ~(gen[op.gen].refs > 0)
    BY <2>1 DEF ServingIsUp
  <2>6. op'.phase = "undo"
    BY <1>4, GotoShape DEF PrepareFails, Shape, Phases
  <2>7. ServingIsUp'
    BY <1>1, <2>1, <2>2, <2>3, <2>4, <2>5 DEF ServingIsUp
  <2>8. QED  BY <2>6, <2>7 DEF OpIsOrdered
<1>5. CASE EmitPrepared
  <2>1. /\ op.gen \in Gens /\ op.gen # active
        /\ gen[op.gen].state = "preparing" /\ ~gen[op.gen].disposing
    BY <1>5 DEF EmitPrepared, OpIsOrdered
  <2>2. /\ gen' = [gen EXCEPT ![op.gen] = [gen[op.gen] EXCEPT !.state = "active"]]
        /\ active' = op.gen /\ op.phase = "emit prepared"
        /\ op' = [op EXCEPT !.phase = "emit activated", !.prev = active]
    BY <1>5 DEF EmitPrepared
  <2>3. gen'[op.gen].state = "active" /\ ~gen'[op.gen].disposing
    BY <1>1, <2>1, <2>2 DEF Generations
  <2>4. \A h \in Gens : h # op.gen => gen'[h] = gen[h]
    BY <1>1, <2>2
  <2>5. op'.phase = "emit activated" /\ op'.prev = active
    BY <2>2, OpShape DEF Shape
  <2>6. ServingIsUp'
    BY <1>1, <2>1, <2>2, <2>3, <2>4 DEF ServingIsUp
  <2>7. QED  BY <2>1, <2>2, <2>5, <2>6 DEF OpIsOrdered
<1>6. CASE EmitDraining
  <2>1. op.prev # active
    BY <1>6 DEF EmitDraining, OpIsOrdered
  <2>2. gen' = [gen EXCEPT ![op.prev] = Drained(gen[op.prev])] /\ UNCHANGED active
    BY <1>6 DEF EmitDraining
  <2>3. \A h \in Gens : h # op.prev => gen'[h] = gen[h]
    BY <1>1, <2>2
  <2>4. ASSUME op.prev \in Gens
        PROVE  /\ gen'[op.prev].refs = gen[op.prev].refs
               /\ gen'[op.prev].state = IF gen[op.prev].state = "active" THEN "draining"
                                        ELSE gen[op.prev].state
               /\ gen[op.prev].refs # 0 => gen'[op.prev].disposing = gen[op.prev].disposing
    BY <1>1, <2>2, <2>4, DrainedRecord
  <2>5. ServingIsUp'
    BY <1>1, <2>1, <2>2, <2>3, <2>4 DEF ServingIsUp
  <2>6. op'.phase \in {"drain", "idle"}
    BY <1>6, GotoShape, SettleShape DEF EmitDraining, Shape, Phases
  <2>7. QED  BY <2>5, <2>6 DEF OpIsOrdered
<1>7. CASE op.origin # "boot" /\ EmitFailed
  <2>1. UNCHANGED <<gen, active>> /\ op'.phase = "idle"
    BY <1>7, SettleShape DEF EmitFailed
  <2>2. QED  BY <2>1 DEF ServingIsUp, OpIsOrdered
<1>8. ASSUME NEW g \in Gens, DisposeEnds(g)
      PROVE  ServingIsUp' /\ OpIsOrdered'
  <2>1. gen[g].disposing /\ UNCHANGED <<active, op>>
    BY <1>8 DEF DisposeEnds
  <2>2. g # active /\ ~(gen[g].refs > 0)
    BY <2>1, KernelAssumption DEF ServingIsUp
  <2>3. op.phase \in {"prepare", "emit prepared"} => g # op.gen
    BY <2>1 DEF OpIsOrdered
  <2>4. \A h \in Gens : h # g => gen'[h] = gen[h]
    BY <1>1, <1>8 DEF DisposeEnds
  <2>5. gen'[g].refs = gen[g].refs
    BY <1>8, ReshapingKeepsRefs DEF Reshaping
  <2>6. ServingIsUp'
    BY <1>1, <2>1, <2>2, <2>4, <2>5 DEF ServingIsUp
  <2>7. OpIsOrdered'
    BY <2>1, <2>3, <2>4 DEF OpIsOrdered
  <2>8. QED  BY <2>6, <2>7
<1>9. \A g \in Gens : ~StopGeneration(g)
  BY DEF StopGeneration
<1>10. QED
  BY <1>2, <1>3, <1>4, <1>5, <1>6, <1>7, <1>8, <1>9 DEF Reshaping

LEMMA NextIInv == IInv /\ [Next]_vars => IInv'
<1>1. SUFFICES ASSUME IInv, [Next]_vars PROVE IInv'
  OBVIOUS
<1>2. Shape /\ RefsCountLeases /\ LeasesAreKept
  BY <1>1, TypeShape DEF IInv
<1>3. Shape' /\ RefsCountLeases' /\ LeasesAreKept'
  BY <1>1, <1>2, NextCounts DEF Counts
<1>4. ASSUME host' # "halting" PROVE ServingIsUp' /\ OpIsOrdered'
  <2>1. CASE ProcessEnds
    BY <1>2, <2>1, EndKeeps
  <2>2. CASE Quiescent \/ Reshaping \/ Turning
    <3>1. host # "halting"
      BY <1>4, <2>2, HaltingHalts
    <3>2. ServingIsUp /\ OpIsOrdered
      BY <1>1, <3>1 DEF IInv
    <3>3. QED
      BY <1>2, <1>4, <2>2, <3>1, <3>2, QuiescentServes, ReshapingServes, TurningServes
  <2>3. CASE UNCHANGED vars
    BY <1>1, <1>4, <2>3 DEF vars, IInv, ServingIsUp, OpIsOrdered
  <2>4. QED  BY <1>1, <2>1, <2>2, <2>3, NextIsOneOf
<1>5. QED  BY <1>3, <1>4, NextShapeType DEF IInv

\* "Old generations remain alive while Turns still reference them"
\* (StructureGeneration, drain, release): for any number of turns and
\* generations, and whatever is reconciled, refused, restored or fails
\* meanwhile, the generation a turn holds a lease on, a suspended turn too, is
\* neither disposed nor being disposed, until the host halts.
THEOREM PinnedGenerationsLive == Spec => []PinnedStaysAlive
<1>1. IInv => PinnedStaysAlive
  <2>1. SUFFICES ASSUME IInv, host # "halting", NEW t \in Turns, turn[t].lease # None
                 PROVE  /\ gen[turn[t].lease].state \in {"active", "draining"}
                        /\ ~gen[turn[t].lease].disposing
    BY DEF PinnedStaysAlive
  <2>2. turn[t].lease \in Gens
    BY <2>1 DEF IInv, TypeOK
  <2>3. Leased(turn[t].lease) # {}
    BY DEF Leased
  <2>4. gen[turn[t].lease].refs = Cardinality(Leased(turn[t].lease))
    BY <2>1, <2>2 DEF IInv, RefsCountLeases, Leased
  <2>5. gen[turn[t].lease].refs > 0
    <3>1. Cardinality(Leased(turn[t].lease)) \in Nat \ {0}
      BY <2>3, LeasedCounts, FS_CardinalityType
    <3>2. QED  BY <2>4, <3>1
  <2>6. QED  BY <2>1, <2>2, <2>5 DEF IInv, ServingIsUp
<1>2. QED  BY <1>1, InitIInv, NextIInv, PTL DEF Spec

-----------------------------------------------------------------------------
(* What serves, and what the stream says of it, for every step *)

KInv == IInv /\ SInv

LEMMA IdleShape == Shape => (Idle <=> op.phase = "idle")
<1>1. Idle => op.phase = "idle"
  BY DEF Idle, NoOp
<1>2. op \in Ops /\ op.phase = "idle" => op = NoOp
  <2>1. \A o \in [phase : Phases, origin : {"boot", "config", "admin"}, target : Structures,
                  gen : Gens \union {None}, prev : Gens \union {None}] : o.phase \in Phases
    OBVIOUS
  <2>2. "idle" \notin Phases
    BY DEF Phases
  <2>3. QED  BY <2>1, <2>2 DEF Ops
<1>3. QED  BY <1>1, <1>2 DEF Shape, Idle

\* Any operation under way has what it needs up, the host halting or not.
LEMMA OpIsServed == KInv /\ (host # "halting" \/ ~Idle) => ServingIsUp /\ OpIsOrdered
BY DEF KInv, IInv, SInv, Winding

\* No reconciliation begins once the host halts.
LEMMA HaltedStaysIdle ==
    ASSUME Shape, Winding, host = "halting", Idle, Quiescent \/ Reshaping \/ Turning
    PROVE  op' = op
<1>1. op.phase = "idle" /\ controller.phase = "idle"
  BY IdleShape DEF Winding
<1>2. Turning => op' = op
  BY DEF Turning, BeginTurn, Reenter, SuspendTurn, FinishTurn, TurnThrows, StopLoop, turnFrame
<1>3. Reshaping => op' = op
  BY <1>1 DEF Reshaping, PlanSwap, Update, PrepareFails, EmitPrepared, EmitDraining, EmitFailed,
              DisposeEnds, StopGeneration, turnFrame
<1>4. Quiescent => op' = op
  BY <1>1 DEF Quiescent, Resolve, GraphFails, Unchanged, PlanRestart, PlanUpdate, UpdateFails,
              Differs, Prepare, Undone, EmitRestart, EmitUpdated, EmitActivated, AwaitDrain,
              AppendFails, AdminReconcile, EditSource, Notify, Load, LoadFails, StartRefresh, Boot, Supersede, StartController, Booted, Stop
<1>5. QED  BY <1>2, <1>3, <1>4

LEMMA NextServes ==
    ASSUME KInv, Quiescent \/ Reshaping \/ Turning, host' # "halting" \/ ~Idle'
    PROVE  ServingIsUp' /\ OpIsOrdered'
<1>1. Shape /\ RefsCountLeases /\ LeasesAreKept /\ Winding
  BY TypeShape DEF KInv, IInv, SInv
<1>2. host # "halting" \/ ~Idle
  <2>1. SUFFICES ASSUME host = "halting", Idle PROVE FALSE
    OBVIOUS
  <2>2. op' = op
    BY <1>1, <2>1, HaltedStaysIdle
  <2>3. host' = "halting"
    BY <2>1, HaltingHalts
  <2>4. QED  BY <2>1, <2>2, <2>3 DEF Idle
<1>3. ServingIsUp /\ OpIsOrdered
  BY <1>2, OpIsServed
<1>4. QED
  BY <1>1, <1>2, <1>3, QuiescentServes, ReshapingServes, TurningServes

\* An operation that only moves on keeps the rest of what it knows.
LEMMA GotoRecord ==
    ASSUME Shape, op.phase # "idle", NEW p, Goto(p)
    PROVE  /\ op'.phase = p /\ op'.gen = op.gen /\ op'.prev = op.prev
           /\ op'.target = op.target /\ op'.origin = op.origin
<1>1. op \in [phase : Phases, origin : {"boot", "config", "admin"}, target : Structures,
              gen : Gens \union {None}, prev : Gens \union {None}]
  BY OpShape DEF Shape
<1>2. QED  BY <1>1 DEF Goto

LEMMA NoOpRecord == NoOp.phase = "idle" /\ NoOp.gen = None /\ NoOp.prev = None
BY DEF NoOp

\* What holds of the operation under way and of the generations around it.
OInv == OpRefersTo /\ AllAccounted /\ DurableFollows

\* The operation settles or is abandoned where every generation is in its place.
LEMMA SettledAccounts ==
    ASSUME Shape, OInv, UNCHANGED <<gen, listed, active, host>>, op' = NoOp,
           \/ faults' # 0
           \/ /\ faults' = faults
              /\ op.phase \notin {"prepare", "emit prepared", "undo", "emit draining"}
              /\ op.phase = "emit activated" => op.prev = None
              /\ active # None => durable' = gen[active].structure
    PROVE  OInv'
<1>1. op'.phase = "idle"
  BY NoOpRecord
<1>2. OpRefersTo'
  BY <1>1 DEF OpRefersTo
<1>3. AllAccounted'
  BY <1>1, KernelAssumption DEF OInv, AllAccounted, Accounted
<1>4. DurableFollows'
  BY <1>1 DEF OInv, DurableFollows
<1>5. QED  BY <1>2, <1>3, <1>4 DEF OInv

\* The operation moves on to phase p; nothing else changes.
LEMMA MovedAccounts ==
    ASSUME Shape, OInv, OpIsOrdered, UNCHANGED <<gen, listed, active, host, durable, faults>>,
           NEW p, op.phase # "idle", Goto(p),
           <<op.phase, p>> \in {<<"resolve", "graph">>, <<"graph", "emit failed">>,
                               <<"graph", "emit restart">>, <<"prepare", "emit prepared">>,
                               <<"undo", "emit failed">>},
           op.phase = "undo" => gen[op.gen] = Unused
    PROVE  OInv'
<1>1. /\ op'.phase = p /\ op'.gen = op.gen /\ op'.prev = op.prev /\ op'.target = op.target
  BY GotoRecord
<1>2. OpRefersTo'
  BY <1>1 DEF OInv, OpRefersTo
<1>3. AllAccounted'
  BY <1>1 DEF OInv, OpRefersTo, AllAccounted, Accounted
<1>4. DurableFollows'
  BY <1>1 DEF OInv, DurableFollows
<1>5. QED  BY <1>2, <1>3, <1>4 DEF OInv

\* An operation begins.
LEMMA StartedAccounts ==
    ASSUME Shape, OInv, Idle, UNCHANGED <<gen, listed, active, durable, faults>>,
           NEW s, NEW o, op' = Reconcile(s, o),
           \/ UNCHANGED host
           \/ active = None /\ \A g \in Gens : gen[g] = Unused
    PROVE  OInv'
<1>1. op.phase = "idle"
  BY IdleShape
<1>2. op'.phase = "resolve" /\ op'.gen = None /\ op'.prev = None
  BY DEF Reconcile, NoOp
<1>3. OpRefersTo'
  BY <1>2 DEF OpRefersTo
<1>4. AllAccounted'
  BY <1>1, <1>2 DEF OInv, AllAccounted, Accounted
<1>5. DurableFollows'
  BY <1>1, <1>2 DEF OInv, DurableFollows
<1>6. QED  BY <1>3, <1>4, <1>5 DEF OInv

\* Nothing changes of the operation and what it looks at.
LEMMA SameAccounts ==
    ASSUME OInv, UNCHANGED <<gen, listed, active, durable, faults, op>>,
           host' \in {"restoring", "starting", "up", "stopping"} => host \in {"restoring", "starting", "up", "stopping"}
    PROVE  OInv'
BY DEF OInv, OpRefersTo, AllAccounted, Accounted, DurableFollows

LEMMA QuiescentAccounts ==
    ASSUME Shape, OInv, Winding, Quiescent
    PROVE  OInv'
<1>1. UNCHANGED <<gen, listed, active, turn>>
  BY QuiescentFrame
<1>2. op.phase # "idle" => OpIsOrdered
  BY IdleShape DEF Winding
<1>3. ASSUME Resolve \/ GraphFails \/ PlanRestart \/ Prepare \/ Undone PROVE OInv'
  <2>1. PICK p : Goto(p) /\ <<op.phase, p>> \in {<<"resolve", "graph">>, <<"graph", "emit failed">>,
                     <<"graph", "emit restart">>, <<"prepare", "emit prepared">>,
                     <<"undo", "emit failed">>}
    BY <1>3 DEF Resolve, GraphFails, PlanRestart, Prepare, Undone, Differs
  <2>2. UNCHANGED <<host, durable, faults>> /\ (op.phase = "undo" => gen[op.gen] = Unused)
    BY <1>3 DEF Resolve, GraphFails, PlanRestart, Prepare, Undone, Differs, hostVars
  <2>3. op.phase # "idle"
    BY <2>1
  <2>4. QED  BY <1>1, <1>2, <2>1, <2>2, <2>3, MovedAccounts
<1>4. ASSUME PlanUpdate PROVE OInv'
  <2>1. /\ op.phase = "graph" /\ active # None /\ UNCHANGED <<host, durable, faults>>
        /\ op' = [op EXCEPT !.phase = "update", !.gen = active]
    BY <1>4 DEF PlanUpdate, Differs, hostVars
  <2>2. op'.phase = "update" /\ op'.gen = active /\ op'.target = op.target
    BY <2>1, OpShape DEF Shape
  <2>3. QED  BY <1>1, <2>1, <2>2 DEF OInv, OpRefersTo, AllAccounted, Accounted, DurableFollows
<1>5. ASSUME UpdateFails PROVE OInv'
  <2>1. /\ op.phase = "update" /\ UNCHANGED <<host, durable, faults>>
        /\ op' = [op EXCEPT !.phase = "emit failed", !.gen = None]
    BY <1>5 DEF UpdateFails, hostVars
  <2>2. op'.phase = "emit failed" /\ op'.gen = None /\ op'.target = op.target
    BY <2>1, OpShape DEF Shape
  <2>3. QED  BY <1>1, <2>1, <2>2 DEF OInv, OpRefersTo, AllAccounted, Accounted, DurableFollows
<1>6. ASSUME Unchanged \/ (op.origin # "boot" /\ EmitRestart) \/ AwaitDrain PROVE OInv'
  <2>1. /\ op.phase \in {"graph", "emit restart", "drain"} /\ op' = NoOp
        /\ UNCHANGED <<host, durable, faults>>
    BY <1>6 DEF Unchanged, EmitRestart, AwaitDrain, Settle, hostVars
  <2>2. faults = 0 /\ active # None => durable' = gen[active].structure
    BY <2>1 DEF OInv, DurableFollows
  <2>3. faults \in Nat
    BY KernelAssumption DEF Shape
  <2>4. QED  BY <1>1, <2>1, <2>2, <2>3, SettledAccounts
<1>7. ASSUME EmitUpdated PROVE OInv'
  <2>1. /\ op.phase = "emit updated" /\ op' = NoOp /\ durable' = op.target
        /\ UNCHANGED <<host, faults>>
    BY <1>7 DEF EmitUpdated, Settle, hostVars
  <2>2. faults = 0 /\ active # None => durable' = gen[active].structure
    BY <2>1 DEF OInv, DurableFollows
  <2>3. QED  BY <1>1, <2>1, <2>2, SettledAccounts
<1>8. ASSUME EmitActivated PROVE OInv'
  <2>1. /\ op.phase = "emit activated" /\ durable' = op.target /\ UNCHANGED <<host, faults>>
        /\ \/ op.prev = None /\ op' = NoOp
           \/ op.prev # None /\ Goto("emit draining")
    BY <1>8 DEF EmitActivated, Settle, hostVars
  <2>2. faults = 0 /\ active # None => durable' = gen[active].structure
    BY <2>1 DEF OInv, DurableFollows
  <2>3. CASE op.prev = None /\ op' = NoOp
    BY <1>1, <2>1, <2>2, <2>3, SettledAccounts
  <2>4. CASE Goto("emit draining")
    <3>1. /\ op'.phase = "emit draining" /\ op'.gen = op.gen /\ op'.prev = op.prev
          /\ op'.target = op.target
      BY <2>1, <2>4, GotoRecord
    <3>2. QED  BY <1>1, <2>1, <2>2, <3>1 DEF OInv, OpRefersTo, AllAccounted, Accounted, DurableFollows
  <2>5. QED  BY <2>1, <2>3, <2>4
<1>9. ASSUME AppendFails PROVE OInv'
  <2>1. /\ faults' = faults + 1 /\ UNCHANGED <<host, durable>>
        /\ op' = NoOp \/ (op.phase \in {"emit prepared", "emit activated", "emit draining"}
                          /\ Goto("emit failed"))
    BY <1>9 DEF AppendFails, Settle
  <2>2. faults' # 0
    <3>1. faults \in Nat
      BY KernelAssumption DEF Shape
    <3>2. faults' = faults + 1
      BY <2>1
    <3>3. QED  BY <3>1, <3>2
  <2>3. CASE op' = NoOp
    BY <1>1, <2>1, <2>2, <2>3, SettledAccounts
  <2>4. CASE op.phase \in {"emit prepared", "emit activated", "emit draining"} /\ Goto("emit failed")
    <3>1. op'.phase = "emit failed"
      BY <2>4, GotoRecord
    <3>2. QED  BY <1>1, <2>2, <3>1 DEF OInv, OpRefersTo, AllAccounted, DurableFollows
  <2>5. QED  BY <2>1, <2>3, <2>4
<1>10. ASSUME (\E s \in Posted : AdminReconcile(s)) \/ StartRefresh \/ Boot \/ Supersede PROVE OInv'
  <2>1. PICK s, o : Start(s, o) /\ UNCHANGED <<durable, faults>> /\ (UNCHANGED host \/ host = "down")
    BY <1>10 DEF AdminReconcile, StartRefresh, Boot, Supersede, Start, hostVars
  <2>2. Idle /\ op' = Reconcile(s, o)
    BY <2>1 DEF Start
  <2>3. UNCHANGED host \/ (active = None /\ \A g \in Gens : gen[g] = Unused)
    BY <2>1 DEF Winding
  <2>4. QED  BY <1>1, <2>1, <2>2, <2>3, StartedAccounts
<1>11. ASSUME (\E s \in Edited : EditSource(s)) \/ Notify \/ Load \/ LoadFails
             \/ StartController \/ Booted \/ Stop PROVE OInv'
  <2>1. /\ UNCHANGED <<durable, faults, op>>
        /\ UNCHANGED host \/ host \in {"restoring", "starting", "up"}
    BY <1>11 DEF EditSource, Notify, Load, LoadFails, StartController, Booted, Stop, hostVars
  <2>2. QED  BY <1>1, <2>1, SameAccounts
<1>12. QED
  BY <1>3, <1>4, <1>5, <1>6, <1>7, <1>8, <1>9, <1>10, <1>11 DEF Quiescent

\* What a step of the turns does to the generations.
Leasing ==
    /\ UNCHANGED <<listed, active, durable, faults, op, controller>>
    /\ host' \in {host, "halting"}
    /\ \/ UNCHANGED gen
       \/ Acquirable /\ Acquire
       \/ \E leases \in SUBSET Turns :
              /\ Release(leases)
              /\ \A u \in Turns : turn'[u].lease = IF u \in leases THEN None ELSE turn[u].lease

LEMMA TurningLeases == ASSUME Shape, Turning PROVE Leasing
<1>1. turn \in [Turns -> TurnRecords]
  BY DEF Shape, TurnRecords
<1>2. ASSUME NEW t \in Turns, BeginTurn(t) \/ Reenter(t) \/ SuspendTurn(t) PROVE Leasing
  BY <1>2 DEF Leasing, BeginTurn, Reenter, SuspendTurn, TakeLease, turnFrame
<1>3. ASSUME NEW t \in Turns, FinishTurn(t) \/ TurnThrows(t) PROVE Leasing
  <2>1. UNCHANGED <<host, turnFrame>>
    BY <1>3 DEF FinishTurn, TurnThrows
  <2>2. PICK leases \in {{}, {t}} :
          /\ Release(leases)
          /\ \A u \in Turns : turn'[u].lease = IF u \in leases THEN None ELSE turn[u].lease
    <3>1. CASE FinishTurn(t)
      BY <1>1, <3>1 DEF FinishTurn, NoTurn, Unleased, TurnRecords
    <3>2. CASE TurnThrows(t)
      BY <1>1, <3>2 DEF TurnThrows, Unleased, Keeping, TurnRecords
    <3>3. QED  BY <1>3, <3>1, <3>2
  <2>3. QED  BY <2>1, <2>2 DEF Leasing, turnFrame
<1>4. ASSUME StopLoop PROVE Leasing
  <2>1. /\ Kept \in SUBSET Turns /\ Release(Kept) /\ UNCHANGED turnFrame /\ host' = "halting"
        /\ \A u \in Turns : turn'[u].lease = IF u \in Kept THEN None ELSE turn[u].lease
    BY <1>4 DEF StopLoop, Kept, Unleased
  <2>2. QED  BY <2>1 DEF Leasing, turnFrame
<1>5. QED  BY <1>2, <1>3, <1>4 DEF Turning

\* A generation that gains or loses leases keeps its structure and its place.
LEMMA TurningAccounts ==
    ASSUME Shape, RefsCountLeases, LeasesAreKept, OInv, Turning, ~Idle => OpIsOrdered
    PROVE  OInv'
<1>1. Leasing
  BY TurningLeases
<1>2. \A g \in Gens :
         /\ gen'[g].state = gen[g].state /\ gen'[g].structure = gen[g].structure
         /\ gen[g].state # "draining" => gen'[g].disposing = gen[g].disposing
         /\ g # active /\ gen[g] = Unused => gen'[g] = Unused
         /\ g # active /\ gen[g].state = "draining" /\ (gen[g].refs > 0 \/ gen[g].disposing)
               => gen'[g].refs > 0 \/ gen'[g].disposing
  <2>1. CASE UNCHANGED gen
    BY <2>1
  <2>2. CASE Acquirable /\ Acquire
    BY <2>2, Acquiring
  <2>3. ASSUME NEW leases \in SUBSET Turns, Release(leases),
               \A u \in Turns : turn'[u].lease = IF u \in leases THEN None ELSE turn[u].lease,
               NEW g \in Gens
        PROVE  /\ gen'[g].state = gen[g].state /\ gen'[g].structure = gen[g].structure
               /\ gen[g].state # "draining" => gen'[g].disposing = gen[g].disposing
               /\ gen[g] = Unused => gen'[g] = Unused
               /\ gen[g].state = "draining" /\ (gen[g].refs > 0 \/ gen[g].disposing)
                     => gen'[g].refs > 0 \/ gen'[g].disposing
    <3>1. gen[g].refs \in Int /\ gen'[g].refs \in Int
      BY <2>3, SomeRelease DEF Shape, Generations
    <3>2. gen'[g].refs \in 0 .. gen[g].refs
      BY <2>3, SomeRelease
    <3>3. /\ gen'[g].state = gen[g].state /\ gen'[g].structure = gen[g].structure
          /\ gen'[g].refs # 0 \/ gen[g].state # "draining" => gen'[g].disposing = gen[g].disposing
          /\ gen[g].refs = 0 => gen'[g] = gen[g]
          /\ gen[g].state = "draining" /\ gen[g].refs # 0 /\ gen'[g].refs = 0 => gen'[g].disposing
      BY <2>3, SomeRelease
    <3>4. QED  BY <3>1, <3>2, <3>3 DEF Unused
  <2>4. QED  BY <1>1, <2>1, <2>2, <2>3 DEF Leasing
<1>3. /\ UNCHANGED <<listed, active, durable, faults, op>>
      /\ host' \in {"restoring", "starting", "up", "stopping"} => host' = host
  BY <1>1 DEF Leasing
<1>4. /\ active # None => active \in Gens
      /\ op.phase # "idle" => op.gen \in Gens \union {None} /\ op.prev \in Gens \union {None}
  BY OpShape DEF Shape
<1>5. active # None => gen[active].state # "unused"
  BY DEF OInv, DurableFollows
<1>6. OpRefersTo'
  <2>1. OpRefersTo
    BY DEF OInv
  <2>2. ASSUME op.phase \in {"emit activated", "emit draining"}, op.prev # None
        PROVE  gen'[op.prev].state = "active" /\ ~gen'[op.prev].disposing
    <3>1. op.prev \in Gens /\ gen[op.prev].state = "active" /\ ~gen[op.prev].disposing
      BY <1>4, <2>1, <2>2 DEF OpRefersTo
    <3>2. QED  BY <1>2, <3>1
  <2>3. QED  BY <1>3, <2>1, <2>2 DEF OpRefersTo
<1>7. AllAccounted'
  <2>1. SUFFICES ASSUME faults = 0, host \in {"restoring", "starting", "up", "stopping"}
                 PROVE  /\ \A g \in Gens : Accounted(g)'
                        /\ op.phase = "emit failed" /\ op.gen # None => gen'[op.gen] = Unused
    BY <1>3 DEF AllAccounted
  <2>2. /\ \A g \in Gens : Accounted(g)
        /\ op.phase = "emit failed" /\ op.gen # None => gen[op.gen] = Unused
    BY <2>1 DEF OInv, AllAccounted
  <2>3. ASSUME NEW g \in Gens PROVE Accounted(g)'
    <3>1. CASE g = active
      <4>1. gen[g] # Unused
        BY <1>5, <3>1, KernelAssumption DEF Unused
      <4>2. g \in listed
        BY <2>2, <4>1 DEF Accounted
      <4>3. QED  BY <1>3, <3>1, <4>2 DEF Accounted
    <3>2. CASE g # active
      <4>1. gen'[g] # Unused => gen[g] # Unused
        BY <1>2, <3>2
      <4>2. /\ gen'[g].state = gen[g].state
            /\ gen[g].state = "draining" /\ (gen[g].refs > 0 \/ gen[g].disposing)
                  => gen'[g].refs > 0 \/ gen'[g].disposing
        BY <1>2, <3>2
      <4>3. Accounted(g)
        BY <2>2
      <4>4. QED  BY <1>3, <4>1, <4>2, <4>3 DEF Accounted
    <3>3. QED  BY <3>1, <3>2
  <2>4. ASSUME op.phase = "emit failed", op.gen # None PROVE gen'[op.gen] = Unused
    <3>1. op.gen \in Gens /\ gen[op.gen] = Unused
      BY <1>4, <2>2, <2>4
    <3>2. op.gen # active
      BY <1>5, <3>1, KernelAssumption DEF Unused
    <3>3. QED  BY <1>2, <3>1, <3>2
  <2>5. QED  BY <2>3, <2>4
<1>8. DurableFollows'
  <2>1. DurableFollows
    BY DEF OInv
  <2>2. active # None => /\ gen'[active].state = gen[active].state
                         /\ gen'[active].structure = gen[active].structure
    BY <1>2, <1>4
  <2>3. op.phase \in {"prepare", "emit prepared"} => gen'[op.gen].structure = op.target
    <3>1. SUFFICES ASSUME op.phase \in {"prepare", "emit prepared"}
                   PROVE  gen'[op.gen].structure = op.target
      OBVIOUS
    <3>2. op.gen \in Gens
      BY <3>1, IdleShape DEF OpIsOrdered
    <3>3. QED  BY <1>2, <2>1, <3>1, <3>2 DEF DurableFollows
  <2>4. QED  BY <1>3, <2>1, <2>2, <2>3 DEF DurableFollows
<1>9. QED  BY <1>6, <1>7, <1>8 DEF OInv

\* A candidate is planned, prepared, refused or takes over, and what it replaced
\* drains.
LEMMA SwapAccounts ==
    ASSUME Shape, OInv, ServingIsUp, OpIsOrdered, PlanSwap \/ PrepareFails \/ EmitPrepared
    PROVE  OInv'
<1>1. /\ gen \in [Gens -> Generations]
      /\ active # None => active \in Gens /\ gen[active].state # "unused"
      /\ active # None => gen[active].state = "active" /\ ~gen[active].disposing
      /\ active \in Gens \union {None} /\ None \notin Gens
  BY KernelAssumption DEF Shape, OInv, DurableFollows, ServingIsUp
<1>2. OpRefersTo /\ AllAccounted /\ DurableFollows
  BY DEF OInv
<1>3. CASE PlanSwap
  <2>1. PICK g \in Gens : /\ gen[g] = Unused
                          /\ gen' = [gen EXCEPT ![g] = Generation(op.target)]
                          /\ listed' = listed \union {g}
                          /\ op' = [op EXCEPT !.phase = "prepare", !.gen = g]
    BY <1>3 DEF PlanSwap
  <2>2. UNCHANGED <<host, active, durable, faults>> /\ op.phase = "graph"
    BY <1>3 DEF PlanSwap, hostVars
  <2>3. op'.phase = "prepare" /\ op'.gen = g /\ op'.target = op.target
    BY <2>1, <2>2, OpShape DEF Shape
  <2>4. gen'[g].structure = op.target /\ \A h \in Gens : h # g => gen'[h] = gen[h]
    BY <1>1, <2>1 DEF Generation
  <2>5. g # active
    BY <1>1, <2>1 DEF Unused
  <2>6. OpRefersTo'
    BY <2>3 DEF OpRefersTo
  <2>7. AllAccounted'
    <3>1. SUFFICES ASSUME faults = 0, host \in {"restoring", "starting", "up", "stopping"}, NEW h \in Gens
                   PROVE  Accounted(h)'
      BY <2>2, <2>3 DEF AllAccounted
    <3>2. Accounted(h)
      BY <1>2, <3>1 DEF AllAccounted
    <3>3. CASE h = g
      BY <2>1, <2>3, <3>3 DEF Accounted
    <3>4. CASE h # g
      BY <2>1, <2>2, <2>4, <3>2, <3>4 DEF Accounted
    <3>5. QED  BY <3>3, <3>4
  <2>8. DurableFollows'
    <3>1. active # None => gen'[active] = gen[active]
      BY <1>1, <2>4, <2>5
    <3>2. QED  BY <1>2, <2>2, <2>3, <2>4, <3>1 DEF DurableFollows
  <2>9. QED  BY <2>6, <2>7, <2>8 DEF OInv
<1>4. ASSUME op.phase \in {"prepare", "emit prepared"}
      PROVE  op.gen \in Gens /\ op.gen # active /\ gen[op.gen].state = "preparing"
  BY <1>4 DEF OpIsOrdered
<1>5. CASE PrepareFails
  <2>1. op.phase = "prepare" /\ UNCHANGED <<host, listed, active, durable, faults>>
    BY <1>5 DEF PrepareFails, hostVars
  <2>2. op'.phase = "undo" /\ op'.gen = op.gen /\ op'.target = op.target
    BY <1>5, <2>1, GotoRecord DEF PrepareFails
  <2>3. \A h \in Gens : h # op.gen => gen'[h] = gen[h]
    BY <1>1, <1>5 DEF PrepareFails
  <2>4. OpRefersTo'
    BY <2>2 DEF OpRefersTo
  <2>5. AllAccounted'
    <3>1. SUFFICES ASSUME faults = 0, host \in {"restoring", "starting", "up", "stopping"}, NEW h \in Gens
                   PROVE  Accounted(h)'
      BY <2>1, <2>2 DEF AllAccounted
    <3>2. Accounted(h)
      BY <1>2, <3>1 DEF AllAccounted
    <3>3. CASE h = op.gen
      <4>1. h \in listed
        BY <1>4, <2>1, <3>2, <3>3 DEF Accounted, Unused
      <4>2. QED  BY <2>1, <2>2, <3>3, <4>1 DEF Accounted
    <3>4. CASE h # op.gen
      BY <2>1, <2>2, <2>3, <3>2, <3>4 DEF Accounted
    <3>5. QED  BY <3>3, <3>4
  <2>6. DurableFollows'
    <3>1. active # None => gen'[active] = gen[active]
      BY <1>1, <1>4, <2>1, <2>3
    <3>2. QED  BY <1>2, <2>1, <2>2, <3>1 DEF DurableFollows
  <2>7. QED  BY <2>4, <2>5, <2>6 DEF OInv
<1>6. CASE EmitPrepared
  <2>1. /\ op.phase = "emit prepared" /\ UNCHANGED <<host, listed, durable, faults>>
        /\ active' = op.gen
        /\ gen' = [gen EXCEPT ![op.gen] = [gen[op.gen] EXCEPT !.state = "active"]]
        /\ op' = [op EXCEPT !.phase = "emit activated", !.prev = active]
    BY <1>6 DEF EmitPrepared, hostVars
  <2>2. op'.phase = "emit activated" /\ op'.prev = active /\ op'.target = op.target
    BY <2>1, OpShape DEF Shape
  <2>3. /\ op.gen \in Gens /\ op.gen # active /\ gen[op.gen].state = "preparing"
        /\ \A h \in Gens : h # op.gen => gen'[h] = gen[h]
    BY <1>1, <1>4, <2>1
  <2>4. gen'[op.gen].state = "active" /\ gen'[op.gen].structure = gen[op.gen].structure
    BY <1>1, <2>1, <2>3 DEF Generations
  <2>5. OpRefersTo'
    <3>1. active # None => gen'[active] = gen[active]
      BY <1>1, <2>3
    <3>2. QED  BY <1>1, <2>2, <3>1 DEF OpRefersTo
  <2>6. AllAccounted'
    <3>1. SUFFICES ASSUME faults = 0, host \in {"restoring", "starting", "up", "stopping"}, NEW h \in Gens
                   PROVE  Accounted(h)'
      BY <2>1, <2>2 DEF AllAccounted
    <3>2. Accounted(h)
      BY <1>2, <3>1 DEF AllAccounted
    <3>3. CASE h = op.gen
      <4>1. h \in listed
        <5>1. gen[h] # Unused
          BY <2>3, <3>3 DEF Unused
        <5>2. QED  BY <3>2, <5>1 DEF Accounted
      <4>2. QED  BY <2>1, <3>3, <4>1 DEF Accounted
    <3>4. CASE h # op.gen
      BY <2>1, <2>2, <2>3, <3>2, <3>4 DEF Accounted
    <3>5. QED  BY <3>3, <3>4
  <2>7. DurableFollows'
    BY <1>2, <2>1, <2>2, <2>4 DEF DurableFollows
  <2>8. QED  BY <2>5, <2>6, <2>7 DEF OInv
<1>7. QED  BY <1>3, <1>5, <1>6

\* The serving generation is updated, the replaced one drains, a failure is
\* recorded.
LEMMA RestAccounts ==
    ASSUME Shape, OInv, ServingIsUp, OpIsOrdered, \A g \in Gens : gen[g].refs \in Nat,
           Update \/ EmitDraining \/ (op.origin # "boot" /\ EmitFailed)
    PROVE  OInv'
<1>1. /\ gen \in [Gens -> Generations]
      /\ active # None => active \in Gens /\ gen[active].state # "unused"
      /\ active \in Gens \union {None} /\ None \notin Gens
  BY KernelAssumption DEF Shape, OInv, DurableFollows
<1>2. OpRefersTo /\ AllAccounted /\ DurableFollows
  BY DEF OInv
<1>3. CASE Update
  <2>1. /\ op.phase = "update" /\ UNCHANGED <<host, listed, active, durable, faults>>
        /\ op.gen = active /\ active \in Gens
        /\ gen' = [gen EXCEPT ![op.gen] = [gen[op.gen] EXCEPT !.structure = op.target]]
    BY <1>1, <1>2, <1>3 DEF Update, hostVars, OpRefersTo
  <2>2. op'.phase = "emit updated" /\ op'.target = op.target
    BY <1>3, <2>1, GotoRecord DEF Update
  <2>3. /\ gen'[active].structure = op.target /\ gen'[active].state = gen[active].state
        /\ \A h \in Gens : h # active => gen'[h] = gen[h]
    BY <1>1, <2>1 DEF Generations
  <2>4. OpRefersTo'
    BY <2>2 DEF OpRefersTo
  <2>5. AllAccounted'
    <3>1. SUFFICES ASSUME faults = 0, host \in {"restoring", "starting", "up", "stopping"}, NEW h \in Gens
                   PROVE  Accounted(h)'
      BY <2>1, <2>2 DEF AllAccounted
    <3>2. Accounted(h)
      BY <1>2, <3>1 DEF AllAccounted
    <3>3. CASE h = active
      <4>1. h \in listed
        BY <1>1, <2>1, <3>2, <3>3 DEF Accounted, Unused
      <4>2. QED  BY <2>1, <3>3, <4>1 DEF Accounted
    <3>4. CASE h # active
      BY <2>1, <2>2, <2>3, <3>2, <3>4 DEF Accounted
    <3>5. QED  BY <3>3, <3>4
  <2>6. DurableFollows'
    BY <1>1, <2>1, <2>2, <2>3 DEF DurableFollows
  <2>7. QED  BY <2>4, <2>5, <2>6 DEF OInv
<1>4. CASE EmitDraining
  <2>1. /\ op.phase = "emit draining" /\ UNCHANGED <<host, listed, active, durable, faults>>
        /\ gen' = [gen EXCEPT ![op.prev] = Drained(gen[op.prev])]
        /\ op.prev # active
    BY <1>4 DEF EmitDraining, hostVars, OpIsOrdered
  <2>2. op'.phase \in {"drain", "idle"}
    BY <1>4, <2>1, GotoRecord, SettleShape DEF EmitDraining
  <2>3. \A h \in Gens : h # op.prev => gen'[h] = gen[h]
    BY <1>1, <2>1
  <2>4. OpRefersTo'
    BY <2>2 DEF OpRefersTo
  <2>5. AllAccounted'
    <3>1. SUFFICES ASSUME faults = 0, host \in {"restoring", "starting", "up", "stopping"}, NEW h \in Gens
                   PROVE  Accounted(h)'
      BY <2>1, <2>2 DEF AllAccounted
    <3>2. Accounted(h)
      BY <1>2, <3>1 DEF AllAccounted
    <3>3. CASE h = op.prev
      <4>1. gen[h].state = "active" /\ ~gen[h].disposing
        BY <1>1, <1>2, <2>1, <3>3 DEF OpRefersTo
      <4>2. h \in listed
        <5>1. gen[h] # Unused
          BY <4>1 DEF Unused
        <5>2. QED  BY <3>2, <5>1 DEF Accounted
      <4>3. /\ gen'[h] = Drained(gen[h]) /\ gen[h] \in Generations
        BY <1>1, <2>1, <3>3
      <4>4. /\ gen'[h].state = "draining" /\ gen'[h].refs = gen[h].refs
            /\ gen[h].refs = 0 => gen'[h].disposing
        BY <4>1, <4>3, DrainedRecord
      <4>5. gen'[h].refs > 0 \/ gen'[h].disposing
        BY <4>4
      <4>6. QED  BY <2>1, <4>2, <4>4, <4>5 DEF Accounted
    <3>4. CASE h # op.prev
      BY <2>1, <2>2, <2>3, <3>2, <3>4 DEF Accounted
    <3>5. QED  BY <3>3, <3>4
  <2>6. DurableFollows'
    <3>1. active # None => gen'[active] = gen[active]
      BY <1>1, <2>1, <2>3
    <3>2. QED  BY <1>2, <2>1, <2>2, <3>1 DEF DurableFollows
  <2>7. QED  BY <2>4, <2>5, <2>6 DEF OInv
<1>5. CASE op.origin # "boot" /\ EmitFailed
  <2>1. /\ op.phase = "emit failed" /\ UNCHANGED <<host, gen, active, durable, faults>>
        /\ listed' = listed \ {op.gen} /\ op'.phase = "idle"
    BY <1>5, SettleShape DEF EmitFailed, hostVars
  <2>2. OpRefersTo'
    BY <2>1 DEF OpRefersTo
  <2>3. AllAccounted'
    <3>1. SUFFICES ASSUME faults = 0, host \in {"restoring", "starting", "up", "stopping"}, NEW h \in Gens
                   PROVE  Accounted(h)'
      BY <2>1 DEF AllAccounted
    <3>2. Accounted(h) /\ (op.gen # None => gen[op.gen] = Unused)
      BY <1>2, <2>1, <3>1 DEF AllAccounted
    <3>3. gen[h] # Unused => h # op.gen
      BY <1>1, <3>2
    <3>4. QED  BY <2>1, <3>2, <3>3 DEF Accounted
  <2>4. DurableFollows'
    BY <1>2, <2>1 DEF DurableFollows
  <2>5. QED  BY <2>2, <2>3, <2>4 DEF OInv
<1>6. QED  BY <1>3, <1>4, <1>5

\* A disposal ends. Nothing it frees is what serves, is referred to, or pinned.
LEMMA DisposalAccounts ==
    ASSUME Shape, OInv, ServingIsUp, OpIsOrdered, \A g \in Gens : gen[g].refs \in Nat,
           NEW g \in Gens, DisposeEnds(g)
    PROVE  OInv'
<1>1. /\ gen \in [Gens -> Generations]
      /\ active # None => active \in Gens
      /\ op.phase # "idle" => op.gen \in Gens \union {None} /\ op.prev \in Gens \union {None}
  BY OpShape DEF Shape
<1>2. OpRefersTo /\ AllAccounted /\ DurableFollows
  BY DEF OInv
<1>3. /\ gen[g].disposing /\ listed' = listed \ {g}
      /\ UNCHANGED <<host, active, op, durable, faults>>
      /\ gen' = [gen EXCEPT ![g] = IF gen[g].refs = 0 /\ g # active THEN Unused
                                   ELSE [gen[g] EXCEPT !.state = "disposed"]]
  BY DEF DisposeEnds
<1>4. g # active /\ gen[g].refs = 0
  BY <1>1, <1>3, KernelAssumption DEF ServingIsUp
<1>5. gen'[g] = Unused /\ \A h \in Gens : h # g => gen'[h] = gen[h]
  BY <1>1, <1>3, <1>4
<1>6. OpRefersTo'
  <2>1. op.phase \in {"emit activated", "emit draining"} /\ op.prev # None
           => op.prev \in Gens /\ op.prev # g
    BY <1>1, <1>2, <1>3 DEF OpRefersTo
  <2>2. QED  BY <1>2, <1>3, <1>5, <2>1 DEF OpRefersTo
<1>7. AllAccounted'
  <2>1. SUFFICES ASSUME faults = 0, host \in {"restoring", "starting", "up", "stopping"}
                 PROVE  /\ \A h \in Gens : Accounted(h)'
                        /\ op.phase = "emit failed" /\ op.gen # None => gen'[op.gen] = Unused
    BY <1>3 DEF AllAccounted
  <2>2. /\ \A h \in Gens : Accounted(h)
        /\ op.phase = "emit failed" /\ op.gen # None => gen[op.gen] = Unused
    BY <1>2, <2>1 DEF AllAccounted
  <2>3. op.phase = "emit failed" /\ op.gen # None => gen'[op.gen] = Unused
    BY <1>1, <1>5, <2>2
  <2>4. ASSUME NEW h \in Gens, h # g PROVE Accounted(h)'
    <3>1. Accounted(h)
      BY <2>2
    <3>2. QED  BY <1>3, <1>5, <2>4, <3>1 DEF Accounted
  <2>5. Accounted(g)'
    BY <1>5 DEF Accounted, Unused
  <2>6. QED  BY <2>3, <2>4, <2>5
<1>8. DurableFollows'
  <2>1. active # None => gen'[active] = gen[active]
    BY <1>1, <1>4, <1>5
  <2>2. op.phase \in {"prepare", "emit prepared"} => gen'[op.gen] = gen[op.gen]
    BY <1>3, <1>5 DEF OpIsOrdered
  <2>3. QED  BY <1>2, <1>3, <2>1, <2>2 DEF DurableFollows
<1>9. QED  BY <1>6, <1>7, <1>8 DEF OInv

\* A host that halts stops its generations one by one.
LEMMA HaltingAccounts ==
    ASSUME Shape, OInv, host = "halting", Idle, NEW g \in Gens, DisposeEnds(g) \/ StopGeneration(g)
    PROVE  OInv'
<1>1. op.phase = "idle"
  BY IdleShape
<1>2. UNCHANGED <<host, active, op, durable, faults>>
  BY DEF DisposeEnds, StopGeneration, turnFrame
<1>3. gen \in [Gens -> Generations] /\ (active # None => active \in Gens)
  BY DEF Shape
<1>4. active # None => /\ gen'[active].state # "unused"
                       /\ gen'[active].structure = gen[active].structure
  <2>1. SUFFICES ASSUME active # None PROVE gen'[active].state # "unused"
                                            /\ gen'[active].structure = gen[active].structure
    OBVIOUS
  <2>2. gen[active].state # "unused" /\ active \in Gens /\ gen[active] \in Generations
    BY <1>3, <2>1 DEF OInv, DurableFollows
  <2>3. CASE g # active
    <3>1. gen'[active] = gen[active]
      BY <1>3, <2>2, <2>3 DEF DisposeEnds, StopGeneration
    <3>2. QED  BY <2>2, <3>1
  <2>4. CASE g = active /\ DisposeEnds(g)
    <3>1. gen'[active] = [gen[active] EXCEPT !.state = "disposed"]
      BY <1>3, <2>2, <2>4 DEF DisposeEnds
    <3>2. QED  BY <2>2, <3>1 DEF Generations
  <2>5. CASE g = active /\ StopGeneration(g)
    <3>1. gen'[active] = Disposing(Drained(gen[active]))
      BY <1>3, <2>2, <2>5 DEF StopGeneration
    <3>2. QED  BY <2>2, <3>1, DrainedRecord, DisposingRecord
  <2>6. QED  BY <2>3, <2>4, <2>5
<1>5. OpRefersTo' /\ AllAccounted'
  BY <1>1, <1>2 DEF OpRefersTo, AllAccounted
<1>6. DurableFollows'
  BY <1>1, <1>2, <1>4 DEF OInv, DurableFollows
<1>7. QED  BY <1>5, <1>6 DEF OInv

LEMMA NextAccounts ==
    ASSUME KInv, Quiescent \/ Reshaping \/ Turning
    PROVE  OInv'
<1>1. Shape /\ RefsCountLeases /\ LeasesAreKept /\ Winding /\ OInv
  BY TypeShape DEF KInv, IInv, SInv, OInv
<1>2. CASE Quiescent
  BY <1>1, <1>2, QuiescentAccounts
<1>3. CASE Turning
  BY <1>1, <1>3, TurningAccounts DEF Winding
<1>4. CASE Reshaping
  <2>1. CASE host = "halting" /\ Idle
    <3>1. PICK g \in Gens : DisposeEnds(g) \/ StopGeneration(g)
      BY <1>1, <1>4, <2>1, IdleShape
         DEF Reshaping, PlanSwap, Update, PrepareFails, EmitPrepared, EmitDraining, EmitFailed
    <3>2. QED  BY <1>1, <2>1, <3>1, HaltingAccounts
  <2>2. CASE host # "halting" \/ ~Idle
    <3>1. ServingIsUp /\ OpIsOrdered
      BY <2>2, OpIsServed
    <3>2. \A g \in Gens : gen[g].refs \in Nat
      <4>1. Cardinality(Turns) \in Nat
        BY TurnsAssumption, FS_CardinalityType
      <4>2. QED  BY <4>1 DEF KInv, IInv, TypeOK
    <3>3. \A g \in Gens : ~StopGeneration(g)
      BY <2>2 DEF StopGeneration
    <3>4. QED
      BY <1>1, <1>4, <3>1, <3>2, <3>3, SwapAccounts, RestAccounts, DisposalAccounts DEF Reshaping
  <2>3. QED  BY <2>1, <2>2
<1>5. QED  BY <1>2, <1>3, <1>4

\* While the process is down nothing becomes of a generation.
LEMMA DownStaysDown ==
    ASSUME Shape, RefsCountLeases, LeasesAreKept, Winding, Quiescent \/ Reshaping \/ Turning,
           host' = "down"
    PROVE  /\ host = "down" /\ op' = op /\ controller'.phase = controller.phase
           /\ active' = active /\ \A g \in Gens : gen'[g] = gen[g]
<1>1. host = "down"
  BY DEF Quiescent, Reshaping, Turning,
       Resolve, GraphFails, Unchanged, PlanRestart, PlanUpdate, UpdateFails, Prepare, Undone,
       EmitRestart, EmitUpdated, EmitActivated, AwaitDrain, AppendFails, AdminReconcile,
       EditSource, Notify, Load, LoadFails, StartRefresh, Boot, Supersede, StartController, Booted, Stop, PlanSwap, Update,
       PrepareFails, EmitPrepared, EmitDraining, EmitFailed, DisposeEnds, StopGeneration,
       BeginTurn, Reenter, SuspendTurn, FinishTurn, TurnThrows, StopLoop
<1>2. /\ op.phase = "idle" /\ controller.phase = "idle" /\ active = None
      /\ \A g \in Gens : gen[g] = Unused
  BY <1>1, IdleShape DEF Winding
<1>3. CASE Quiescent
  <2>1. UNCHANGED <<gen, active>>
    BY <1>3, QuiescentFrame
  <2>2. op' = op /\ controller' = controller
    BY <1>1, <1>2, <1>3 DEF Quiescent, Resolve, GraphFails, Unchanged, PlanRestart, PlanUpdate,
       UpdateFails, Differs, Prepare, Undone, EmitRestart, EmitUpdated, EmitActivated, AwaitDrain,
       AppendFails, AdminReconcile, EditSource, Notify, Subscribed, Load, LoadFails, StartRefresh, Boot,
       Supersede, StartController, Booted, Stop
  <2>3. QED  BY <1>1, <2>1, <2>2
<1>4. ~Reshaping
  <2>1. \A g \in Gens : ~DisposeEnds(g) /\ ~StopGeneration(g)
    BY <1>1, <1>2 DEF DisposeEnds, StopGeneration, Unused
  <2>2. QED
    BY <1>2, <2>1 DEF Reshaping, PlanSwap, Update, PrepareFails, EmitPrepared, EmitDraining, EmitFailed
<1>5. CASE Turning
  <2>1. Leasing
    BY <1>5, TurningLeases
  <2>2. ~Acquirable /\ \A g \in Gens : gen[g].refs = 0
    BY <1>2 DEF Acquirable, Unused
  <2>3. \A g \in Gens : gen'[g] = gen[g]
    BY <2>1, <2>2, SomeRelease DEF Leasing
  <2>4. QED  BY <1>1, <2>1, <2>3 DEF Leasing
<1>6. QED  BY <1>3, <1>4, <1>5

\* The controller is at rest once the host halts, and stays so.
LEMMA NextRests ==
    ASSUME Winding, Quiescent \/ Reshaping \/ Turning, host' = "halting"
    PROVE  controller'.phase = "idle"
<1>1. controller.phase = "idle" /\ host \in {"halting", "stopping"}
  BY DEF Winding, Quiescent, Reshaping, Turning,
       Resolve, GraphFails, Unchanged, PlanRestart, PlanUpdate, UpdateFails, Prepare, Undone,
       EmitRestart, EmitUpdated, EmitActivated, AwaitDrain, AppendFails, AdminReconcile,
       EditSource, Notify, Load, LoadFails, StartRefresh, Boot, Supersede, StartController, Booted, Stop, PlanSwap, Update,
       PrepareFails, EmitPrepared, EmitDraining, EmitFailed, DisposeEnds, StopGeneration,
       BeginTurn, Reenter, SuspendTurn, FinishTurn, TurnThrows, StopLoop
<1>2. controller' = controller \/ Settle(op)
  BY <1>1 DEF Quiescent, Reshaping, Turning,
       Resolve, GraphFails, Unchanged, PlanRestart, PlanUpdate, UpdateFails, Prepare, Undone,
       EmitRestart, EmitUpdated, EmitActivated, AwaitDrain, AppendFails, AdminReconcile,
       EditSource, Notify, Subscribed, Load, LoadFails, StartRefresh, Boot, Supersede, StartController, Booted, Stop, PlanSwap, Update,
       PrepareFails, EmitPrepared, EmitDraining, EmitFailed, DisposeEnds, StopGeneration,
       BeginTurn, Reenter, SuspendTurn, FinishTurn, TurnThrows, StopLoop, turnFrame
<1>3. ASSUME Settle(op) PROVE controller'.phase = "idle"
  BY <1>1, <1>3 DEF Settle
<1>4. QED  BY <1>1, <1>2, <1>3

LEMMA NextWinding ==
    ASSUME KInv, Quiescent \/ Reshaping \/ Turning
    PROVE  Winding'
<1>1. Shape /\ RefsCountLeases /\ LeasesAreKept /\ Winding
  BY TypeShape DEF KInv, IInv, SInv
<1>2. ~Idle' => ServingIsUp' /\ OpIsOrdered'
  BY NextServes
<1>3. host' = "halting" => controller'.phase = "idle"
  BY <1>1, NextRests
<1>4. host' = "down" => /\ controller'.phase = "idle" /\ Idle' /\ active' = None
                        /\ \A g \in Gens : gen'[g] = Unused
  <2>1. SUFFICES ASSUME host' = "down"
                 PROVE  /\ controller'.phase = "idle" /\ Idle' /\ active' = None
                        /\ \A g \in Gens : gen'[g] = Unused
    OBVIOUS
  <2>2. /\ host = "down" /\ op' = op /\ controller'.phase = controller.phase
        /\ active' = active /\ \A g \in Gens : gen'[g] = gen[g]
    BY <1>1, <2>1, DownStaysDown
  <2>3. QED  BY <1>1, <2>2 DEF Winding, Idle
<1>5. QED  BY <1>2, <1>3, <1>4 DEF Winding

LEMMA InitKInv == Init => KInv
<1>1. SUFFICES ASSUME Init PROVE SInv
  BY InitIInv DEF KInv
<1>2. op.phase = "idle" /\ Idle
  BY <1>1 DEF Init, Idle, NoOp
<1>3. Winding
  BY <1>1, <1>2 DEF Init, Winding, Quiet
<1>4. OpRefersTo /\ AllAccounted /\ DurableFollows
  BY <1>1, <1>2 DEF Init, OpRefersTo, AllAccounted, DurableFollows
<1>5. QED  BY <1>3, <1>4 DEF SInv

LEMMA EndAccounts ==
    ASSUME Shape, ProcessEnds
    PROVE  SInv'
<1>1. /\ host' = "down" /\ active' = None /\ op' = NoOp /\ controller' = Quiet
      /\ \A g \in Gens : gen'[g] = Unused
  BY DEF ProcessEnds
<1>2. op'.phase = "idle"
  BY <1>1, NoOpRecord
<1>3. Winding'
  BY <1>1 DEF Winding, Idle, Quiet
<1>4. OpRefersTo' /\ AllAccounted' /\ DurableFollows'
  BY <1>1, <1>2 DEF OpRefersTo, AllAccounted, DurableFollows
<1>5. QED  BY <1>3, <1>4 DEF SInv

LEMMA NextKInv == KInv /\ [Next]_vars => KInv'
<1>1. SUFFICES ASSUME KInv, [Next]_vars PROVE SInv'
  BY NextIInv DEF KInv
<1>2. CASE ProcessEnds
  BY <1>1, <1>2, TypeShape, EndAccounts DEF KInv, IInv
<1>3. CASE Quiescent \/ Reshaping \/ Turning
  BY <1>1, <1>3, NextWinding, NextAccounts DEF SInv, OInv
<1>4. CASE UNCHANGED vars
  BY <1>1, <1>4, ZenonT(60) DEF vars, KInv, SInv, Winding, OpRefersTo, AllAccounted, DurableFollows,
                    Accounted, Idle, ServingIsUp, OpIsOrdered
<1>5. QED  BY <1>1, <1>2, <1>3, <1>4, NextIsOneOf

LEMMA AlwaysKInv == Spec => []KInv
BY InitKInv, NextKInv, PTL DEF Spec

\* Kernel.reconcile, its catch, drain and #onDisposed together: as long as no
\* append was refused, whenever no reconciliation is under way the host has one
\* generation for new turns, lists every other one, and has each either pinned by
\* a turn or on its way out, for any number of generations, turns and changes.
THEOREM OneServes == Spec => []OneGenerationServes
<1>1. KInv => OneGenerationServes
  <2>1. SUFFICES ASSUME KInv, faults = 0, Idle, host \in {"restoring", "starting", "up", "stopping"},
                        NEW g \in Gens, gen[g] # Unused
                 PROVE  /\ g \in listed
                        /\ g # active => gen[g].state = "draining" /\ (gen[g].refs > 0 \/ gen[g].disposing)
    BY DEF OneGenerationServes
  <2>2. Accounted(g)
    BY <2>1 DEF KInv, SInv, AllAccounted
  <2>3. op.phase = "idle"
    BY <2>1, TypeShape, IdleShape DEF KInv, IInv
  <2>4. QED  BY <2>1, <2>2, <2>3 DEF Accounted
<1>2. QED  BY <1>1, AlwaysKInv, PTL

\* readActiveStructure names what serves: the takeover and generation.activated,
\* or the update in place and its record, are two steps, and nothing between two
\* reconciliations, a crash included, leaves them apart.
THEOREM RestoredIsServed == Spec => []DurableIsServed
<1>1. KInv => DurableIsServed
  <2>1. SUFFICES ASSUME KInv, faults = 0, Idle, active # None
                 PROVE  durable = gen[active].structure
    BY DEF DurableIsServed
  <2>2. op.phase = "idle"
    BY <2>1, TypeShape, IdleShape DEF KInv, IInv
  <2>3. QED  BY <2>1, <2>2 DEF KInv, SInv, DurableFollows
<1>2. QED  BY <1>1, AlwaysKInv, PTL

-----------------------------------------------------------------------------
(* The controller and its source *)

CInv == Shape /\ LoadIsCurrent

\* A step neither the source nor a load is in, and that begins no listening.
LEMMA SameLoads ==
    ASSUME CInv, source' = source, Subscribed' => Subscribed,
           controller'.queued = controller.queued, controller'.threw = controller.threw,
           controller'.loaded = controller.loaded
    PROVE  LoadIsCurrent'
BY DEF CInv, LoadIsCurrent

LEMMA SettledLoads ==
    ASSUME CInv, Settle(op), UNCHANGED <<source, host>>
    PROVE  LoadIsCurrent'
<1>1. /\ controller'.queued = controller.queued /\ controller'.threw = controller.threw
      /\ controller'.loaded = controller.loaded
  BY DEF Settle, CInv, Shape
<1>2. Subscribed' => Subscribed
  BY DEF Subscribed
<1>3. QED  BY <1>1, <1>2, SameLoads

\* The steps of an operation either leave the controller alone or settle.
LEMMA OpLoads ==
    ASSUME CInv, Quiescent \/ Reshaping, UNCHANGED <<source, host>>,
           UNCHANGED controller \/ Settle(op)
    PROVE  LoadIsCurrent'
<1>1. CASE UNCHANGED controller
  <2>1. Subscribed' => Subscribed
    BY DEF Subscribed
  <2>2. QED  BY <1>1, <2>1, SameLoads
<1>2. CASE Settle(op)
  BY <1>2, SettledLoads
<1>3. QED  BY <1>1, <1>2

LEMMA QuiescentLoads ==
    ASSUME CInv, Quiescent
    PROVE  LoadIsCurrent'
<1>1. Shape
  BY DEF CInv
<1>2. ASSUME \/ Resolve \/ GraphFails \/ PlanRestart \/ Prepare \/ Undone \/ PlanUpdate \/ UpdateFails
             \/ Unchanged \/ (op.origin # "boot" /\ EmitRestart) \/ AwaitDrain \/ EmitUpdated
             \/ EmitActivated
             \/ (\E s \in Posted : AdminReconcile(s)) \/ Supersede
      PROVE  LoadIsCurrent'
  <2>1. UNCHANGED <<source, host>> /\ (UNCHANGED controller \/ Settle(op))
    BY <1>2 DEF Resolve, GraphFails, PlanRestart, Prepare, Undone, PlanUpdate, UpdateFails, Differs,
           Unchanged, EmitRestart, AwaitDrain, EmitUpdated, EmitActivated, AdminReconcile,
           Supersede, hostVars
  <2>2. QED  BY <2>1, OpLoads
<1>3. ASSUME AppendFails PROVE LoadIsCurrent'
  <2>1. UNCHANGED <<source, host>> /\ (UNCHANGED controller \/ Settle(op))
    BY <1>3 DEF AppendFails
  <2>2. QED  BY <2>1, OpLoads
<1>4. ASSUME StartRefresh PROVE LoadIsCurrent'
  <2>1. /\ UNCHANGED <<source, host>> /\ controller'.queued = controller.queued
        /\ controller'.threw = controller.threw /\ controller'.loaded = controller.loaded
    BY <1>1, <1>4 DEF StartRefresh, hostVars, Shape
  <2>2. QED  BY <2>1, SameLoads DEF Subscribed
<1>5. ASSUME Boot PROVE LoadIsCurrent'
  BY <1>5 DEF Boot, LoadIsCurrent, Subscribed
<1>6. ASSUME \E s \in Edited : EditSource(s) PROVE LoadIsCurrent'
  <2>1. source'.pending = Subscribed /\ UNCHANGED <<host, op>>
    BY <1>6 DEF EditSource
  <2>2. QED  BY <2>1 DEF LoadIsCurrent, Subscribed
<1>7. ASSUME Notify \/ StartController PROVE LoadIsCurrent'
  <2>1. controller'.queued
    BY <1>1, <1>7 DEF Notify, StartController, Shape
  <2>2. QED  BY <2>1 DEF LoadIsCurrent
<1>8. ASSUME Load PROVE LoadIsCurrent'
  <2>1. controller'.loaded = source'.value
    BY <1>8 DEF Load, Quiet, hostVars
  <2>2. QED  BY <2>1 DEF LoadIsCurrent
<1>9. ASSUME LoadFails PROVE LoadIsCurrent'
  <2>1. controller'.threw
    BY <1>9 DEF LoadFails, Quiet
  <2>2. QED  BY <2>1 DEF LoadIsCurrent
<1>10. ASSUME Booted PROVE LoadIsCurrent'
  BY <1>10, SameLoads DEF Booted, Subscribed, hostVars
<1>11. ASSUME Stop PROVE LoadIsCurrent'
  BY <1>11 DEF Stop, LoadIsCurrent, Subscribed
<1>12. QED
  BY <1>2, <1>3, <1>4, <1>5, <1>6, <1>7, <1>8, <1>9, <1>10, <1>11 DEF Quiescent

LEMMA ReshapingLoads ==
    ASSUME CInv, Reshaping
    PROVE  LoadIsCurrent'
<1>1. UNCHANGED <<source, host>>
  BY DEF Reshaping, PlanSwap, Update, PrepareFails, EmitPrepared, EmitDraining, EmitFailed,
         DisposeEnds, StopGeneration, turnFrame, hostVars
<1>2. UNCHANGED controller \/ Settle(op)
  BY DEF Reshaping, PlanSwap, Update, PrepareFails, EmitPrepared, EmitDraining, EmitFailed,
         DisposeEnds, StopGeneration, turnFrame
<1>3. QED  BY <1>1, <1>2, OpLoads

LEMMA NextCInv == CInv /\ RefsCountLeases /\ LeasesAreKept /\ [Next]_vars => CInv'
<1>1. SUFFICES ASSUME CInv, RefsCountLeases, LeasesAreKept, [Next]_vars PROVE CInv'
  OBVIOUS
<1>2. Shape'
  BY <1>1, NextCounts DEF Counts, CInv
<1>3. LoadIsCurrent'
  <2>1. CASE Quiescent
    BY <1>1, <2>1, QuiescentLoads
  <2>2. CASE Reshaping
    BY <1>1, <2>2, ReshapingLoads
  <2>3. CASE Turning
    <3>1. /\ UNCHANGED <<source, controller>>
          /\ UNCHANGED host \/ (host = "stopping" /\ host' = "halting")
      BY <2>3 DEF Turning, BeginTurn, Reenter, SuspendTurn, FinishTurn, TurnThrows, StopLoop, turnFrame
    <3>2. QED  BY <1>1, <3>1, SameLoads DEF Subscribed
  <2>4. CASE ProcessEnds
    BY <2>4 DEF ProcessEnds, LoadIsCurrent, Subscribed
  <2>5. CASE UNCHANGED vars
    BY <1>1, <2>5, SameLoads DEF vars, Subscribed
  <2>6. QED  BY <1>1, <2>1, <2>2, <2>3, <2>4, <2>5, NextIsOneOf
<1>4. QED  BY <1>2, <1>3 DEF CInv

\* StructureConfigController's coalescing queue: from the first load on, an edit
\* of the source is pending, queued, or what was loaded last, unless load() threw;
\* so a controller at rest with no failed load to tell of has taken the source's
\* last value to the reconciler, whatever else is reconciled, refused or drained.
THEOREM LastEditIsLoaded == Spec => []ConfigConverges
<1>1. Init => CInv
  <2>1. SUFFICES ASSUME Init PROVE CInv
    OBVIOUS
  <2>2. Shape
    BY <2>1, InitIInv, TypeShape DEF IInv
  <2>3. QED  BY <2>1, <2>2 DEF Init, CInv, LoadIsCurrent, Subscribed
<1>2. CInv => ConfigConverges
  BY DEF CInv, LoadIsCurrent, ConfigConverges, Subscribed
<1>3. Counts => RefsCountLeases /\ LeasesAreKept
  BY DEF Counts
<1>4. QED  BY <1>1, <1>2, <1>3, NextCInv, CountsAlways, PTL DEF Spec

=============================================================================
