------------------------------- MODULE Memory -------------------------------
(***************************************************************************)
(* The embedded memory provider (plugins/memory-bee) and the worker that   *)
(* feeds it from completed turns (packages/runtime/src/memory-hook.ts).    *)
(*                                                                         *)
(* Every operation that writes waits its turn on #tail, looks at the       *)
(* projection, awaits the tail of the memory stream, appends its events    *)
(* and folds them. derive reads the projection without waiting, so what it *)
(* saw may be old when its claims are ingested.                            *)
(*                                                                         *)
(* An action is the code between two awaits of the store or of the queue.  *)
(* Between the append and the fold that follows it the stream is ahead of  *)
(* the projection. Times of claims are the order in which they were        *)
(* recorded; texts, confidence, validity and observations are left out: no *)
(* guard of these operations reads them.                                   *)
(***************************************************************************)
EXTENDS Naturals, FiniteSets, Sequences, SequencesExt

CONSTANTS
  Ids,        \* claim ids
  Says,       \* Says[c]: kind, subject and normalized statement of claim c
  Preferences,\* the claims of kind preference
  Ops,        \* calls of the provider, and completed turns
  Asks,       \* Asks[o]: kind (ingest, retract, consolidate, turn, recall), ids, over, corrects
  None,       \* no claim, no call
  MaxFaults   \* crashes and refused appends

ASSUME MemoryAssumption ==
  /\ None \notin Ids \cup Ops
  /\ Preferences \subseteq Ids
  /\ \A o \in Ops :
       /\ Asks[o].kind \in {"ingest", "retract", "consolidate", "turn", "recall"}
       /\ Asks[o].ids \in Seq(Ids) /\ (Asks[o].kind = "retract" => Asks[o].ids # <<>>)
       /\ Asks[o].over \subseteq Ids /\ IsFiniteSet(Asks[o].over)
  /\ MaxFaults \in Nat

VARIABLES
  log,        \* the memory stream
  up,         \* the host serves
  claims,     \* the projection: status of every claim, and the order of recording
  tail,       \* the calls queued on #tail, the running one first
  plan,       \* the events the running call appends and folds; <<>>: not started
  turns,      \* the completed turns queued at the derivation worker
  target,     \* target[o]: the preference turn o corrects, as derive saw it
  pc,         \* pc[o]: where call o is
  faults      \* faults so far

memoryVars == <<log, up, claims, tail, plan, turns, target, pc, faults>>

-----------------------------------------------------------------------------
(* Events and the projection. *)

Recorded(c) == [type |-> "recorded", id |-> c]
Superseded(c) == [type |-> "superseded", id |-> c]
Retracted(c) == [type |-> "retracted", id |-> c]
Consolidated == [type |-> "consolidated", id |-> None]

Empty == [status |-> [c \in Ids |-> "none"], order |-> <<>>]

(* #fold; events of other types make it throw, see Readable. *)
Fold(m, e) ==
  CASE e.type = "recorded" ->
         [status |-> [m.status EXCEPT ![e.id] = "active"],
          order  |-> IF m.status[e.id] = "none" THEN Append(m.order, e.id) ELSE m.order]
    [] e.type = "superseded" /\ m.status[e.id] = "active" ->
         [m EXCEPT !.status[e.id] = "superseded"]
    [] e.type = "retracted" /\ m.status[e.id] # "none" ->
         [m EXCEPT !.status[e.id] = "retracted"]
    [] OTHER -> m

Replay(events) == FoldLeft(Fold, Empty, events)

(* Only the five types of claims and observations can be folded. *)
Readable(events) == \A i \in DOMAIN events : events[i].type # "health"

Active(m) == {c \in Ids : m.status[c] = "active"}

-----------------------------------------------------------------------------
(* What a call appends, from the projection it finds. *)

(* The entries of a sequence that are in S, in their order. *)
Kept(S, kept, e) == IF e \in S THEN Append(kept, e) ELSE kept
Select(s, S) == FoldLeft(LAMBDA kept, e : Kept(S, kept, e), <<>>, s)

(* deriveClaimCandidates: a correction supersedes the preference recorded last. *)
LatestPreference ==
  LET live == Select(claims.order, Active(claims) \cap Preferences)
  IN  IF live = <<>> THEN None ELSE Last(live)

(* A new claim is recorded behind what it supersedes. *)
AndRecorded(before, events, c) == events \o Append(before, Recorded(c))

(* #ingestNow: a known id is left alone; a new claim first retires what it supersedes. *)
Ingested(ids, over) ==
  LET fresh   == Select(ids, {c \in Ids : claims.status[c] = "none"})
      retired == SetToSeq(over \cap Active(claims))
      before  == [i \in DOMAIN retired |-> Superseded(retired[i])]
  IN  FoldLeft(LAMBDA events, c : AndRecorded(before, events, c), <<>>, fresh)

(* The claims a call supersedes must all be known, else it throws. *)
Supersedes(o) == IF target[o] # None THEN {target[o]} ELSE Asks[o].over
UnknownTarget(o) ==
  /\ \E i \in DOMAIN Asks[o].ids : claims.status[Asks[o].ids[i]] = "none"
  /\ \E c \in Supersedes(o) : claims.status[c] = "none"

(* #consolidateNow: of the active claims that say the same, the oldest is kept. *)
Duplicates ==
  LET live == Select(claims.order, Active(claims))
  IN  Select(live, {c \in Ids : \E i, j \in DOMAIN live :
                       live[j] = c /\ i < j /\ Says[live[i]] = Says[c]})

Merged ==
  IF Duplicates = <<>> THEN <<>>
  ELSE Append([i \in DOMAIN Duplicates |-> Superseded(Duplicates[i])], Consolidated)

Plan(o) ==
  CASE Asks[o].kind \in {"ingest", "turn"} -> Ingested(Asks[o].ids, Supersedes(o))
    [] Asks[o].kind = "retract" -> <<Retracted(Asks[o].ids[1])>>
    [] Asks[o].kind = "consolidate" -> Merged
    [] OTHER -> <<>>

Throws(o) ==
  CASE Asks[o].kind \in {"ingest", "turn"} -> UnknownTarget(o)
    [] Asks[o].kind = "retract" -> claims.status[Asks[o].ids[1]] = "none"
    [] OTHER -> FALSE

-----------------------------------------------------------------------------

MemoryInit ==
  /\ log = <<>>
  /\ up = TRUE
  /\ claims = Empty
  /\ tail = <<>>
  /\ plan = <<>>
  /\ turns = <<>>
  /\ target = [o \in Ops |-> None]
  /\ faults = 0

(* The routes, learning: an operation joins the queue. *)
Call(o) ==
  /\ up /\ pc[o] = "idle"
  /\ Asks[o].kind \in {"ingest", "retract", "consolidate"}
  /\ tail' = Append(tail, o)
  /\ pc' = [pc EXCEPT ![o] = "queued"]
  /\ UNCHANGED <<log, up, claims, plan, turns, target, faults>>

(* A turn completed: the remembering loop hands it to its worker and waits. *)
TurnCompleted(o) ==
  /\ up /\ pc[o] = "idle"
  /\ Asks[o].kind = "turn"
  /\ turns' = Append(turns, o)
  /\ pc' = [pc EXCEPT ![o] = "deriving"]
  /\ UNCHANGED <<log, up, claims, tail, plan, target, faults>>

(* The worker's first turn: derive looks at the projection, ingest joins the queue. *)
Derive(o) ==
  /\ up /\ turns # <<>> /\ Head(turns) = o
  /\ pc[o] = "deriving"
  /\ target' = [target EXCEPT ![o] = IF Asks[o].corrects THEN LatestPreference ELSE None]
  /\ tail' = Append(tail, o)
  /\ pc' = [pc EXCEPT ![o] = "queued"]
  /\ UNCHANGED <<log, up, claims, plan, turns, faults>>

\* Mutant: a call that threw keeps the queue.
Settled_HoldsQueue(o, how) ==
  /\ pc' = [pc EXCEPT ![o] = how]
  /\ tail' = IF how = "failed" THEN tail ELSE Tail(tail)
  /\ turns' = IF turns # <<>> /\ Head(turns) = o THEN Tail(turns) ELSE turns

(* A settled call leaves both queues, whatever came of it. *)
Settled(o, how) ==
  /\ pc' = [pc EXCEPT ![o] = how]
  /\ tail' = Tail(tail)
  /\ turns' = IF turns # <<>> /\ Head(turns) = o THEN Tail(turns) ELSE turns

(* The call in front looks at the projection: it throws, is done, or awaits the tail. *)
Start(o) ==
  /\ up /\ tail # <<>> /\ Head(tail) = o /\ pc[o] = "queued"
  /\ IF Throws(o)
     THEN Settled(o, "failed") /\ UNCHANGED plan
     ELSE IF Plan(o) = <<>>
     THEN Settled(o, "done") /\ UNCHANGED plan
     ELSE /\ plan' = Plan(o)
          /\ pc' = [pc EXCEPT ![o] = "appending"]
          /\ UNCHANGED <<tail, turns>>
  /\ UNCHANGED <<log, up, claims, target, faults>>

(* The events are stored. *)
Store(o) ==
  /\ up /\ tail # <<>> /\ Head(tail) = o /\ pc[o] = "appending"
  /\ log' = log \o plan
  /\ pc' = [pc EXCEPT ![o] = "folding"]
  /\ UNCHANGED <<up, claims, tail, plan, turns, target, faults>>

(* Then, the append awaited, they are folded. *)
FoldStored(o) ==
  /\ up /\ tail # <<>> /\ Head(tail) = o /\ pc[o] = "folding"
  /\ claims' = FoldLeft(Fold, claims, plan)
  /\ plan' = <<>>
  /\ Settled(o, "done")
  /\ UNCHANGED <<log, up, target, faults>>

\* Mutant: the events are folded before the append is known to have worked.
AppendRefused_Folds(o) ==
  /\ up /\ tail # <<>> /\ Head(tail) = o /\ pc[o] = "appending"
  /\ faults < MaxFaults /\ faults' = faults + 1
  /\ plan' = <<>>
  /\ Settled(o, "failed")
  /\ claims' = FoldLeft(Fold, claims, plan)
  /\ UNCHANGED <<log, up, target>>

(* The store refuses: the call fails and nothing was folded. *)
AppendRefused(o) ==
  /\ up /\ tail # <<>> /\ Head(tail) = o /\ pc[o] = "appending"
  /\ faults < MaxFaults /\ faults' = faults + 1
  /\ plan' = <<>>
  /\ Settled(o, "failed")
  /\ UNCHANGED <<log, up, claims, target>>

Pending == {"deriving", "queued", "appending", "folding", "sent", "probing", "asking"}

Crash ==
  /\ up /\ faults < MaxFaults /\ faults' = faults + 1
  /\ up' = FALSE
  /\ claims' = Empty
  /\ tail' = <<>> /\ plan' = <<>> /\ turns' = <<>>
  /\ pc' = [o \in Ops |-> IF pc[o] \in Pending THEN "lost" ELSE pc[o]]
  /\ UNCHANGED <<log, target>>

(* main.ts: rebuild folds the stream before anything is served. *)
Rebuild ==
  /\ ~up
  /\ Readable(log)
  /\ up' = TRUE
  /\ claims' = Replay(log)
  /\ UNCHANGED <<log, tail, plan, turns, target, pc, faults>>

OnTurn(o) == TurnCompleted(o) \/ Derive(o)
OnQueue(o) == Start(o) \/ Store(o) \/ FoldStored(o)
=============================================================================
