------------------------------ MODULE Learning ------------------------------
(***************************************************************************)
(* The slow learning loop: improvement proposals on the learning stream    *)
(* (packages/learning/src), the experiments that test them, the drift      *)
(* monitor that rolls them back, and the activation of a promoted proposal *)
(* as a claim in the user's memory (apps/bee/src/learning-activation.ts,   *)
(* routes/learning.ts).                                                    *)
(*                                                                         *)
(* A job is one request or one run of the timer. Its steps are cut where   *)
(* the code awaits: the tail of the stream is read with the checks that    *)
(* precede it, then the append is sent for that tail and refused if        *)
(* another job has appended; memory takes an operation and answers later,  *)
(* or fails with or without having done it; the evaluator takes its time.  *)
(* Memory keeps the promises of PersonalMemory. What a proposal says, its  *)
(* evidence and the metrics of experiments are choices.                    *)
(***************************************************************************)
EXTENDS Naturals, FiniteSets, Sequences, SequencesExt

CONSTANTS
  Proposals,    \* proposals, those there are and those a run may create
  Target,       \* Target[p]: the target key
  Level,        \* Level[p]: the autonomy level, 0..3
  Skill,        \* the proposals of type skill
  Old,          \* the proposals whose draft is past its expiry
  Jobs,         \* requests and runs
  Asks,         \* Asks[j]: kind, p, to (transitions), new (targets of the patterns a run finds)
  Scenes,       \* Scenes: the jobs, and the status every proposal starts with
  None,         \* no claim
  MaxActive,    \* maxActiveActivations
  MaxNew,       \* maxProposalsPerRun
  MaxFaults     \* crashes and failures of memory

ASSUME LearningAssumption ==
  /\ None \notin Proposals \X Jobs
  /\ IsFiniteSet(Proposals) /\ Skill \subseteq Proposals /\ Old \subseteq Proposals
  /\ Level \in [Proposals -> 0..3]
  /\ MaxActive \in Nat /\ MaxNew \in Nat /\ MaxFaults \in Nat

(* A request names a proposal, a run finds patterns of known targets. *)
ASSUME AsksAssumption ==
  \A j \in Jobs :
    /\ Asks[j].kind \in {"transition", "activate", "experiment"} => Asks[j].p \in Proposals
    /\ Asks[j].kind = "run" => Asks[j].new \in Seq({Target[p] : p \in Proposals})

VARIABLES
  stream,       \* the learning stream
  up,           \* the host serves
  prop,         \* the projection: status and version of every proposal
  claims,       \* claims[p]: the claim that activates p, or None
  memory,       \* memory[c]: status of claim c in the user's memory
  skills,       \* the proposals registered as skills
  job,          \* job[j]: where job j is, and its local values
  faults        \* faults so far

learningVars == <<stream, up, prop, claims, memory, skills, job, faults>>

-----------------------------------------------------------------------------
(* Proposals and their events. *)

(* PROPOSAL_TRANSITIONS *)
Edges ==
  {<<"draft", "testing">>, <<"draft", "review">>, <<"draft", "rejected">>,
   <<"testing", "review">>, <<"testing", "rejected">>,
   <<"review", "testing">>, <<"review", "trial">>, <<"review", "rejected">>,
   <<"trial", "promoted">>, <<"trial", "rolled-back">>,
   <<"promoted", "rolled-back">>}

Open == {"draft", "testing", "review", "trial"}

Created(p) == [type |-> "created", p |-> p]
Changed(p, from, to) == [type |-> "changed", p |-> p, from |-> from, to |-> to]
Activated(p, c) == [type |-> "activated", p |-> p, claim |-> c]
Reverted(p, c) == [type |-> "reverted", p |-> p, claim |-> c]
\* Reports of runs, experiments and drift checks: no projection reads them.
Report == [type |-> "report"]

(* #fold, and what #commit sets: the proposal with its next version. *)
Applied(m, e) ==
  CASE e.type = "created" -> [m EXCEPT ![e.p] = [status |-> "draft", version |-> 1]]
    [] e.type = "changed" ->
         [m EXCEPT ![e.p] = [status |-> e.to, version |-> m[e.p].version + 1]]
    [] OTHER -> m

NoProposals == [p \in Proposals |-> [status |-> "none", version |-> 0]]
Replay(events) == FoldLeft(Applied, NoProposals, events)

(* rebuild of the activation service: the last word of the stream on each proposal. *)
Bound(m, e) ==
  CASE e.type = "activated" -> [m EXCEPT ![e.p] = e.claim]
    [] e.type = "reverted" -> [m EXCEPT ![e.p] = None]
    [] OTHER -> m
Activations(events) == FoldLeft(Bound, [p \in Proposals |-> None], events)

Claims == Proposals \X Jobs
Memory == INSTANCE PersonalMemory WITH
            status <- memory, Ids <- Claims, Says <- [c \in Claims |-> c]

-----------------------------------------------------------------------------
(* Steps that jobs share. *)

Idle == [pc |-> "idle", p |-> None, version |-> 0, ev |-> Report, seen |-> 0,
         then |-> "done", claim |-> None,
         todo |-> <<>>, made |-> {}]

At(j, pc) == up /\ job[j].pc = pc
Goto(j, pc) == job' = [job EXCEPT ![j].pc = pc]

(* The tail is read: the append of ev is on its way, and goes on to then. *)
Sending(r, ev, then) ==
  [r EXCEPT !.pc = "appending", !.ev = ev, !.seen = Len(stream), !.then = then]

(* transition: the version and the edge are checked against the projection. *)
MayMove(p, version, to) ==
  /\ prop[p].status # "none"
  /\ prop[p].version = version
  /\ <<prop[p].status, to>> \in Edges
Moved(p, to) == Changed(p, prop[p].status, to)

HasOpenTarget(key) == \E p \in Proposals : Target[p] = key /\ prop[p].status \in Open

(* What follows a refused append: expiry goes on with the next draft, others give up. *)
AfterConflict(j) == IF job[j].then = "expiring" THEN "expiring" ELSE "failed"

(* The append, and what the code sets once it is stored. *)
AppendEvent(j) ==
  /\ At(j, "appending")
  /\ IF job[j].seen = Len(stream)
     THEN /\ stream' = Append(stream, job[j].ev)
          /\ prop' = Applied(prop, job[j].ev)
          /\ claims' = IF job[j].ev.type = "reverted"
                       THEN [claims EXCEPT ![job[j].ev.p] = None] ELSE claims
          /\ Goto(j, job[j].then)
     ELSE Goto(j, AfterConflict(j)) /\ UNCHANGED <<stream, prop, claims>>
  /\ UNCHANGED <<up, memory, skills, faults>>

UnchangedButJob == UNCHANGED <<stream, up, prop, claims, memory, skills, faults>>

-----------------------------------------------------------------------------
(* POST transition, POST activate. *)

(* The client has read the proposal. *)
Look(j) ==
  /\ At(j, "idle") /\ Asks[j].kind = "transition"
  /\ job' = [job EXCEPT ![j].pc = "looked", ![j].p = Asks[j].p,
                        ![j].version = prop[Asks[j].p].version]
  /\ UnchangedButJob

(* Promoting goes on to apply, rolling back what was promoted goes on to revert. *)
Transition(j) ==
  /\ At(j, "looked")
  /\ LET p == job[j].p
         to == Asks[j].to
         next == CASE to = "promoted" -> "apply"
                   [] to = "rolled-back" /\ prop[p].status = "promoted" -> "revert"
                   [] OTHER -> "done"
     IN  IF MayMove(p, job[j].version, to)
         THEN job' = [job EXCEPT ![j] = Sending(@, Moved(p, to), next)]
         ELSE Goto(j, "refused")
  /\ UnchangedButJob

Activate(j) ==
  /\ At(j, "idle") /\ Asks[j].kind = "activate"
  /\ job' = [job EXCEPT ![j].p = Asks[j].p,
                        ![j].pc = IF prop[Asks[j].p].status = "promoted" THEN "apply" ELSE "refused"]
  /\ UnchangedButJob

-----------------------------------------------------------------------------
(* LearningActivationService *)

InForce == {p \in Proposals : claims[p] # None}

\* Mutant: memory is asked before the activation is on record.
Apply_IngestsFirst(j) ==
  /\ At(j, "apply")
  /\ LET p == job[j].p IN
     IF Level[p] \notin {1, 2} THEN Goto(j, "refused")
     ELSE IF claims[p] # None THEN Goto(j, "done")
     ELSE IF Cardinality(InForce) >= MaxActive THEN Goto(j, "refused")
     ELSE Goto(j, "ingest")
  /\ UnchangedButJob

(* apply: level, existing activation and budget; then the activation goes on record. *)
Apply(j) ==
  /\ At(j, "apply")
  /\ LET p == job[j].p IN
     IF Level[p] \notin {1, 2} THEN Goto(j, "refused")
     ELSE IF claims[p] # None THEN Goto(j, "done")
     ELSE IF Cardinality(InForce) >= MaxActive THEN Goto(j, "refused")
     ELSE job' = [job EXCEPT ![j] = Sending(@, Activated(p, <<p, j>>), "ingest")]
  /\ UnchangedButJob

(* Memory records the claim... *)
Ingest(j) ==
  /\ At(j, "ingest")
  /\ Memory!Record({<<job[j].p, j>>}, {})
  /\ Goto(j, "ingested")
  /\ UNCHANGED <<stream, up, prop, claims, skills, faults>>

(* ... and answers: the activation is in force, a skill is registered next. *)
Adopt(j) ==
  /\ At(j, "ingested")
  /\ claims' = [claims EXCEPT ![job[j].p] = <<job[j].p, j>>]
  /\ Goto(j, IF job[j].p \in Skill THEN "registering" ELSE "done")
  /\ UNCHANGED <<stream, up, prop, memory, skills, faults>>

(* The skill stream is another one; its registration retries a conflict. *)
RegisterSkill(j) ==
  /\ At(j, "registering")
  /\ skills' = skills \cup {job[j].p}
  /\ Goto(j, "done")
  /\ UNCHANGED <<stream, up, prop, claims, memory, faults>>

(* A drift check goes on with the next rollback. *)
AfterReversal(j) == IF Asks[j].kind = "drift" THEN "reverting" ELSE "done"

(* revert: a rollback finds the claim or throws. *)
Revert(j) ==
  /\ At(j, "revert")
  /\ job' = [job EXCEPT ![j].claim = claims[job[j].p],
                        ![j].pc = IF claims[job[j].p] = None THEN "refused" ELSE "retracting"]
  /\ UnchangedButJob

\* Mutant: the reversal goes on record, memory is not asked.
Retract_Skipped(j) ==
  /\ At(j, "retracting")
  /\ Goto(j, "retracted")
  /\ UNCHANGED <<stream, up, prop, claims, memory, skills, faults>>

(* Memory retracts the claim; one it does not know makes it throw. *)
Retract(j) ==
  /\ At(j, "retracting")
  /\ IF memory[job[j].claim] = "none"
     THEN Goto(j, "failed") /\ UNCHANGED memory
     ELSE Memory!Retract(job[j].claim) /\ Goto(j, "retracted")
  /\ UNCHANGED <<stream, up, prop, claims, skills, faults>>

(* The reversal goes on record once memory has answered. *)
RecordReversal(j) ==
  /\ At(j, "retracted")
  /\ job' = [job EXCEPT ![j] = Sending(@, Reverted(@.p, @.claim), AfterReversal(j))]
  /\ UnchangedButJob

(* Memory fails: the call had its effect, or it had not. *)
MemoryFails(j) ==
  /\ At(j, "ingest") \/ At(j, "retracting")
  /\ faults < MaxFaults /\ faults' = faults + 1
  /\ \/ UNCHANGED memory
     \/ At(j, "ingest") /\ Memory!Record({<<job[j].p, j>>}, {})
     \/ At(j, "retracting") /\ Memory!Retract(job[j].claim)
  /\ Goto(j, "failed")
  /\ UNCHANGED <<stream, up, prop, claims, skills>>

-----------------------------------------------------------------------------
(* ExperimentWorld.runForProposal *)

Experiment(j) ==
  /\ At(j, "idle") /\ Asks[j].kind = "experiment"
  /\ LET p == Asks[j].p IN
     job' = [job EXCEPT ![j] =
               IF prop[p].status \in {"draft", "review"}
               THEN [Sending(@, Report, "enter") EXCEPT !.p = p, !.version = prop[p].version]
               ELSE [@ EXCEPT !.pc = "refused"]]
  /\ UnchangedButJob

(* The transition to testing, for the version the experiment began with. *)
EnterTesting(j) ==
  /\ At(j, "enter")
  /\ LET p == job[j].p IN
     IF MayMove(p, job[j].version, "testing")
     THEN job' = [job EXCEPT ![j] = [Sending(@, Moved(p, "testing"), "evaluate")
                                       EXCEPT !.version = job[j].version + 1]]
     ELSE Goto(j, "failed")
  /\ UnchangedButJob

(* The evaluator ends: with a verdict, or with an error that leaves the proposal in testing. *)
Evaluate(j) ==
  /\ At(j, "evaluate")
  /\ \E then \in {"rejected", "review", "failed"} :
       job' = [job EXCEPT ![j] = Sending(@, Report, then)]
  /\ UnchangedButJob

(* The evidence gate, for the version the experiment itself has made. *)
EvidenceGate(j) ==
  /\ At(j, "rejected") \/ At(j, "review")
  /\ LET p == job[j].p IN
     IF MayMove(p, job[j].version, job[j].pc)
     THEN job' = [job EXCEPT ![j] = Sending(@, Moved(p, job[j].pc), "done")]
     ELSE Goto(j, "failed")
  /\ UnchangedButJob

-----------------------------------------------------------------------------
(* LearningLoop.run *)

(* The drafts past their expiry, with the versions they have now. *)
Run(j) ==
  /\ At(j, "idle") /\ Asks[j].kind = "run"
  /\ LET Expired == {p \in Old : prop[p].status = "draft"} IN
     job' = [job EXCEPT ![j].pc = "expiring",
               ![j].todo = SetToSeq({<<p, prop[p].version>> : p \in Expired})]
  /\ UnchangedButJob

(* One draft after the other; what is refused is skipped. *)
Expire(j) ==
  /\ At(j, "expiring")
  /\ LET left == job[j].todo IN
     job' = [job EXCEPT ![j] =
       IF left = <<>> THEN [@ EXCEPT !.pc = "proposing", !.todo = Asks[j].new]
       ELSE LET d == Head(left)
                r == [@ EXCEPT !.todo = Tail(left)]
            IN  IF MayMove(d[1], d[2], "rejected")
                THEN Sending(r, Moved(d[1], "rejected"), "expiring") ELSE r]
  /\ UnchangedButJob

(* A new proposal has an id no other ever had. *)
Fresh(key) ==
  {p \in Proposals : Target[p] = key /\ \A i \in DOMAIN stream :
                       stream[i].type = "created" => stream[i].p # p}

Creating(r, p) ==
  Sending([r EXCEPT !.made = @ \cup {p}], Created(p), "proposing")

\* Mutant: the open targets are not looked at.
Propose_Unchecked(j) ==
  /\ At(j, "proposing")
  /\ LET left == job[j].todo
         r == [job[j] EXCEPT !.todo = Tail(left)]
     IN  \/ /\ left = <<>> \/ Cardinality(job[j].made) >= MaxNew
            /\ job' = [job EXCEPT ![j] = Sending(@, Report, "done")]
         \/ /\ left # <<>> /\ Cardinality(job[j].made) < MaxNew
            /\ \E p \in Fresh(Head(left)) : job' = [job EXCEPT ![j] = Creating(r, p)]
  /\ UnchangedButJob

(* One candidate after the other, while the run may create; a target that has an open *)
(* proposal and a level above 2 are passed over. A refused append ends the run.       *)
Propose(j) ==
  /\ At(j, "proposing")
  /\ LET left == job[j].todo
         r == [job[j] EXCEPT !.todo = Tail(left)]
         ends == left = <<>> \/ Cardinality(job[j].made) >= MaxNew
     IN  \/ ends /\ job' = [job EXCEPT ![j] = Sending(@, Report, "done")]
         \/ ~ends /\ HasOpenTarget(Head(left)) /\ job' = [job EXCEPT ![j] = r]
         \/ /\ ~ends /\ ~HasOpenTarget(Head(left))
            /\ \E p \in Fresh(Head(left)) :
                 job' = [job EXCEPT ![j] = IF Level[p] > 2 THEN r ELSE Creating(r, p)]
  /\ UnchangedButJob

-----------------------------------------------------------------------------
(* DriftMonitor.check, and the reverts of its caller *)

Drift(j) ==
  /\ At(j, "idle") /\ Asks[j].kind = "drift"
  /\ LET active == {p \in Proposals : Activations(stream)[p] # None} IN
     job' = [job EXCEPT ![j].todo = SetToSeq(active),
                        ![j].pc = IF active = {} THEN "done" ELSE "checking"]
  /\ UnchangedButJob

(* A promoted proposal whose metric regressed is rolled back; a refused rollback ends the check. *)
Check(j) ==
  /\ At(j, "checking")
  /\ LET left == job[j].todo IN
     \E regressed \in BOOLEAN :
       job' = [job EXCEPT ![j] =
         IF left = <<>> THEN [Sending(@, Report, "reverting") EXCEPT !.todo = SetToSeq(job[j].made)]
         ELSE LET p == Head(left)
                  r == [@ EXCEPT !.todo = Tail(left)]
              IN  IF prop[p].status = "promoted" /\ regressed
                  THEN [Sending(r, Moved(p, "rolled-back"), "checking")
                          EXCEPT !.made = job[j].made \cup {p}]
                  ELSE r]
  /\ UnchangedButJob

(* revertByProposalId for each rollback; nothing to revert is no error. *)
RevertNext(j) ==
  /\ At(j, "reverting")
  /\ LET left == job[j].todo IN
     job' = [job EXCEPT ![j] =
       IF left = <<>> THEN [@ EXCEPT !.pc = "done"]
       ELSE LET r == [@ EXCEPT !.todo = Tail(left), !.p = Head(left), !.claim = claims[Head(left)]]
            IN  IF r.claim = None THEN r ELSE [r EXCEPT !.pc = "retracting"]]
  /\ UnchangedButJob

-----------------------------------------------------------------------------
(* The host. *)

Steps == <<"draft", "testing", "review", "trial", "promoted">>

(* How a proposal came to its first status, and its activation if it has one. *)
History(p, status) ==
  LET n == IF status = "none" THEN 0 ELSE CHOOSE i \in DOMAIN Steps : Steps[i] = status
  IN  IF n = 0 THEN <<>>
      ELSE <<Created(p)>> \o [i \in 1..n - 1 |-> Changed(p, Steps[i], Steps[i + 1])]

(* before: the promoted proposals were activated by an earlier request. *)
Begun(s, p) ==
  History(p, s.at[p])
  \o IF s.at[p] = "promoted" THEN <<Activated(p, <<p, s.before>>)>> ELSE <<>>

Past(s) == FoldLeft(LAMBDA events, p : events \o Begun(s, p), <<>>, SetToSeq(Proposals))

(* A host was left with at most one open proposal of a target. *)
ASSUME ScenesAssumption ==
  \A s \in Scenes :
    /\ s.at \in [Proposals -> {"none"} \cup {Steps[i] : i \in DOMAIN Steps}]
    /\ s.jobs \subseteq Jobs /\ s.before \in Jobs \ s.jobs
    /\ \A p, q \in Proposals :
         p # q /\ s.at[p] \in Open /\ s.at[q] \in Open => Target[p] # Target[q]

LearningInit ==
  /\ \E s \in Scenes :
       LET old == {p \in Proposals : s.at[p] = "promoted"}
       IN  /\ stream = Past(s)
           /\ memory = [c \in Claims |-> IF c[1] \in old /\ c[2] = s.before THEN "active" ELSE "none"]
           /\ skills = old \cap Skill
           /\ job = [j \in Jobs |-> IF j \in s.jobs THEN Idle ELSE [Idle EXCEPT !.pc = "absent"]]
  /\ up = TRUE
  /\ prop = Replay(stream)
  /\ claims = Activations(stream)
  /\ faults = 0

Settled == {"idle", "absent", "done", "refused", "failed", "lost"}
Quiet == \A j \in Jobs : job[j].pc \in Settled

HostEnds ==
  /\ up /\ faults < MaxFaults /\ faults' = faults + 1
  /\ up' = FALSE
  /\ prop' = NoProposals
  /\ claims' = [p \in Proposals |-> None]
  /\ job' = [j \in Jobs |-> IF job[j].pc \in Settled THEN job[j] ELSE [Idle EXCEPT !.pc = "lost"]]
  /\ UNCHANGED <<stream, memory, skills>>

(* app.ts: every projection is rebuilt before the routes are served. *)
Rebuild ==
  /\ ~up
  /\ up' = TRUE
  /\ prop' = Replay(stream)
  /\ claims' = Activations(stream)
  /\ UNCHANGED <<stream, memory, skills, job, faults>>

LearningNext ==
  \/ \E j \in Jobs :
       \/ AppendEvent(j)
       \/ Look(j) \/ Transition(j) \/ Activate(j)
       \/ Apply(j) \/ Ingest(j) \/ Adopt(j) \/ RegisterSkill(j)
       \/ Revert(j) \/ Retract(j) \/ RecordReversal(j) \/ MemoryFails(j)
       \/ Experiment(j) \/ EnterTesting(j) \/ Evaluate(j) \/ EvidenceGate(j)
       \/ Run(j) \/ Expire(j) \/ Propose(j)
       \/ Drift(j) \/ Check(j) \/ RevertNext(j)
  \/ HostEnds \/ Rebuild

LearningSpec == LearningInit /\ [][LearningNext]_learningVars

-----------------------------------------------------------------------------
(* Properties. *)

(* However runs overlap, and whatever expires between the look and the append, a target    *)
(* has at most one open proposal (loop.ts, hasOpenTarget).                                 *)
OneOpenPerTarget ==
  \A p, q \in Proposals :
    (up /\ p # q /\ prop[p].status \in Open /\ prop[q].status \in Open) => Target[p] # Target[q]

(* A claim that learning put in the user's memory has its activation on record, crashes     *)
(* and lost answers of memory included: there is always a position to cite, and to revert  *)
(* from (learning-activation.ts, "Record the activation first").                           *)
ClaimsAreAccounted ==
  \A c \in Claims : memory[c] # "none" =>
    \E i \in DOMAIN stream : stream[i].type = "activated" /\ stream[i].claim = c

(* A reversal on record means a claim out of memory, for good: no late ingest, repeated     *)
(* activation or failed retraction leaves it active (learning-activation.ts, revert).      *)
RevertedStaysRetracted ==
  \A i \in DOMAIN stream : stream[i].type = "reverted" => memory[stream[i].claim] = "retracted"

=============================================================================
