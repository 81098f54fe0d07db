----------------------------- MODULE MemoryHost -----------------------------
(***************************************************************************)
(* The memory of a host: the embedded provider of Memory, or the remote    *)
(* one (plugins/memory-remote), as main.ts chooses at every start.         *)
(*                                                                         *)
(* The remote provider counts consecutive failures of its transport; at    *)
(* the threshold it refuses calls without asking, until a health() probe   *)
(* is answered. Each change of its status is appended to the same memory   *)
(* stream, one append after the other and behind the back of the caller.   *)
(* Calls overlap and answer in any order. The service behind the transport *)
(* is external: any call of it may be answered or fail.                    *)
(***************************************************************************)
EXTENDS Memory

CONSTANTS
  Threshold,    \* failureThreshold
  Scenes,       \* Scenes: records of the provider and the calls made of it
  Switches      \* the provider may be another after a restart

ASSUME HostAssumption ==
  /\ Threshold \in Nat \ {0}
  /\ Switches \in BOOLEAN
  /\ \A s \in Scenes : s.provider \in {"embedded", "remote"} /\ s.ops \subseteq Ops

VARIABLES
  provider,     \* which provider this host uses
  failures,     \* #consecutiveFailures
  published,    \* #published
  outbox,       \* the health events queued to be appended
  steps,        \* steps[o]: the transport calls o still has to make
  born,         \* history: the length of the stream when the host started
  unrecorded    \* history: an append of a health event was refused

remoteVars == <<provider, failures, published, outbox, steps, born, unrecorded>>
vars == <<memoryVars, remoteVars>>

-----------------------------------------------------------------------------
(* The circuit breaker. *)

Status(n) == CASE n >= Threshold -> "unavailable"
               [] n = 0 -> "healthy"
               [] OTHER -> "degraded"
Breaker == Status(failures)

(* #publish: one event for each change of status. *)
Publish(s) ==
  /\ published' = s
  /\ outbox' = IF s = published THEN outbox
               ELSE Append(outbox, [type |-> "health", id |-> None,
                                    from |-> published, to |-> s])

\* Mutant: the circuit closes without a word.
OnSuccess_Silent ==
  /\ failures' = 0
  /\ UNCHANGED <<published, outbox>>

OnSuccess ==
  IF failures = 0 THEN UNCHANGED <<failures, published, outbox>>
  ELSE failures' = 0 /\ Publish("healthy")

OnFailure ==
  /\ failures' = failures + 1
  /\ Publish(Status(failures + 1))

-----------------------------------------------------------------------------
(* Calls of the remote provider. *)

(* What o asks of the transport: a turn derives and may ingest, recall looks at health first. *)
Script(o) == CASE Asks[o].kind = "turn" -> <<"derive", "ingest">>
               [] Asks[o].kind = "recall" -> <<"health", "buildContext">>
               [] OTHER -> <<Asks[o].kind>>

UnchangedLocal == UNCHANGED <<log, up, claims, tail, plan, target, faults>>

(* The worker takes the next turn when one has settled. *)
Ends(o, how) ==
  /\ pc' = [pc EXCEPT ![o] = how]
  /\ turns' = IF turns # <<>> /\ Head(turns) = o THEN Tail(turns) ELSE turns

(* A caller makes its first call; turns wait at the worker. *)
Begin(o) ==
  /\ provider = "remote" /\ up /\ pc[o] = "idle"
  /\ steps' = [steps EXCEPT ![o] = Script(o)]
  /\ pc' = [pc EXCEPT ![o] = "asking"]
  /\ turns' = IF Asks[o].kind = "turn" THEN Append(turns, o) ELSE turns
  /\ UnchangedLocal
  /\ UNCHANGED <<provider, failures, published, outbox, born, unrecorded>>

InTurn(o) == Asks[o].kind = "turn" => Head(turns) = o

(* #call: an open circuit throws at once; the recall hook then recalls nothing. *)
Ask(o) ==
  /\ provider = "remote" /\ up /\ pc[o] = "asking" /\ InTurn(o)
  /\ Head(steps[o]) # "health"
  /\ IF Breaker = "unavailable"
     THEN Ends(o, IF Asks[o].kind = "recall" THEN "skipped" ELSE "failed")
     ELSE pc' = [pc EXCEPT ![o] = "sent"] /\ UNCHANGED turns
  /\ UnchangedLocal /\ UNCHANGED remoteVars

(* health(): a degraded breaker answers by itself, the others ask the transport. *)
AskHealth(o) ==
  /\ provider = "remote" /\ up /\ pc[o] = "asking"
  /\ Head(steps[o]) = "health"
  /\ IF Breaker = "degraded"
     THEN steps' = [steps EXCEPT ![o] = Tail(@)] /\ UNCHANGED pc
     ELSE /\ pc' = [pc EXCEPT ![o] = IF Breaker = "unavailable" THEN "probing" ELSE "sent"]
          /\ UNCHANGED steps
  /\ UNCHANGED turns /\ UnchangedLocal
  /\ UNCHANGED <<provider, failures, published, outbox, born, unrecorded>>

(* The caller goes on to its next call, or is done. *)
GoOn(o) ==
  /\ steps' = [steps EXCEPT ![o] = Tail(@)]
  /\ IF Tail(steps[o]) = <<>> THEN Ends(o, "done")
     ELSE pc' = [pc EXCEPT ![o] = "asking"] /\ UNCHANGED turns

(* A call is answered; a turn from which nothing was derived ingests nothing. *)
Answered(o) ==
  /\ provider = "remote" /\ up /\ pc[o] = "sent" /\ Head(steps[o]) # "health"
  /\ OnSuccess
  /\ \/ GoOn(o)
     \/ Head(steps[o]) = "derive" /\ Ends(o, "done") /\ UNCHANGED steps
  /\ UnchangedLocal /\ UNCHANGED <<provider, born, unrecorded>>

(* A call fails: the breaker counts it, the caller is told, the recall hook recalls nothing. *)
Failed(o) ==
  /\ provider = "remote" /\ up /\ pc[o] = "sent" /\ Head(steps[o]) # "health"
  /\ OnFailure
  /\ Ends(o, IF Asks[o].kind = "recall" THEN "skipped" ELSE "failed")
  /\ UnchangedLocal /\ UNCHANGED <<provider, steps, born, unrecorded>>

(* health() is answered: an open circuit closes; the service may call itself unavailable. *)
HealthAnswered(o) ==
  /\ provider = "remote" /\ up /\ pc[o] \in {"sent", "probing"} /\ Head(steps[o]) = "health"
  /\ IF pc[o] = "probing" THEN OnSuccess ELSE UNCHANGED <<failures, published, outbox>>
  /\ \/ GoOn(o)
     \/ Ends(o, "skipped") /\ UNCHANGED steps
  /\ UnchangedLocal /\ UNCHANGED <<provider, born, unrecorded>>

(* health() fails: of an open circuit that is an outage, of a closed one only a report. *)
HealthFailed(o) ==
  /\ provider = "remote" /\ up /\ pc[o] \in {"sent", "probing"} /\ Head(steps[o]) = "health"
  /\ IF pc[o] = "probing" THEN Ends(o, "skipped") /\ UNCHANGED steps ELSE GoOn(o)
  /\ UnchangedLocal
  /\ UNCHANGED <<provider, failures, published, outbox, born, unrecorded>>

(* #append of the next queued health event. *)
RecordHealth ==
  /\ up /\ outbox # <<>>
  /\ log' = Append(log, Head(outbox))
  /\ outbox' = Tail(outbox)
  /\ UNCHANGED <<up, claims, tail, plan, turns, target, pc, faults>>
  /\ UNCHANGED <<provider, failures, published, steps, born, unrecorded>>

(* A refused append is swallowed: the transition has happened. *)
HealthRefused ==
  /\ up /\ outbox # <<>>
  /\ faults < MaxFaults /\ faults' = faults + 1
  /\ outbox' = Tail(outbox)
  /\ unrecorded' = TRUE
  /\ UNCHANGED <<log, up, claims, tail, plan, turns, target, pc>>
  /\ UNCHANGED <<provider, failures, published, steps, born>>

-----------------------------------------------------------------------------
(* The host. *)

Init ==
  /\ MemoryInit
  /\ \E s \in Scenes :
       /\ provider = s.provider
       /\ pc = [o \in Ops |-> IF o \in s.ops THEN "idle" ELSE "absent"]
  /\ failures = 0 /\ published = "healthy" /\ outbox = <<>>
  /\ steps = [o \in Ops |-> <<>>]
  /\ born = 0 /\ unrecorded = FALSE

(* The embedded provider's actions leave the remote one alone. *)
Embedded(o) ==
  /\ provider = "embedded"
  /\ Call(o) \/ OnTurn(o) \/ OnQueue(o) \/ AppendRefused(o)
  /\ UNCHANGED remoteVars

HostCrash ==
  /\ Crash
  /\ failures' = 0 /\ published' = "healthy" /\ outbox' = <<>>
  /\ unrecorded' = FALSE
  /\ UNCHANGED <<provider, steps, born>>

(* The environment of the new process names the provider; only the embedded one is rebuilt. *)
Restart ==
  /\ ~up
  /\ \E p \in IF Switches THEN {"embedded", "remote"} ELSE {provider} :
       /\ provider' = p
       /\ IF p = "embedded" THEN Rebuild
          ELSE up' = TRUE /\ UNCHANGED <<log, claims, tail, plan, turns, target, pc, faults>>
  /\ born' = Len(log)
  /\ UNCHANGED <<failures, published, outbox, steps, unrecorded>>

Answer(o) == Answered(o) \/ Failed(o) \/ HealthAnswered(o) \/ HealthFailed(o)

Next ==
  \/ \E o \in Ops : Embedded(o) \/ Begin(o) \/ Ask(o) \/ AskHealth(o) \/ Answer(o)
  \/ RecordHealth \/ HealthRefused
  \/ HostCrash \/ Restart

(* Calls reach their end, the transport answers or fails, the host is started again. *)
Progress ==
  \/ \E o \in Ops : \/ provider = "embedded" /\ (Derive(o) \/ OnQueue(o)) /\ UNCHANGED remoteVars
                    \/ Ask(o) \/ AskHealth(o) \/ Answer(o)
  \/ RecordHealth
  \/ Restart

Spec == Init /\ [][Next]_vars
FairSpec == Spec /\ WF_vars(Progress)

-----------------------------------------------------------------------------
(* Properties. *)

(* What memory is: the projection while the embedded host serves, the stream while it does *)
(* not. Claims are recorded, merged and forgotten as PersonalMemory says, whatever is      *)
(* queued, refused or cut off by a crash, also one between an append and its fold, which   *)
(* then counts; a crash or a restart changes nothing else (embedded-memory.ts, its opening *)
(* comment).                                                                               *)
Known == IF up /\ provider = "embedded" THEN claims ELSE Replay(log)
Provider == INSTANCE PersonalMemory WITH status <- Known.status
ImplementsProvider == Provider!Spec

(* Within one life of the host, every change of the breaker's status is on record or about *)
(* to be, in the order it happened and each from where the last one ended: an outage is    *)
(* never silent (remote-memory.ts, its opening comment). A refused append excuses it.      *)
Life == SubSeq(log, born + 1, Len(log)) \o outbox
HealthIsOnRecord ==
  (provider = "remote" /\ up /\ ~unrecorded) =>
    LET Status0(i) == IF i = 0 THEN "healthy" ELSE Life[i].to
    IN  /\ \A i \in DOMAIN Life : Life[i].from = Status0(i - 1) /\ Life[i].to # Life[i].from
        /\ Status0(Len(Life)) = Breaker

(* Whatever fails, is refused or crashes, no call waits for ever: the queue of the provider *)
(* and the worker's go on after a call that threw, the circuit never leaves one unanswered. *)
(* The calls are finite in number, so "again and again none is pending" says it of each.    *)
OpsSettle == []<>(\A o \in Ops : pc[o] \notin Pending)

=============================================================================
