-------------------------------- MODULE World --------------------------------
(***************************************************************************)
(* The world projection: facts derived from what other streams record,     *)
(* kept in memory, written to the `world` stream with a digest after every *)
(* change, replayed and verified at the next start.                        *)
(*                                                                         *)
(* One action is the code between two awaits. Only this process writes the *)
(* world stream, one record at a time, so its appends meet no conflict;    *)
(* they may fail. The process may die anywhere.                            *)
(*                                                                         *)
(* Abstracted: a digest is the state it digests, or Bad for one that       *)
(* matches no state (the write defect the code says production has seen);  *)
(* the entity and relation events of a record, which are stored in one     *)
(* transaction, are one entry; attributes and validity are left out; every *)
(* record is made at a later time than those before it.                    *)
(***************************************************************************)
EXTENDS Naturals, Sequences, FiniteSets, SequencesExt

CONSTANTS
    Streams,     \* thread and execution streams the projectors want
    Resources,   \* tools, files and executables an event may name
    Actor,       \* the entity of the agent
    MaxEvents,   \* bound: events of a stream
    MaxStarts,   \* bound: starts of the host
    MaxDefects,  \* bound: records with a wrong digest
    MaxFaults,   \* bound: appends to the world stream that fail
    Bad          \* a digest of nothing

ASSUME WorldAssumption == Actor \notin Resources /\ {MaxEvents, MaxStarts} \subseteq Nat

VARIABLES
    source,    \* Streams -> sequence of events: the set of resources each names
    stream,    \* the world stream
    phase,     \* WorldProjectionService: down, reading, recording, live
    toRead,    \* streams the catch-up has still to read
    caught,    \* what it has read
    queue,     \* #tail: the inputs of the record calls to come
    world,     \* #entities and #relations
    version,   \* #version
    appended,  \* the world and version of a record on the stream but not yet in memory
    missed,    \* history: events of this start that no record will carry
    starts, defects, faults

worldVars == <<source, stream, phase, toRead, caught, queue, world, version, appended, missed,
               starts, defects, faults>>

Nobody == [r \in {} |-> 0]

\* entities: id -> when first and last seen; relations: the ids that are known.
Empty == [entities |-> Nobody, relations |-> {}]

Nothing == [world |-> Empty, version |-> 0]

WorldInit ==
    /\ source = [s \in Streams |-> <<>>]
    /\ stream = <<>> /\ phase = "down" /\ toRead = {} /\ caught = {} /\ queue = <<>>
    /\ world = Empty /\ version = 0 /\ appended = Nothing /\ missed = {}
    /\ starts = 0 /\ defects = 0 /\ faults = 0

-----------------------------------------------------------------------------
(* Projectors and the fold                                                 *)

\* The facts of an event at a position <<stream, sequence>>: the agent used, or
\* depends on, each resource. The id is derived from the position.
Facts(positions) ==
    UNION {{<<p, r>> : r \in source[p[1]][p[2]]} : p \in positions}

\* #projectOne: the events of a stream that project to something.
Wanted(s) == {<<s, i>> : i \in {i \in DOMAIN source[s] : source[s][i] # {}}}

Named(positions) ==
    IF positions = {} THEN {} ELSE {Actor} \union {f[2] : f \in Facts(positions)}

\* mergeEntity: an entity keeps the time it was first seen.
Merged(entities, ids, seenAt) ==
    [e \in DOMAIN entities \union ids |->
        IF e \notin ids THEN entities[e]
        ELSE [first |-> IF e \in DOMAIN entities THEN entities[e].first ELSE seenAt,
              last |-> seenAt]]

\* What a record of positions makes of the world.
Recorded(positions, now) ==
    [entities |-> Merged(world.entities, Named(positions), now),
     relations |-> world.relations \union Facts(positions)]

\* #fold of what a record stored: the entities it names, each in its recorded form.
Folded(w, entry) ==
    [entities |-> Merged(w.entities, DOMAIN entry.entities, entry.at),
     relations |-> w.relations \union entry.relations]

-----------------------------------------------------------------------------
(* Recording                                                               *)

Now == Len(stream) + 1

Entry(positions, next) ==
    [kind |-> "facts", at |-> Now, relations |-> Facts(positions),
     entities |-> [e \in Named(positions) |-> next.entities[e]]]

Bump(v, digest) == [kind |-> "bump", version |-> v, digest |-> digest]

\* The record at the head of the queue is on the stream; its digest may be wrong.
RecordStored(digest) ==
    /\ queue # <<>> /\ appended = Nothing
    /\ LET next == Recorded(Head(queue), Now)
           sum == IF digest = Bad THEN Bad ELSE next IN
       /\ stream' = stream \o <<Entry(Head(queue), next), Bump(version + 1, sum)>>
       /\ appended' = [world |-> next, version |-> version + 1]
    /\ defects' = IF digest = Bad THEN defects + 1 ELSE defects
    /\ defects' <= MaxDefects
    /\ UNCHANGED <<source, phase, toRead, caught, queue, world, version, missed, starts, faults>>

\* record() resolves: only now are the new facts in memory.
RecordEnds ==
    /\ appended # Nothing
    /\ world' = appended.world /\ version' = appended.version
    /\ appended' = Nothing /\ queue' = Tail(queue)
    /\ UNCHANGED <<source, stream, phase, toRead, caught, missed, starts, defects, faults>>

\* Mutant: the world is advanced before the append.
RecordFails_Folds ==
    /\ queue # <<>> /\ appended = Nothing /\ faults < MaxFaults
    /\ faults' = faults + 1
    /\ queue' = Tail(queue)
    /\ missed' = missed \union Head(queue)
    /\ world' = Recorded(Head(queue), Now)
    /\ UNCHANGED <<source, stream, phase, toRead, caught, version, appended, starts, defects>>

\* The append is refused: the input is dropped, the queue goes on.
RecordFails ==
    /\ queue # <<>> /\ appended = Nothing /\ faults < MaxFaults
    /\ faults' = faults + 1
    /\ queue' = Tail(queue)
    /\ missed' = missed \union Head(queue)
    /\ UNCHANGED <<source, stream, phase, toRead, caught, world, version, appended, starts,
                   defects>>

-----------------------------------------------------------------------------
(* rebuild({ onDrift: 'rebase' })                                          *)

\* One bump that does not match may be a defect that the next one repairs; two in
\* a row are a drift, and the stream, not its digests, is believed.
Verified(scan, bump) ==
    IF bump.digest = scan.world THEN [scan EXCEPT !.version = bump.version, !.pending = 0]
    ELSE IF scan.pending = 0 THEN [scan EXCEPT !.pending = bump.version]
    ELSE [scan EXCEPT !.drifted = scan.pending, !.pending = 0,
                      !.version = Max({@, bump.version})]

\* One entry of the stream replayed.
Reread(scan, entry) ==
    IF entry.kind = "bump" THEN Verified(scan, entry)
    ELSE [scan EXCEPT !.world = Folded(@, entry)]

Unread == [world |-> Empty, version |-> 0, pending |-> 0, drifted |-> 0]

Replay == FoldLeft(Reread, Unread, stream)

Bumps == {i \in DOMAIN stream : stream[i].kind = "bump"}

LastBump == IF Bumps = {} THEN Bump(0, Empty) ELSE stream[Max(Bumps)]

NeedsCorrection == (Replay.pending # 0 \/ Replay.drifted # 0) /\ LastBump.digest # Replay.world

\* The corrective bump is numbered past everything on the stream.
Corrected(scan) ==
    LET drifted == IF scan.pending # 0 THEN scan.pending ELSE scan.drifted
    IN Max({scan.version, drifted + 1, scan.pending}) + 1

-----------------------------------------------------------------------------
(* The host                                                                *)

\* buildBeeServer: rebuild, append the correction if there is one, and start the
\* catch-up with the streams that exist.
Start ==
    /\ phase = "down" /\ starts < MaxStarts
    /\ starts' = starts + 1
    /\ phase' = "reading"
    /\ toRead' = {s \in Streams : source[s] # <<>>}
    /\ world' = Replay.world
    /\ IF NeedsCorrection
       THEN /\ version' = Corrected(Replay)
            /\ stream' = Append(stream, Bump(Corrected(Replay), Replay.world))
       ELSE version' = Replay.version /\ UNCHANGED stream
    /\ UNCHANGED <<source, caught, queue, appended, missed, defects, faults>>

\* The correction cannot be appended: the host does not come up.
StartFails ==
    /\ phase = "down" /\ starts < MaxStarts /\ NeedsCorrection /\ faults < MaxFaults
    /\ faults' = faults + 1 /\ starts' = starts + 1
    /\ UNCHANGED <<source, stream, phase, toRead, caught, queue, world, version, appended,
                   missed, defects>>

\* #enqueue with nothing to record returns at once.
Enqueued(positions) == IF positions = {} THEN queue ELSE Append(queue, positions)

\* The catch-up reads a stream from its beginning.
ReadStream(s) ==
    /\ phase = "reading" /\ s \in toRead
    /\ toRead' = toRead \ {s}
    /\ caught' = caught \union Wanted(s)
    /\ UNCHANGED <<source, stream, phase, queue, world, version, appended, missed, starts,
                   defects, faults>>

\* All is read: one record for all of it.
CaughtUp ==
    /\ phase = "reading" /\ toRead = {}
    /\ phase' = "recording"
    /\ queue' = Enqueued(caught)
    /\ UNCHANGED <<source, stream, toRead, caught, world, version, appended, missed, starts,
                   defects, faults>>

\* settled(): then appends are listened to.
Subscribe ==
    /\ phase = "recording" /\ queue = <<>>
    /\ phase' = "live"
    /\ UNCHANGED <<source, stream, toRead, caught, queue, world, version, appended, missed,
                   starts, defects, faults>>

\* Mutant: events are not projected while a record is being made.
Broadcast_WhenIdle(s, position, names) ==
    IF phase = "live" /\ names # {} /\ queue = <<>>
    THEN queue' = Append(queue, {position}) /\ UNCHANGED missed
    ELSE /\ missed' = IF names # {} /\ s \notin toRead /\ phase # "live"
                      THEN missed \union {position} ELSE missed
         /\ UNCHANGED queue

\* The store's broadcast of an append: heard when live; before that an event is
\* only read if its stream is.
Broadcast(s, position, names) ==
    IF phase = "live" /\ names # {}
    THEN queue' = Append(queue, {position}) /\ UNCHANGED missed
    ELSE /\ missed' = IF names # {} /\ s \notin toRead THEN missed \union {position} ELSE missed
         /\ UNCHANGED queue

\* A turn or an action appends an event to its stream.
AppendSource(s, names) ==
    /\ phase # "down" /\ Len(source[s]) < MaxEvents
    /\ source' = [source EXCEPT ![s] = Append(@, names)]
    /\ Broadcast(s, <<s, Len(source[s]) + 1>>, names)
    /\ UNCHANGED <<stream, phase, toRead, caught, world, version, appended, starts, defects,
                   faults>>

\* The process ends, at any await.
Crash ==
    /\ phase # "down"
    /\ phase' = "down" /\ toRead' = {} /\ caught' = {} /\ queue' = <<>>
    /\ world' = Empty /\ version' = 0 /\ appended' = Nothing /\ missed' = {}
    /\ UNCHANGED <<source, stream, starts, defects, faults>>

-----------------------------------------------------------------------------

WorldNext ==
    \/ Start
    \/ StartFails
    \/ \E s \in Streams : ReadStream(s)
    \/ CaughtUp
    \/ Subscribe
    \/ \E s \in Streams, names \in SUBSET Resources : AppendSource(s, names)
    \/ \E digest \in {"sha256", Bad} : RecordStored(digest)
    \/ RecordEnds
    \/ RecordFails
    \/ Crash

WorldSpec == WorldInit /\ [][WorldNext]_worldVars

-----------------------------------------------------------------------------
(* Properties                                                              *)

\* What is in memory is what a rebuild would make of the stream now, whatever
\* failed, crashed, was mis-digested or was recorded again by a later catch-up:
\* every entity with both its times, and the version of the last bump
\* (world.ts #recordNow, rebuild).
WorldIsReplay ==
    phase # "down" /\ appended = Nothing =>
        world = Replay.world /\ version = LastBump.version

\* When nothing is queued, the world holds the facts of every event on the
\* streams, and of nothing else. Only those may be absent whose record failed or
\* that came between the reading of their stream and the subscription, in this
\* start: the next one makes them good (world-runtime.ts start, #enqueue).
WorldIsProjection ==
    phase = "live" /\ queue = <<>> =>
        LET events == UNION {Wanted(s) : s \in Streams} IN
        /\ Facts(events \ missed) \subseteq world.relations
        /\ world.relations \subseteq Facts(events)
        /\ Named(events \ missed) \subseteq DOMAIN world.entities

=============================================================================
