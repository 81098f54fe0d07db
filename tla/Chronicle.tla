------------------------------ MODULE Chronicle ------------------------------
(***************************************************************************)
(* The append contract of the Chronicle, the event store under every other *)
(* component: a stream is an append-only sequence, an append names the     *)
(* sequence number it expects to write first, and the whole batch is       *)
(* stored in one SQLite transaction or not at all.                         *)
(*                                                                         *)
(* An event is any value that identifies it (the code compares eventId).   *)
(***************************************************************************)
EXTENDS Naturals, Sequences

\* The sequence number an appender that has just read the tail expects to write.
NextSequence(stream) == Len(stream) + 1

\* The stored window at `expected` holds these very events: a retried append.
IsReplay(stream, events, expected) ==
    /\ expected + Len(events) <= NextSequence(stream)
    /\ \A i \in DOMAIN events : stream[expected + i - 1] = events[i]

\* The append is refused with ChronicleSequenceConflictError.
Conflicts(stream, events, expected) ==
    /\ events # <<>>
    /\ \/ expected < 1
       \/ expected > NextSequence(stream)
       \/ /\ expected < NextSequence(stream)
          /\ ~ IsReplay(stream, events, expected)

\* The stream after an append that is not refused: a replay stores nothing.
Appended(stream, events, expected) ==
    IF expected = NextSequence(stream) THEN stream \o events ELSE stream

=============================================================================
