----------------------------- MODULE MCConsole ------------------------------
(* Bounds of Console for TLC, and the variations a plausible bug would make. *)
EXTENDS Console

CONSTANTS t1, t2, k1, k2, rename, web, other

MCThreads == {t1, t2}
MCTurns == {k1, k2}
MCWriters == MCTurns \cup {rename}
MCClients == {web, other}

\* The console watches a thread, goes to another one and back, and renames one.
Watching ==
    [clients |-> {web}, threads |-> MCThreads, turns |-> {k1}, events |-> 6,
     deltas |-> 1, approvals |-> 0, renames |-> 1, stops |-> FALSE, faults |-> 0]

\* A client follows a thread beside a turn and a rename, and reconnects.
Following ==
    [clients |-> {other}, threads |-> {t1}, turns |-> {k1}, events |-> 5,
     deltas |-> 1, approvals |-> 0, renames |-> 1, stops |-> FALSE, faults |-> 1]

\* Prompts, answers, and the threads they are given on.
Prompting ==
    [clients |-> {}, threads |-> MCThreads, turns |-> MCTurns, events |-> 8,
     deltas |-> 0, approvals |-> 2, renames |-> 0, stops |-> TRUE, faults |-> 1]

MCScenes == {Watching, Following, Prompting}
=============================================================================
