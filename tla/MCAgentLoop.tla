----------------------------- MODULE MCAgentLoop -----------------------------
(***************************************************************************)
(* Scenes on one thread. In the first, three runs come one after the other *)
(* and every call needs an approval: turns after each other, a turn with   *)
(* two approvals, crashes, refused appends and what is taken up after      *)
(* them. In the second, the calls of a step run side by side, one of them  *)
(* suspends or is refused, and the turn is taken up again. In the third,   *)
(* two runs overlap.                                                       *)
(***************************************************************************)
EXTENDS AgentLoop, TLC

CONSTANTS r1, r2, r3, c1, c2

MCRuns == {r1, r2, r3}
MCCalls == {c1, c2}

InTurn == [asks |-> {c1, c2}, parallel |-> {}, runs |-> 3, active |-> 1, faults |-> 2]
SideBySide(c) == [asks |-> {c}, parallel |-> {c1, c2}, runs |-> 3, active |-> 1, faults |-> 1]
Overlapping(c) == [asks |-> {c}, parallel |-> {c1, c2}, runs |-> 2, active |-> 2, faults |-> 0]

MCScenes == {InTurn} \union {SideBySide(c) : c \in MCCalls} \union {Overlapping(c) : c \in MCCalls}

\* Runs have only their names; a scene is there for each call that may be asked for.
Names == Permutations(MCRuns) \union Permutations(MCCalls)

=============================================================================
