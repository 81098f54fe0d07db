----------------------------- MODULE MCLearning -----------------------------
EXTENDS Learning
CONSTANTS p1, p2, p3, p4, k, k1

MCProposals == {p1, p2, p3, p4}
\* p1 is for one target, the others are for another.
MCTarget == [p \in MCProposals |-> IF p = p1 THEN k1 ELSE k]
MCLevel == [p \in MCProposals |-> CASE p = p2 -> 0 [] p = p4 -> 3 [] OTHER -> 2]
MCJobs == 0..9
Ask(kind, p, to, new) == [kind |-> kind, p |-> p, to |-> to, new |-> new]
MCAsks == [j \in MCJobs |->
  CASE j = 0 -> Ask("activate", p1, "", <<>>)
    [] j = 1 -> Ask("transition", p1, "promoted", <<>>)
    [] j = 2 -> Ask("transition", p1, "rolled-back", <<>>)
    [] j = 3 -> Ask("activate", p1, "", <<>>)
    [] j = 4 -> Ask("drift", None, "", <<>>)
    [] j = 5 -> Ask("experiment", p2, "", <<>>)
    [] j = 6 -> Ask("transition", p2, "rejected", <<>>)
    [] j = 7 -> Ask("run", None, "", <<k, k1>>)
    [] j = 8 -> Ask("run", None, "", <<k>>)
    [] OTHER -> Ask("transition", p2, "promoted", <<>>)]
Scene(a1, a2, a3, jobs) ==
  [at |-> [p \in MCProposals |-> CASE p = p1 -> a1 [] p = p2 -> a2 [] p = p3 -> a3 [] OTHER -> "none"],
   jobs |-> jobs, before |-> 0]
MCScenes ==
  { Scene("trial", "none", "none", {1, 2, 3, 4}),   \* promoted, activated again, rolled back
    Scene("promoted", "trial", "none", {2, 4, 9}),  \* rolled back twice over; a promotion beside it
    Scene("promoted", "none", "promoted", {2, 3, 4}),\* two activations, drift and a rollback
    Scene("none", "draft", "none", {5, 6, 7, 8}),   \* an experiment, a decision and an expiring run
    Scene("none", "none", "none", {7, 8}) }         \* two runs that overlap
=============================================================================
