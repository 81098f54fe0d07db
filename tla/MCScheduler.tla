----------------------------- MODULE MCScheduler -----------------------------
(***************************************************************************)
(* A recurring trigger beside a one-shot one, or a condition by itself; an *)
(* interval of two ticks and a clock that reaches it.                      *)
(***************************************************************************)
EXTENDS Scheduler

CONSTANTS i1, i2

Mix(k1, k2) == (i1 :> k1) @@ (i2 :> k2)

Several == {Mix("every", "once"), Mix("task", "unused"), Mix("event", "unused")}

=============================================================================
