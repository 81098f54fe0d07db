-------------------------- MODULE MCExecutionWorld --------------------------
(***************************************************************************)
(* Three calls on one idempotency key, with two different requests: one    *)
(* that executes and two that wait for it, or one per process life.        *)
(***************************************************************************)
EXTENDS ExecutionWorld, TLC

\* Calls and digests are interchangeable (safety only).
Symmetry == Permutations(Calls) \union Permutations(Digests)

=============================================================================
