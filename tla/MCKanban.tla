------------------------------ MODULE MCKanban ------------------------------
(***************************************************************************)
(* Two clients on small boards; see the configurations for the bounds.     *)
(***************************************************************************)
EXTENDS Kanban

\* Clients, tasks, workers and keys are interchangeable (safety only).
Symmetry == Permutations(Clients) \union Permutations(Tasks)

=============================================================================
