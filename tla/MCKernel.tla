------------------------------ MODULE MCKernel ------------------------------
(***************************************************************************)
(* Three structures: b is a's tier-a variant, a and c differ in a tier-c   *)
(* plugin, b and c swap generations. Three generations, so that two turns  *)
(* can pin two old ones while a third serves.                              *)
(***************************************************************************)
EXTENDS Kernel

\* Turns and generations are interchangeable (safety only).
Symmetry == Permutations(Turns) \union Permutations(Gens)

=============================================================================
