------------------------------- MODULE MCWorld --------------------------------
EXTENDS World, TLC

Symmetry == Permutations(Streams) \union Permutations(Resources)
=============================================================================
