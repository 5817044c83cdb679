----------------------------- MODULE MCKmalloc -----------------------------
EXTENDS Kmalloc, TLC
Symmetry == Permutations(Caller) \union Permutations(Direct)
=============================================================================
