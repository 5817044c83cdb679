---------------------------- MODULE MCOpenFiles ----------------------------
EXTENDS OpenFiles, TLC
Symmetry == Permutations(Proc)
=============================================================================
