------------------------------ MODULE MCKernel ------------------------------
EXTENDS Kernel, TLC

Sym == Permutations(User)
=============================================================================
