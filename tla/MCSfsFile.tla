---- MODULE MCSfsFile ----
EXTENDS SfsFile, TLC
Symmetry == Permutations(File) \union Permutations(Handle) \union Permutations(Value)
====
