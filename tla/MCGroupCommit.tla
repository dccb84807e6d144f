---------------------------- MODULE MCGroupCommit ----------------------------
EXTENDS GroupCommit, TLC

Symmetry == Permutations(Committers)

============================================================================
