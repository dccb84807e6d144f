------------------------------ MODULE MCMVStore ------------------------------
EXTENDS MVStore, TLC

Symmetry == Permutations(Keys)

\* A third checkpoint or rewrite only before the first crash and with one commit.
Explored == started.jobs > 2 => started.commits <= 1 /\ run = 1

============================================================================
