--------------------------- MODULE MCTransactions ---------------------------
EXTENDS Transactions, TLC

\* The vacuum runs only while some transaction has not begun.
VacuumsAmongFew == vacuum.runs = 0 \/ \E t \in Tx : pc[t] = "begin"

Symmetry == Permutations(Tx) \cup Permutations(Cells)

============================================================================
