------------------------------- MODULE MCSql -------------------------------
(* The SQL layer's computations: each behaviour is a sample of the pure       *)
(* algorithms, the B-tree, or a query.                                        *)
EXTENDS MCAlgorithms, MCSqlQueries

algorithmVars == <<btreeVars, sample>>
allVars == <<algorithmVars, vars>>

SqlInit ==
    \/ /\ AlgorithmsInit
       /\ stage = "none" /\ input = "none" /\ rows = <<>> /\ sorter = NoSorter /\ cte = NoCte
    \/ Init /\ BTreeInit /\ sample = [k |-> "none"]

QueryStep == Next /\ UNCHANGED algorithmVars

SqlNext == QueryStep \/ (AlgorithmsNext /\ UNCHANGED vars)

\* A query is run to its end by one thread.
SqlSpec == SqlInit /\ [][SqlNext]_allVars /\ WF_allVars(QueryStep)
=============================================================================
