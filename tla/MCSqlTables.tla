---------------------------- MODULE MCSqlTables ----------------------------
(* SqlTables for TLC. Sessions and values are interchangeable. *)
EXTENDS SqlTables, TLC

Symmetry == Permutations(Sessions) \cup Permutations(Values)
=============================================================================
