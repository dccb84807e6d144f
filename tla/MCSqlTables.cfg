SPECIFICATION Spec
CONSTANTS
  Sessions = {s1, s2}
  Values = {v1, v2}
  Null = Null
  MaxStatements = 2
SYMMETRY Symmetry
INVARIANTS IndexesMatchRows ConstraintsHold
CHECK_DEADLOCK FALSE
