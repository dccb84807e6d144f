SPECIFICATION FairSpec
CONSTANTS
  N = 3
  W = 2
  R = 2
  Computes = {c1, c2}
  First = c1
  Keys = {k1}
  MaxCalls = 2
  MaxChores = 2
INVARIANTS AckedOnQuorum FencedWriterStops
PROPERTY CallsReturn
CHECK_DEADLOCK FALSE
