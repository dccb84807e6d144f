SPECIFICATION FairSpec
CONSTANTS
  Standbys = {s1, s2}
  Keys = {k1, k2}
  Capacity = 2
  MaxVersion = 2
  MaxConnects = 2
PROPERTIES ImplementsRemoteApply StandbyCatchesUp
CHECK_DEADLOCK FALSE
