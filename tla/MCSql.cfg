\* The B-tree with two entries a page; queries over tables of up to four rows.
CONSTANTS
  Keys <- MCKeys
  MaxEntries = 2
  Base = 4
  Width = 4
  F64Exact = 8
  DayTicks = 4
  Families <- MCFamilies
  WorkMem = 2
  MaxMaterialized = 3
  MaxIterations = 5
  IntMax = 1
SPECIFICATION SqlSpec
CHECK_DEADLOCK FALSE
INVARIANTS
  TreeIsTheMap
  EncodingsReadBack
  ValuesCompareAndCompute
  
  
  
PROPERTIES
  QueriesEnd
