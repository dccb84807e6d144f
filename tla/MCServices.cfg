\* Two table names and one session, two tables at a time; a sequence in -4..3, which stands
\* for i64; two added columns; three messages of two producers; two cached keys; three
\* statements over up to five nodes; a pool of two frames over three pages; three
\* commits of two writers to an Iceberg table.
CONSTANTS
  Names = {a, b}
  ViewNames = {a}
  IndexNames = {i}
  Sessions = {x}
  MaxTables = 2
  MaxFreed = 1
  SequenceValues <- MCSequenceValues
  Increments <- MCIncrements
  I64Max = 3
  Columns = {c1, c2}
  Connections = {x}
  MaxRowId = 2
  MaxPhysical = 3
  NullCell = NullCell
  Producers = {p, q}
  MaxOffset = 3
  MaxTime = 1
  RetentionTime = 0
  MaxKept = 2
  CacheKeys = {k1, k2}
  CacheValues = {v, w}
  Ttl = 1
  MaxNow = 1
  Labels = {"L", "M"}
  Keys = {"p"}
  Vals = {1, 2}
  MaxNodes = 5
  MaxEdges = 4
  MaxStatements = 3
  Clients = {f1, f2}
  PoolSize = 2
  PageSize = 7
  TupleSet <- MCTuples
  MaxPages = 3
  MaxWrites = 3
  Writers = {w1, w2}
  Batches <- MCBatches
  Predicates <- MCPredicates
  MaxCommits = 3
  MaxClock = 3
SPECIFICATION Spec
CHECK_DEADLOCK FALSE
CONSTRAINT Explored
INVARIANTS
  NamesMeanTheirTables
  SequenceNeverRepeats
  
  TruncationIsReported
  
  CacheKeepsWhatItOwes
  
  
  
  
  
