SPECIFICATION Spec
CONSTANTS
  t1 = t1
  t2 = t2
  MaxRoots = 2
  Keys <- MCKeys
  Threads <- MCThreads
  Queries <- MCQueries
  Ids <- MCIds
  MapCap = 2
  ArrCap = 1
  ArrayLens <- MCLens
  ReadNodes = 3
  MaxFaults = 1
VIEW Shape
SYMMETRY Symmetry
CHECK_DEADLOCK FALSE
INVARIANTS
  TypeOK
  Ledger
  NothingDangles
  OneAllocator
  CrashHasCause
  LookupsAnswer
  BuffersReturned
PROPERTIES
  CopiesStayApart
