SPECIFICATION Spec
CONSTANTS
  Inputs <- Texts
  Modes = {"parse", "stream"}
  Allocators = {"malloc", "custom"}
  MaxKids = 6
  MaxDocs = 2
  MaxFaults = 1
INVARIANT
  NothingFreedTwice
PROPERTY
  HeapConserved
