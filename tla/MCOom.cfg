SPECIFICATION Spec
CONSTANTS
  Inputs <- Texts
  Modes = {"parse"}
  Allocators = {"malloc"}
  MaxKids = 6
  MaxDocs = 1
  MaxFaults = 1
INVARIANT
  FailuresReported
