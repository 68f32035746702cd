SPECIFICATION Spec
CONSTANTS
  Inputs <- StreamTexts
  Modes = {"stream"}
  Allocators = {"malloc"}
  MaxKids = 6
  MaxDocs = 3
  MaxFaults = 0
INVARIANT
  DocumentsAreMarked
