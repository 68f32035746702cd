SPECIFICATION FairSpec
CONSTANTS
  Inputs <- Texts
  Modes = {"parse", "stream"}
  Allocators = {"malloc"}
  MaxKids = 6
  MaxDocs = 3
  MaxFaults = 0
INVARIANTS
  TypeOK
  CallDepth
  IndentNests
  AnchorScope
PROPERTIES
  ErrorUnwinds
  BlockTextsEnd
  ErrorEnds
