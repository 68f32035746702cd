SPECIFICATION FairSpec
CONSTANTS
  Inputs <- FlowTexts
  Modes = {"parse"}
  Allocators = {"malloc"}
  MaxKids = 6
  MaxDocs = 1
  MaxFaults = 0
PROPERTY
  Terminates
