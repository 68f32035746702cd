SPECIFICATION FairSpec
CONSTANTS
  Inputs <- Texts
  Modes = {"parse", "stream"}
  Allocators = {"malloc"}
  MaxKids = 6
  MaxDocs = 6
  MaxFaults = 0
INVARIANTS
  ReadsWhatIsWritten
PROPERTY
  Terminates
