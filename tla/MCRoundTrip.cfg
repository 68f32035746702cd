SPECIFICATION Spec
CONSTANTS
  Jobs <- Calls
  BlockCap = 2
  MaxTokens = 4
  MaxKids = 4
  MaxDepth = 3
INVARIANTS
  RoundTrips
  BufferHolds
PROPERTY
  NothingAfterOverflow
