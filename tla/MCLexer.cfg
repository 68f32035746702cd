SPECIFICATION Spec
CONSTANTS
  Sources <- Texts
  TokenCap = 2
  BlockCap = 2
  MaxFaults = 2
  MaxTokens = 6
INVARIANTS
  TypeOK
  Places
  LosesNothing
  TokensFitParser
  QuotesClose
  BlockBody
  InferAsDocumented
  FoldByRuns
  DecodesWhatIsEncoded
  FailureReported
PROPERTY
  Advances
