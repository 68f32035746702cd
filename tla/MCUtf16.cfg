SPECIFICATION Spec
CONSTANTS
  Sources <- Utf16Texts
  TokenCap = 2
  BlockCap = 2
  MaxFaults = 0
  MaxTokens = 6
INVARIANT TokensPointIntoText
