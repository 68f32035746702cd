SPECIFICATION FairSpec
CONSTANTS
  k1 = k1
  k2 = k2
  k3 = k3
  k4 = k4
  Keys <- MCKeys
  Values = {v1, v2}
  NoKey = NoKey
  NoValue = NoValue
  hash_str <- MCHash
  Asked = {3, 5}
INVARIANTS TypeOK ProbeChain RoomLeft EachVisitedOnce FreedWhole
PROPERTIES Refines CallReturns
