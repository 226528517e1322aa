CONSTANTS
  Keys <- MCKeys
  Hash <- MCHash
  LoadFactor = 4
  MaxSampleSize = 1024
  Weights = {1, 2}
  LgMin = 2
  LgMaxSizes = {2, 3}
  Streams <- MCStreams
  MaxWeight = 9
SPECIFICATION Spec
INVARIANTS
  NoThrow
  WellProbed
  BoundsHold
  TotalIsSum
  ErrorBounded
  ListsKeepPromise
CHECK_DEADLOCK FALSE
