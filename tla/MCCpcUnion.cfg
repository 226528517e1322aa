CONSTANTS
  NULL = NULL
  Columns = 5
  WindowWidth = 2
  SparseLimit = 24
  HybridLimit = 48
  SlideStart = 48
  MinLgK = 1
  RefreshEvery = 2
  Permutation <- MCPermutation
  WordBits = 3
  PeekBits = 3
  UnaryPeek = 2
  encodingTablesForHighEntropyByte <- MCByteTables
  lengthLimitedUnaryEncodingTable <- MCColumnTable
  LgKs = {1, 2, 3}
  Sources <- MCSources
  MaxMerges = 4
SPECIFICATION Spec
INVARIANTS
  HoldsUnion
  ResultFaithful
  ResultUsable
CHECK_DEADLOCK FALSE
