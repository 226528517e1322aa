CONSTANTS
  NULL = NULL
  Columns = 6
  WindowWidth = 3
  SparseLimit = 24
  HybridLimit = 48
  SlideStart = 48
  MinLgK = 1
  RefreshEvery = 2
  Permutation <- MCPermutation
  WordBits = 5
  PeekBits = 4
  UnaryPeek = 2
  encodingTablesForHighEntropyByte <- MCByteTables
  lengthLimitedUnaryEncodingTable <- MCColumnTable
  LgKs = {1}
SPECIFICATION Spec
INVARIANTS
  MatrixExact
  WindowInPlace
  KxpExact
  ThrowsOnlySaturated
  SurvivesBytes
