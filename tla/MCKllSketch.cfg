CONSTANTS
  M = 2
  NaN = NaN
  Values <- MCValues
  Ks = {2, 3}
  MaxN <- MCMaxN
  MaxCoins = 3
  CountBits = 3
  ItemBytes = 4
SPECIFICATION Spec
INVARIANTS
  WeightIsN
  SpaceBounded
  RankWithinError
  SurvivesBytes
  
  CdfAgreesWithRank
