CONSTANTS
  LgList = 1
  LgInitSet = 2
  MinSetLgK = 3
  SetMargin = 1
  AuxToken = 1
  LgAuxInit = 0
  Coupons <- MCCoupons
  LgConfigKs = {2, 3, 4}
SPECIFICATION Spec
INVARIANTS
  HoldsUnion
  EffectiveK
  HipOnlyInOrder
