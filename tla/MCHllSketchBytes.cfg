CONSTANTS
  LgList = 1
  LgInitSet = 2
  MinSetLgK = 4
  SetMargin = 2
  AuxToken = 2
  LgAuxInit = 0
  Coupons <- MCCoupons
  LgConfigKs = {2, 4, 5}
SPECIFICATION SpecWithBytes
INVARIANTS
  ReadsValidCoupons
