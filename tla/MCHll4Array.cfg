CONSTANTS
  Slots <- MCSlots
  MaxValue = 6
  KxQSplit = 4
  AuxToken = 3
SPECIFICATION FairSpec
INVARIANTS
  TypeOK
  NoThrow
  Canonical
  CurMinIsMinimum
  KxQExact
  HoldsMaximum
PROPERTIES
  ImplementsHll8
  ShiftEnds
CHECK_DEADLOCK FALSE
