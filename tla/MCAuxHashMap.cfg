CONSTANTS
  Slots <- MCSlots
  Values = {1, 2}
  LgInit = 1
SPECIFICATION Spec
INVARIANTS
  FindsExactly
  LoadBounded
PROPERTIES
  Refinement
