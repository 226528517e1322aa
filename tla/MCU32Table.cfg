CONSTANTS
  ValidBits = 4
  Items <- MCItems
  LgInits = {2, 4}
SPECIFICATION Spec
INVARIANTS
  LoadBounded
PROPERTIES
  Refinement
