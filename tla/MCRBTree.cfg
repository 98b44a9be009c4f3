SPECIFICATION Spec
CONSTANTS
  MaxAddr = 8
  MaxLen = 3
INVARIANTS
  RedBlack
  TreeHoldsHeld
  SearchFindsOverlap
