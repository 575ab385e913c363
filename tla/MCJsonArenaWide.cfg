CONSTANTS
  Capacity = 8
  Alignment = 2
  Sizes <- MCWideSizes
  UIntMod = 64
  MaxAllocs = 3
SPECIFICATION Spec
INVARIANTS OversizedGetsItsOwnBlock
CHECK_DEADLOCK FALSE
