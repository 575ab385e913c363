CONSTANTS
  Lane = 4
  Inputs <- MCBlankFile
  MantissaLimit = 18
  MaxPow10 = 308
  MaxLen = 40
  MaxDepth = 6
  InitialCapacity = 4
  MinScratch = 4
  SizeMod = 65536
  MaxText = 400
  ReallocMayFail = FALSE
  Capacity = 9
  Alignment = 2
  Sizes = {1, 3, 5}
  UIntMod = 256
  MaxAllocs = 30
  NodeSize = 5
  StateSize = 3
SPECIFICATION ProgramSpec
INVARIANTS HandlesNull
CHECK_DEADLOCK FALSE
