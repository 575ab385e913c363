CONSTANTS
  Lane = 4
  Inputs <- MCAccepted
  MantissaLimit = 18
  MaxPow10 = 308
  MaxLen = 20
  MaxDepth = 6
SPECIFICATION Spec
INVARIANTS OkMeansClosed
CHECK_DEADLOCK FALSE
