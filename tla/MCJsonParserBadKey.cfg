CONSTANTS
  Lane = 4
  Inputs <- MCBadKey
  MantissaLimit = 18
  MaxPow10 = 308
  MaxLen = 20
  MaxDepth = 6
SPECIFICATION Spec
PROPERTIES StopsAtError
CHECK_DEADLOCK FALSE
