CONSTANTS
  Lane = 4
  Inputs <- MCOpenBracket
  MantissaLimit = 18
  MaxPow10 = 308
  MaxLen = 20
  MaxDepth = 6
SPECIFICATION Spec
PROPERTIES StopsAtError
CHECK_DEADLOCK FALSE
