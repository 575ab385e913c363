CONSTANTS
  Lane = 16
  Inputs <- MCLostValues
  MantissaLimit = 4
  MaxPow10 = 8
SPECIFICATION Spec
INVARIANTS EveryValueMeant
CHECK_DEADLOCK FALSE
