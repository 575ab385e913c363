CONSTANTS
  Lane = 16
  Inputs <- MCInputs
  MantissaLimit = 4
  MaxPow10 = 8
SPECIFICATION Spec
INVARIANTS NumberMeaning AcceptedStaysInNumber
CHECK_DEADLOCK FALSE
