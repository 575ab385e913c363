CONSTANTS
  Lane = 16
  Inputs <- MCOverrunInputs
  MaxLen = 40
SPECIFICATION StringSpec
INVARIANTS CopyFits
PROPERTIES EveryCallReturns
CHECK_DEADLOCK FALSE
