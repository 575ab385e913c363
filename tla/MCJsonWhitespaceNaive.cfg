CONSTANTS
  Lane = 2
  Inputs <- MCBlankInputs
SPECIFICATION Spec
INVARIANTS SameAsSimple
CHECK_DEADLOCK FALSE
