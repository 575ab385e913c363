CONSTANTS
  Lane = 2
  Inputs <- MCInputs
SPECIFICATION Spec
INVARIANTS LoopsComputeOperator LanesHoldText SameAsSimpleOnJson
PROPERTIES ScanReturns
CHECK_DEADLOCK FALSE
