CONSTANTS
  Lane = 4
  Inputs <- MCRejected
  MantissaLimit = 18
  MaxPow10 = 308
  MaxLen = 20
  MaxDepth = 6
SPECIFICATION Spec
INVARIANTS AcceptsDocuments
CHECK_DEADLOCK FALSE
