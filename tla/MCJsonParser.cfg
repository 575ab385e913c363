CONSTANTS
  Lane = 4
  Inputs <- MCTexts
  MantissaLimit = 18
  MaxPow10 = 308
  MaxLen = 20
  MaxDepth = 6
SPECIFICATION Spec
INVARIANTS TreeShaped UnionMatchesType OkMeansMeant AcceptsDocuments RejectsAsTested
PROPERTIES StopsAtError ParseReturns
CHECK_DEADLOCK FALSE
