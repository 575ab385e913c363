CONSTANTS
  Lane = 16
  Inputs <- MCInputs
  MaxLen = 40
SPECIFICATION StringSpec
INVARIANTS StrTypeOK OutputFits FailureIsReported DecodesMeaning AcceptsMeaning
PROPERTIES StringReturns
CHECK_DEADLOCK FALSE
