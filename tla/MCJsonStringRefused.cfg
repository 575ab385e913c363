CONSTANTS
  Lane = 16
  Inputs <- MCRefusedInputs
  MaxLen = 40
SPECIFICATION StringSpec
INVARIANTS DecodesMeaning AcceptsMeaning
CHECK_DEADLOCK FALSE
