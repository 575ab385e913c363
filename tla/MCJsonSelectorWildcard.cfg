CONSTANTS
  Calls <- MCWildcard
  MaxBuf = 4
  IntRange = 128
  LongMax = 32767
  Garbage <- MCGarbage
SPECIFICATION Spec
INVARIANTS SelectsMeaning
CHECK_DEADLOCK FALSE
