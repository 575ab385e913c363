CONSTANTS
  Calls <- MCCalls
  MaxBuf = 4
  IntRange = 128
  LongMax = 32767
  Garbage <- MCGarbage
SPECIFICATION Spec
INVARIANTS PathFits FormatIsRead SelectsMeaning
CHECK_DEADLOCK FALSE
