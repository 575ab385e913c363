CONSTANTS
  Calls <- MCUnread
  MaxBuf = 4
  IntRange = 128
  LongMax = 32767
  Garbage <- MCGarbage
SPECIFICATION Spec
INVARIANTS SelectsMeaning AnyFormatIsRead
CHECK_DEADLOCK FALSE
