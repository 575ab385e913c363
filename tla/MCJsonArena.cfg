CONSTANTS
  Capacity = 8
  Alignment = 2
  Sizes <- MCSizes
  UIntMod = 64
  MaxAllocs = 5
SPECIFICATION Spec
INVARIANTS TypeOK GrantsInBounds GrantsDisjoint GrantsAligned FreesExact EachBlockFreedOnce
PROPERTIES ReleaseTerminates ImplementsRegions
CHECK_DEADLOCK FALSE
