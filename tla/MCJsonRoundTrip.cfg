CONSTANTS
  Lane = 4
  Inputs <- MCRoundTrips
  MantissaLimit = 18
  MaxPow10 = 308
  MaxLen = 20
  MaxDepth = 6
  InitialCapacity = 4
  MinScratch = 4
  SizeMod = 65536
  MaxText = 200
  ReallocMayFail = FALSE
SPECIFICATION RoundTripSpec
INVARIANTS RoundTrip NoOverrun Terminated
PROPERTIES RoundTripReturns
CHECK_DEADLOCK FALSE
