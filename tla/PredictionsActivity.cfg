CONSTANTS
  DBFaults <- AnyFault
  Refusable <- ActivityOnly
  WatchlistSize = 1
  Horizon = 1
  MaxPredictions = 1
  MaxMishaps = 1
SPECIFICATION Spec
INVARIANTS
  ActivityIsHarmless
