CONSTANTS
  TargetDays = 3
  DayUnits = 3
  MaxCycles = 20
  AbortThreshold = 2
  Accidents <- Everything
  MaxAccidents = 4
  DBFaults <- AnyFault
  Refusable <- AnyWrite
  WatchlistSize = 2
  Horizon = 2
  MaxPredictions = 3
  MaxMishaps = 3
  Symbols = {s1, s2}
  NoSymbol = NoSymbol
  RefreshTime = 2
  ParkAfterFails = 2
  ParkDuration = 3
  ReprobePercent = 10
  MaxMisfiled = 1
SPECIFICATION FairProgress
INVARIANTS
  RowsAreSafe
  ParksAreEarned
  EveryDownloadAsks
  NothingOlder
PROPERTIES
  LogSpec
  PredictionsSettle
  ComesBack
  WindowCompletes
