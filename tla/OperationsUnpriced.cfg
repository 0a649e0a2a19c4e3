CONSTANTS
  DayLength = 14
  PreOpen = 2
  RegularOpen = 5
  RegularClose = 8
  PostClose = 10
  TradingDays <- Holiday
  WarmupWindow = 2
  LiveFeed = TRUE
  Horizon = 38
  Interval = 1
  ClosedSleep = 3
  SleepChunk = 1
  BackoffThreshold = 0
  BackoffMax = 3
  AbortThreshold = 3
  MaxWork = 2
  MaxCycles = 4
  MaxFailures = 3
  MaxKills = 1
  Procs = {p1, p2, p3}
  Guarded = {p1, p2}
  Foreign = {p1}
  Pids = {1, 2}
  NoPid = NoPid
  Blank = Blank
  ShownRuns = 2
  StaleAfter = 1
  LastMoment = 1
  Intents = {entry, exit}
  Sells = {exit}
  OrderSize = 2
  BucketSeconds = 2
  LastSecond = 2
  Lives = 2
  MaxOrders = 2
  Loggers = {worker, main}
  Flusher = flusher
  NoThread = NoThread
  BatchSize = 2
  LastRecord = 5
  PaperCash = 10
  Results <- Gains
  Marks <- ZeroOrOne
  RowsShown = 2
  MaxTrades = 3
  MaxPages = 1
  Nothing = Nothing
  Torn = Torn
SPECIFICATION OperationsSpec
INVARIANTS
  BookedAtReference
CHECK_DEADLOCK FALSE
