CONSTANTS
  StartingCash = 1000
  FeeBps = 100
  BaseSlippageBps = 100
  ImpactSlippageBps = 100
  RiskPerTrade = 10
  MaxPositionPct = 30
  MaxDailyLossPct = 5
  MaxWeeklyLossPct = 8
  MaxOpenPositions = 2
  LossCooldownBars = 2
  Shapes <- AllShapes
  Units = {3}
  LastBar = 9
  BarsPerDay = 3
  DaysPerWeek = 2
  FillableWorth = 280
  EntryOffset = 1
  StopDistance = 1
  TargetDistance = 5
  TimeStopBars = 3
  NoTrade = NoTrade
  Horizons = {1, 2}
  CacheCap = 2
  Rates = {9, 10}
  FirstPrice = 10
  Moves <- Ticks
  StopGap = 8
  TargetGap = 12
  LastMinute = 3
  NoCache = NoCache
  NotYet = NotYet
  Sources <- Three
  Retrying = {"stooq"}
  MaxRetries = 2
  ZThreshold = 3
  MinSources = 1
  MaxDispersion = 5
  OpeningPrice = 100
  MarketSteps <- Wiggle
  BadPrints <- Prints
  LastMove = 1
  NoReading = NoReading
  DayShapes <- Candles
  LastDay = 6
  PeriodDays = 5
  WarmupRows = 0
  LabelHorizon = 1
  Threshold = 3
  AtrPeriod = 2
  MinShare = 2
  MaxShare = 50
  StopMult = 1
  TargetMult = 1
  TimeStop = 2
  NFolds = 2
  TrainWindow = 2
  TestWindow = 1
  MinTrain = 2
  MinTest = 1
  SplitPct = 70
  MinBars = 4
  MinTrades = 30
  Suspicious = 85
  OverfitGap = 15
  Measured <- Measures
  Others <- Companions
  Unknown = Unknown
  NoReport = NoReport
SPECIFICATION ResearchesSpec
INVARIANTS
  BooksAddUp
  TimeStopHolds
  OutcomeIsMarkets
  ConsensusIsRobust
  ResearchIsHonest
PROPERTIES
  StopComesFirst
  CooledDown
  NoEntryAfterBadDay
  LabelsNeverRevised
CHECK_DEADLOCK FALSE
