CONSTANTS
  StartingCash = 1000
  FeeBps = 100
  BaseSlippageBps = 100
  ImpactSlippageBps = 100
  RiskPerTrade = 10
  MaxPositionPct = 30
  MaxDailyLossPct = 5
  MaxWeeklyLossPct = 8
  MaxOpenPositions = 2
  LossCooldownBars = 2
  Shapes <- AllShapes
  Units = {3}
  LastBar = 9
  BarsPerDay = 3
  DaysPerWeek = 2
  FillableWorth = 280
  EntryOffset = 1
  StopDistance = 1
  TargetDistance = 5
  TimeStopBars = 3
  NoTrade = NoTrade
SPECIFICATION Spec
PROPERTIES
  NothingFlattered
CHECK_DEADLOCK FALSE
