CONSTANTS
  TargetDays = 3
  DayUnits = 3
  MaxCycles = 4
  AbortThreshold = 2
  Mishaps <- Interruptions
  MaxMishaps = 3
  Config <- DefaultConfig
  None = None
  Tapes <- Feed
  Replies = {None, "war", "rubbish"}
  Ups = {900}
  Wins = {100, 600}
  OutcomesLimit = 2
  Histories <- Pasts
  RegimeMinSamples = 2
  CalibrationMinSamples = 2
  SymbolMinSamples = 2
  ReliableMinSamples = 2
  MaxOutcomes = 3
  Markets <- Views
  Evidence <- Showings
  DayTicks = 2
  WindowDays = 2
  Cooldown = 2
  PerCycle = 2
  RowLimit = 4
  MaxDrawdown = 5
  LastTick = 5
  MaxErrors = 1
  MaxRestarts = 1
  Watched <- ThreeStocks
  Looks <- SomeLooks
  NoScore = NoScore
  FactorWeights <- Blend
  WinsorizePct = 5
  LongPct = 50
  ShortPct = 50
  MinDollars = 10
  MinRanked = 2
  LastRanked = 2
  NoRanking = NoRanking
SPECIFICATION ObservatorySpec
INVARIANTS
  UptimeIsOfCompleted
CHECK_DEADLOCK FALSE
