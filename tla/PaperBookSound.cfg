CONSTANTS
  s1 = s1
  s2 = s2
  s3 = s3
  Symbols <- ThreeSymbols
  NoSymbol = NoSymbol
  DBFaults <- NoFaults
  MaxOpenPositions = 2
  LossCooldownBars = 2
  MaxTrades = 4
  MaxMishaps = 2
SPECIFICATION Spec
SYMMETRY Symmetry
INVARIANTS
  ExposureCap
  BookIsInDatabase
PROPERTIES
  LedgerSpec
