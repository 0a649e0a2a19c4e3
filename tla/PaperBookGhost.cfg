CONSTANTS
  s1 = s1
  s2 = s2
  s3 = s3
  Symbols <- ThreeSymbols
  NoSymbol = NoSymbol
  DBFaults <- AnyFault
  MaxOpenPositions = 2
  LossCooldownBars = 1
  MaxTrades = 3
  MaxMishaps = 3
SPECIFICATION Spec
SYMMETRY Symmetry
INVARIANTS
  BookIsInDatabase
