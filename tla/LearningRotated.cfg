CONSTANTS
  TargetDays = 3
  DayUnits = 3
  MaxCycles = 4
  AbortThreshold = 2
  Mishaps <- Nothing
  MaxMishaps = 0
SPECIFICATION FairSpec
PROPERTIES
  WindowCompletes
