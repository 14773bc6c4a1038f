SPECIFICATION FairSpec
CONSTANTS
  DayLength = 4
  MaxDays = 34
  Eps = 1
  WindowPad = 7
  Timeout = 3
  PollInterval = 2
  Lag = 1
  MaxCommand = 1
  MaxQuery = 1
  MaxLines = 2
  MaxClock = 10
  Shapes <- MCShapes
INVARIANTS
  TypeOK
  HealthyIsProven
  UnhealthyIsJustified
  ErrorIsSticky
  DecidesPromptly
PROPERTY EventuallyReturns
CHECK_DEADLOCK FALSE
