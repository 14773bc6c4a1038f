SPECIFICATION FairSpec
CONSTANTS
  MinWait = 2
  PollInterval = 3
  Timeout = 9
  StableFor = 2
  MaxQuery = 1
  MaxEvents = 3
  MaxClock = 14
INVARIANTS
  TypeOK
  ReturnsInTime
  DetectionIsPrompt
PROPERTIES
  ImplementsCollection
  EventuallyReturns
CHECK_DEADLOCK FALSE
