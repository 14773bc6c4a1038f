SPECIFICATION FairSpec
CONSTANTS
  N = 2
  Platforms = {"linux", "windows"}
  Plans <- MCPlans
  Eps = 1
  Pad = 2
  MinWait = 1
  MaxWait = 1
  MaxCanary = 0
  MaxProbe = 0
  MaxCommand = 1
  MaxCleanup = 1
  MaxLinger = 1
  HostKnown = TRUE
INVARIANTS
  TypeOK
  TrustFieldsAgree
  ControlPrecedesExecution
  AttributionSound
  EpsilonStaysClear
PROPERTIES
  ImplementsContract
  EventuallyReported
