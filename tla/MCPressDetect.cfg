SPECIFICATION FairSpec
CONSTANTS
  AdcMax = 4095
  CalMax = 1000
  N = 2
  Raws <- MCRaws
  Steady <- MCSteady
  Means <- MCMeans
  Configs <- MCConfigs
  Default <- MCDefault
  TareDefault = 100
  TareEmptyMax = 50
  TareMax = 1000
  TareMaxRise = 48
  Holdoff = 0
  Persistence = 2
  Debounce = 2
  Pulse = 1
  MaxMoves = 1
  MaxOrders = 1
INVARIANTS ReleaseBelowPress HostAgrees RebootReleased
PROPERTIES Debounced DisabledReleases IdentifyAnswered
CHECK_DEADLOCK FALSE
