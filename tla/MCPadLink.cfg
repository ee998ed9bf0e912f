SPECIFICATION FairSpec
CONSTANTS
  TxQ = 3
  Slots = 1
  Txns = 4
  Seeds = {1, 2}
  AppCodes <- MCAppCodes
  Ids = 3
  StreamMax = 2
  Idle = 1
  Hold = 1
  MaxCalls = 2
  MaxUpsets = 2
INVARIANTS OwnOrStray NoOrphan TelemetryYields
PROPERTIES PadComesBack OwnLightsReturn
CHECK_DEADLOCK FALSE
