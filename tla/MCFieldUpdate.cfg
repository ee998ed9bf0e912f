SPECIFICATION FairSpec
CONSTANTS
  p1 = p1
  p2 = p2
  old = old
  v1 = v1
  v2 = v2
  Panels <- MCPanels
  Images <- MCImages
  Factory = old
  NoImage = NoImage
  Blocks <- MCBlocks
  Content <- MCContent
  NoData = NoData
  Restream = 1
  Window = 2
  Faults <- AllFaults
  MaxTrouble = 3
  MaxRuns = 2
INVARIANTS SuccessMeansInstalled
PROPERTIES InstallsWhenAllReady RunFinishes
CHECK_DEADLOCK FALSE
