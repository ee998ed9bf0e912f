SPECIFICATION FairSpec
CONSTANTS
  old = old
  new = new
  Images <- MCImages
  NoImage = NoImage
  NoRecord = NoRecord
  Blank = Blank
  Torn = Torn
  Plausible = Plausible
  NBlocks = 4
  PageBlocks = 2
  SectorBlocks = 2
  Len <- MCLen
  MaxCuts = 1
  MaxFaults = 1
INVARIANTS RunsWholeImage PendingHasSource OwnBlocksStage
PROPERTIES PendingResolves AtomicInstallSpec
