SPECIFICATION FairSpec
CONSTANTS
  old = old
  New = new
  Builds <- MCBuilds
  Single = Single
  Boot2 = Boot2
  Stage0 = Stage0
  Foreign = Foreign
  BootSel = BootSel
  NoSlot = NoSlot
  Hang = Hang
  Blank = Blank
  Torn = Torn
  NoHdr = NoHdr
  NSector0 = 3
  NPages = 3
  SectorPages = 2
  TRIES = 2
  MaxCuts = 3
  MaxFaults = 2
INVARIANTS NeverHung FailsOnlyByFault SlotsRanked ResultIsTrue
PROPERTIES BootedCodeKept SettledStays BothSlotsEnd BootSwitchSpec
