SPECIFICATION FairSpec
CONSTANTS
  p1 = p1
  p2 = p2
  Panels <- MCPanels
  RingSize = 2
  TxNum = 1
  SeqMod = 256
  Heartbeat = 2
  PollTicks = 1
  Spare = Spare
  NoReport = NoReport
  MaxChanges = 2
  MaxEvents = 1
INVARIANTS MaskAccounted SeqTellsMasks NewestAccounted RingTold
PROPERTY HostSeesPresses
CHECK_DEADLOCK FALSE
