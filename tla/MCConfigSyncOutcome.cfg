SPECIFICATION FairSpec
CONSTANTS
  d = d
  c = c
  N = 2
  Old <- LastPanel
  Configs <- MCConfigs
  Defaults = d
  None = None
  MaxTrouble = 0
  MaxEdits = 2
PROPERTY OutcomeFollows

