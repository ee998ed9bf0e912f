SPECIFICATION FairSpec
CONSTANTS
  d = d
  c = c
  N = 2
  Old <- LastPanel
  Configs <- MCConfigs
  Defaults = d
  None = None
  MaxTrouble = 2
  MaxEdits = 1
INVARIANTS TypeOK MatchIsTrue SentOrDue MatchIsTold
PROPERTY AllConfigured

