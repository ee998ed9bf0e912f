SPECIFICATION Spec
CONSTANTS
  d = d
  c1 = c1
  c2 = c2
  Configs <- MCConfigs
  Defaults = d
  Bad = Bad
  SeqMod = 8
  MaxFaults = 2
INVARIANTS UnsavedIsTold ResetIsTold
PROPERTY RegisterSpec
