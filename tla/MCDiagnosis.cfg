SPECIFICATION Spec
CONSTANTS
  Sols <- TwoFixes
  Cans <- OneCan
  Shifts = {FALSE}
  SatSets = {FALSE}
  None = None
  CorrGap = 2
  SolStale = 3
  PairWindow = 2
  Hold = 2
  SlipWindow = 1
  SlipMax = 0
  MaxGap = 2
  MaxTime = 7
  MaxHits = 0
  MaxRestarts = 1
INVARIANTS
  TypeOK
  NoStaleFix
  DivergenceHeld
  DivergenceNoticed
