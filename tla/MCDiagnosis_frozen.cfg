SPECIFICATION Spec
CONSTANTS
  Sols <- TwoFixes
  Cans <- OneCan
  Shifts = {FALSE}
  SatSets = {TRUE, FALSE}
  None = None
  CorrGap = 2
  SolStale = 2
  PairWindow = 2
  Hold = 2
  SlipWindow = 1
  SlipMax = 0
  MaxGap = 1
  MaxTime = 5
  MaxHits = 0
  MaxRestarts = 0
PROPERTY
  FrozenSolverNoticed
