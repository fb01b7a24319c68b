SPECIFICATION Spec
CONSTANTS
  Sols <- EverySol
  Cans <- TwoCans
  Shifts = {TRUE, FALSE}
  SatSets = {TRUE, FALSE}
  None = None
  CorrGap = 1
  SolStale = 1
  PairWindow = 1
  Hold = 1
  SlipWindow = 1
  SlipMax = 0
  MaxGap = 1
  MaxTime = 2
  MaxHits = 1
  MaxRestarts = 1
PROPERTY
  OutageEvidence
