SPECIFICATION FairSpec
CONSTANTS
  MaxQueue = 1
  MaxReplay = 1
  MaxTasks = 5
  MaxOut = 2
  MaxLive = 2
  MayFail = TRUE
  MaxAsked = 2
  MaxLosses = 1
INVARIANTS
  TypeOK
  TrailClean
  LastCommandWins
  SettledAgree
PROPERTY
  ReplayModeEnds
