SPECIFICATION Spec
CONSTANTS
  MaxQueue = 1
  MaxReplay = 1
  MaxTasks = 5
  MaxOut = 2
  MaxLive = 2
  MayFail = TRUE
  MaxAsked = 2
  MaxLosses = 0
INVARIANT
  TrailCleanWhenLive
