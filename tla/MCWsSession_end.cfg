SPECIFICATION Spec
CONSTANTS
  MaxQueue = 1
  MaxReplay = 1
  MaxTasks = 5
  MaxOut = 2
  MaxLive = 2
  MayFail = FALSE
  MaxAsked = 2
  MaxLosses = 0
INVARIANT
  CurrentEndSeen
