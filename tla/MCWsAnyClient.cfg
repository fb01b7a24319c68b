SPECIFICATION FairSpec
CONSTANTS
  MaxQueue = 2
  MaxReplay = 1
  MaxTasks = 4
  MaxOut = 1
  MaxLive = 4
  MayFail = TRUE
  MaxCommands = 3
  MaxLosses = 1
INVARIANTS
  ServerTypeOK
  SingleSender
  SendersReachable
  AlwaysASender
  BacklogIsNewest
PROPERTIES
  LiveInOrder
  LiveResumes
  SessionCleansUp
