\* The end of the App with a process that ignores SIGTERM.
SPECIFICATION SolSpec
CONSTANTS
  SolBase = 5
  SolCap = 60
  SolMaxCrashes = 1
  SolMaxLives = 5
  SolTasks = 2
  SolStubborn = {TRUE, FALSE}
INVARIANT NothingLeftBehind
CHECK_DEADLOCK FALSE
