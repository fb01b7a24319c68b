\* Every route with its faults.
SPECIFICATION Spec
CONSTANTS
  RouteNames <- MCNames
  TcpInitial = 1
  TcpMax = 5
  TcpPeers = {p1, p2}
  TcpWaits = 5
  TcpMaxCrashes = 1
  CanReopenAfter = 3
  CanMaxWedges = 1
  CanMaxCrashes = 1
  SolBase = 5
  SolCap = 60
  SolMaxCrashes = 1
  SolMaxLives = 5
  SolTasks = 2
  SolStubborn = {TRUE, FALSE}
  FrmWires <- MCWires
  FrmTexts <- MCTexts
  FrmOverhead = 2
  FrmPayload = 1
  FrmLongest = 4
  FrmMaxBuf = 2
  FrmMaxFails = 1
  CycFrames = 2
  CycMax = 4
  CycSteps = {1, 3, 5}
  CycSecond = 4
  CycGap = 2
  StatSats = {s1, s2}
  StatMaxLines = 3
  StatMaxTow = 2
  StatMaxSlips = 1
  StatMaxFiles = 2
  StatMaxNow = 1
  StatWindow = 0
  RepSecond = 2
  RepLookback = 2
  RepWindows <- MCWindows
  RepEpochs <- MCEpochs
  RepEvents <- MCEvents
  BasePlaces = {0, 8}
  BaseWarmup = 1
  BaseKeep = 1
  BaseMaxNow = 3
  BaseMaxRows = 4
  BaseMaxSamples = 3
  BaseMaxFails = 1
  BaseMaxRestarts = 1
  BaseMaxBack = 1
  ResClients = {c1, c2}
  ResLimit = 2
  ResChunk = 2
  ResMaxBytes = 6
  LogHours = 2
  LogSizes = {1, 2}
  LogKinds <- MCKinds
  LogMaxBytes = 4
  LogMaxFails = 2
  LogMaxCrashes = 1
  RetDays = 3
  RetKeep = 1
  RetDbKeep = 1
  RetWatermark = 3
  RetSizes = {1, 2}
  RetOthers = {0, 2}
  RetMaxFails = 1
  RetMaxEvents = 1
INVARIANTS
  TypeOK
  LinkReportsHonest
  RetriesPaced
  FramesAsSent
  CyclesWhole
  StatOnce
  ReplayMerges
  BaselineHonest
  FanOutWhole
  IndexTrue
  RetentionKept
PROPERTIES
  CollectionNeverStops
  ShutdownEnds
CHECK_DEADLOCK FALSE
