\* Good frames without a message type among the others.
SPECIFICATION FrmSpec
CONSTANTS
  FrmWires <- MCWires
  FrmTexts = {}
  FrmOverhead = 2
  FrmPayload = 1
  FrmLongest = 3
  FrmMaxBuf = 2
  FrmMaxFails = 0
INVARIANT MessagesCome
CHECK_DEADLOCK FALSE
