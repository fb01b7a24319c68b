SPECIFICATION Spec
CONSTANTS
  Codes = {"corr_outage", "low_sats"}
  Quiet = "ok"
  None = None
  Hyst = 2
  Retention = 3
  Gaps <- ForwardGaps
  SetBacks = {1}
  MaxTime = 6
  MaxLinks = 2
  MaxFaults = 2
INVARIANTS
  TypeOK
  OpenRowsAccounted
  ClosesMatchOpens
  StreamBacked
  KeysUnique
  NoOverlap
  NotClosedEarly
  ClosedOnTime
PROPERTIES
  ImplementsLog
