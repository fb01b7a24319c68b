SPECIFICATION Spec
CONSTANTS
  Codes = {"corr_outage", "low_sats"}
  Quiet = "ok"
  None = None
  Hyst = 2
  Retention = 3
  Gaps <- ForwardGaps
  SetBacks = {}
  MaxTime = 7
  MaxLinks = 1
  MaxFaults = 1
PROPERTY
  PruneLeavesOnlyActive
