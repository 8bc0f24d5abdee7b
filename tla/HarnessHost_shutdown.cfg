SPECIFICATION Spec
CONSTANTS
  appdata = appdata
  moved = moved
  own = own
  p1 = p1
  p2 = p2
  fact = fact
  None = None
  Managed = {appdata, moved}
  Default = appdata
  Existing = {own}
  Proc = {p1, p2}
  Fact = {fact}
  Faults = {}
  MaxCalls = 1
  MaxEarly = 0
  MaxRuns = 2
PROPERTIES
  ShutdownRecordsNothing
CHECK_DEADLOCK FALSE
