SPECIFICATION Spec
CONSTANTS
  appdata = appdata
  moved = moved
  own = own
  p1 = p1
  p2 = p2
  fact = fact
  None = None
  Managed = {appdata, moved}
  Default = appdata
  Existing = {own}
  Proc = {p1, p2}
  Fact = {fact}
  Faults = {"kill", "write", "silent"}
  MaxCalls = 3
  MaxEarly = 1
  MaxRuns = 2
INVARIANTS
  DataNeverLost
  RunningIsTrue
  SameRunNeverVerifies
  RestIsReal
PROPERTIES
  ShutdownWins
CHECK_DEADLOCK FALSE
