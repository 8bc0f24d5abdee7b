SPECIFICATION FairSpec
CONSTANTS
  daily = daily
  hourly = hourly
  agent = agent
  NoRow = none
  Task = {daily, hourly}
  Session = {agent}
  SessionOf <- OneSession
  Timings <- Asked
  MaxNow = 2
  Horizon = 2
  MaxCalls = 1
  Faults = {"io", "session", "clock", "crash"}
INVARIANTS
  NoneForgotten
PROPERTIES
  ManagementHolds
  AcknowledgedNotRepeated
  DueIsTried
