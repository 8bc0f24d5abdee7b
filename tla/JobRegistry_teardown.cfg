SPECIFICATION Spec
CONSTANTS
  command = command
  work = work
  agent = agent
  reader = reader
  Nobody = nobody
  Job = {work}
  Owner = {agent}
  Foreground = {}
  Pumped = {}
  Throwing = {}
  Reader = {reader}
  Caller <- Callers
  Limits = {1}
  RetainBytes = 2
  SettledRetainBytes = 1
  Budget <- Output
INVARIANT TeardownAnnounced
CHECK_DEADLOCK FALSE
