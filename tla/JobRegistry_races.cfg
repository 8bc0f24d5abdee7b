SPECIFICATION FairSpec
CONSTANTS
  command = command
  work = work
  agent = agent
  reader = reader
  Nobody = nobody
  Job = {command, work}
  Owner = {agent}
  Foreground = {command}
  Pumped = {command}
  Throwing = {work}
  Reader = {reader}
  Caller <- Callers
  Limits = {1, 2}
  RetainBytes = 2
  SettledRetainBytes = 1
  Budget <- Output
INVARIANTS
  NoticeIsNews
  NothingOutlives
PROPERTIES
  OutputComplete
  EndReachesModel
  DisposalEnds
CHECK_DEADLOCK FALSE
