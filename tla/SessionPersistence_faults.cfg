SPECIFICATION FairSpec
CONSTANTS
  first = first
  second = second
  elsewhere = elsewhere
  here = here
  there = there
  Process = {here, there}
  Handle = {first, second, elsewhere}
  Home <- Homes
  Creators = {first, second}
  NoOne = none
  MaxSeq = 2
  Faults = {"io", "dirsync", "crash"}
INVARIANTS
  NothingWedged
PROPERTIES
  CloseLosesNothing
  AckedNeverLost
  SingleMutator
  EventsReachLog
  CloseSettles
CHECK_DEADLOCK FALSE
