SPECIFICATION FairSpec
CONSTANTS
  c1 = c1
  c2 = c2
  create1 = create1
  resume1 = resume1
  resume2 = resume2
  Attempt = {create1, c2, resume1}
  Via <- Kinds
  Factories = 2
  FactoryOf <- Homes
  Signaled = {resume1}
  NoOne = none
INVARIANTS
  RollbackComplete
  ClosedIsQuiet
PROPERTIES
  CanceledNeverLive
  OwnershipKept
  FactoryCloses
  DrainingEnds
CHECK_DEADLOCK FALSE
