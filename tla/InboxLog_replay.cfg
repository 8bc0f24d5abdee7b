SPECIFICATION Spec
CONSTANTS
  Message = {m1, m2}
  Coordinates <- SomeCoordinates
  MaxLog = 4
SYMMETRY Identities
INVARIANTS
  ReplayRebuilds
  NoticesOwed
CHECK_DEADLOCK FALSE
