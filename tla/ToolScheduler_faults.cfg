SPECIFICATION FairSpec
CONSTANTS
  N = 3
  MaxParallel = 2
  Faults = {"stage", "dispatch", "crash"}
CHECK_DEADLOCK FALSE
INVARIANTS
  ResultsInModelOrder
  ClosedIsAnswered
  Quiescent
  UnrunIsHonest
PROPERTIES
  StepCloses
