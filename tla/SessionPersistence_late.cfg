SPECIFICATION Spec
CONSTANTS
  first = first
  second = second
  elsewhere = elsewhere
  here = here
  there = there
  Process = {here, there}
  Handle = {first, second}
  Home <- Homes
  Creators = {first}
  NoOne = none
  MaxSeq = 2
  Faults = {"io", "late"}
PROPERTY SingleMutator
CHECK_DEADLOCK FALSE
