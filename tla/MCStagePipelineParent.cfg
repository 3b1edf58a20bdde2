CONSTANTS
  Plans <- MCPlans
  Dropped <- MCDropped
  Slots = 2
  MaxLaunches = 3
  MaxFaults = 1
SPECIFICATION Spec
INVARIANT TrainsOnFinished
CHECK_DEADLOCK FALSE
