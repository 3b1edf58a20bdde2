CONSTANTS
  Plans <- MCPlans
  Dropped <- MCDropped
  Slots = 2
  MaxLaunches = 3
  MaxFaults = 1
SPECIFICATION FairSpec
INVARIANTS
  RunsAreClosed
  SeedsCountedOnce
PROPERTIES
  ReadyIsAdmitted
  ReadyTrainsOnLast
  RunningSettles
CHECK_DEADLOCK FALSE
