CONSTANTS
  FlushEveryN = 2
  BatchSize = 3
  MaxDict = 3
  MaxPoints = 5
SPECIFICATION Spec
INVARIANTS NothingLost OnceInOrder BufferBounded
CHECK_DEADLOCK FALSE
