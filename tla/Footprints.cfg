CONSTANTS
  Methods = {"behavior", "critic"}
  Levels = {0, 6}
  MaxAttempts = 2
  MaxChanges = 2
  MaxSamples = 2
  MaxDeaths = 1
SPECIFICATION Spec
INVARIANTS
  CountsOnlyOwn
  OwnFootprint
PROPERTY ReservationCoversHeld
