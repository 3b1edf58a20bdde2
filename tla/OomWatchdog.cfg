CONSTANTS
  Cells = {c1, c2}
  Mine = {c1, c2}
  Scheds = {s1, s2}
  NoPid = NoPid
  PoisonDeaths = 2
  Window = 3
  RestartMax = 1
  CarefulOperator = TRUE
  MaxDeaths = 2
  MaxRelaunches = 1
  MaxMishaps = 1
SPECIFICATION FairSpec
INVARIANTS OneScheduler RestartsBounded TallyNeedsDeaths
PROPERTIES WritesWhenDead NoSecondLaunch PendingIsServed OomIsNoted
