CONSTANTS
  Cells = {c1, c2}
  Mine = {c1, c2}
  Scheds = {s1, s2}
  NoPid = NoPid
  PoisonDeaths = 2
  Window = 2
  RestartMax = 1
  CarefulOperator = TRUE
  MaxDeaths = 1
  MaxRelaunches = 0
  MaxMishaps = 0
SPECIFICATION FairSpec
PROPERTIES RunningIsResumed
