CONSTANTS
  Methods = {1, 2, 3}
  Dropped = {2}
  MaxAttempts = 2
  PatientOperator = TRUE
  MaxDeaths = 1
  MaxResets = 1
SPECIFICATION FairSpec
INVARIANTS AttemptsBounded GreenIsEarned
PROPERTIES PromiseSpec EveryMethodDecided
