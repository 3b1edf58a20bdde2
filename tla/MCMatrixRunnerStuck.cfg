CONSTANTS
  Cells = {1, 2, 3}
  Pools = {"default", "other"}
  DefaultPool = "default"
  ThisPool = "default"
  EstHours <- MCEstHours
  HeavyFirst = FALSE
  Vram <- MCVram
  Ram <- MCRam
  VramSum <- MCVramSum
  RamSum <- MCRamSum
  VramBudget = 3
  RamBudget = 3
  MaxConcurrency = 2
  Pids = {p1, p2, p3}
  NoPid = NoPid
  NoCell = NoCell
  CarefulOperator = TRUE
  MaxCrashes = 1
  MaxCommands = 0
SPECIFICATION FairSpec
PROPERTIES StaleRunIsRecovered
