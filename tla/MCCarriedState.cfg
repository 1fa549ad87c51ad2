SPECIFICATION CarriedSpec
CONSTANTS
  Off = 25
  On = 22
  Hold = 3
  MinScore = 60
  QualityGuard = TRUE
  Hysteresis = TRUE
  Vixes = {22, 24, 25}
  Deductions = {0, 43}
  MaxNow = 8
  MaxLost = 2
  LoopKeys = {k1, k2, k3}
  Bucket = 1
  Required = 2
  LoopRuns = 3
  LoopFaults = 2
  Hashes = {"h1"}
  StableTarget = 2
  AlertStreak = 2
  MaxRate = 34
  Window = 3
  MinCompared = 2
  Sticky = 2
  LastRun = 6
  RunFaults = 1
  CacheKeys = {c1, c2}
  CacheRuns = 4
  CacheFaults = {"rerun", "fail"}
  MaxExcuses = 2
INVARIANTS
  DangerIsFollowed
  GateCountsEveryRow
  StoreIsCarried
PROPERTIES
  SwitchesAreSpaced
  PromotionIsProven
CHECK_DEADLOCK FALSE
