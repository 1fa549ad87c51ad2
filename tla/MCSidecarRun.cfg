CONSTANTS
  None = None
  h1 = h1
  h2 = h2
  s1 = s1
  Hashes = {h1, h2}
  Symbols = {s1}
  Lives = {"accepted", "filled", "expired"}
  Faults = {{}, {"late_post"}, {"cache_lost", "bad_body"}}
  Ttl = 1
  LedgerTtl = 1
  MaxChecks = 25
  ReleaseOnMissing = FALSE
  MaxRuns = 3
  MaxDay = 2
  FaultDays = 1
SPECIFICATION Spec
SYMMETRY Interchangeable
CHECK_DEADLOCK FALSE
INVARIANTS
  
  ReorderOnlyAfterTtl
  LiveOrdersStayReserved
  FilesFollowBroker
