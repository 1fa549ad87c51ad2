\* The documented reconciliation of the ledger.
CONSTANTS
  None = None
  h1 = h1
  s1 = s1
  Hashes = {h1}
  Symbols = {s1}
  Lives = {"accepted", "filled", "expired"}
  Faults = {{}}
  Ttl = 30
  LedgerTtl = 90
  MaxChecks = 25
  ReleaseOnMissing = FALSE
  MaxRuns = 4
  MaxDay = 1
  FaultDays = 0
SPECIFICATION Spec
SYMMETRY Interchangeable
\* The bounds on runs and days stop the model.
CHECK_DEADLOCK FALSE
INVARIANTS
  LedgerIsNotStuck
