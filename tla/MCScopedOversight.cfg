\* Two exits, two cycles a run, two runs.
CONSTANTS
  N = 2
  Qty = 2
  MaxCycles = 2
  MaxClaims = 2
  Configs = {c1}
SPECIFICATION FairSpec
INVARIANTS
  RecordsAreTrue
  RunsAreAccounted
PROPERTIES
  HistoriesOnlyGrow
  EveryRunEnds
\* The bound on approvals stops the model.
CHECK_DEADLOCK FALSE
