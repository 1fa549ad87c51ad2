\* The five targets of the contract; a fill of one unit of two is partial.
CONSTANTS
  N = 5
  Qty = 2
SPECIFICATION FairSpec
INVARIANTS
  NothingSentTwice
  StoresAreSound
  PlanIsKept
  
PROPERTIES
  LockKeptOnOneSidedWrite
  PlanSpec
  EveryRunEnds
