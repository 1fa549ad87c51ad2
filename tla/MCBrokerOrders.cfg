SPECIFICATION LanesSpec
CONSTANTS
  None = None
  f1 = f1
  p1 = p1
  p2 = p2
  Keys = {f1, p1, p2}
  Full = {f1}
  MaxQty = 2
  MaxRuns = 3
  Faults = {{"late"}, {"death"}, {"race"}}
  ErStale = 1
  ErCooldown = 2
  ErCap = 2
  ErDayLength = 6
  ErMaxNow = 7
  ErMaxOrders = 4
  ErMaxLost = 1
  OrHashes = {h1, h2}
  OrPrices = {q1, q2}
  OrHeld0 = 2
  OrMaxRuns = 3
  OrMaxFaults = 2
  EntrySymbols = {s1, s2}
  PaSectors = {{s1, s2}}
  PaMaxOpenEntryOrders = 1
  PaMaxNewSymbolsPerDay = 1
  PaMaxActiveSymbolsTotal = 2
  PaMaxSectorActiveSymbols = 1
  PaPendingOrderTtl = 0
  PaDayLength = 1
  PaFaults = {"held", "answer"}
  PaMaxNow = 1
SYMMETRY SameSymbols
INVARIANTS
  
  
  RepairIsSafe
  
CHECK_DEADLOCK FALSE
