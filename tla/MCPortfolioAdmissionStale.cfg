\* Two symbols, no failing read and no lost answer.
CONSTANTS
  Symbols = {a, b}
  Sectors = {{a, b}}
  MaxOpenEntryOrders = 1
  MaxNewSymbolsPerDay = 1
  MaxActiveSymbolsTotal = 2
  MaxSectorActiveSymbols = 1
  PendingOrderTtl = 0
  DayLength = 1
  Faults = {}
  MaxNow = 1
SPECIFICATION Spec
PROPERTIES
  StaleLeaveTheActiveSet
CHECK_DEADLOCK FALSE
