SPECIFICATION BesideSpec
CONSTANTS
  p1 = p1
  p2 = p2
  e1 = e1
  e2 = e2
  e3 = e3
  Process = {p1, p2}
  Event = {e1, e2, e3}
  Capacity = 2
  MaxLost = 1
  Active = TRUE
  Raws = {0, 2, 3}
  Hold = 2
  Base = 2
  LowestL3 = 1
  LowestL1 = 2
  ClosedFor = 2
  MaxNow = 3
  MaxOdd = 1
INVARIANTS
  ToldOncePerCache
  SendsAreOnRecord
  BaselineIsNotNews
  HaltsHold
  ActionsAreTimely
CHECK_DEADLOCK FALSE
