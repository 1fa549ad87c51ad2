SPECIFICATION Spec
CONSTANTS
  Keys = {k1}
  MaxRuns = 3
  Faults = {}
  MaxExcuses = 1
PROPERTIES
  FilledStaysProtected
CHECK_DEADLOCK FALSE
