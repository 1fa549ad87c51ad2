\* Three overlapping runs, two exits.
CONSTANTS
  r1 = r1
  r2 = r2
  r3 = r3
  e1 = e1
  e2 = e2
  Session = {r1, r2, r3}
  Intent = {e1, e2}
  NoWriter = NoWriter
  MaxHistory = 4
  MaxCommits = 6
SPECIFICATION Spec
SYMMETRY Interchangeable
\* The bound on commits stops the model.
CHECK_DEADLOCK FALSE
INVARIANTS
  OneWriter
  SentOnce
PROPERTIES
  BatonSpec
