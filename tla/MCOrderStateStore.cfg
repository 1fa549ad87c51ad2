\* Three writers: a saver, the directory owner, and one that interferes with both.
CONSTANTS
  Writer = {w1, w2, w3}
  File = {ledger}
  Content = {c1, c2}
  Unread = Unread
  Nobody = Nobody
  Abandoned = Abandoned
  Faulty = TRUE
SPECIFICATION Spec
SYMMETRY Symmetry
INVARIANTS
  StoreInv
PROPERTIES
  OwnerIsAlone
  RegisterSpec
