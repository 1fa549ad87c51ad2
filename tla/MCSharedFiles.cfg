CONSTANTS
  Writer = {w1, w2}
  File = {ledger, idempotency}
  Content = {c1}
  Unread = Unread
  Nobody = Nobody
  Abandoned = Abandoned
  Faulty = FALSE
  Symbols = {s1}
  Stages = {g1, g2}
  Ttl = 1
  PreviewOnly = FALSE
  EnforceInPreview = FALSE
SPECIFICATION SharedSpec
INVARIANTS
  OnlyApprovedPass
  AnswersStand
PROPERTIES
  RequestsAreKept
  
  
