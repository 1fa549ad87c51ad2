--------------------------- MODULE ScopedHandOver ---------------------------
(***************************************************************************)
(* What a scoped closeout that no longer runs leaves to the observation    *)
(* that takes over: the contract between ScopedCloseout, which is checked  *)
(* to leave nothing else, and ScopedOversight, which starts from it.       *)
(***************************************************************************)
EXTENDS ScopedManagementRecord

NoOrder == [status |-> "null", filled |-> 0]
Orders == [status : Statuses, filled : 0..Qty]

Entered(p, o) == [phase |-> p, status |-> o.status, filled |-> o.filled]
Intent == <<Reservation, Entered("ATTEMPTED", NoOrder)>>

\* An exit that was carried out, and one that was attempted and may be
\* anything else.
ClosedHistories ==
  {Intent \o <<Entered("OBSERVED", o), Entered("FLAT_RECONCILED", [status |-> "filled", filled |-> Qty])>> :
     o \in {r \in Orders : r.status \in {"accepted", "filled"} /\ ValidEntry(Entered("OBSERVED", r))}}
OpenHistories ==
  {h \in {Intent} \cup {Intent \o <<Entered(p, o)>> : p \in {"OBSERVED", "STOPPED"}, o \in Orders}
         \cup {Intent \o <<Entered(p, o), Entered("STOPPED", r)>> :
                 p \in {"OBSERVED", "STOPPED"}, o \in Orders, r \in Orders} :
     ValidRecord(h, FALSE)}

\* The record is one the broker's order justifies.
Justified(history, order) ==
  LET last == LastEntry(history) IN
    /\ last.filled <= order.filled
    /\ last.status # "null" => order # NoOrder
    /\ last.status \in TerminalStatuses => order.status = last.status

\* The exits of one attempt, in order: closed ones, one that was attempted
\* last, and reservations whose orders never left. The ledger may be one
\* commit behind for the last one.
HandedOver(idem, ledger, order) ==
  \E i \in DOMAIN idem :
    /\ \A t \in DOMAIN idem : t < i =>
         /\ idem[t] \in ClosedHistories
         /\ ledger[t] = idem[t]
         /\ order[t] = [status |-> "filled", filled |-> Qty]
    /\ idem[i] \in OpenHistories \cup ClosedHistories
    /\ ledger[i] \in {idem[i], SubSeq(idem[i], 1, Len(idem[i]) - 1)}
    /\ Justified(idem[i], order[i])
    /\ \A t \in DOMAIN idem : t > i =>
         /\ idem[t] = <<Reservation>>
         /\ ledger[t] = idem[t]
         /\ order[t] = NoOrder
=============================================================================
