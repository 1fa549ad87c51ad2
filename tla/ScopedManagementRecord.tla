----------------------- MODULE ScopedManagementRecord -----------------------
(***************************************************************************)
(* The record that one exit of a scoped closeout leaves in the order       *)
(* ledger and in the idempotency state, and the validator that every load  *)
(* and every commit applies to it: src/src/scoped-management-record.ts.    *)
(*                                                                         *)
(* A record is its history. The validator requires phase, broker status,   *)
(* filled quantity, time and evidence of the record to be those of its     *)
(* last entry, so nothing is lost; hashes, identities and timestamps,      *)
(* which no transition depends on, are left out.                           *)
(***************************************************************************)
EXTENDS Naturals, Sequences

CONSTANT Qty  \* the ordered quantity, in units; 0 < filled < Qty is a partial fill

ASSUME QtyAssumption == Qty \in Nat \ {0}

Phases == {"RESERVED", "ATTEMPTED", "OBSERVED", "STOPPED", "FLAT_RECONCILED"}
Statuses == {"null", "accepted", "partially_filled", "filled", "canceled", "rejected", "expired"}
TerminalStatuses == {"filled", "canceled", "rejected", "expired"}

Entry == [phase : Phases, status : Statuses, filled : 0..Qty]

Edges ==
  [RESERVED |-> {"ATTEMPTED"},
   ATTEMPTED |-> {"OBSERVED", "STOPPED"},
   OBSERVED |-> {"OBSERVED", "STOPPED", "FLAT_RECONCILED"},
   STOPPED |-> {"STOPPED"},
   FLAT_RECONCILED |-> {}]

Reservation == [phase |-> "RESERVED", status |-> "null", filled |-> 0]

\* What one entry must satisfy on its own.
ValidEntry(e) ==
  /\ e.status = "filled" => e.filled = Qty
  /\ e.status = "partially_filled" => e.filled \in 1..(Qty - 1)
  /\ e.status \in {"null", "accepted", "rejected"} => e.filled = 0
  /\ e.phase = "FLAT_RECONCILED" => e.status = "filled"
  /\ e.phase = "ATTEMPTED" => e.status = "null"
  /\ e.phase = "OBSERVED" => e.status # "null"

\* What entry e must satisfy after entry p; attended records (schema version
\* 3) also never forget that the broker knew the order.
ValidSuccessor(p, e, attended) ==
  /\ e.phase \in Edges[p.phase]
  /\ e.filled >= p.filled
  /\ attended /\ p.status # "null" => e.status # "null"
  /\ p.status \in TerminalStatuses => e.status = p.status

\* validateScopedManagementRecord
ValidRecord(history, attended) ==
  /\ Len(history) \in 1..16
  /\ history[1] = Reservation
  /\ \A i \in 1..Len(history) : ValidEntry(history[i])
  /\ \A i \in 1..(Len(history) - 1) : ValidSuccessor(history[i], history[i + 1], attended)

LastEntry(history) == history[Len(history)]
=============================================================================
