----------------------------- MODULE OrderLedger -----------------------------
(***************************************************************************)
(* The lifecycle ledger of src/index.ts: which status changes it accepts,  *)
(* what one run writes about the orders it planned or submitted, and how   *)
(* it is brought into line with the idempotency records afterwards. Only   *)
(* operators; SidecarRun holds the state.                                  *)
(*                                                                         *)
(* A ledger record is [status, cid, oid, day]: day is the day of           *)
(* updatedAt. An idempotency entry or release has the fields cid, oid and  *)
(* status too. None stands for null and for a key with no record.          *)
(***************************************************************************)
EXTENDS Naturals, Sequences

CONSTANT None

OrderLifecycleStatus == {"planned", "submitted", "accepted", "partially_filled",
                         "filled", "canceled", "rejected", "expired"}
Terminal == {"canceled", "rejected", "expired"}
Open == {"submitted", "accepted", "partially_filled"}

\* ORDER_TRANSITIONS as pairs.
OrderTransitions ==
  ({"planned"} \X ({"submitted", "accepted"} \cup Terminal))
    \cup ({"submitted"} \X ({"accepted", "partially_filled", "filled"} \cup Terminal))
    \cup ({"accepted"} \X ({"partially_filled", "filled"} \cup Terminal))
    \cup ({"partially_filled"} \X ({"partially_filled", "filled"} \cup Terminal))

\* canReconcileOrderLedgerStatus: broker evidence may overtake "planned".
CanReconcile(from, to) ==
  \/ <<from, to>> \in OrderTransitions
  \/ from = "planned" /\ to \in {"partially_filled", "filled"}

Known(a, b) == IF a # None THEN a ELSE b

\* One payload of updateOrderLedger. submitted is the submission that succeeded
\* for this key, or None; cid is the id the run used for it.
Upserted(rec, submitted, cid, day) ==
  LET to  == IF submitted = None THEN "planned" ELSE submitted.status
      oid == IF submitted = None THEN None ELSE submitted.oid
      moves == rec = None \/ <<rec.status, to>> \in OrderTransitions
  IN  [status |-> IF moves THEN to ELSE rec.status, cid |-> cid, oid |-> oid, day |-> day]
\* The idempotency record a ledger row is reconciled with: the entry of its key,
\* else the release of its key when there is exactly one. Client and broker order
\* ids belong to one key, so the lookups by id that follow in the code find
\* nothing that the lookup by key did not.
Evidence(entry, released) ==
  IF entry # None THEN entry
  ELSE IF Len(released) = 1 THEN released[1] ELSE None

\* reconcileOrderLedgerWithIdempotency for one row.
Reconciled(rec, entry, released, day) ==
  LET ev == Evidence(entry, released)
  IN  IF rec = None \/ ev = None THEN rec
      ELSE IF ev.status = None THEN rec
      ELSE LET cid == Known(ev.cid, rec.cid)
               oid == Known(ev.oid, rec.oid)
               moves == rec.status # ev.status /\ CanReconcile(rec.status, ev.status)
           IN  IF moves \/ cid # rec.cid \/ oid # rec.oid
               THEN [status |-> IF moves THEN ev.status ELSE rec.status,
                     cid |-> cid, oid |-> oid, day |-> day]
               ELSE rec
==============================================================================
