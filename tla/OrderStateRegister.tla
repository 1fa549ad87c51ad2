------------------------- MODULE OrderStateRegister -------------------------
(***************************************************************************)
(* What order-state-storage.ts promises the code that keeps the order      *)
(* ledger and the idempotency state in it: a compare-and-set register per  *)
(* file. A state object can only replace the value it was read from;       *)
(* reading a file inside the directory-lock task leases it to that writer  *)
(* until the task ends; and a power loss brings back an earlier value only *)
(* if no settlement followed it.                                           *)
(***************************************************************************)
CONSTANTS Writer, File, Content, Unread, Nobody, Faulty

VARIABLES
  value,     \* value[f]: the register
  fallback,  \* fallback[f]: values a power loss may leave
  view,      \* view[w][f]: the value that w's state object came from
  lease      \* lease[f]: the writer f is leased to

vars == <<value, fallback, view, lease>>

Init ==
  /\ value \in [File -> Content]
  /\ fallback = [f \in File |-> {value[f]}]
  /\ view = [w \in Writer |-> [f \in File |-> Unread]]
  /\ lease = [f \in File |-> Nobody]

\* A read outside a task may be overtaken: it yields some value, and the
\* compare-and-set of the writer will tell.
Read(w, f, c) ==
  /\ lease[f] # w
  /\ view' = [view EXCEPT ![w][f] = c]
  /\ UNCHANGED <<value, fallback, lease>>

\* A read inside a task is exact, and stays exact.
ReadLeased(w, f) ==
  /\ lease[f] \in {w, Nobody}
  /\ view' = [view EXCEPT ![w][f] = value[f]]
  /\ lease' = [lease EXCEPT ![f] = w]
  /\ UNCHANGED <<value, fallback>>

\* Compare and set.
Commit(w, f, c) ==
  /\ lease[f] \in {w, Nobody}
  /\ view[w][f] = value[f]
  /\ value' = [value EXCEPT ![f] = c]
  /\ fallback' = [fallback EXCEPT ![f] = @ \cup {c}]
  /\ UNCHANGED <<view, lease>>

\* The values become permanent.
Settle ==
  /\ fallback' = [f \in File |-> {value[f]}]
  /\ UNCHANGED <<value, view, lease>>

\* A writer learns that its commit is permanent.
Acknowledge(w, f) ==
  /\ fallback' = [g \in File |-> {value[g]}]
  /\ view' = [view EXCEPT ![w][f] = value[f]]
  /\ UNCHANGED <<value, lease>>

Release(w) ==
  /\ lease' = [f \in File |-> IF lease[f] = w THEN Nobody ELSE lease[f]]
  /\ UNCHANGED <<value, fallback, view>>

\* A writer dies.
Forget(w) ==
  /\ Faulty
  /\ view' = [view EXCEPT ![w] = [f \in File |-> Unread]]
  /\ lease' = [f \in File |-> IF lease[f] = w THEN Nobody ELSE lease[f]]
  /\ UNCHANGED <<value, fallback>>

LoseUnsettled ==
  /\ Faulty
  /\ \A f \in File : value'[f] \in fallback[f]
  /\ value' \in [File -> Content]
  /\ fallback' = [f \in File |-> {value'[f]}]
  /\ view' = [w \in Writer |-> [f \in File |-> Unread]]
  /\ lease' = [f \in File |-> Nobody]

Next ==
  \/ \E w \in Writer :
       \/ \E f \in File :
            \/ \E c \in Content : Read(w, f, c) \/ Commit(w, f, c)
            \/ ReadLeased(w, f) \/ Acknowledge(w, f)
       \/ Release(w) \/ Forget(w)
  \/ Settle
  \/ LoseUnsettled

Spec == Init /\ [][Next]_vars
=============================================================================
