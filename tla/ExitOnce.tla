------------------------------ MODULE ExitOnce ------------------------------
(***************************************************************************)
(* What a scoped closeout promises, whatever fails: the targets are sold   *)
(* in order, each at most once, each only after the intent to sell it is   *)
(* durable, and the next one only after the last one is closed.            *)
(***************************************************************************)
EXTENDS Naturals

CONSTANT N

VARIABLES
  intended,  \* targets whose intent is durable
  sentOut,   \* targets whose order left
  closed     \* targets recorded as sold and flat

vars == <<intended, sentOut, closed>>

Init == intended = {} /\ sentOut = {} /\ closed = {}

Intend(t) ==
  /\ t \notin intended
  /\ 1..(t - 1) \subseteq closed
  /\ intended' = intended \cup {t}
  /\ UNCHANGED <<sentOut, closed>>

SendOut(t) ==
  /\ t \in intended /\ t \notin sentOut
  /\ sentOut' = sentOut \cup {t}
  /\ UNCHANGED <<intended, closed>>

Close(t) ==
  /\ t \in sentOut /\ t \notin closed
  /\ closed' = closed \cup {t}
  /\ UNCHANGED <<intended, sentOut>>

Next == \E t \in 1..N : Intend(t) \/ SendOut(t) \/ Close(t)

Spec == Init /\ [][Next]_vars
=============================================================================
