------------------------- MODULE MCOrderStateStore -------------------------
(* Small instances of OrderStateStore for TLC.                             *)
EXTENDS OrderStateStore, TLC

Symmetry == Permutations(Writer) \cup Permutations(Content)
=============================================================================
