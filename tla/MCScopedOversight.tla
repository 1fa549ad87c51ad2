------------------------- MODULE MCScopedOversight -------------------------
(* Two exits of one attempt; a fill of one unit of two is partial.         *)
EXTENDS ScopedOversight
=============================================================================
