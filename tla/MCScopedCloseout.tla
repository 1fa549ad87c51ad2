-------------------------- MODULE MCScopedCloseout --------------------------
(* Small instances of ScopedCloseout for TLC.                              *)
EXTENDS ScopedCloseout
=============================================================================
