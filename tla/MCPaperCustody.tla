--------------------------- MODULE MCPaperCustody ---------------------------
(* Small instances of PaperCustody for TLC.                                 *)
EXTENDS PaperCustody, TLC

Interchangeable == Permutations(Session) \cup Permutations(Intent)
=============================================================================
