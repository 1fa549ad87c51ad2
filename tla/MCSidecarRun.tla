----------------------------- MODULE MCSidecarRun -----------------------------
(* Small instances of SidecarRun for TLC.                                  *)
EXTENDS SidecarRun, TLC

Interchangeable == Permutations(Hashes) \cup Permutations(Symbols)
===============================================================================
