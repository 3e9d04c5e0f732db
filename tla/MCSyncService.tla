--------------------------- MODULE MCSyncService ---------------------------
(* SyncService on small instances.                                         *)
EXTENDS SyncService, TLC

Symmetry == Permutations(Reqs) \cup Permutations(Conns)
=============================================================================
