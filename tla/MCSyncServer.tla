---------------------------- MODULE MCSyncServer ----------------------------
(* SyncServer with its interchangeable schedulers, connections, descriptors. *)
EXTENDS SyncServer, TLC

(* Only the safety run uses this. *)
MCSymmetry ==
  Permutations(Scheds) \cup Permutations(Conns) \cup Permutations(Fds)
=============================================================================
