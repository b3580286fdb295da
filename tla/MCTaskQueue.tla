----------------------------- MODULE MCTaskQueue -----------------------------
(***************************************************************************)
(* Small instances of TaskQueue for TLC.                                   *)
(***************************************************************************)
EXTENDS TaskQueue, TLC

(* Connections, workers and heap addresses are interchangeable. *)
Symmetry == Permutations(Clients) \cup Permutations(Workers) \cup Permutations(Tasks)

=============================================================================
