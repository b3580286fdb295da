---------------------------- MODULE MCHttpsServer ----------------------------
(***************************************************************************)
(* A small instance of HttpsServer for TLC.                                *)
(***************************************************************************)
EXTENDS HttpsServer, TLC

(* Records and descriptors are interchangeable. *)
Symmetry == Permutations(Recs) \cup Permutations(Fds)

=============================================================================
