---------------------------- MODULE MCRadioServer ----------------------------
(***************************************************************************)
(* Small instances of RadioServer for TLC.  The descriptors are            *)
(* interchangeable; the senders are not, main deals to them in turn.       *)
(***************************************************************************)
EXTENDS RadioServer, TLC

Symmetry == Permutations(Fds)

=============================================================================
