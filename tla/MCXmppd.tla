------------------------------ MODULE MCXmppd --------------------------------
(***************************************************************************)
(* Small instances of Xmppd for TLC.  The rooms are interchangeable; the   *)
(* descriptors are numbers, their slots are computed from them.            *)
(***************************************************************************)
EXTENDS Xmppd, TLC

Symmetry == Permutations(Rooms)

=============================================================================
