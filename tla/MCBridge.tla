------------------------------ MODULE MCBridge -------------------------------
(***************************************************************************)
(* Small instances of Bridge for TLC.                                      *)
(***************************************************************************)
EXTENDS Bridge, Frames, TLC

(* Descriptors and addresses are interchangeable. *)
Symmetry == Permutations(Fds) \cup Permutations(Sessions)

(* Frames are cut and made as they were sent (bridge.c:390-490).  It depends *)
(* on nothing of the sessions: it is enough to look before there are any.    *)
FramesIntact == alloc = {} => FramesRight

=============================================================================
