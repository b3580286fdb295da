----------------------------- MODULE MCCgiPipes -----------------------------
EXTENDS CgiPipes

(* A body the program takes as a whole, and one it takes nothing of, longer  *)
(* than a pipe.                                                              *)
MCBodies == {<<1, 1>>, <<2, 0>>}
=============================================================================
