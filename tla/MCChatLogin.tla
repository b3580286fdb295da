----------------------------- MODULE MCChatLogin -----------------------------
(***************************************************************************)
(* Small instances of ChatLogin for TLC.                                   *)
(***************************************************************************)
EXTENDS ChatLogin

=============================================================================
