---------------------------- MODULE MCHttpServer -----------------------------
(***************************************************************************)
(* Small instances of HttpServer for TLC.                                  *)
(***************************************************************************)
EXTENDS HttpServer, Routes, Ranges, TLC

(* Records, descriptors and workers are interchangeable. *)
Symmetry == Permutations(Recs) \cup Permutations(Fds) \cup Permutations(Workers)

(* Routes and ranges depend on nothing that connections do: it is enough to  *)
(* look at them when no connection has come yet and the configuration has    *)
(* just been read (http/server.c:210).                                       *)
(* Every path gets the route, and the password, that the file says.          *)
RoutesAsConfigured == alloc = {} => RoutesRight

(* What is sent of a file is what is announced, or it is known why not.         *)
RangesHonoured == alloc = {} => RangesRight

=============================================================================
