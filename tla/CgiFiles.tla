------------------------------ MODULE CgiFiles ------------------------------
(***************************************************************************)
(* The CGI programs that change files, side by side: accounts and          *)
(* playlists (UserStore) and songs (Downloads).  The workers run them at   *)
(* the same time, and they have no file in common.                         *)
(***************************************************************************)
EXTENDS UserStore

CONSTANTS Jobs, Albums, Seconds, Old

VARIABLES oneDisk, temp, now, work, dest, jobPc, album, at, todo, into, superseded

D == INSTANCE Downloads WITH pc <- jobPc

ASSUME FilesAssumption == D!Parameters

users == vars
jobs == <<oneDisk, temp, now, work, dest, jobPc, album, at, todo, into, superseded>>

FilesInit == Init /\ D!Init

FilesNext ==
  \/ Next /\ UNCHANGED jobs
  \/ \E j \in Jobs : D!Step(j) /\ UNCHANGED users

FilesSpec == FilesInit /\ [][FilesNext]_<<users, jobs>>

(* What Downloads states of the jobs, it states of them here. *)
AlbumsWhole == D!AlbumsWhole

=============================================================================
