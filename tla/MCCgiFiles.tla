---------------------------- MODULE MCCgiFiles -------------------------------
(***************************************************************************)
(* Small instances of CgiFiles for TLC.                                    *)
(***************************************************************************)
EXTENDS CgiFiles, TLC

(* Two passwords are longer than 32 bytes; of the one, byte 32 is the last   *)
(* of a character, of the other it is not.                                   *)
CutAt32(pw) == CASE pw = "long" -> "cut" [] pw = "split" -> "torn" [] OTHER -> pw

(* What races: registrations, and the collections of one user. *)
Races ==    [kind : {"register"}, name : {"ann"}, pw : {"long", "split"}]
       \cup [kind : {"register"}, name : {"bob"}, pw : {"split"}]
       \cup [kind : {"login"}, name : {"ann"}, pw : {"long", "cut"}]
       \cup [kind : {"create_playlist"}, name : {"ann"}, list : Lists]
       \cup [kind : {"add_to_playlist"}, name : {"ann"}, list : Lists, track : Tracks]
       \cup [kind : {"get_playlists"}, name : {"ann"}]

OldAnn == [n \in {"ann"} |-> [pw |-> "made", lists |-> NoLists, string |-> TRUE]]

(* The file may be absent, or hold ann's account, of the older format.       *)
Files == {Nobody, OldAnn}

(* Bound: since they have no file in common, only programs of the one kind   *)
(* begin; and of what the other kind may find, one choice is enough.         *)
OneKind ==
  \/ Init /\ last = Nobody
  \/ D!Init /\ oneDisk /\ temp /\ \A a \in Albums : dest[a] = NULL

(* The processes are alike, the jobs, and the albums. *)
Alike == Permutations(Procs) \cup Permutations(Jobs) \cup Permutations(Albums)

=============================================================================
