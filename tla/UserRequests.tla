---------------------------- MODULE UserRequests -----------------------------
(***************************************************************************)
(* What the two programs behind the account pages make of one request,     *)
(* given the object they have loaded from data/users.json                  *)
(* (cgi_bin/auth_app.c:60-156, cgi_bin/playlist_manager.c:57-127): whether *)
(* they save it, what it then holds, and what they answer.                 *)
(*                                                                         *)
(* An account of the older format is a bare string, its password: it can   *)
(* log in, and json_object_set_new on the playlists it does not have       *)
(* fails without a word.  So does it on a password that json_string does   *)
(* not take: handle_register cuts a long one after 32 bytes, and where     *)
(* that splits a character, the rest is no UTF-8.  The account has no      *)
(* password then.                                                          *)
(***************************************************************************)
EXTENDS Naturals, Sequences

CONSTANTS Names,     \* user names
          Passwords, \* passwords, those of generate_password included
          Cut(_),    \* the first 32 bytes of a password, whole characters or not
          Generated, \* the password that generate_password makes up
          Lists,     \* names of collections
          Tracks,    \* tracks
          MaxTracks, \* bound: tracks in a collection
          NULL       \* no value

ASSUME UserAssumption == /\ Generated \in Passwords
                         /\ MaxTracks \in Nat
                         /\ NULL \notin Passwords

NoLists == <<>>   \* the empty object

Collections == UNION {[L -> UNION {[1..n -> Tracks] : n \in 0..MaxTracks}] : L \in SUBSET Lists}
Accounts    == [pw : Passwords \cup {NULL}, lists : Collections, string : BOOLEAN]
Databases   == UNION {[N -> Accounts] : N \in SUBSET Names}

Nobody == [n \in {} |-> NULL]   \* json_object()

(* json_object_set_new: a member is added, or replaced. *)
Set(object, key, value) ==
  [k \in (DOMAIN object) \cup {key} |-> IF k = key THEN value ELSE object[k]]

Requests ==
       [kind : {"register"}, name : Names, pw : Passwords \cup {NULL}]
  \cup [kind : {"login"}, name : Names, pw : Passwords]
  \cup [kind : {"get_playlists"}, name : Names]
  \cup [kind : {"create_playlist"}, name : Names, list : Lists]
  \cup [kind : {"add_to_playlist"}, name : Names, list : Lists, track : Tracks]
  \cup [kind : {"malformed"}]

(* What handle_register may choose for a password, and what json_string      *)
(* makes of that for the file: a password that is no text is not stored.     *)
Chosen     == {Generated} \cup {Cut(pw) : pw \in Passwords}
Stored(pw) == IF pw \in Passwords THEN pw ELSE NULL

(* An answer: its status, the password it tells, the collections it shows. *)
Answer(status, pw, lists) == [status |-> status, pw |-> pw, lists |-> lists]
Says(status) == Answer(status, NULL, NoLists)
Statuses == {"success", "exists", "not_found", "wrong_password", "no_account", "no_list", "malformed"}
Answers  == [status : Statuses, pw : Chosen \cup {NULL}, lists : Collections]

Leaves(db, answer) == [saves |-> FALSE, db |-> db, answer |-> answer]
Saves(db, answer)  == [saves |-> TRUE, db |-> db, answer |-> answer]

(* Mutant: the answer tells the password as it was typed.                    *)
RegisterTellsTyped(db, r) ==
  LET final == IF r.pw = NULL THEN Generated ELSE Cut(r.pw)
      told  == IF r.pw = NULL THEN Generated ELSE r.pw
  IN  IF r.name \in DOMAIN db
        THEN Leaves(db, Says("exists"))
        ELSE Saves(Set(db, r.name, [pw |-> Stored(final), lists |-> NoLists, string |-> FALSE]),
                   Answer("success", told, NoLists))

(* handle_register; without a password one is generated.  The answer tells   *)
(* the bytes that were chosen, stored or not.                                *)
Register(db, r) ==
  LET final == IF r.pw = NULL THEN Generated ELSE Cut(r.pw)
  IN  IF r.name \in DOMAIN db
        THEN Leaves(db, Says("exists"))
        ELSE Saves(Set(db, r.name, [pw |-> Stored(final), lists |-> NoLists, string |-> FALSE]),
                   Answer("success", final, NoLists))

(* handle_login; nothing matches an account without a password.              *)
Login(db, r) ==
  Leaves(db, IF r.name \notin DOMAIN db         THEN Says("not_found")
             ELSE IF db[r.name].pw # NULL /\ db[r.name].pw = r.pw THEN Says("success")
             ELSE Says("wrong_password"))

(* A user that is not on file has no collections, which is no error. *)
GetPlaylists(db, r) ==
  Leaves(db, Answer("success", NULL,
                    IF r.name \in DOMAIN db THEN db[r.name].lists ELSE NoLists))

CreatePlaylist(db, r) ==
  IF r.name \notin DOMAIN db THEN Leaves(db, Says("no_account"))
  ELSE IF r.list \in DOMAIN db[r.name].lists THEN Leaves(db, Says("success"))
  ELSE IF db[r.name].string THEN Saves(db, Says("success"))
  ELSE Saves([db EXCEPT ![r.name].lists = Set(@, r.list, <<>>)], Says("success"))

AddToPlaylist(db, r) ==
  IF r.name \notin DOMAIN db THEN Leaves(db, Says("no_account"))
  ELSE IF r.list \notin DOMAIN db[r.name].lists THEN Leaves(db, Says("no_list"))
  ELSE Saves([db EXCEPT ![r.name].lists[r.list] = Append(@, r.track)], Says("success"))

Outcome(db, r) ==
  CASE r.kind = "register"        -> Register(db, r)
    [] r.kind = "login"           -> Login(db, r)
    [] r.kind = "get_playlists"   -> GetPlaylists(db, r)
    [] r.kind = "create_playlist" -> CreatePlaylist(db, r)
    [] r.kind = "add_to_playlist" -> AddToPlaylist(db, r)
    [] r.kind = "malformed"       -> Leaves(db, Says("malformed"))

(* Bound: a request that would make a collection longer than MaxTracks is    *)
(* not made.                                                                 *)
Fits(db, r) ==
  r.kind = "add_to_playlist" =>
    \A n \in (DOMAIN db) \cap {r.name} : \A l \in (DOMAIN db[n].lists) \cap {r.list} :
      Len(db[n].lists[l]) < MaxTracks

=============================================================================
