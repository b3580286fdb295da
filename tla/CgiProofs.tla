------------------------------ MODULE CgiProofs ------------------------------
(***************************************************************************)
(* Proofs about the CGI programs: those that change files, for any         *)
(* schedule of them on one disk, and the pipes they are run on, for any    *)
(* number of requests, bodies of any length, pipes of any capacity, and    *)
(* whatever ends of each other's pipes the children inherit.               *)
(***************************************************************************)
EXTENDS CgiFiles, CgiPipes, SequenceTheorems, TLAPS

(* A function, and nothing besides its members. *)
IsFunction(object) == object = [k \in DOMAIN object |-> object[k]]

(* An object from the file, without its union of function sets.              *)
LEMMA IsDatabase ==
  ASSUME NEW object
  PROVE  object \in Databases
         <=> /\ DOMAIN object \subseteq Names /\ IsFunction(object)
             /\ \A n \in DOMAIN object : object[n] \in Accounts
BY DEF Databases, IsFunction

(* The collections of an account, likewise. *)
LEMMA IsCollections ==
  ASSUME NEW lists
  PROVE  lists \in Collections
         <=> /\ DOMAIN lists \subseteq Lists
             /\ IsFunction(lists)
             /\ \A l \in DOMAIN lists : lists[l] \in Seq(Tracks) /\ Len(lists[l]) <= MaxTracks
<1> DEFINE Bounded == UNION {[1..n -> Tracks] : n \in 0..MaxTracks}
<1>1. \A s : s \in Bounded <=> s \in Seq(Tracks) /\ Len(s) <= MaxTracks
  <2>1. ASSUME NEW n \in 0..MaxTracks, NEW s \in [1..n -> Tracks]
        PROVE  s \in Seq(Tracks) /\ Len(s) <= MaxTracks
    BY <2>1, UserAssumption
  <2>2. ASSUME NEW s \in Seq(Tracks), Len(s) <= MaxTracks
        PROVE  s \in Bounded
    <3>1. Len(s) \in 0..MaxTracks /\ s \in [1..Len(s) -> Tracks]
      BY <2>2, UserAssumption
    <3> QED  BY <3>1
  <2> QED  BY <2>1, <2>2
<1>2. lists \in Collections <=> DOMAIN lists \subseteq Lists /\ lists \in [DOMAIN lists -> Bounded]
  BY DEF Collections
<1> HIDE DEF Bounded
<1> QED  BY <1>1, <1>2 DEF IsFunction

(* The two empty objects. *)
LEMMA EmptyObjects ==
  /\ Nobody \in Databases /\ DOMAIN Nobody = {}
  /\ NoLists \in Collections /\ DOMAIN NoLists = {}
<1>1. Nobody \in Databases /\ DOMAIN Nobody = {}
  BY IsDatabase DEF Nobody, IsFunction
<1>2. NoLists \in Collections /\ DOMAIN NoLists = {}
  <2>1. DOMAIN NoLists = {} /\ IsFunction(NoLists)
    BY DEF NoLists, IsFunction
  <2> QED  BY <2>1, IsCollections
<1> QED  BY <1>1, <1>2

(* What an outcome promises of the object it leaves: its shape; that nothing *)
(* of the old one is gone from it; and where its passwords are from.         *)
Promised(old, r, out) ==
  /\ out.saves \in BOOLEAN /\ out.db \in Databases /\ out.answer \in Answers
  /\ Keeps(out.db, old)
  /\ \A n \in DOMAIN out.db :
       \/ n \in DOMAIN old /\ out.db[n].pw = old[n].pw
       \/ r.kind = "register" /\ out.saves /\ n = r.name /\ out.db[n].pw = Stored(out.answer.pw)
  /\ out.answer.status = "success" /\ r.kind = "login"
       => r.name \in DOMAIN old /\ old[r.name].pw = r.pw /\ r.pw \in Passwords
  /\ r.kind = "register" /\ out.saves => r.name \in Names /\ out.answer.pw \in Chosen

(* Nothing is lost where nothing is changed.                                 *)
LEMMA KeepsItself == ASSUME NEW object \in Databases PROVE Keeps(object, object)
<1>1. ASSUME NEW n \in DOMAIN object, NEW l \in DOMAIN object[n].lists
      PROVE  Len(object[n].lists[l]) \in Nat
  <2>1. object[n] \in Accounts
    BY IsDatabase
  <2>2. object[n].lists \in Collections
    BY <2>1 DEF Accounts
  <2>3. object[n].lists[l] \in Seq(Tracks)
    BY <1>1, <2>2, IsCollections
  <2> QED  BY <2>3
<1> QED  BY <1>1 DEF Keeps

(* An answer that only says how it went. *)
LEMMA SaysAnswers == ASSUME NEW s \in Statuses PROVE Says(s) \in Answers
BY EmptyObjects DEF Says, Answer, Answers

(* handle_register: a new account beside the old ones.                       *)
LEMMA RegisterPromised ==
  ASSUME NEW old \in Databases, NEW r \in Requests, r.kind = "register"
  PROVE  Promised(old, r, Register(old, r))
<1>1. r.name \in Names /\ r.pw \in Passwords \cup {NULL}
  BY DEF Requests
<1> DEFINE final == IF r.pw = NULL THEN Generated ELSE Cut(r.pw)
           made == [pw |-> Stored(final), lists |-> NoLists, string |-> FALSE]
           new == Set(old, r.name, made)
<1>2. final \in Chosen /\ Stored(final) \in Passwords \cup {NULL}
  BY <1>1 DEF Chosen, Stored
<1>3. made \in Accounts
  BY <1>2, EmptyObjects DEF Accounts
<1>4. CASE r.name \in DOMAIN old
  <2>1. Register(old, r) = [saves |-> FALSE, db |-> old, answer |-> Says("exists")]
    BY <1>4 DEF Register, Leaves
  <2>2. Says("exists") \in Answers /\ Says("exists").status = "exists"
    BY SaysAnswers DEF Statuses, Says, Answer
  <2> QED  BY <2>1, <2>2, KeepsItself DEF Promised
<1>5. CASE r.name \notin DOMAIN old
  <2>1. Register(old, r) = [saves |-> TRUE, db |-> new, answer |-> Answer("success", final, NoLists)]
    BY <1>5 DEF Register, Saves
  <2>2. Answer("success", final, NoLists) \in Answers
    BY <1>2, EmptyObjects DEF Answer, Answers, Statuses
  <2> HIDE DEF made, final
  <2>3. /\ DOMAIN new = (DOMAIN old) \cup {r.name} /\ new[r.name] = made
        /\ \A n \in DOMAIN old : new[n] = old[n]
        /\ IsFunction(new)
    BY <1>5 DEF new, Set, IsFunction
  <2> HIDE DEF new
  <2>4. new \in Databases
    BY <1>1, <1>3, <2>3, IsDatabase
  <2>5. Keeps(new, old)
    BY <2>3, KeepsItself DEF Keeps
  <2>6. new[r.name].pw = Stored(final)
    BY <2>3 DEF made
  <2> QED
    BY <1>1, <1>2, <2>1, <2>2, <2>3, <2>4, <2>5, <2>6 DEF Promised, Answer
<1> QED  BY <1>4, <1>5

(* handle_login, get_playlists, and what is no request: the object stays.    *)
LEMMA ReaderPromised ==
  ASSUME NEW old \in Databases, NEW r \in Requests
  PROVE  /\ r.kind = "login" => Promised(old, r, Login(old, r))
         /\ r.kind = "get_playlists" => Promised(old, r, GetPlaylists(old, r))
         /\ r.kind = "malformed" => Promised(old, r, Leaves(old, Says("malformed")))
<1>1. CASE r.kind = "login"
  <2>1. \A s \in Statuses : Says(s) \in Answers /\ Says(s).status = s
    BY SaysAnswers DEF Says, Answer
  <2>2. r.pw \in Passwords
    BY <1>1 DEF Requests
  <2> QED
    BY <1>1, <2>1, <2>2, KeepsItself DEF Login, Leaves, Promised, Statuses
<1>2. CASE r.kind = "get_playlists"
  <2>1. r.name \in DOMAIN old => old[r.name].lists \in Collections
    BY IsDatabase DEF Accounts
  <2>2. \A lists \in Collections : Answer("success", NULL, lists) \in Answers
    BY DEF Answer, Answers, Statuses
  <2> QED
    BY <1>2, <2>1, <2>2, EmptyObjects, KeepsItself DEF GetPlaylists, Leaves, Promised
<1>3. CASE r.kind = "malformed"
  BY <1>3, SaysAnswers, KeepsItself DEF Leaves, Promised, Statuses
<1> QED  BY <1>1, <1>2, <1>3

(* An account that is put back with a longer collection, or one more: what   *)
(* create_playlist and add_to_playlist save.                                 *)
LEMMA ListsPromised ==
  ASSUME NEW old \in Databases, NEW r \in Requests, r.kind # "register", r.kind # "login",
         NEW name \in DOMAIN old, NEW lists \in Collections, NEW new,
         new = [old EXCEPT ![name].lists = lists],
         \A l \in DOMAIN old[name].lists :
           /\ l \in DOMAIN lists
           /\ Len(lists[l]) >= Len(old[name].lists[l])
           /\ \A i \in 1..Len(old[name].lists[l]) : lists[l][i] = old[name].lists[l][i]
  PROVE  Promised(old, r, Saves(new, Says("success")))
<1>1. /\ DOMAIN old \subseteq Names /\ IsFunction(old)
      /\ \A n \in DOMAIN old : old[n] \in Accounts
      /\ old[name] \in Accounts
  BY IsDatabase
<1>2. /\ DOMAIN new = DOMAIN old
      /\ new[name].pw = old[name].pw /\ new[name].lists = lists /\ new[name] \in Accounts
      /\ \A n \in (DOMAIN old) \ {name} : new[n] = old[n]
  BY <1>1 DEF Accounts
<1>3. new \in Databases
  <2>1. IsFunction(new)
    BY <1>1 DEF IsFunction
  <2> QED  BY <1>1, <1>2, <2>1, IsDatabase
<1>4. Keeps(new, old)
  BY <1>2, KeepsItself DEF Keeps
<1>5. Says("success") \in Answers
  BY SaysAnswers DEF Statuses
<1> QED  BY <1>2, <1>3, <1>4, <1>5 DEF Promised, Saves

(* create_playlist: a new collection is empty, one that is there is kept.    *)
LEMMA CreatePromised ==
  ASSUME NEW old \in Databases, NEW r \in Requests, r.kind = "create_playlist"
  PROVE  Promised(old, r, CreatePlaylist(old, r))
<1>1. r.list \in Lists
  BY DEF Requests
<1>2. ASSUME NEW s \in Statuses PROVE Promised(old, r, Leaves(old, Says(s)))
  BY SaysAnswers, KeepsItself DEF Leaves, Promised
<1>3. Promised(old, r, Saves(old, Says("success")))
  BY SaysAnswers, KeepsItself DEF Saves, Promised, Statuses
<1>4. CASE /\ r.name \in DOMAIN old /\ r.list \notin DOMAIN old[r.name].lists
           /\ ~old[r.name].string
  <2> DEFINE before == old[r.name].lists
             lists == Set(before, r.list, <<>>)
             new == [old EXCEPT ![r.name].lists = lists]
  <2>1. before \in Collections
    BY <1>4, IsDatabase DEF Accounts
  <2> HIDE DEF before
  <2>2. /\ DOMAIN lists = (DOMAIN before) \cup {r.list} /\ lists[r.list] = <<>>
        /\ \A l \in (DOMAIN before) \ {r.list} : lists[l] = before[l]
        /\ IsFunction(lists)
    BY DEF lists, Set, IsFunction
  <2> HIDE DEF lists
  <2>3. /\ DOMAIN before \subseteq Lists
        /\ \A l \in DOMAIN before : before[l] \in Seq(Tracks) /\ Len(before[l]) <= MaxTracks
    BY <2>1, IsCollections
  <2>4. <<>> \in Seq(Tracks) /\ Len(<<>>) = 0
    BY EmptySeq
  <2>5. lists \in Collections
    <3>1. lists[r.list] \in Seq(Tracks) /\ Len(lists[r.list]) <= MaxTracks
      <4>1. 0 <= MaxTracks
        BY UserAssumption
      <4> QED  BY <2>2, <2>4, <4>1
    <3>2. \A l \in DOMAIN lists : lists[l] \in Seq(Tracks) /\ Len(lists[l]) <= MaxTracks
      BY <2>2, <2>3, <3>1
    <3> QED  BY <1>1, <2>2, <2>3, <3>2, IsCollections
  <2>6. \A l \in DOMAIN before :
          /\ l \in DOMAIN lists
          /\ Len(lists[l]) >= Len(before[l])
          /\ \A i \in 1..Len(before[l]) : lists[l][i] = before[l][i]
    BY <1>4, <2>2, <2>3 DEF before
  <2>7. CreatePlaylist(old, r) = Saves(new, Says("success"))
    BY <1>4 DEF CreatePlaylist, lists, before
  <2> HIDE DEF new
  <2> QED  BY <1>4, <2>5, <2>6, <2>7, ListsPromised DEF new, before
<1>5. \/ CreatePlaylist(old, r) = Leaves(old, Says("no_account"))
      \/ CreatePlaylist(old, r) = Leaves(old, Says("success"))
      \/ CreatePlaylist(old, r) = Saves(old, Says("success"))
      \/ r.name \in DOMAIN old /\ r.list \notin DOMAIN old[r.name].lists /\ ~old[r.name].string
  BY DEF CreatePlaylist
<1> QED  BY <1>2, <1>3, <1>4, <1>5 DEF Statuses

(* add_to_playlist: the track comes after the others.                        *)
LEMMA AddPromised ==
  ASSUME NEW old \in Databases, NEW r \in Requests, r.kind = "add_to_playlist", Fits(old, r)
  PROVE  Promised(old, r, AddToPlaylist(old, r))
<1>1. r.track \in Tracks
  BY DEF Requests
<1>2. ASSUME NEW s \in Statuses PROVE Promised(old, r, Leaves(old, Says(s)))
  BY SaysAnswers, KeepsItself DEF Leaves, Promised
<1>3. CASE r.name \in DOMAIN old /\ r.list \in DOMAIN old[r.name].lists
  <2> DEFINE before == old[r.name].lists
             lists == [before EXCEPT ![r.list] = Append(@, r.track)]
             new == [old EXCEPT ![r.name].lists = lists]
  <2>1. before \in Collections /\ r.list \in DOMAIN before /\ Len(before[r.list]) < MaxTracks
    BY <1>3, IsDatabase DEF Accounts, Fits
  <2>2. AddToPlaylist(old, r) = Saves(new, Says("success"))
    BY <1>3 DEF AddToPlaylist
  <2> HIDE DEF before
  <2>3. /\ DOMAIN before \subseteq Lists
        /\ IsFunction(before)
        /\ \A l \in DOMAIN before : before[l] \in Seq(Tracks) /\ Len(before[l]) <= MaxTracks
    BY <2>1, IsCollections
  <2>4. /\ DOMAIN lists = DOMAIN before /\ lists[r.list] = Append(before[r.list], r.track)
        /\ \A l \in (DOMAIN before) \ {r.list} : lists[l] = before[l]
        /\ IsFunction(lists)
    BY <2>1, <2>3 DEF IsFunction
  <2> HIDE DEF lists
  <2>5. /\ Append(before[r.list], r.track) \in Seq(Tracks)
        /\ Len(Append(before[r.list], r.track)) = Len(before[r.list]) + 1
        /\ \A i \in 1..Len(before[r.list]) :
             Append(before[r.list], r.track)[i] = before[r.list][i]
    BY <1>1, <2>1, <2>3, AppendProperties
  <2>6. lists \in Collections
    <3>1. Len(before[r.list]) \in Nat
      BY <2>1, <2>3
    <3>2. /\ lists[r.list] \in Seq(Tracks)
          /\ Len(lists[r.list]) <= MaxTracks
      BY <2>1, <2>4, <2>5, <3>1, UserAssumption
    <3>3. \A l \in DOMAIN lists : lists[l] \in Seq(Tracks) /\ Len(lists[l]) <= MaxTracks
      BY <2>3, <2>4, <3>2
    <3> QED  BY <2>3, <2>4, <3>3, IsCollections
  <2>7. \A l \in DOMAIN before :
          /\ l \in DOMAIN lists
          /\ Len(lists[l]) >= Len(before[l])
          /\ \A i \in 1..Len(before[l]) : lists[l][i] = before[l][i]
    BY <2>1, <2>3, <2>4, <2>5, SMTT(30)
  <2> HIDE DEF new
  <2> QED  BY <1>3, <2>2, <2>6, <2>7, ListsPromised DEF new, before
<1>4. \/ AddToPlaylist(old, r) = Leaves(old, Says("no_account"))
      \/ AddToPlaylist(old, r) = Leaves(old, Says("no_list"))
      \/ r.name \in DOMAIN old /\ r.list \in DOMAIN old[r.name].lists
  BY DEF AddToPlaylist
<1> QED  BY <1>2, <1>3, <1>4 DEF Statuses

(* Whatever is asked: every request's outcome keeps the promise.             *)
LEMMA OutcomePromised ==
  ASSUME NEW old \in Databases, NEW r \in Requests, Fits(old, r)
  PROVE  Promised(old, r, Outcome(old, r))
<1>1. r.kind \in {"register", "login", "get_playlists", "create_playlist",
                  "add_to_playlist", "malformed"}
  BY DEF Requests
<1> QED
  BY <1>1, RegisterPromised, ReaderPromised, CreatePromised, AddPromised DEF Outcome

-----------------------------------------------------------------------------
(* The accounts file.  Parts of the inductive invariant, beside the run's    *)
(* properties.                                                               *)

(* A file that can be parsed, or is not there, is the object saved last.     *)
FileInv == file.is \in {"json", "absent"} => file.spells = last

(* What a process has in its hands tells no password that nobody was told.   *)
LoadedInv == \A p \in Procs : \A n \in DOMAIN db[p] : db[p][n].pw \in OnRecord(n)

(* A process that is alone has everything that was saved last, and once it   *)
(* has emptied the file, nobody has written there.                           *)
AloneInv ==
  \A p \in Procs :
    /\ alone[p] /\ pc[p] \in {"open", "write"} => Keeps(db[p], last)
    /\ alone[p] /\ pc[p] = "write" => file.is = "empty"

StoreInv == Consistent /\ FileInv /\ LoadedInv /\ AloneInv

(* What was told is on record. *)
LEMMA ToldOnRecord ==
  ASSUME NEW n, NEW pw, <<n, pw>> \in told
  PROVE  Stored(pw) \in OnRecord(n)
<1>1. <<n, pw>>[1] = n /\ <<n, pw>>[2] = pw
  OBVIOUS
<1> QED  BY <1>1 DEF OnRecord

(* At the start nobody has loaded anything.                                  *)
LEMMA StoreInit == Init => StoreInv
<1> SUFFICES ASSUME Init PROVE StoreInv
  OBVIOUS
<1> USE StoreAssumption, EmptyObjects DEF Init
<1>1. /\ last \in Databases /\ DOMAIN last \subseteq Names
      /\ \A n \in DOMAIN last : last[n] \in Accounts /\ last[n].pw \in Passwords \cup {NULL}
  BY IsDatabase DEF Accounts
<1>2. /\ file \in [is : {"absent", "empty", "json", "broken"}, spells : Databases]
      /\ file.spells = last
  BY <1>1 DEF Json, NoJson
<1>3. [kind |-> "malformed"] \in Requests
  BY DEF Requests
<1>4. TypeOK
  BY <1>1, <1>2, <1>3 DEF TypeOK
<1>5. KnownPasswords
  <2>1. ASSUME NEW n \in DOMAIN last PROVE last[n].pw \in OnRecord(n)
    <3>1. Stored(last[n].pw) = last[n].pw
      BY <1>1, UserAssumption DEF Stored
    <3>2. <<n, last[n].pw>> \in told
      OBVIOUS
    <3> QED  BY <3>1, <3>2, ToldOnRecord
  <2> QED  BY <1>2, <2>1 DEF KnownPasswords
<1>6. FileInv /\ LoadedInv /\ AloneInv
  BY <1>2 DEF FileInv, LoadedInv, AloneInv
<1> QED  BY <1>4, <1>5, <1>6 DEF StoreInv, Consistent

(* main, up to the save: what was decided on the loaded file keeps its       *)
(* promises, and a process that is alone has loaded what was saved last.     *)
LEMMA BeginInv ==
  ASSUME StoreInv, NEW p \in Procs, NEW r \in Asked, Begin(p, r)
  PROVE  StoreInv'
<1> DEFINE out == Outcome(Loaded, r)
<1> USE DEF StoreInv, Consistent
<1>1. Loaded \in Databases /\ r \in Requests /\ Fits(Loaded, r)
  BY StoreAssumption DEF TypeOK, Loaded, Begin
<1>2. Promised(Loaded, r, out)
  BY <1>1, OutcomePromised
<1>3. /\ request' = [request EXCEPT ![p] = r]
      /\ db' = [db EXCEPT ![p] = out.db]
      /\ answer' = [answer EXCEPT ![p] = out.answer]
      /\ alone' = [alone EXCEPT ![p] = file.is \in {"json", "absent"} /\ ~OtherWrites(p)]
      /\ told' = IF r.kind = "register" /\ out.saves
                   THEN told \cup {<<r.name, out.answer.pw>>} ELSE told
      /\ pc' = [pc EXCEPT ![p] = IF out.saves THEN "open" ELSE "reply"]
      /\ UNCHANGED <<file, last, faults>>
  BY DEF Begin
<1> HIDE DEF out
<1>4. TypeOK'
  BY <1>1, <1>2, <1>3 DEF TypeOK, Promised
<1>5. told \subseteq told' /\ \A n : OnRecord(n) \subseteq OnRecord(n)'
  BY <1>3 DEF OnRecord
<1>6. LoadedInv'
  <2>1. ASSUME NEW n \in DOMAIN out.db PROVE out.db[n].pw \in OnRecord(n)'
    <3>1. CASE n \in DOMAIN Loaded /\ out.db[n].pw = Loaded[n].pw
      BY <1>5, <3>1 DEF KnownPasswords, Loaded
    <3>2. CASE r.kind = "register" /\ out.saves /\ n = r.name /\ out.db[n].pw = Stored(out.answer.pw)
      <4>1. told' = told \cup {<<n, out.answer.pw>>}
        BY <1>3, <3>2
      <4>2. Stored(out.answer.pw) \in OnRecord(n)'
        <5>1. <<n, out.answer.pw>>[1] = n /\ <<n, out.answer.pw>>[2] = out.answer.pw
          OBVIOUS
        <5> HIDE DEF out
        <5> QED  BY <4>1, <5>1 DEF OnRecord
      <4> QED  BY <3>2, <4>2
    <3> QED  BY <1>2, <3>1, <3>2 DEF Promised
  <2> QED  BY <1>3, <1>5, <2>1 DEF LoadedInv, TypeOK
<1>7. KnownPasswords'
  <2>1. ASSUME out.answer.status = "success", r.kind = "login"
        PROVE  <<r.name, r.pw>> \in told
    <3>1. r.pw \in OnRecord(r.name) /\ r.pw \in Passwords
      BY <1>2, <2>1 DEF Promised, KnownPasswords, Loaded
    <3>2. PICK t \in told : t[1] = r.name /\ r.pw = Stored(t[2])
      BY <3>1 DEF OnRecord
    <3>3. t[2] = r.pw
      <4>1. t[2] \in Passwords
        BY <3>1, <3>2, UserAssumption DEF Stored
      <4> QED  BY <3>2, <4>1 DEF Stored
    <3>4. t = <<t[1], t[2]>>
      <4>1. \A S, T : \A x \in S \X T : x = <<x[1], x[2]>>
        OBVIOUS
      <4> QED  BY <3>2, <4>1 DEF TypeOK
    <3> QED  BY <3>2, <3>3, <3>4
  <2> QED  BY <1>3, <1>5, <2>1 DEF KnownPasswords, TypeOK
<1>8. FileInv' /\ AloneInv'
  BY <1>2, <1>3 DEF FileInv, AloneInv, Promised, Loaded, TypeOK
<1> QED  BY <1>4, <1>6, <1>7, <1>8

(* save_users, save_db: who empties the file disturbs the others.            *)
LEMMA OpenInv ==
  ASSUME StoreInv, NEW p \in Procs, Open(p)
  PROVE  StoreInv'
<1> USE EmptyObjects DEF StoreInv, Consistent, Open, Disturb, NoJson
<1>1. TypeOK'
  BY DEF TypeOK
<1>2. KnownPasswords' /\ FileInv' /\ LoadedInv'
  BY DEF KnownPasswords, OnRecord, FileInv, LoadedInv, TypeOK
<1>3. AloneInv'
  BY DEF AloneInv, TypeOK
<1> QED  BY <1>1, <1>2, <1>3

(* fclose: who writes has an empty file before it, or was disturbed.         *)
LEMMA WriteInv ==
  ASSUME StoreInv, NEW p \in Procs, Write(p)
  PROVE  StoreInv'
<1> USE EmptyObjects DEF StoreInv, Consistent, Write, Disturb, Json, NoJson
<1>1. TypeOK'
  <2>1. db[p] \in Databases
    BY DEF TypeOK
  <2>2. /\ file' \in [is : {"absent", "empty", "json", "broken"}, spells : Databases]
        /\ last' \in Databases
    BY <2>1 DEF TypeOK
  <2>3. alone' \in [Procs -> BOOLEAN]
    BY DEF TypeOK
  <2>4. pc' \in [Procs -> {"idle", "open", "write", "reply"}]
    BY DEF TypeOK
  <2> QED  BY <2>2, <2>3, <2>4 DEF TypeOK
<1>2. KnownPasswords'
  BY DEF KnownPasswords, OnRecord, LoadedInv, TypeOK
<1>3. FileInv' /\ LoadedInv'
  BY DEF OnRecord, FileInv, LoadedInv, TypeOK
<1>4. AloneInv'
  BY DEF AloneInv, TypeOK
<1> QED  BY <1>1, <1>2, <1>3, <1>4

(* A failed save leaves the file as it is; an answer forgets what was loaded. *)
LEMMA EndInv ==
  ASSUME StoreInv, NEW p \in Procs, SaveFails(p) \/ Reply(p)
  PROVE  StoreInv'
<1> USE EmptyObjects DEF StoreInv, Consistent
<1>1. CASE SaveFails(p)
  BY <1>1, StoreAssumption
  DEF SaveFails, TypeOK, KnownPasswords, OnRecord, FileInv, LoadedInv, AloneInv
<1>2. CASE Reply(p)
  <2>1. [kind |-> "malformed"] \in Requests
    BY DEF Requests
  <2>2. TypeOK'
    BY <1>2, <2>1 DEF Reply, TypeOK
  <2>3. KnownPasswords' /\ FileInv' /\ LoadedInv' /\ AloneInv'
    BY <1>2 DEF Reply, KnownPasswords, OnRecord, FileInv, LoadedInv, AloneInv, TypeOK
  <2> QED  BY <2>2, <2>3
<1> QED  BY <1>1, <1>2

(* Every step keeps the invariant.                                           *)
LEMMA StoreStep == StoreInv /\ [Next]_vars => StoreInv'
<1> SUFFICES ASSUME StoreInv, [Next]_vars PROVE StoreInv'
  OBVIOUS
<1>1. CASE UNCHANGED vars
  BY <1>1 DEF vars, StoreInv, Consistent, TypeOK, KnownPasswords, OnRecord,
              FileInv, LoadedInv, AloneInv
<1>2. ASSUME NEW p \in Procs, NEW r \in Asked, Begin(p, r) PROVE StoreInv'
  BY <1>2, BeginInv
<1>3. ASSUME NEW p \in Procs, Open(p) \/ Write(p) \/ SaveFails(p) \/ Reply(p)
      PROVE  StoreInv'
  BY <1>3, OpenInv, WriteInv, EndInv
<1> QED  BY <1>1, <1>2, <1>3 DEF Next

(* A save that nothing came between leaves all that was saved before.        *)
LEMMA SaveKeeps ==
  ASSUME StoreInv, [Next]_vars, NEW p \in Procs,
         alone[p], pc[p] = "write", pc'[p] = "reply", faults' = faults
  PROVE  file'.is = "json" /\ Keeps(file'.spells, last)
<1> USE DEF StoreInv, Consistent, TypeOK
<1>1. Write(p)
  <2>1. ~ UNCHANGED vars
    BY DEF vars
  <2>2. ASSUME NEW q \in Procs, NEW r \in Asked, Begin(q, r) PROVE FALSE
    BY <2>2 DEF Begin
  <2>3. ASSUME NEW q \in Procs, Open(q) \/ SaveFails(q) \/ Reply(q) PROVE FALSE
    BY <2>3 DEF Open, SaveFails, Reply
  <2>4. ASSUME NEW q \in Procs, q # p, Write(q) PROVE FALSE
    BY <2>4 DEF Write
  <2> QED  BY <2>1, <2>2, <2>3, <2>4 DEF Next
<1>2. file.is = "empty" /\ Keeps(db[p], last)
  BY DEF AloneInv
<1> QED  BY <1>1, <1>2 DEF Write, Json

-----------------------------------------------------------------------------
(* The accounts, alone and beside the jobs: the jobs touch none of what      *)
(* UserStore has.                                                            *)
THEOREM StoreInvariance == Spec => []StoreInv
BY StoreInit, StoreStep, PTL DEF Spec

(* What CgiFiles adds to UserStore are stutters of it.                       *)
THEOREM FilesImplementStore == FilesSpec => Spec
<1>1. FilesInit => Init
  BY DEF FilesInit
<1>2. [FilesNext]_<<users, jobs>> => [Next]_vars
  BY DEF FilesNext, users
<1> QED  BY <1>1, <1>2, PTL DEF FilesSpec, Spec

(* auth_app.c:91-106 and :130-136: every password on file has been told, as  *)
(* it is there, to who registered that name; an account without one is of    *)
(* somebody who was told bytes that are no text; and nobody logs in with     *)
(* anything that was not told.                                               *)
THEOREM PasswordsKnown == FilesSpec => []Consistent
<1>1. StoreInv => Consistent
  BY DEF StoreInv
<1> QED  BY <1>1, StoreInvariance, FilesImplementStore, PTL

(* auth_app.c:73-102, playlist_manager.c:61-110: a load, change and save     *)
(* with no other save between loses nothing of what was saved before.        *)
THEOREM LoneSaveLosesNothing == FilesSpec => NothingLost
<1>1. StoreInv /\ [Next]_vars
        => [\A p \in Procs : alone[p] /\ pc[p] = "write" /\ pc'[p] = "reply" /\ faults' = faults
              => file'.is = "json" /\ Keeps(file'.spells, last)]_vars
  BY SaveKeeps
<1> QED  BY <1>1, StoreInvariance, FilesImplementStore, PTL DEF Spec, NothingLost

-----------------------------------------------------------------------------
(* The albums.  What a job does next, and shapes.                            *)
Early     == {"temp", "make", "work", "fetch", "failed"}
Late      == {"see", "list", "remove", "look", "move", "copy", "done"}
Presence  == (SUBSET D!Entries) \cup {NULL}
AlbumNames == Albums \cup {D!Music, D!Here, D!Above}
Inside    == D!Dirs \X ({D!Meta, D!Track, D!Nested} \cup Albums)

JobTypes ==
  /\ jobPc \in [Jobs -> Early \cup Late \cup {"raised"}]
  /\ album \in [Jobs -> AlbumNames \cup {NULL}]
  /\ at \in [Jobs -> D!Dirs \cup {NULL}]
  /\ dest \in [D!Dirs -> Presence]
  /\ todo \in [Jobs -> SUBSET Inside]
  /\ superseded \subseteq Jobs

(* A job has an album from the fetch on, works in its directory if it has    *)
(* one of its own, and has looked whether it is to move into a directory     *)
(* only once it moves.                                                       *)
AlbumInv ==
  \A j \in Jobs :
    /\ jobPc[j] \in Early => album[j] = NULL
    /\ jobPc[j] \in Late => album[j] # NULL
    /\ jobPc[j] \in Early \cup {"see", "list", "remove", "look"} => j \notin into
    /\ jobPc[j] \in Early \cup {"see"} => todo[j] = {}
    /\ jobPc[j] = "copy" => todo[j] \subseteq D!Dirs \X {D!Meta, D!Track}
    /\ album[j] # NULL => at[j] \in D!Dirs
    /\ album[j] \in Albums => at[j] = album[j]

(* A job that is past its look at an album, and not superseded since.        *)
Looked(j) == album[j] # NULL /\ jobPc[j] # "see"
Lone(j)   == Looked(j) /\ j \notin superseded

(* Whoever else has looked at its directory, at one within or at the one     *)
(* that it is in, is superseded, and has ended.                              *)
LoneInv ==
  \A j, k \in Jobs :
    Lone(j) /\ k # j /\ Looked(k) /\ D!Meet(j, k) => jobPc[k] \in {"done", "raised"}

(* With a directory of its own, it meets no error, and finds the directory   *)
(* at every step as the step needs it: what is still to be removed is what   *)
(* is there, and what is there is what it has copied.                        *)
Remaining(a, files) == {<<a, f[1]>> : f \in files}
Copied(j) == {f \in D!Files(j) : <<album[j], f[1]>> \notin todo[j]}

AsLeft(j) ==
  LET there == dest[album[j]] IN
  /\ jobPc[j] # "raised"
  /\ jobPc[j] = "list" => there # NULL /\ todo[j] = {}
  /\ jobPc[j] = "remove" => there # NULL /\ todo[j] = Remaining(album[j], there)
  /\ jobPc[j] = "look" => there = NULL
  /\ jobPc[j] = "move" => there = NULL /\ j \notin into
  /\ jobPc[j] = "copy" =>
       /\ todo[j] \subseteq {album[j]} \X {D!Meta, D!Track} /\ j \notin into
       /\ there = Copied(j)
  /\ jobPc[j] = "done" => there = D!Files(j)

LoneAlbumInv == \A j \in Jobs : Lone(j) /\ album[j] \in Albums => AsLeft(j)

JobsInv == JobTypes /\ AlbumInv /\ LoneInv /\ LoneAlbumInv

(* The files of an album are something a directory can hold; and that is not *)
(* the absence of one.  An album is not MUSIC_DIR, and not a file.           *)
LEMMA EntriesPresent ==
  /\ \A files \in SUBSET D!Entries : files # NULL
  /\ \A name \in AlbumNames : name # NULL
  /\ \A j \in Jobs \cup {Old} : D!Files(j) \in SUBSET D!Entries
  /\ NULL \in Presence /\ SUBSET D!Entries \subseteq Presence
  /\ Albums \subseteq D!Dirs /\ D!Music \in D!Dirs /\ D!Music \notin Albums
  /\ Albums \cap {D!Meta, D!Track, D!Nested} = {}
BY FilesAssumption DEF D!Parameters, D!Files, D!Entries, Presence, AlbumNames, D!Dirs

(* At the start no job has looked at anything.                               *)
LEMMA JobsInit == D!Init => JobsInv
<1> SUFFICES ASSUME D!Init PROVE JobsInv
  OBVIOUS
<1>1. dest \in [D!Dirs -> Presence]
  BY EntriesPresent DEF D!Init
<1> QED
  BY <1>1, EntriesPresent
  DEF D!Init, JobsInv, JobTypes, AlbumInv, LoneInv, LoneAlbumInv, Lone, Looked,
      Early, Late, AlbumNames

(* downloader.py up to the fetch: nothing in the albums' directories.        *)
LEMMA EarlyInv ==
  ASSUME JobsInv, NEW j \in Jobs,
         D!SeeTemp(j) \/ D!MakeTemp(j) \/ D!MakeWork(j) \/ D!FetchFails(j)
  PROVE  JobsInv'
<1>1. /\ jobPc[j] \in {"temp", "make", "work", "fetch"}
      /\ \E to \in {"make", "work", "fetch", "raised", "failed"} :
           jobPc' = [jobPc EXCEPT ![j] = to]
      /\ UNCHANGED <<dest, album, at, todo, into, superseded>>
  BY DEF D!SeeTemp, D!MakeTemp, D!MakeWork, D!FetchFails, D!Goto
<1>2. album[j] = NULL
  BY <1>1 DEF JobsInv, AlbumInv, Early
<1> QED
  BY <1>1, <1>2, SMTT(30)
  DEF JobsInv, JobTypes, AlbumInv, LoneInv, LoneAlbumInv, Lone, Looked, AsLeft, Copied,
      D!Meet, Early, Late

(* The tracks are fetched: the job has an album, and has not looked at it.   *)
LEMMA FetchInv ==
  ASSUME JobsInv, NEW j \in Jobs, D!Fetch(j)
  PROVE  JobsInv'
<1>1. PICK name \in AlbumNames :
        /\ album' = [album EXCEPT ![j] = name]
        /\ at' = [at EXCEPT ![j] = IF name \in Albums THEN name ELSE D!Music]
  BY DEF D!Fetch, AlbumNames
<1>2. /\ jobPc[j] = "fetch" /\ jobPc' = [jobPc EXCEPT ![j] = "see"]
      /\ UNCHANGED <<dest, todo, into, superseded>>
  BY DEF D!Fetch, D!Goto
<1>3. name # NULL /\ (IF name \in Albums THEN name ELSE D!Music) \in D!Dirs
  BY EntriesPresent
<1>4. JobTypes' /\ AlbumInv'
  BY <1>1, <1>2, <1>3 DEF JobsInv, JobTypes, AlbumInv, Early, Late
<1>5. \A k \in Jobs : Looked(k)' => k # j /\ Looked(k)
  BY <1>1, <1>2, <1>3 DEF JobsInv, JobTypes, Looked
<1>6. LoneInv' /\ LoneAlbumInv'
  BY <1>1, <1>2, <1>5
  DEF JobsInv, JobTypes, LoneInv, LoneAlbumInv, Lone, AsLeft, Copied, D!Meet
<1> QED  BY <1>4, <1>6 DEF JobsInv

(* The look at the album: every other job that has looked is superseded, and *)
(* so is this one if another has not ended.                                  *)
LEMMA SeeInv ==
  ASSUME JobsInv, NEW j \in Jobs, D!SeeAlbum(j)
  PROVE  JobsInv'
<1> DEFINE others == D!Others(j)
<1>1. /\ jobPc[j] = "see"
      /\ jobPc' = [jobPc EXCEPT ![j] = IF dest[at[j]] # NULL THEN "list" ELSE "look"]
      /\ superseded' = superseded \cup others
                         \cup (IF \E k \in others : D!Publishing(k) THEN {j} ELSE {})
      /\ UNCHANGED <<dest, album, at, todo, into>>
  BY DEF D!SeeAlbum, D!Supersedes, D!Goto, D!Dest
<1>2. others \subseteq Jobs \ {j}
  BY DEF D!Others
<1>3. album[j] # NULL /\ j \notin into /\ todo[j] = {}
  BY <1>1 DEF JobsInv, AlbumInv, Late
<1>4. \A k \in others : Looked(k)
  BY DEF Looked, D!Others
<1>5. \A k \in Jobs \ {j} : Looked(k) /\ (D!Meet(j, k) \/ D!Meet(k, j)) => k \in others
  BY DEF Looked, D!Others, D!Meet
<1> HIDE DEF others
<1>6. JobTypes' /\ AlbumInv'
  BY <1>1, <1>2, <1>3 DEF JobsInv, JobTypes, AlbumInv, Early, Late
<1>7. \A k \in Jobs : Looked(k)' <=> Looked(k) \/ k = j
  BY <1>1, <1>3 DEF JobsInv, JobTypes, Looked
<1>8. j \notin superseded' => \A k \in others : jobPc[k] \in {"done", "raised"}
  BY <1>1, <1>2, <1>4 DEF JobsInv, JobTypes, AlbumInv, Early, Late, D!Publishing, Looked
<1>9. LoneInv'
  <2> SUFFICES ASSUME NEW i \in Jobs, NEW k \in Jobs, Lone(i)', k # i, Looked(k)', D!Meet(i, k)
               PROVE  jobPc'[k] \in {"done", "raised"}
    BY <1>1 DEF LoneInv, D!Meet
  <2>1. CASE i = j
    <3>1. k \in others
      BY <1>5, <1>7, <2>1
    <3> QED  BY <1>1, <1>8, <2>1, <3>1 DEF Lone, JobsInv, JobTypes
  <2>2. CASE k = j
    <3>1. i \in others
      BY <1>5, <1>7, <2>2 DEF Lone
    <3> QED  BY <1>1, <3>1 DEF Lone
  <2>3. CASE i # j /\ k # j
    BY <1>1, <1>7, <2>3 DEF JobsInv, JobTypes, LoneInv, Lone
  <2> QED  BY <2>1, <2>2, <2>3
<1>10. LoneAlbumInv'
  <2>1. album[j] \in Albums => at[j] = album[j]
    BY DEF JobsInv, AlbumInv
  <2> QED
    BY <1>1, <1>3, <1>7, <2>1 DEF JobsInv, JobTypes, LoneAlbumInv, Lone, AsLeft, Copied
<1> QED  BY <1>6, <1>9, <1>10 DEF JobsInv

(* A step of a job that is publishing touches its own directory, and makes   *)
(* MUSIC_DIR at most: all that is left to show of it is how it leaves its    *)
(* album, if it is lone.                                                     *)
LEMMA PublishInv ==
  ASSUME JobsInv, NEW j \in Jobs, D!Publishing(j),
         UNCHANGED <<album, superseded>>,
         NEW to \in {"list", "remove", "look", "move", "copy", "done", "raised"},
         jobPc' = [jobPc EXCEPT ![j] = to],
         dest' \in [D!Dirs -> Presence], \A d \in Albums : d # at[j] => dest'[d] = dest[d],
         NEW dir \in D!Dirs, at' = [at EXCEPT ![j] = dir], album[j] \in Albums => dir = at[j],
         NEW entries \in SUBSET Inside, todo' = [todo EXCEPT ![j] = entries],
         to = "copy" => entries \subseteq D!Dirs \X {D!Meta, D!Track},
         into' \in {into, into \cup {j}}, j \in into' => to \in {"move", "copy", "done", "raised"},
         Lone(j) /\ album[j] \in Albums => AsLeft(j)'
  PROVE  JobsInv'
<1> USE DEF JobsInv
<1>1. Looked(j) /\ jobPc[j] \notin {"see", "done", "raised"}
  BY DEF JobTypes, AlbumInv, D!Publishing, Late, Looked
<1>2. JobTypes' /\ AlbumInv'
  BY DEF JobTypes, AlbumInv, Early, Late, D!Publishing
<1>3. \A k \in Jobs : Looked(k)' <=> Looked(k)
  BY <1>1 DEF Looked, JobTypes
<1>4. LoneInv'
  BY <1>1, <1>3 DEF JobTypes, LoneInv, Lone, D!Meet
<1>5. ASSUME NEW k \in Jobs, k # j, Lone(k), album[k] \in Albums
      PROVE  AsLeft(k)'
  <2>1. ~D!Meet(k, j)
    BY <1>1, <1>5 DEF LoneInv
  <2>2. album[k] # at[j]
    BY <2>1 DEF D!Meet, AlbumInv
  <2> QED  BY <1>5, <2>2 DEF LoneAlbumInv, AsLeft, Copied, JobTypes
<1>6. LoneAlbumInv'
  BY <1>3, <1>5 DEF LoneAlbumInv, Lone
<1> QED  BY <1>2, <1>4, <1>6

(* What a publishing job finds, and what it leaves where it changes nothing. *)
LEMMA PublishTypes ==
  ASSUME JobsInv, NEW j \in Jobs, D!Publishing(j)
  PROVE  /\ album[j] # NULL /\ Looked(j)
         /\ at[j] \in D!Dirs /\ at = [at EXCEPT ![j] = at[j]]
         /\ dest \in [D!Dirs -> Presence] /\ dest[at[j]] \in Presence
         /\ todo[j] \in SUBSET Inside /\ todo = [todo EXCEPT ![j] = todo[j]]
         /\ dest[at[j]] # NULL => dest[at[j]] \in SUBSET D!Entries
         /\ album[j] \in Albums => at[j] = album[j]
         /\ Lone(j) /\ album[j] \in Albums => AsLeft(j)
<1>1. album[j] # NULL /\ Looked(j)
  BY DEF JobsInv, JobTypes, AlbumInv, D!Publishing, Late, Looked
<1>2. at[j] \in D!Dirs /\ (album[j] \in Albums => at[j] = album[j])
  BY <1>1 DEF JobsInv, AlbumInv
<1>3. Lone(j) /\ album[j] \in Albums => AsLeft(j)
  BY DEF JobsInv, LoneAlbumInv
<1> QED  BY <1>1, <1>2, <1>3 DEF JobsInv, JobTypes, Presence

(* As it is of use where the job stays in its directory.                     *)
LEMMA StayInv ==
  ASSUME JobsInv, NEW j \in Jobs, D!Publishing(j),
         UNCHANGED <<album, superseded, at>>,
         NEW to \in {"list", "remove", "look", "move", "copy", "done", "raised"},
         jobPc' = [jobPc EXCEPT ![j] = to],
         UNCHANGED dest \/ (/\ dest' \in [D!Dirs -> Presence]
                           /\ \A d \in Albums : d # at[j] => dest'[d] = dest[d]),
         \/ UNCHANGED todo /\ to # "copy"
         \/ \E entries \in SUBSET Inside :
              /\ todo' = [todo EXCEPT ![j] = entries]
              /\ to = "copy" => entries \subseteq D!Dirs \X {D!Meta, D!Track},
         into' \in {into, into \cup {j}}, j \in into' => to \in {"move", "copy", "done", "raised"},
         Lone(j) /\ album[j] \in Albums => AsLeft(j)'
  PROVE  JobsInv'
<1>1. /\ at[j] \in D!Dirs /\ at' = [at EXCEPT ![j] = at[j]]
      /\ dest' \in [D!Dirs -> Presence]
      /\ \A d \in Albums : d # at[j] => dest'[d] = dest[d]
  BY PublishTypes
<1>2. PICK entries \in SUBSET Inside :
        /\ todo' = [todo EXCEPT ![j] = entries]
        /\ to = "copy" => entries \subseteq D!Dirs \X {D!Meta, D!Track}
  BY PublishTypes
<1> QED  BY <1>1, <1>2, PublishInv

(* What it writes into its directory can be there.                           *)
LEMMA WrittenTypes ==
  ASSUME JobsInv, NEW j \in Jobs, at[j] \in D!Dirs, NEW files \in Presence,
         dest' = [dest EXCEPT ![at[j]] = files] \/ D!MakesDirs(j, files)
  PROVE  /\ dest' \in [D!Dirs -> Presence] /\ dest'[at[j]] = files
         /\ \A d \in Albums : d # at[j] => dest'[d] = dest[d]
<1>1. {} \in Presence
  BY DEF Presence
<1> QED
  BY <1>1, EntriesPresent DEF JobsInv, JobTypes, D!MakesDirs

(* shutil.rmtree lists the directory.                                        *)
LEMMA ListInv ==
  ASSUME JobsInv, NEW j \in Jobs, D!ListDir(j)
  PROVE  JobsInv'
<1> DEFINE there == dest[at[j]]
           to == IF there = NULL THEN "raised" ELSE "remove"
           files == IF there = NULL THEN {} ELSE {f[1] : f \in there}
           albums == IF at[j] = D!Music /\ there # NULL THEN D!AlbumsThere ELSE {}
           entries == todo[j] \cup ({at[j]} \X (files \cup albums))
<1>1. /\ jobPc[j] = "list" /\ jobPc' = [jobPc EXCEPT ![j] = to]
      /\ todo' = [todo EXCEPT ![j] = entries]
      /\ UNCHANGED <<album, at, superseded, dest, into>>
  BY DEF D!ListDir, D!Goto, D!Todo, D!Dest
<1>2. D!Publishing(j) /\ j \notin into
  BY <1>1 DEF D!Publishing, JobsInv, AlbumInv
<1>3. entries \in SUBSET Inside
  <2>1. files \subseteq {D!Meta, D!Track, D!Nested} /\ albums \subseteq Albums
    BY <1>2, PublishTypes DEF D!Entries, D!AlbumsThere
  <2> HIDE DEF files, albums
  <2> QED  BY <1>2, <2>1, PublishTypes DEF Inside
<1>4. ASSUME Lone(j), album[j] \in Albums PROVE AsLeft(j)'
  <2>1. at[j] = album[j] /\ at[j] # D!Music /\ AsLeft(j)
    BY <1>2, <1>4, PublishTypes, EntriesPresent
  <2>2. there # NULL /\ todo[j] = {}
    BY <1>1, <2>1 DEF AsLeft
  <2>3. entries = Remaining(album[j], there)
    BY <2>1, <2>2 DEF Remaining
  <2>4. jobPc'[j] = "remove" /\ todo'[j] = entries /\ dest'[album'[j]] = there
    BY <1>1, <2>1, <2>2 DEF JobsInv, JobTypes
  <2> HIDE DEF entries
  <2> QED  BY <1>1, <2>2, <2>3, <2>4 DEF AsLeft
<1> HIDE DEF entries
<1> QED  BY <1>1, <1>2, <1>3, <1>4, PublishTypes, StayInv

(* It removes what it has listed, in any order: for a lone job each of them  *)
(* is there.                                                                 *)
LEMMA RemoveFileInv ==
  ASSUME JobsInv, NEW j \in Jobs, D!RemoveFile(j)
  PROVE  JobsInv'
<1> DEFINE there == dest[at[j]]
<1>1. /\ jobPc[j] = "remove"
      /\ UNCHANGED <<album, at, superseded, into>>
  BY DEF D!RemoveFile, D!Goto
<1>2. D!Publishing(j) /\ j \notin into
  BY <1>1 DEF D!Publishing, JobsInv, AlbumInv
<1>3. PICK entry \in todo[j] :
        /\ entry[1] = at[j]
        /\ IF there # NULL /\ D!Named(there, entry[2]) # {}
           THEN /\ jobPc' = [jobPc EXCEPT ![j] = "remove"]
                /\ dest' = [dest EXCEPT ![at[j]] = there \ D!Named(there, entry[2])]
                /\ todo' = [todo EXCEPT ![j] = todo[j] \ {entry}]
           ELSE /\ jobPc' = [jobPc EXCEPT ![j] = "raised"]
                /\ todo' = [todo EXCEPT ![j] = {}] /\ UNCHANGED dest
  BY DEF D!RemoveFile, D!Goto, D!Dest, D!Becomes, D!Todo
<1> DEFINE left == there \ D!Named(there, entry[2])
<1>4. CASE there # NULL /\ D!Named(there, entry[2]) # {}
  <2>1. left \in Presence /\ left # NULL
    BY <1>2, <1>4, PublishTypes, EntriesPresent DEF Presence
  <2>2. todo[j] \ {entry} \in SUBSET Inside
    BY <1>2, PublishTypes
  <2>3. dest' = [dest EXCEPT ![at[j]] = left]
    BY <1>3, <1>4
  <2>4. ASSUME Lone(j), album[j] \in Albums PROVE AsLeft(j)'
    <3>1. at[j] = album[j] /\ todo[j] = Remaining(album[j], there)
      BY <1>1, <1>2, <2>4, PublishTypes DEF AsLeft
    <3>2. entry = <<album[j], entry[2]>>
      BY <1>3, <3>1 DEF Remaining
    <3>3. Remaining(album[j], left) = Remaining(album[j], there) \ {entry}
      BY <3>2 DEF Remaining, D!Named
    <3>4. /\ dest'[album'[j]] = left
          /\ todo'[j] = todo[j] \ {entry} /\ jobPc'[j] = "remove" /\ album'[j] = album[j]
      BY <1>1, <1>2, <1>3, <1>4, <2>3, <3>1, PublishTypes DEF JobsInv, JobTypes
    <3> HIDE DEF left
    <3> QED  BY <2>1, <3>1, <3>3, <3>4 DEF AsLeft
  <2> HIDE DEF left
  <2> QED  BY <1>1, <1>2, <1>3, <1>4, <2>1, <2>2, <2>3, <2>4, PublishTypes, WrittenTypes, StayInv
<1>5. CASE ~(there # NULL /\ D!Named(there, entry[2]) # {})
  <2>1. ~(Lone(j) /\ album[j] \in Albums)
    <3> SUFFICES ASSUME Lone(j), album[j] \in Albums PROVE FALSE
      OBVIOUS
    <3>1. at[j] = album[j] /\ there # NULL /\ todo[j] = Remaining(album[j], there)
      BY <1>1, <1>2, PublishTypes DEF AsLeft
    <3> QED  BY <1>5, <3>1 DEF Remaining, D!Named
  <2>2. /\ jobPc' = [jobPc EXCEPT ![j] = "raised"] /\ UNCHANGED dest
        /\ {} \in SUBSET Inside /\ todo' = [todo EXCEPT ![j] = {}]
    BY <1>3, <1>5
  <2> QED  BY <1>1, <1>2, <2>1, <2>2, StayInv
<1> QED  BY <1>4, <1>5

(* An album of MUSIC_DIR is entered by a job without a directory of its own. *)
LEMMA EnterInv ==
  ASSUME JobsInv, NEW j \in Jobs, D!EnterAlbum(j)
  PROVE  JobsInv'
<1>1. /\ jobPc[j] = "remove" /\ jobPc' = [jobPc EXCEPT ![j] = "list"] /\ at[j] = D!Music
      /\ UNCHANGED <<dest, album, superseded, into>>
  BY DEF D!EnterAlbum, D!Goto
<1>2. PICK a \in Albums :
        /\ at' = [at EXCEPT ![j] = a]
        /\ todo' = [todo EXCEPT ![j] = todo[j] \ {<<D!Music, a>>}]
  BY DEF D!EnterAlbum, D!Todo
<1>3. D!Publishing(j) /\ j \notin into
  BY <1>1 DEF D!Publishing, JobsInv, AlbumInv
<1>4. album[j] \notin Albums /\ a \in D!Dirs
  BY <1>1, <1>3, PublishTypes, EntriesPresent
<1>5. todo[j] \ {<<D!Music, a>>} \in SUBSET Inside
  BY <1>3, PublishTypes
<1> QED  BY <1>1, <1>2, <1>3, <1>4, <1>5, PublishTypes, PublishInv

(* A directory goes when it is empty, as a lone job leaves its own.          *)
LEMMA RemoveDirInv ==
  ASSUME JobsInv, NEW j \in Jobs, D!RemoveDir(j) \/ D!RemoveDot(j)
  PROVE  JobsInv'
<1> DEFINE there == dest[at[j]]
<1>1. /\ jobPc[j] = "remove" /\ D!Emptied(j)
      /\ UNCHANGED <<album, superseded, into, todo>>
  BY DEF D!RemoveDir, D!RemoveDot, D!Goto
<1>2. D!Publishing(j) /\ j \notin into
  BY <1>1 DEF D!Publishing, JobsInv, AlbumInv
<1>3. ASSUME Lone(j), album[j] \in Albums PROVE D!IsEmpty(at[j]) /\ ~D!RemoveDot(j)
  <2>1. at[j] = album[j] /\ there # NULL /\ todo[j] = Remaining(at[j], there)
    BY <1>1, <1>2, <1>3, PublishTypes DEF AsLeft
  <2>2. there = {}
    <3>1. ASSUME NEW f \in there PROVE FALSE
      <4>1. <<at[j], f[1]>> \in todo[j]
        BY <2>1 DEF Remaining
      <4> QED  BY <1>1, <4>1 DEF D!Emptied
    <3> QED  BY <3>1
  <2> QED  BY <1>3, <2>1, <2>2, EntriesPresent DEF D!IsEmpty, D!RemoveDot
<1>4. CASE D!RemoveDot(j) \/ ~D!IsEmpty(at[j])
  <2>1. /\ jobPc' = [jobPc EXCEPT ![j] = "raised"] /\ UNCHANGED <<dest, at>>
    BY <1>4 DEF D!RemoveDir, D!RemoveDot, D!Goto
  <2>2. ~(Lone(j) /\ album[j] \in Albums)
    BY <1>3, <1>4
  <2> QED  BY <1>1, <1>2, <2>1, <2>2, PublishTypes, StayInv
<1>5. CASE ~D!RemoveDot(j) /\ D!IsEmpty(at[j])
  <2>1. dest' = [dest EXCEPT ![at[j]] = NULL]
    BY <1>5 DEF D!RemoveDir, D!Becomes
  <2>2. PICK to \in {"remove", "look", "raised"}, dir \in D!Dirs :
          /\ jobPc' = [jobPc EXCEPT ![j] = to] /\ at' = [at EXCEPT ![j] = dir]
          /\ album[j] \in Albums => dir = at[j] /\ (album[j] # D!Above => to = "look")
    BY <1>2, <1>5, PublishTypes, EntriesPresent DEF D!RemoveDir, D!Goto
  <2>3. D!Above \notin Albums
    BY FilesAssumption DEF D!Parameters
  <2>4. /\ dest' \in [D!Dirs -> Presence] /\ dest'[at[j]] = NULL
        /\ \A d \in Albums : d # at[j] => dest'[d] = dest[d]
    BY <1>2, <2>1, PublishTypes, EntriesPresent, WrittenTypes
  <2>5. ASSUME Lone(j), album[j] \in Albums PROVE AsLeft(j)'
    <3>1. /\ jobPc'[j] = "look" /\ dest'[album'[j]] = NULL
      BY <1>1, <1>2, <2>2, <2>3, <2>4, <2>5, PublishTypes DEF JobsInv, JobTypes
    <3> QED  BY <3>1 DEF AsLeft
  <2> QED  BY <1>1, <1>2, <2>2, <2>4, <2>5, PublishTypes, PublishInv
<1> QED  BY <1>4, <1>5

(* shutil.move looks where it is to move: a lone job finds nothing there.    *)
LEMMA SeeTargetInv ==
  ASSUME JobsInv, NEW j \in Jobs, D!SeeTarget(j)
  PROVE  JobsInv'
<1>1. /\ jobPc[j] = "look" /\ jobPc' = [jobPc EXCEPT ![j] = "move"]
      /\ into' = IF dest[at[j]] # NULL THEN into \cup {j} ELSE into
      /\ UNCHANGED <<album, at, superseded, dest, todo>>
  BY DEF D!SeeTarget, D!Goto, D!Dest
<1>2. D!Publishing(j) /\ j \notin into
  BY <1>1 DEF D!Publishing, JobsInv, AlbumInv
<1>3. Lone(j) /\ album[j] \in Albums => AsLeft(j)'
  BY <1>1, <1>2, PublishTypes DEF JobsInv, JobTypes, AsLeft
<1> QED  BY <1>1, <1>2, <1>3, PublishTypes, StayInv

(* os.rename, or a move into the directory that was there.                   *)
LEMMA MoveInv ==
  ASSUME JobsInv, NEW j \in Jobs, D!Rename(j) \/ D!MoveInto(j)
  PROVE  JobsInv'
<1> DEFINE there == dest[at[j]]
           nested == (IF there = NULL THEN {} ELSE there) \cup {<<D!Nested, j>>}
<1>1. /\ jobPc[j] = "move" /\ jobPc' = [jobPc EXCEPT ![j] = "done"]
      /\ UNCHANGED <<album, at, superseded, todo, into>>
  BY DEF D!Rename, D!MoveInto, D!Goto
<1>2. D!Publishing(j)
  BY <1>1 DEF D!Publishing
<1>3. CASE D!Rename(j)
  <2>1. dest' = [dest EXCEPT ![at[j]] = D!Files(j)]
    BY <1>3 DEF D!Rename, D!Becomes
  <2>2. D!Files(j) \in Presence
    BY EntriesPresent
  <2>3. /\ dest' \in [D!Dirs -> Presence] /\ dest'[at[j]] = D!Files(j)
        /\ \A d \in Albums : d # at[j] => dest'[d] = dest[d]
    BY <1>2, <2>1, <2>2, PublishTypes, WrittenTypes
  <2>4. Lone(j) /\ album[j] \in Albums => AsLeft(j)'
    BY <1>1, <1>2, <2>3, PublishTypes DEF JobsInv, JobTypes, AsLeft, D!Files, D!Meta, D!Track
  <2> QED  BY <1>1, <1>2, <2>3, <2>4, PublishTypes, StayInv
<1>4. CASE D!MoveInto(j)
  <2>1. /\ j \in into
        /\ UNCHANGED dest \/ D!MakesDirs(j, nested)
    BY <1>4 DEF D!MoveInto, D!Dest
  <2>2. nested \in Presence
    BY <1>2, PublishTypes DEF Presence, D!Entries
  <2>3. ~(Lone(j) /\ album[j] \in Albums)
    BY <1>1, <1>2, <2>1, PublishTypes DEF AsLeft
  <2> HIDE DEF nested
  <2>4. /\ dest' \in [D!Dirs -> Presence]
        /\ \A d \in Albums : d # at[j] => dest'[d] = dest[d]
    BY <1>2, <2>1, <2>2, PublishTypes, WrittenTypes
  <2> QED  BY <1>1, <1>2, <2>3, <2>4, PublishTypes, StayInv
<1> QED  BY <1>3, <1>4

(* The copy begins with a directory that must be new.                        *)
LEMMA MakeAlbumInv ==
  ASSUME JobsInv, NEW j \in Jobs, D!MakeAlbum(j)
  PROVE  JobsInv'
<1> DEFINE there == dest[at[j]]
           all == {at[j]} \X {D!Meta, D!Track}
<1>1. /\ jobPc[j] = "move" /\ j \notin into
      /\ UNCHANGED <<album, at, superseded, into>>
      /\ IF there = NULL THEN D!MakesDirs(j, {}) ELSE UNCHANGED dest
      /\ IF there = NULL /\ album[j] # D!Above
         THEN /\ jobPc' = [jobPc EXCEPT ![j] = "copy"]
              /\ todo' = [todo EXCEPT ![j] = all]
         ELSE jobPc' = [jobPc EXCEPT ![j] = "raised"] /\ UNCHANGED todo
  BY DEF D!MakeAlbum, D!Goto, D!Dest, D!Todo
<1>2. D!Publishing(j)
  BY <1>1 DEF D!Publishing
<1>3. {} \in Presence /\ all \in SUBSET Inside /\ all \subseteq D!Dirs \X {D!Meta, D!Track}
  BY <1>2, PublishTypes DEF Presence, Inside
<1>4. /\ dest' \in [D!Dirs -> Presence] /\ (there = NULL => dest'[at[j]] = {})
      /\ \A d \in Albums : d # at[j] => dest'[d] = dest[d]
  BY <1>1, <1>2, <1>3, PublishTypes, WrittenTypes
<1>5. CASE there = NULL /\ album[j] # D!Above
  <2>1. ASSUME Lone(j), album[j] \in Albums PROVE AsLeft(j)'
    <3>1. at[j] = album[j] /\ album'[j] = album[j] /\ jobPc'[j] = "copy"
      BY <1>1, <1>2, <1>5, <2>1, PublishTypes DEF JobsInv, JobTypes
    <3>2. dest'[album'[j]] = {} /\ todo'[j] = {album'[j]} \X {D!Meta, D!Track}
      BY <1>1, <1>4, <1>5, <3>1 DEF JobsInv, JobTypes
    <3>3. Copied(j)' = {}
      BY <3>2 DEF Copied, D!Files
    <3> QED  BY <1>1, <3>1, <3>2, <3>3 DEF AsLeft
  <2> HIDE DEF all
  <2> QED  BY <1>1, <1>2, <1>3, <1>4, <1>5, <2>1, PublishTypes, StayInv
<1>6. CASE ~(there = NULL /\ album[j] # D!Above)
  <2>1. ~(Lone(j) /\ album[j] \in Albums)
    <3>1. D!Above \notin Albums
      BY FilesAssumption DEF D!Parameters
    <3> QED  BY <1>1, <1>2, <1>6, <3>1, PublishTypes DEF AsLeft
  <2> QED  BY <1>1, <1>2, <1>4, <1>6, <2>1, PublishTypes, StayInv
<1> QED  BY <1>5, <1>6

(* A file more is there, and one less is left to copy.                       *)
LEMMA CopyFileInv ==
  ASSUME JobsInv, NEW j \in Jobs, D!CopyFile(j)
  PROVE  JobsInv'
<1> DEFINE there == dest[at[j]]
<1>1. /\ jobPc[j] = "copy" /\ jobPc' = [jobPc EXCEPT ![j] = "copy"]
      /\ UNCHANGED <<album, at, superseded>>
  BY DEF D!CopyFile, D!Goto
<1>2. D!Publishing(j)
  BY <1>1 DEF D!Publishing
<1>3. PICK entry \in todo[j] :
        /\ todo' = [todo EXCEPT ![j] = todo[j] \ {entry}]
        /\ IF there # NULL
           THEN /\ dest' = [dest EXCEPT ![at[j]] =
                              (there \ D!Named(there, entry[2])) \cup {<<entry[2], j>>}]
                /\ UNCHANGED into
           ELSE into' = into \cup {j} /\ UNCHANGED dest
  BY DEF D!CopyFile, D!Dest, D!Becomes, D!Todo
<1> DEFINE more == (there \ D!Named(there, entry[2])) \cup {<<entry[2], j>>}
           left == todo[j] \ {entry}
<1>4. /\ todo[j] \subseteq D!Dirs \X {D!Meta, D!Track} /\ left \in SUBSET Inside
      /\ left \subseteq D!Dirs \X {D!Meta, D!Track}
      /\ entry[2] \in {D!Meta, D!Track}
  BY <1>1, <1>2, PublishTypes DEF JobsInv, AlbumInv
<1>5. CASE there # NULL
  <2>1. more \in Presence
    BY <1>2, <1>4, <1>5, PublishTypes DEF Presence, D!Entries, D!Named
  <2>2. /\ dest' \in [D!Dirs -> Presence] /\ dest'[at[j]] = more
        /\ \A d \in Albums : d # at[j] => dest'[d] = dest[d]
    BY <1>2, <1>3, <1>5, <2>1, PublishTypes, WrittenTypes, ZenonT(30)
  <2>3. ASSUME Lone(j), album[j] \in Albums PROVE AsLeft(j)'
    <3>1. /\ at[j] = album[j] /\ todo[j] \subseteq {album[j]} \X {D!Meta, D!Track}
          /\ j \notin into /\ there = Copied(j)
      BY <1>1, <1>2, <2>3, PublishTypes DEF AsLeft
    <3>2. /\ jobPc'[j] = "copy" /\ dest'[album'[j]] = more /\ album'[j] = album[j]
          /\ todo'[j] = left
      BY <1>1, <1>2, <1>3, <2>2, <3>1 DEF JobsInv, JobTypes
    <3>3. entry = <<album[j], entry[2]>>
      BY <3>1
    <3>4. more = {f \in D!Files(j) : <<album[j], f[1]>> \notin left}
      BY <1>4, <3>1, <3>3 DEF Copied, D!Named, D!Files
    <3>5. more = Copied(j)'
      BY <3>2, <3>4 DEF Copied
    <3> HIDE DEF more
    <3> QED  BY <1>3, <1>5, <3>1, <3>2, <3>5 DEF AsLeft
  <2> HIDE DEF more, left
  <2> QED  BY <1>1, <1>2, <1>3, <1>4, <1>5, <2>2, <2>3, PublishTypes, StayInv DEF left
<1>6. CASE there = NULL
  <2>1. ~(Lone(j) /\ album[j] \in Albums)
    <3>1. Copied(j) \in SUBSET D!Entries
      BY EntriesPresent DEF Copied
    <3> QED  BY <1>1, <1>2, <1>6, <3>1, PublishTypes, EntriesPresent DEF AsLeft
  <2>2. UNCHANGED dest /\ into' \in {into, into \cup {j}}
    BY <1>3, <1>6
  <2> QED  BY <1>1, <1>2, <1>3, <1>4, <2>1, <2>2, PublishTypes, StayInv
<1> QED  BY <1>5, <1>6

(* The copy ends: whole, if every file was copied.                           *)
LEMMA CopyDoneInv ==
  ASSUME JobsInv, NEW j \in Jobs, D!CopyDone(j)
  PROVE  JobsInv'
<1>1. /\ jobPc[j] = "copy" /\ todo[j] = {}
      /\ jobPc' = [jobPc EXCEPT ![j] = IF j \in into THEN "raised" ELSE "done"]
      /\ UNCHANGED <<album, at, superseded, into, dest, todo>>
  BY DEF D!CopyDone, D!Goto
<1>2. D!Publishing(j)
  BY <1>1 DEF D!Publishing
<1>3. ASSUME Lone(j), album[j] \in Albums PROVE AsLeft(j)'
  <2>1. j \notin into /\ dest[album[j]] = Copied(j)
    BY <1>1, <1>2, <1>3, PublishTypes DEF AsLeft
  <2>2. Copied(j) = D!Files(j)
    BY <1>1 DEF Copied
  <2> QED  BY <1>1, <2>1, <2>2 DEF JobsInv, JobTypes, AsLeft, D!Files
<1>4. CASE j \in into
  <2>1. jobPc' = [jobPc EXCEPT ![j] = "raised"]
    BY <1>1, <1>4
  <2> QED  BY <1>1, <1>2, <1>3, <2>1, PublishTypes, StayInv
<1>5. CASE j \notin into
  <2>1. jobPc' = [jobPc EXCEPT ![j] = "done"]
    BY <1>1, <1>5
  <2> QED  BY <1>1, <1>2, <1>3, <2>1, PublishTypes, StayInv
<1> QED  BY <1>4, <1>5

(* Every step of a job keeps the invariant, and the accounts do not meet it. *)
LEMMA JobsStep == JobsInv /\ [FilesNext]_<<users, jobs>> => JobsInv'
<1> SUFFICES ASSUME JobsInv, [FilesNext]_<<users, jobs>> PROVE JobsInv'
  OBVIOUS
<1>1. CASE UNCHANGED jobs
  BY <1>1 DEF jobs, JobsInv, JobTypes, AlbumInv, LoneInv, LoneAlbumInv, Lone,
              Looked, AsLeft, Copied, D!Meet
<1>2. ASSUME NEW j \in Jobs, D!Step(j) PROVE JobsInv'
  BY <1>2, EarlyInv, FetchInv, SeeInv, ListInv, RemoveFileInv, EnterInv, RemoveDirInv,
     SeeTargetInv, MoveInv, MakeAlbumInv, CopyFileInv, CopyDoneInv DEF D!Step
<1> QED  BY <1>1, <1>2 DEF FilesNext

(* downloader.py:218-220: a job that has an album to publish under a name of *)
(* its own, and meets no other at that, nor one that has the whole of        *)
(* MUSIC_DIR for its album's directory, succeeds, and leaves the whole of    *)
(* its album listed, and nothing else with it, whatever was there before and *)
(* whatever ended jobs have left.                                            *)
THEOREM PublishedWhole == FilesSpec => []AlbumsWhole
<1>1. FilesInit => JobsInv
  BY JobsInit DEF FilesInit
<1>2. JobsInv => AlbumsWhole
  <2> SUFFICES ASSUME JobsInv, NEW j \in Jobs, D!Ended(j), album[j] \in Albums, j \notin superseded
               PROVE  jobPc[j] = "done" /\ D!Shown(album[j]) = {j} /\ D!Dest(j) = D!Files(j)
    BY DEF AlbumsWhole, D!AlbumsWhole
  <2>1. album[j] # NULL /\ at[j] = album[j]
    BY EntriesPresent DEF JobsInv, AlbumInv, AlbumNames
  <2>2. Lone(j) /\ AsLeft(j)
    BY <2>1 DEF D!Ended, JobsInv, LoneAlbumInv, Lone, Looked
  <2>3. jobPc[j] = "done" /\ dest[album[j]] = D!Files(j)
    BY <2>1, <2>2 DEF D!Ended, JobsInv, AlbumInv, AsLeft, Early
  <2>4. D!Files(j) # NULL
    BY EntriesPresent
  <2>5. {f[2] : f \in D!Named(D!Files(j), D!Meta)} = {j}
    <3>1. D!Named(D!Files(j), D!Meta) = {<<D!Meta, j>>}
      BY DEF D!Named, D!Files, D!Meta, D!Track
    <3> QED  BY <3>1
  <2> QED  BY <2>1, <2>3, <2>4, <2>5 DEF D!Shown, D!Dest
<1> QED  BY <1>1, <1>2, JobsStep, PTL DEF FilesSpec

-----------------------------------------------------------------------------
(* The pipes.  A program goes on short only at the end of its input pipe.    *)
(* The proof counts: as long as it reads, it holds the reading end, so that  *)
(* nothing written is lost, and what it still wants is in the pipe or still  *)
(* to be fed; and the server keeps the writing end until the body is fed or  *)
(* is not waited for any longer.                                             *)

(* Shapes, as far as the argument needs them. *)
PipeTypes ==
  /\ toFeed \in [Calls -> Nat] /\ toRead \in [Calls -> Nat]
  /\ inPipe \in [Calls -> Nat] /\ late \subseteq Calls
  /\ wpc \in [Calls -> {"start", "fork", "close", "feed", "copy", "wait", "done"}]
  /\ cpc \in [Calls -> {"none", "read", "run", "write", "exit"}]
  /\ server \in [Calls -> SUBSET Ends]
  /\ held \in [Calls -> SUBSET (Calls \X Ends)]

(* There is a child exactly after the fork; a worker that got no pipe or no  *)
(* child is done.                                                            *)
ForkInv ==
  \A r \in Calls :
    /\ cpc[r] = "none" => wpc[r] \in {"start", "fork", "done"}
    /\ wpc[r] \in {"start", "fork"} => cpc[r] = "none"

(* The server has the ends that the worker has not closed yet.               *)
EndsInv ==
  \A r \in Calls :
    /\ wpc[r] = "fork" => server[r] = Ends
    /\ wpc[r] \in {"close", "feed"} => InWrite \in server[r]

(* The child that reads has the reading end.                                 *)
ReaderInv == \A r \in Calls : cpc[r] = "read" => <<r, InRead>> \in held[r]

(* What it still wants is in the pipe or will be fed.                        *)
CountInv ==
  \A r \in Calls :
    cpc[r] \in {"none", "read"} => toRead[r] <= inPipe[r] + toFeed[r]

(* A worker that has ended the body has fed all of it, or did not wait.      *)
FedInv ==
  \A r \in Calls :
    wpc[r] \in {"copy", "wait", "done"} /\ cpc[r] # "none"
      => toFeed[r] = 0 \/ r \in late

PipesInv ==
  /\ PipeTypes /\ ForkInv /\ EndsInv /\ ReaderInv /\ CountInv /\ FedInv
  /\ ShortOnlyIfLate

-----------------------------------------------------------------------------
(* At the start nothing is forked and no program wants more than was         *)
(* announced.                                                                *)
LEMMA PipesInitInv == PipesInit => PipesInv
<1> SUFFICES ASSUME PipesInit PROVE PipesInv
  OBVIOUS
<1>1. PICK body \in [Calls -> Bodies] :
        /\ toFeed = [r \in Calls |-> body[r][1]]
        /\ toRead = [r \in Calls |-> body[r][2]]
  BY DEF PipesInit
<1>2. \A r \in Calls : body[r][1] \in Nat /\ body[r][2] \in Nat /\ body[r][2] <= body[r][1]
  BY PipesAssumption
<1> QED
  BY <1>1, <1>2, SMTT(30)
  DEF PipesInit, PipesInv, PipeTypes, ForkInv, EndsInv, ReaderInv, CountInv, FedInv, ShortOnlyIfLate

(* handle_cgi_request up to the fork: pipe, fork, and the ends the worker    *)
(* closes.                                                                   *)
LEMMA ForkStepInv ==
  ASSUME PipesInv, NEW r \in Calls,
         Pipe(r) \/ Fork(r) \/ ForkFails(r) \/ CloseChildEnds(r)
  PROVE  PipesInv'
<1> USE DEF PipesInv, PipeTypes, WorkerGoto, child, pipes
<1>1. CASE Pipe(r)
  BY <1>1 DEF Pipe, Opens, Ends, ForkInv, EndsInv, ReaderInv, CountInv, FedInv,
              ShortOnlyIfLate
<1>2. CASE Fork(r)
  <2>1. /\ Inherited(r) \subseteq Calls \X Ends
        /\ <<r, InRead>> \in Inherited(r)
    BY <1>2 DEF Fork, EndsInv, Inherited, Ends, InRead, InWrite, OutRead, OutWrite
  <2>2. PipeTypes' /\ ReaderInv'
    BY <1>2, <2>1 DEF Fork, ReaderInv
  <2> QED
    BY <1>2, <2>2 DEF Fork, Ends, ForkInv, EndsInv, CountInv, FedInv, ShortOnlyIfLate
<1>3. CASE ForkFails(r)
  BY <1>3 DEF ForkFails, ForkInv, EndsInv, ReaderInv, CountInv, FedInv, ShortOnlyIfLate
<1>4. CASE CloseChildEnds(r)
  BY <1>4 DEF CloseChildEnds, Close, InRead, InWrite, OutWrite, ForkInv, EndsInv,
              ReaderInv, CountInv, FedInv, ShortOnlyIfLate
<1> QED  BY <1>1, <1>2, <1>3, <1>4

(* The body: a chunk that is fed stays in the pipe as long as the child      *)
(* reads, and an end of the body with something left to feed is late.        *)
LEMMA FeedStepInv ==
  ASSUME PipesInv, NEW r \in Calls, Feed(r) \/ EndBody(r)
  PROVE  PipesInv'
<1> USE DEF PipesInv, PipeTypes, WorkerGoto, child, pipes
<1>1. CASE Feed(r)
  <2>1. CountInv'
    BY <1>1 DEF Feed, Written, IsOpen, CountInv, ReaderInv, ForkInv
  <2> QED
    BY <1>1, <2>1 DEF Feed, Written, ForkInv, EndsInv, ReaderInv, FedInv, ShortOnlyIfLate
<1>2. CASE EndBody(r)
  BY <1>2 DEF EndBody, Close, ForkInv, EndsInv, ReaderInv, CountInv, FedInv,
              ShortOnlyIfLate
<1> QED  BY <1>1, <1>2

(* The answer and the end of the child touch no input.                       *)
LEMMA AnswerStepInv ==
  ASSUME PipesInv, NEW r \in Calls,
         Copy(r) \/ EndCopy(r) \/ Reap(r) \/ Run(r) \/ WriteOut(r) \/ Exit(r)
  PROVE  PipesInv'
<1> USE DEF PipesInv, PipeTypes, WorkerGoto, ChildGoto, Close, worker, child, pipes
<1>1. CASE Copy(r)
  BY <1>1 DEF Copy, ForkInv, EndsInv, ReaderInv, CountInv, FedInv, ShortOnlyIfLate
<1>2. CASE EndCopy(r)
  BY <1>2 DEF EndCopy, ForkInv, EndsInv, ReaderInv, CountInv, FedInv, ShortOnlyIfLate
<1>3. CASE Reap(r)
  BY <1>3 DEF Reap, ForkInv, EndsInv, ReaderInv, CountInv, FedInv, ShortOnlyIfLate
<1>4. CASE Run(r)
  BY <1>4 DEF Run, ForkInv, EndsInv, ReaderInv, CountInv, FedInv, ShortOnlyIfLate
<1>5. CASE WriteOut(r)
  BY <1>5 DEF WriteOut, ForkInv, EndsInv, ReaderInv, CountInv, FedInv, ShortOnlyIfLate
<1>6. CASE Exit(r)
  BY <1>6 DEF Exit, ForkInv, EndsInv, ReaderInv, CountInv, FedInv, ShortOnlyIfLate
<1> QED  BY <1>1, <1>2, <1>3, <1>4, <1>5, <1>6

(* The child reads what is there; at an end of its input that leaves it      *)
(* short, the worker has ended the body before it was fed.                   *)
LEMMA ReadStepInv ==
  ASSUME PipesInv, NEW r \in Calls, Read(r) \/ EndRead(r)
  PROVE  PipesInv'
<1> USE DEF PipesInv, PipeTypes, ChildGoto, worker, pipes
<1>1. CASE Read(r)
  BY <1>1 DEF Read, ForkInv, EndsInv, ReaderInv, CountInv, FedInv, ShortOnlyIfLate
<1>2. CASE EndRead(r)
  <2>1. toRead[r] = 0 \/ r \in late
    <3>1. CASE toRead[r] # 0
      <4>1. inPipe[r] = 0 /\ InWrite \notin server[r]
        BY <1>2, <3>1 DEF EndRead, HasRead, IsOpen
      <4>2. wpc[r] \in {"copy", "wait", "done"}
        BY <1>2, <4>1 DEF EndRead, ForkInv, EndsInv
      <4>3. toFeed[r] = 0 => toRead[r] = 0
        BY <1>2, <4>1 DEF EndRead, CountInv
      <4> QED
        BY <1>2, <3>1, <4>2, <4>3 DEF EndRead, FedInv
    <3> QED  BY <3>1
  <2> QED
    BY <1>2, <2>1 DEF EndRead, ForkInv, EndsInv, ReaderInv, CountInv, FedInv,
                      ShortOnlyIfLate
<1> QED  BY <1>1, <1>2

(* Every step of a worker or of a child keeps the invariant.                 *)
LEMMA PipesStepInv == PipesInv /\ [PipesNext]_pipesVars => PipesInv'
<1> SUFFICES ASSUME PipesInv, [PipesNext]_pipesVars PROVE PipesInv'
  OBVIOUS
<1>1. ASSUME NEW r \in Calls, WorkerStep(r) PROVE PipesInv'
  BY <1>1, ForkStepInv, FeedStepInv, AnswerStepInv DEF WorkerStep
<1>2. ASSUME NEW r \in Calls, ChildStep(r) PROVE PipesInv'
  BY <1>2, ReadStepInv, AnswerStepInv DEF ChildStep
<1>3. CASE UNCHANGED pipesVars
  BY <1>3 DEF pipesVars, worker, child, pipes, PipesInv, PipeTypes, ForkInv, EndsInv,
              ReaderInv, CountInv, FedInv, ShortOnlyIfLate
<1> QED  BY <1>1, <1>2, <1>3 DEF PipesNext

-----------------------------------------------------------------------------
(* The counting invariant holds of every run.                                *)
THEOREM PipesInvariance == PipesSpec => []PipesInv
BY PipesInitInv, PipesStepInv, PTL DEF PipesSpec

(* handle_cgi_request and its children: a program gets by with less than it  *)
(* has room for only when the worker stopped waiting for the body, never     *)
(* because an input pipe ended too early.                                    *)
THEOREM InputComplete == PipesSpec => []ShortOnlyIfLate
<1>1. PipesInv => ShortOnlyIfLate
  BY DEF PipesInv
<1> QED  BY <1>1, PipesInvariance, PTL

-----------------------------------------------------------------------------
(* Who has which ends. *)
HolderInv ==
  /\ outPipe \in [Calls -> Nat] /\ toWrite \in [Calls -> Nat]
  /\ \A r \in Calls :
       /\ cpc[r] \in {"none", "exit"} => held[r] = {}
       /\ <<r, InWrite>> \notin held[r] /\ <<r, OutRead>> \notin held[r]
       /\ cpc[r] \in {"read", "run", "write"} => wpc[r] \in {"close", "feed", "copy", "wait"}
       /\ wpc[r] \in {"feed", "copy", "wait"} => InRead \notin server[r] /\ OutWrite \notin server[r]
       /\ wpc[r] \in {"copy", "wait"} => InWrite \notin server[r]
       /\ wpc[r] = "wait" => OutRead \notin server[r]

(* What a worker, or a child, that has not come to its end may wait for.  A  *)
(* worker that feeds is taken to have received the bytes that it cannot      *)
(* write: that nothing comes from the client does not help it then.          *)
WorkerWaits(r) ==
  \/ wpc[r] = "feed" /\ toFeed[r] > 0 /\ ~CanWrite(r, inPipe, InRead)
  \/ wpc[r] = "copy" /\ outPipe[r] = 0 /\ IsOpen(r, OutWrite)
  \/ wpc[r] = "wait" /\ cpc[r] # "exit"

ChildWaits(r) ==
  \/ cpc[r] = "read" /\ ~HasRead(r) /\ inPipe[r] = 0
  \/ cpc[r] = "write" /\ toWrite[r] > 0 /\ ~CanWrite(r, outPipe, OutRead)

(* Nobody can go on. *)
Standstill ==
  \A r \in Calls : /\ wpc[r] = "done" \/ WorkerWaits(r)
                   /\ cpc[r] \in {"none", "exit"} \/ ChildWaits(r)

(* When nobody can go on, all requests have ended; but for the two ways to   *)
(* wait for each other that RequestsEnd names.                               *)
OnlyTwoWays == Standstill => Ring \/ BothFull \/ \A r \in Calls : wpc[r] = "done"

(* The ends go from hand to hand as the code closes them.                    *)
LEMMA HolderStepInv == PipesInv /\ HolderInv /\ [PipesNext]_pipesVars => HolderInv'
<1> SUFFICES ASSUME PipesInv, HolderInv, [PipesNext]_pipesVars PROVE HolderInv'
  OBVIOUS
<1> USE DEF PipesInv, PipeTypes, WorkerGoto, ChildGoto, Close, worker, child, pipes
<1>1. InRead # InWrite /\ OutRead # OutWrite /\ InRead # OutRead /\ InWrite # OutWrite
      /\ InRead # OutWrite /\ InWrite # OutRead
  BY DEF InRead, InWrite, OutRead, OutWrite
<1>2. ASSUME NEW r \in Calls, Pipe(r) PROVE HolderInv'
  BY <1>2 DEF Pipe, Opens, ForkInv, HolderInv
<1>3. ASSUME NEW r \in Calls, Fork(r) PROVE HolderInv'
  BY <1>3 DEF Fork, Inherited, ForkInv, HolderInv
<1>4. ASSUME NEW r \in Calls, ForkFails(r) PROVE HolderInv'
  BY <1>4 DEF ForkFails, ForkInv, HolderInv
<1>5. ASSUME NEW r \in Calls, CloseChildEnds(r) PROVE HolderInv'
  BY <1>1, <1>5 DEF CloseChildEnds, HolderInv
<1>6. ASSUME NEW r \in Calls, Feed(r) PROVE HolderInv'
  BY <1>6 DEF Feed, HolderInv
<1>7. ASSUME NEW r \in Calls, EndBody(r) PROVE HolderInv'
  BY <1>7 DEF EndBody, HolderInv
<1>8. ASSUME NEW r \in Calls, Copy(r) PROVE HolderInv'
  BY <1>8 DEF Copy, HolderInv
<1>9. ASSUME NEW r \in Calls, EndCopy(r) PROVE HolderInv'
  BY <1>9 DEF EndCopy, HolderInv
<1>10. ASSUME NEW r \in Calls, Reap(r) PROVE HolderInv'
  BY <1>10 DEF Reap, HolderInv
<1>11. ASSUME NEW r \in Calls, Read(r) \/ EndRead(r) PROVE HolderInv'
  BY <1>11, SMTT(30) DEF Read, EndRead, HolderInv
<1>12. ASSUME NEW r \in Calls, Run(r) PROVE HolderInv'
  BY <1>12, PipesAssumption DEF Run, HolderInv
<1>13. ASSUME NEW r \in Calls, WriteOut(r) PROVE HolderInv'
  BY <1>13 DEF WriteOut, Written, HolderInv
<1>14. ASSUME NEW r \in Calls, Exit(r) PROVE HolderInv'
  BY <1>14 DEF Exit, HolderInv
<1>15. CASE UNCHANGED pipesVars
  BY <1>15 DEF pipesVars, HolderInv
<1> QED
  BY <1>2, <1>3, <1>4, <1>5, <1>6, <1>7, <1>8, <1>9, <1>10, <1>11, <1>12, <1>13, <1>14, <1>15
  DEF PipesNext, WorkerStep, ChildStep

(* An end that is open and not the server's is that of a running child.      *)
LEMMA Holder ==
  ASSUME PipesInv, HolderInv, NEW r \in Calls, NEW end,
         IsOpen(r, end), end \notin server[r]
  PROVE  \E q \in Calls : <<r, end>> \in held[q] /\ cpc[q] \in {"read", "run", "write"}
<1>1. PICK q \in Calls : <<r, end>> \in held[q]
  BY DEF IsOpen
<1>2. held[q] # {} /\ cpc[q] \in {"none", "read", "run", "write", "exit"}
  BY <1>1 DEF PipesInv, PipeTypes
<1>3. cpc[q] \notin {"none", "exit"}
  BY <1>2 DEF HolderInv
<1> QED  BY <1>1, <1>2, <1>3

(* A worker that waits has, in the end, a running child to wait for.         *)
LEMMA WaitedFor ==
  ASSUME PipesInv, HolderInv, NEW r \in Calls, WorkerWaits(r)
  PROVE  \E q \in Calls : cpc[q] \in {"read", "run", "write"}
<1>1. CASE wpc[r] = "feed" /\ ~CanWrite(r, inPipe, InRead)
  BY <1>1, Holder DEF CanWrite, HolderInv
<1>2. CASE wpc[r] = "copy" /\ IsOpen(r, OutWrite)
  BY <1>2, Holder DEF HolderInv
<1>3. CASE wpc[r] = "wait" /\ cpc[r] # "exit"
  BY <1>3 DEF PipesInv, PipeTypes, ForkInv
<1> QED  BY <1>1, <1>2, <1>3 DEF WorkerWaits

(* When nobody can go on, and no worker is stuck with its own child, a       *)
(* child waits for another one.                                              *)
LEMMA WaitsForAnother ==
  ASSUME PipesInv, HolderInv, Standstill, ~BothFull, NEW r \in Calls, cpc[r] \in {"read", "write"}
  PROVE  \E q \in Calls \ {r} : cpc[q] \in {"read", "write"} /\ WaitsFor(r, q)
<1>1. /\ ChildWaits(r)
      /\ wpc[r] = "done" \/ WorkerWaits(r)
      /\ wpc[r] \in {"close", "feed", "copy", "wait"}
      /\ inPipe[r] \in Nat /\ outPipe[r] \in Nat /\ PipeCap \in Nat \ {0}
  BY PipesAssumption DEF Standstill, HolderInv, PipesInv, PipeTypes
<1>2. \A q \in Calls : cpc[q] # "run"
  BY DEF Standstill, ChildWaits
<1>3. CASE cpc[r] = "read"
  <2>1. ~HasRead(r) /\ inPipe[r] = 0 /\ IsOpen(r, InWrite)
    <3>1. ~HasRead(r) /\ inPipe[r] = 0
      BY <1>1, <1>3 DEF ChildWaits
    <3> QED  BY <3>1 DEF HasRead, IsOpen
  <2>2. InWrite \notin server[r]
    <3>1. CanWrite(r, inPipe, InRead)
      BY <1>1, <2>1 DEF CanWrite
    <3>2. wpc[r] \in {"copy", "wait"}
      BY <1>1, <3>1 DEF WorkerWaits
    <3> QED  BY <3>2 DEF HolderInv
  <2>3. PICK q \in Calls : <<r, InWrite>> \in held[q] /\ cpc[q] \in {"read", "run", "write"}
    BY <2>1, <2>2, Holder
  <2>4. q # r
    BY <2>3 DEF HolderInv
  <2> QED  BY <1>2, <1>3, <2>1, <2>2, <2>3, <2>4 DEF WaitsFor
<1>4. CASE cpc[r] = "write"
  <2>1. /\ toWrite[r] > 0 /\ ~CanWrite(r, outPipe, OutRead)
        /\ outPipe[r] > 0 /\ IsOpen(r, OutRead)
    <3>1. toWrite[r] > 0 /\ ~CanWrite(r, outPipe, OutRead)
      BY <1>1, <1>4 DEF ChildWaits
    <3>2. ~(outPipe[r] < PipeCap) /\ IsOpen(r, OutRead)
      BY <3>1 DEF CanWrite, IsOpen
    <3> QED  BY <1>1, <3>1, <3>2
  <2>2. OutRead \notin server[r]
    <3>1. wpc[r] # "feed"
      BY <1>1, <1>4, <2>1 DEF WorkerWaits, BothFull
    <3>2. wpc[r] = "wait"
      BY <1>1, <2>1, <3>1 DEF WorkerWaits
    <3> QED  BY <3>2 DEF HolderInv
  <2>3. PICK q \in Calls : <<r, OutRead>> \in held[q] /\ cpc[q] \in {"read", "run", "write"}
    BY <2>1, <2>2, Holder
  <2>4. q # r
    BY <2>3 DEF HolderInv
  <2> QED  BY <1>2, <1>4, <2>1, <2>2, <2>3, <2>4 DEF WaitsFor
<1> QED  BY <1>3, <1>4

(* handle_cgi_request: a standstill with a request that has not ended is a   *)
(* ring of children with each other's pipes, or a worker and its own child   *)
(* with both pipes full; there is no third way.                              *)
THEOREM NoThirdWay == PipesSpec => []OnlyTwoWays
<1>1. PipesInit => HolderInv
  BY DEF PipesInit, HolderInv
<1>2. PipesInv /\ HolderInv => OnlyTwoWays
  <2> SUFFICES ASSUME PipesInv, HolderInv, Standstill, ~BothFull,
                      NEW r \in Calls, wpc[r] # "done"
               PROVE  Ring
    BY DEF OnlyTwoWays
  <2> DEFINE ring == {q \in Calls : cpc[q] \in {"read", "write"}}
  <2>1. ring # {}
    BY WaitedFor DEF Standstill, ChildWaits
  <2>2. \A p \in ring : \E q \in ring \ {p} : WaitsFor(p, q)
    BY WaitsForAnother
  <2>3. ring \in (SUBSET Calls) \ {{}}
    BY <2>1
  <2> HIDE DEF ring
  <2> QED  BY <2>2, <2>3 DEF Ring
<1> QED  BY PipesInvariance, HolderStepInv, <1>1, <1>2, PTL DEF PipesSpec

=============================================================================
