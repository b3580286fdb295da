----------------------------- MODULE UserStore -------------------------------
(***************************************************************************)
(* The accounts file data/users.json between the CGI processes that load,  *)
(* change and save it (cgi_bin/auth_app.c, cgi_bin/playlist_manager.c).    *)
(* The workers of the web server run several of these processes at a time  *)
(* and nothing locks the file: a save opens it with "w", which empties it, *)
(* and writes the whole object at the close.  A file that cannot be parsed *)
(* is loaded as an empty object.                                           *)
(*                                                                         *)
(* The text fits one stdio buffer, so that it is written at once, from the *)
(* beginning of the file: where another text stands already, a shorter one *)
(* leaves the end of it behind, and the file is no JSON any more.          *)
(***************************************************************************)
EXTENDS UserRequests

CONSTANTS Procs,    \* the CGI processes, each serving one request after another
          Asked,    \* the requests that are made
          OnFile,   \* what the accounts in the file may be at the start
          MaxFaults \* bound: saves that fail

ASSUME StoreAssumption == Asked \subseteq Requests /\ OnFile \subseteq Databases /\ MaxFaults \in Nat

VARIABLES
  file,    \* data/users.json: what it is, and the object it spells
  pc,      \* what each process does next
  request, \* the request it serves
  db,      \* the object it has loaded, and changed
  answer,  \* the answer it will print, or NULL
  alone,   \* auxiliary: it has loaded a whole file, and no save of another
           \* process has touched the file since, nor was one under way then
  last,    \* auxiliary: the object last saved whole
  told,    \* auxiliary: the names and passwords that registrations have told;
           \* of an account there was at the start, what the file had
  faults   \* bound counter

vars == <<file, pc, request, db, answer, alone, last, told, faults>>

TypeOK ==
  /\ file \in [is : {"absent", "empty", "json", "broken"}, spells : Databases]
  /\ pc \in [Procs -> {"idle", "open", "write", "reply"}]
  /\ request \in [Procs -> Requests]
  /\ db \in [Procs -> Databases]
  /\ answer \in [Procs -> Answers \cup {NULL}]
  /\ alone \in [Procs -> BOOLEAN]
  /\ last \in Databases
  /\ told \in SUBSET (Names \X (Passwords \cup Chosen \cup {NULL}))
  /\ faults \in 0..MaxFaults

Json(object)   == [is |-> "json", spells |-> object]
NoJson(reason) == [is |-> reason, spells |-> Nobody]

Init ==
  /\ last \in OnFile
  /\ file = (IF last = Nobody THEN NoJson("absent") ELSE Json(last))
  /\ pc = [p \in Procs |-> "idle"]
  /\ request = [p \in Procs |-> [kind |-> "malformed"]]
  /\ db = [p \in Procs |-> Nobody]
  /\ answer = [p \in Procs |-> NULL]
  /\ alone = [p \in Procs |-> TRUE]
  /\ told = {<<n, last[n].pw>> : n \in DOMAIN last}
  /\ faults = 0

(* load_users, load_db: no file, or one that is no JSON, is an empty object. *)
Loaded == file.spells

(* Another process is between the opening and the closing of the file.       *)
OtherWrites(p) == \E q \in Procs \ {p} : pc[q] = "write"

(* main, up to the save or the answer: the request is read from stdin, the   *)
(* file is loaded, and the request decided on what it held.                  *)
Begin(p, r) ==
  LET out == Outcome(Loaded, r) IN
  /\ pc[p] = "idle"
  /\ Fits(Loaded, r)
  /\ request' = [request EXCEPT ![p] = r]
  /\ db' = [db EXCEPT ![p] = out.db]
  /\ answer' = [answer EXCEPT ![p] = out.answer]
  /\ alone' = [alone EXCEPT ![p] = file.is \in {"json", "absent"} /\ ~OtherWrites(p)]
  /\ told' = IF r.kind = "register" /\ out.saves
               THEN told \cup {<<r.name, out.answer.pw>>} ELSE told
  /\ pc' = [pc EXCEPT ![p] = IF out.saves THEN "open" ELSE "reply"]
  /\ UNCHANGED <<file, last, faults>>

(* What a save of p is to the others that have loaded the file.              *)
Disturb(p) == alone' = [q \in Procs |-> IF q = p THEN alone[q] ELSE alone[q] /\ pc[q] = "idle"]

(* Mutant: the file is not emptied.                                          *)
OpenInPlace(p) ==
  /\ pc[p] = "open"
  /\ Disturb(p)
  /\ pc' = [pc EXCEPT ![p] = "write"]
  /\ UNCHANGED <<file, request, db, answer, last, told, faults>>

(* save_users, save_db: fopen with "w" empties the file.                     *)
Open(p) ==
  /\ pc[p] = "open"
  /\ file' = NoJson("empty")
  /\ Disturb(p)
  /\ pc' = [pc EXCEPT ![p] = "write"]
  /\ UNCHANGED <<request, db, answer, last, told, faults>>

(* fclose writes the text over what stands in the file by now.               *)
Write(p) ==
  /\ pc[p] = "write"
  /\ \/ file' = Json(db[p]) /\ last' = db[p]
     \/ file.is # "empty" /\ file' = NoJson("broken") /\ UNCHANGED last
  /\ Disturb(p)
  /\ pc' = [pc EXCEPT ![p] = "reply"]
  /\ UNCHANGED <<request, db, answer, told, faults>>

(* fopen fails, or the disk is full at the close: neither is looked at.      *)
SaveFails(p) ==
  /\ pc[p] \in {"open", "write"} /\ faults < MaxFaults
  /\ pc' = [pc EXCEPT ![p] = "reply"]
  /\ faults' = faults + 1
  /\ UNCHANGED <<file, request, db, answer, alone, last, told>>

(* The answer is printed and the process ends.                               *)
Reply(p) ==
  /\ pc[p] = "reply"
  /\ pc' = [pc EXCEPT ![p] = "idle"]
  /\ answer' = [answer EXCEPT ![p] = NULL]
  /\ db' = [db EXCEPT ![p] = Nobody]
  /\ request' = [request EXCEPT ![p] = [kind |-> "malformed"]]
  /\ alone' = [alone EXCEPT ![p] = TRUE]
  /\ UNCHANGED <<file, last, told, faults>>

Next == \E p \in Procs :
          \/ \E r \in Asked : Begin(p, r)
          \/ Open(p) \/ Write(p) \/ SaveFails(p) \/ Reply(p)

Spec == Init /\ [][Next]_vars

-----------------------------------------------------------------------------
(* Properties *)

(* Everything of the one object is in the other: the accounts with their     *)
(* passwords, their collections, and these with their tracks in order.       *)
Keeps(new, old) ==
  \A n \in DOMAIN old :
    /\ n \in DOMAIN new /\ new[n].pw = old[n].pw
    /\ \A l \in DOMAIN old[n].lists :
         /\ l \in DOMAIN new[n].lists
         /\ Len(new[n].lists[l]) >= Len(old[n].lists[l])
         /\ \A i \in 1..Len(old[n].lists[l]) : new[n].lists[l][i] = old[n].lists[l][i]

(* A process that loads a whole file and saves before anybody else does      *)
(* leaves a whole file with everything in it that was saved last: load,      *)
(* change and dump (auth_app.c:73-102, playlist_manager.c:61-110) lose       *)
(* something only where two processes overlap, or where an overlap or a      *)
(* failed save has spoilt the file before.                                   *)
NothingLost ==
  [][ \A p \in Procs : alone[p] /\ pc[p] = "write" /\ pc'[p] = "reply" /\ faults' = faults
        => file'.is = "json" /\ Keeps(file'.spells, last) ]_vars

(* What json_string makes of the passwords that were told to who registered  *)
(* a name.                                                                   *)
OnRecord(name) == {Stored(t[2]) : t \in {t \in told : t[1] = name}}

(* What is on file for a name is what json_string makes of a password that   *)
(* the answer to a registration of that name has told (auth_app.c:91-106):   *)
(* that password itself, or none where it was cut in the middle of a         *)
(* character.  Nobody logs in with a password that was not told, and so not  *)
(* at all to an account without one, whatever the processes overwrite of     *)
(* each other (auth_app.c:132-145).                                          *)
KnownPasswords ==
  /\ \A n \in DOMAIN file.spells : file.spells[n].pw \in OnRecord(n)
  /\ \A p \in Procs :
       answer[p] # NULL /\ answer[p].status = "success" /\ request[p].kind = "login"
         => <<request[p].name, request[p].pw>> \in told

(* The two, as one invariant. *)
Consistent == TypeOK /\ KnownPasswords

=============================================================================
