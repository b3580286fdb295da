----------------------------- MODULE Downloads -----------------------------
(***************************************************************************)
(* The jobs that fetch songs (cgi_bin/downloader.py), each started by a    *)
(* request of its own (cgi_bin/request_song.c), and the listing of what    *)
(* they have fetched (cgi_bin/mixtape_app.c).  The jobs know nothing of    *)
(* each other; they meet in two directories, the one that holds the work   *)
(* directories, named for the second a job begins in, and the one that     *)
(* holds the albums, named for what was asked for.  sanitize_filename      *)
(* leaves only letters, digits, underscores, dots and hyphens of a name: of *)
(* a query without any of them nothing, and the job then takes the         *)
(* directory of the albums for its album's; "." and ".." stay as they are. *)
(*                                                                         *)
(* A file is a pair of its name and the job that wrote it; an album has a  *)
(* "metadata.json" and a "track".                                          *)
(***************************************************************************)
EXTENDS Naturals, FiniteSets

CONSTANTS Jobs,    \* the jobs
          Albums,  \* names of albums that are directories of their own
          Seconds, \* bound: the seconds they begin in, numbers
          Old,     \* who wrote an album that was there before
          NULL     \* no directory, no album

Meta == "metadata.json"
Track == "track"
Nested == "directory"

(* Names that are no directory of their own: "" and "." are MUSIC_DIR, the   *)
(* directory of the albums, ".." is the one above it.                        *)
Music  == ""
Here   == "."
Above  == ".."
Dirs   == Albums \cup {Music}

(* What can be in an album's directory, or beside the albums in MUSIC_DIR.   *)
Entries == {Meta, Track, Nested} \X (Jobs \cup {Old})

(* What is meant by the constants (assumed in CgiFiles). *)
Parameters ==
  /\ Seconds \subseteq Nat /\ Old \notin Jobs /\ NULL \notin Seconds \cup Albums
  /\ Albums \cap {Music, Here, Above, Meta, Track, Nested} = {} /\ NULL \notin {Music, Here, Above}
  /\ \A files \in SUBSET Entries : files # NULL

VARIABLES
  oneDisk,  \* both directories are on one file system
  temp,     \* the directory of the work directories is there
  now,      \* the second in which a job began last
  work,     \* the work directories: the second, or NULL for none
  dest,     \* the directories of the albums, and MUSIC_DIR: what files are in
            \* them, or NULL
  pc,       \* what a job does next
  album,    \* the name of the album that it has fetched
  at,       \* the directory that it works in
  todo,     \* what it has still to remove, or to copy: directory and entry
  into,     \* auxiliary to its move: the album's directory was there
  superseded \* auxiliary: jobs whose directory another job has seen, or touched, since

vars == <<oneDisk, temp, now, work, dest, pc, album, at, todo, into, superseded>>

Files(j) == {Meta, Track} \X {j}

Init ==
  /\ oneDisk \in BOOLEAN /\ temp \in BOOLEAN /\ now \in Seconds /\ \A s \in Seconds : now <= s
  /\ dest \in [Dirs -> {NULL, {}, Files(Old)}] /\ dest[Music] = {}
  /\ \A a \in Albums : dest[a] # {}
  /\ work = [j \in Jobs |-> NULL]
  /\ pc = [j \in Jobs |-> "temp"]
  /\ album = [j \in Jobs |-> NULL] /\ at = [j \in Jobs |-> NULL]
  /\ todo = [j \in Jobs |-> {}]
  /\ into = {} /\ superseded = {}

Goto(j, from, to) == pc[j] = from /\ pc' = [pc EXCEPT ![j] = to]
Dest(j) == dest[at[j]]
Becomes(j, files) == dest' = [dest EXCEPT ![at[j]] = files]
Todo(j, entries) == todo' = [todo EXCEPT ![j] = entries]

(* A directory with nothing in it, albums included. *)
AlbumsThere == {a \in Albums : dest[a] # NULL}
IsEmpty(d)  == dest[d] = {} /\ (d = Music => AlbumsThere = {})

(* os.makedirs: the directory is new, and MUSIC_DIR is made if it is not     *)
(* there.                                                                    *)
MakesDirs(j, files) ==
  dest' = [d \in Dirs |-> IF d = at[j] THEN files
                           ELSE IF d = Music /\ dest[d] = NULL THEN {} ELSE dest[d]]

(* The job is somewhere between its look at the album and its end. *)
Publishing(j) == pc[j] \in {"list", "remove", "look", "move", "copy"}

-----------------------------------------------------------------------------
(* if not os.path.exists(TEMP_DIR): os.makedirs(TEMP_DIR).  What raises here *)
(* ends the job.                                                             *)
SeeTemp(j) ==
  /\ Goto(j, "temp", IF temp THEN "work" ELSE "make")
  /\ UNCHANGED <<oneDisk, temp, now, work, dest, album, at, todo, into, superseded>>

MakeTemp(j) ==
  /\ Goto(j, "make", IF temp THEN "raised" ELSE "work")
  /\ temp' = TRUE
  /\ UNCHANGED <<oneDisk, now, work, dest, album, at, todo, into, superseded>>

(* os.makedirs(work_dir), which raises if it is there. *)
MakeWork(j) ==
  /\ \E s \in Seconds :
       /\ s >= now /\ now' = s
       /\ IF \E k \in Jobs : work[k] = s
          THEN Goto(j, "work", "raised") /\ UNCHANGED work
          ELSE Goto(j, "work", "fetch") /\ work' = [work EXCEPT ![j] = s]
  /\ UNCHANGED <<oneDisk, temp, dest, album, at, todo, into, superseded>>

(* The metadata cannot be fetched: the work directory stays.  Or no track    *)
(* can: it goes.                                                             *)
FetchFails(j) ==
  /\ Goto(j, "fetch", "failed")
  /\ UNCHANGED work \/ work' = [work EXCEPT ![j] = NULL]
  /\ UNCHANGED <<oneDisk, temp, now, dest, album, at, todo, into, superseded>>

(* The name that sanitize_filename makes of the album, or of the query. *)
Fetch(j) ==
  /\ Goto(j, "fetch", "see")
  /\ \E name \in Albums \cup {Music, Here, Above} :
       /\ album' = [album EXCEPT ![j] = name]
       /\ at' = [at EXCEPT ![j] = IF name \in Albums THEN name ELSE Music]
  /\ UNCHANGED <<oneDisk, temp, now, work, dest, todo, into, superseded>>

(* The directory of the one is that of the other, or within it.              *)
Meet(j, k) == album[j] = album[k] \/ album[j] \notin Albums \/ album[k] \notin Albums

(* Jobs that have looked at a directory which j meets. *)
Others(j) == {k \in Jobs \ {j} : album[k] # NULL /\ pc[k] # "see" /\ Meet(j, k)}

(* The look at the album: the others are superseded, and so is j if another  *)
(* has not ended.                                                            *)
Supersedes(j) ==
  superseded' = superseded \cup Others(j)
                  \cup (IF \E k \in Others(j) : Publishing(k) THEN {j} ELSE {})

(* Mutant: an album that is there is not removed. *)
SeeAlbumKeeps(j) ==
  /\ Goto(j, "see", "look")
  /\ Supersedes(j)
  /\ UNCHANGED <<oneDisk, temp, now, work, dest, album, at, todo, into>>

(* if os.path.exists(destination) *)
SeeAlbum(j) ==
  /\ Goto(j, "see", IF Dest(j) # NULL THEN "list" ELSE "look")
  /\ Supersedes(j)
  /\ UNCHANGED <<oneDisk, temp, now, work, dest, album, at, todo, into>>

(* shutil.rmtree: a list of what is there, each removed in turn, then the    *)
(* directory, which must be empty by then.                                   *)
ListDir(j) ==
  /\ Goto(j, "list", IF Dest(j) = NULL THEN "raised" ELSE "remove")
  /\ LET files  == IF Dest(j) = NULL THEN {} ELSE {file[1] : file \in Dest(j)}
         albums == IF at[j] = Music /\ Dest(j) # NULL THEN AlbumsThere ELSE {}
     IN  Todo(j, todo[j] \cup ({at[j]} \X (files \cup albums)))
  /\ UNCHANGED <<oneDisk, temp, now, work, dest, album, at, into, superseded>>

Named(files, name) == {file \in files : file[1] = name}

RemoveFile(j) ==
  /\ \E entry \in todo[j] :
       /\ entry[1] = at[j] /\ entry[2] \notin Albums
       /\ IF Dest(j) # NULL /\ Named(Dest(j), entry[2]) # {}
          THEN /\ Goto(j, "remove", "remove")
               /\ Becomes(j, Dest(j) \ Named(Dest(j), entry[2]))
               /\ Todo(j, todo[j] \ {entry})
          ELSE Goto(j, "remove", "raised") /\ Todo(j, {}) /\ UNCHANGED dest
  /\ UNCHANGED <<oneDisk, temp, now, work, album, at, into, superseded>>

(* Of MUSIC_DIR, the albums are removed with what is in them. *)
EnterAlbum(j) ==
  /\ at[j] = Music
  /\ Goto(j, "remove", "list")
  /\ \E a \in Albums :
       /\ <<Music, a>> \in todo[j]
       /\ at' = [at EXCEPT ![j] = a]
       /\ Todo(j, todo[j] \ {<<Music, a>>})
  /\ UNCHANGED <<oneDisk, temp, now, work, dest, album, into, superseded>>

Emptied(j) == \A entry \in todo[j] : entry[1] # at[j]

(* os.rmdir *)
RemoveDir(j) ==
  /\ pc[j] = "remove" /\ Emptied(j) /\ ~(album[j] = Here /\ at[j] = Music)
  /\ IF ~IsEmpty(at[j]) THEN Goto(j, "remove", "raised") /\ UNCHANGED <<dest, at>>
     ELSE /\ Becomes(j, NULL)
          /\ IF at[j] = Music \/ album[j] \in Albums
             THEN /\ Goto(j, "remove", IF album[j] = Above THEN "raised" ELSE "look")
                  /\ UNCHANGED at
             ELSE Goto(j, "remove", "remove") /\ at' = [at EXCEPT ![j] = Music]
  /\ UNCHANGED <<oneDisk, temp, now, work, album, todo, into, superseded>>

(* It does not take a name that ends in "."; nor one that ends in "..", but  *)
(* then all that is in that directory is gone by now.                        *)
RemoveDot(j) ==
  /\ Emptied(j) /\ album[j] = Here /\ at[j] = Music
  /\ Goto(j, "remove", "raised")
  /\ UNCHANGED <<oneDisk, temp, now, work, dest, album, at, todo, into, superseded>>

(* shutil.move looks whether the destination is a directory, and moves into  *)
(* it if it is.                                                              *)
SeeTarget(j) ==
  /\ Goto(j, "look", "move")
  /\ into' = IF Dest(j) # NULL THEN into \cup {j} ELSE into
  /\ UNCHANGED <<oneDisk, temp, now, work, dest, album, at, todo, superseded>>

(* It is not: os.rename, which replaces an empty directory, if the one that  *)
(* it is in is there, and the name is not "." or ".."; if that fails, or on  *)
(* another disk, the files are copied, into a directory that must be new.    *)
CanRename(j) == /\ oneDisk /\ album[j] \notin {Here, Above}
                /\ Dest(j) = NULL \/ IsEmpty(at[j])
                /\ at[j] = Music \/ dest[Music] # NULL

Rename(j) ==
  /\ pc[j] = "move" /\ j \notin into /\ CanRename(j)
  /\ Goto(j, "move", "done")
  /\ Becomes(j, Files(j))
  /\ work' = [work EXCEPT ![j] = NULL]
  /\ UNCHANGED <<oneDisk, temp, now, album, at, todo, into, superseded>>

(* With "..", MUSIC_DIR is made on the way, and the directory is not new.    *)
MakeAlbum(j) ==
  /\ pc[j] = "move" /\ j \notin into /\ ~CanRename(j)
  /\ IF Dest(j) = NULL THEN MakesDirs(j, {}) ELSE UNCHANGED dest
  /\ IF Dest(j) = NULL /\ album[j] # Above
     THEN Goto(j, "move", "copy") /\ Todo(j, {at[j]} \X {Meta, Track})
     ELSE Goto(j, "move", "raised") /\ UNCHANGED todo
  /\ UNCHANGED <<oneDisk, temp, now, work, album, at, into, superseded>>

(* It is: the same, with a directory of the job's in the album's, which is   *)
(* made again if it has gone.  In the one above MUSIC_DIR it is out of the   *)
(* albums' sight.                                                            *)
MoveInto(j) ==
  /\ j \in into
  /\ Goto(j, "move", "done")
  /\ IF album[j] = Above THEN UNCHANGED dest
     ELSE MakesDirs(j, (IF Dest(j) = NULL THEN {} ELSE Dest(j)) \cup {<<Nested, j>>})
  /\ work' = [work EXCEPT ![j] = NULL]
  /\ UNCHANGED <<oneDisk, temp, now, album, at, todo, into, superseded>>

(* shutil.copytree goes on after a file that it cannot copy, and raises at   *)
(* the end.                                                                  *)
CopyFile(j) ==
  /\ Goto(j, "copy", "copy")
  /\ \E entry \in todo[j] :
       /\ Todo(j, todo[j] \ {entry})
       /\ IF Dest(j) # NULL
          THEN /\ Becomes(j, (Dest(j) \ Named(Dest(j), entry[2])) \cup {<<entry[2], j>>})
               /\ UNCHANGED into
          ELSE into' = into \cup {j} /\ UNCHANGED dest
  /\ UNCHANGED <<oneDisk, temp, now, work, album, at, superseded>>

CopyDone(j) ==
  /\ todo[j] = {}
  /\ IF j \in into
     THEN Goto(j, "copy", "raised") /\ UNCHANGED work
     ELSE Goto(j, "copy", "done") /\ work' = [work EXCEPT ![j] = NULL]
  /\ UNCHANGED <<oneDisk, temp, now, dest, album, at, todo, into, superseded>>

-----------------------------------------------------------------------------
Step(j) ==
  \/ SeeTemp(j) \/ MakeTemp(j) \/ MakeWork(j) \/ FetchFails(j) \/ Fetch(j) \/ SeeAlbum(j)
  \/ ListDir(j) \/ RemoveFile(j) \/ EnterAlbum(j) \/ RemoveDir(j) \/ RemoveDot(j) \/ SeeTarget(j)
  \/ Rename(j) \/ MakeAlbum(j) \/ MoveInto(j) \/ CopyFile(j) \/ CopyDone(j)

Next == \E j \in Jobs : Step(j)

Spec == Init /\ [][Next]_vars

-----------------------------------------------------------------------------
Ended(j) == pc[j] \in {"failed", "raised", "done"}

(* The listing shows every album whose metadata it can load, as written by:  *)
Shown(a) == IF dest[a] = NULL THEN {} ELSE {file[2] : file \in Named(dest[a], Meta)}

(* A job that has an album to publish under a name of its own, and meets no  *)
(* other at that, succeeds; and then its album is listed, and is the whole   *)
(* of what it fetched, with nothing of another job's, until the next job     *)
(* looks at it, or at the whole of MUSIC_DIR: whatever old albums there      *)
(* were, and whatever earlier jobs have left there (downloader.py:218-220).  *)
AlbumsWhole ==
  \A j \in Jobs : Ended(j) /\ album[j] \in Albums /\ j \notin superseded =>
    pc[j] = "done" /\ Shown(album[j]) = {j} /\ Dest(j) = Files(j)

=============================================================================
