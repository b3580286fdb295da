-------------------------- MODULE HttpServerProofs ---------------------------
(***************************************************************************)
(* HttpServer for any number of records, descriptors and workers: who has  *)
(* a record, what the epoll set says of it, and whom its peer pointer      *)
(* points to.                                                              *)
(*                                                                         *)
(* A record that is allocated and not leaked is with epoll (watched, and   *)
(* then perhaps with main), in the queue, or with one worker.  The         *)
(* difficult one is the record of an upstream connection: a worker sets it *)
(* up, but it belongs to epoll at once, and main may free it while the     *)
(* worker still goes by the client's peer pointer.                         *)
(*                                                                         *)
(* At the end, what the server computes: the bytes it sends of a file of   *)
(* any size, and the routes of a configuration of any length.              *)
(***************************************************************************)
EXTENDS MCHttpServer, FiniteSetTheorems, SequenceTheorems, Induction

-----------------------------------------------------------------------------
(* The inductive invariant. *)

(* Epoll has the record. *)
Watched(r) == rec[r].fd \in Fds /\ watch[rec[r].fd] = r

(* The workers have it. *)
Busy(r) == InQueue(r) \/ AtWork(r)

(* What main and the workers do goes with what they have.                    *)
ThreadInv ==
  /\ mpc = "next" <=> cur = NULL
  /\ cur \notin batch
  /\ mpc = "recv" => rec[cur].state = "READ_REQUEST"
  /\ mpc = "relay" => rec[cur].state = "PROXYING"
  /\ \A w \in Workers : wpc[w] = "pop" <=> current[w] = NULL
  /\ \A w \in stale : wpc[w] \in {"peer", "mod"}

(* Epoll has events only for what is in its set.                             *)
EdgeWatched == \A f \in edge : watch[f] # NULL

(* What main has been told of, or handles, is still in the epoll set.        *)
BatchInv ==
  \A r \in Recs : r \in batch \/ (Handling /\ cur = r) => Watched(r)

(* What the workers have is allocated, connected, and not in the epoll set;  *)
(* each record is there once, and is a request until it has been answered.   *)
BusyInv ==
  /\ \A r \in Recs : Busy(r) =>
       r \in alloc /\ rec[r].fd \in open /\ watch[rec[r].fd] = NULL
  /\ \A r, q \in Recs : Busy(r) /\ Busy(q) /\ rec[r].fd = rec[q].fd => r = q
  /\ \A i, j \in 1..Len(pending) : pending[i] = pending[j] => i = j
  /\ \A r \in Recs : AtWork(r) => ~InQueue(r)
  /\ \A v, w \in Workers : ~LetsGo(v) /\ ~LetsGo(w) /\ current[v] = current[w] => v = w
  /\ \A r \in Recs : InQueue(r) => rec[r].state = "READ_REQUEST"
  /\ \A w \in Workers : wpc[w] \in {"work", "rearm", "connect"} =>
                          rec[current[w]].state = "READ_REQUEST"

(* Both records of a proxied connection are with epoll, but for the client's *)
(* while its worker has it; that worker's upstream record is nobody else's.  *)
PeerInv ==
  fault = "none" => \A r \in alloc : rec[r].peer # NULL =>
    /\ Watched(r) \/ AtWork(r)
    /\ AtWork(r) => /\ Watched(rec[r].peer)
                    /\ \A v \in Workers : current[v] = rec[r].peer => v \in stale

(* A worker's last look is at a record that is allocated, or it is known not *)
(* to be.                                                                    *)
LifeInv ==
  \A v \in Workers : current[v] # NULL /\ v \notin stale => current[v] \in alloc

IInv == /\ TypeOK /\ ThreadInv /\ WatchMatches /\ EdgeWatched /\ BatchInv
        /\ BusyInv /\ PeersAgree /\ PeerInv /\ LifeInv /\ NoEdgeLost

-----------------------------------------------------------------------------
(* Types. *)

(* What is assumed of the constants.                                         *)
LEMMA Constants ==
  /\ NULL \notin Recs /\ NULL \notin Fds /\ NULL \notin Workers
  /\ Cap \in Nat \ {0} /\ MaxInput \in Nat
BY HttpAssumption

(* The fields of a record, one by one.                                       *)
LEMMA Fields ==
  ASSUME TypeOK, NEW r \in Recs
  PROVE  /\ rec[r].fd \in Fds \cup {NULL} /\ rec[r].bytes \in 0..Cap
         /\ rec[r].done \in BOOLEAN
         /\ rec[r].state \in {"READ_REQUEST", "PROXYING"}
         /\ rec[r].peer \in Recs \cup {NULL}
<1>1. rec[r] \in Records
  BY DEF TypeOK, MemoryTypes
<1> QED  BY <1>1 DEF Records

(* New records, and records made ready for the next request, are records.    *)
LEMMA RecordsMade ==
  ASSUME TypeOK, NEW f \in Fds \cup {NULL}
  PROVE  /\ NewRecord(f) \in Records
         /\ \A r \in Recs : Forget(r) \in Records
         /\ \A r \in Recs, p \in Recs \cup {NULL} :
              /\ [rec[r] EXCEPT !.peer = p] \in Records
              /\ [rec[r] EXCEPT !.fd = NULL, !.peer = NULL] \in Records
              /\ [rec[r] EXCEPT !.state = "PROXYING", !.peer = p] \in Records
              /\ [NewRecord(f) EXCEPT !.state = "PROXYING", !.peer = p] \in Records
<1> USE Constants
<1>1. NewRecord(f) \in Records
  BY DEF NewRecord, Records
<1>2. \A r \in Recs : rec[r] \in Records
  BY DEF TypeOK, MemoryTypes
<1>3. \A r \in Recs : Forget(r) \in Records
  BY <1>2 DEF Forget, NewRecord, Records
<1>4. \A r \in Recs, p \in Recs \cup {NULL} : [rec[r] EXCEPT !.peer = p] \in Records
  BY <1>2 DEF Records
<1>5. \A r \in Recs : [rec[r] EXCEPT !.fd = NULL, !.peer = NULL] \in Records
  BY <1>2 DEF Records
<1>6. \A r \in Recs, p \in Recs \cup {NULL} :
        [rec[r] EXCEPT !.state = "PROXYING", !.peer = p] \in Records
  BY <1>2 DEF Records
<1>7. \A p \in Recs \cup {NULL} : [NewRecord(f) EXCEPT !.state = "PROXYING", !.peer = p] \in Records
  BY <1>1 DEF Records
<1> QED  BY <1>1, <1>3, <1>4, <1>5, <1>6, <1>7

(* What is taken from the front of a socket leaves the rest.                 *)
LEMMA Rest ==
  ASSUME NEW s \in Seq(Chunks), NEW n \in 0..Len(s)
  PROVE  /\ SubSeq(s, n + 1, Len(s)) \in Seq(Chunks)
         /\ Len(SubSeq(s, n + 1, Len(s))) <= Len(s)
         /\ s = <<>> => SubSeq(s, n + 1, Len(s)) = <<>>
<1>1. Len(s) \in Nat /\ \A i \in n + 1..Len(s) : i \in 1..Len(s) /\ s[i] \in Chunks
  BY LenProperties, ElementOfSeq
<1>2. /\ SubSeq(s, n + 1, Len(s)) \in Seq(Chunks)
      /\ Len(SubSeq(s, n + 1, Len(s))) = IF n + 1 <= Len(s) THEN Len(s) - n ELSE 0
  BY <1>1, SubSeqProperties
<1>3. Len(SubSeq(s, n + 1, Len(s))) <= Len(s)
  BY <1>1, <1>2
<1>4. s = <<>> => SubSeq(s, n + 1, Len(s)) = <<>>
  BY <1>1, <1>2, EmptySeq
<1> QED  BY <1>2, <1>3, <1>4

-----------------------------------------------------------------------------
(* What the shared steps do, field by field. *)

(* A watched record is allocated, and the descriptor is its own.             *)
LEMMA WatchedIs ==
  ASSUME TypeOK, WatchMatches, NEW r \in Recs, Watched(r)
  PROVE  /\ r \in alloc /\ rec[r].fd \in open /\ rec[r].fd # NULL
         /\ \A f \in Fds : watch[f] = r => f = rec[r].fd
         /\ \A q \in Recs : q # r /\ Watched(q) => rec[q].fd # rec[r].fd
         /\ \A q \in Recs : Busy(q) /\ BusyInv => q # r /\ rec[q].fd # rec[r].fd
<1>1. r # NULL /\ rec[r].fd # NULL
  BY Constants DEF Watched
<1> QED  BY <1>1 DEF WatchMatches, Watched, BusyInv

(* cleanup_client frees the record and closes its descriptor; its peer loses *)
(* it, and is told so by an event.                                           *)
LEMMA CleanedUp ==
  ASSUME TypeOK, WatchMatches, NEW r \in Recs, Watched(r), CleanupClient(r)
  PROVE  /\ MemoryTypes' /\ SocketTypes'
         /\ alloc' = alloc \ {r} /\ open' = open \ {rec[r].fd}
         /\ watch' = [watch EXCEPT ![rec[r].fd] = NULL]
         /\ stale' = stale \cup {w \in Workers : current[w] = r}
         /\ rec'[r].peer = NULL
         /\ \A q \in Recs : q # r =>
              /\ rec'[q].fd = rec[q].fd /\ rec'[q].state = rec[q].state
              /\ rec'[q].bytes = rec[q].bytes
              /\ rec'[q].peer = IF q = rec[r].peer THEN NULL ELSE rec[q].peer
         /\ \A g \in Fds : g # rec[r].fd /\ watch[g] # NULL =>
              /\ g \in edge => g \in edge'
              /\ Readable(g)' => Readable(g) \/ g \in edge'
         /\ EdgeWatched => EdgeWatched'
<1> DEFINE f == rec[r].fd
           p == rec[r].peer
           shut == {g \in open : p # NULL /\ g = rec[p].fd}
<1>1. r \in alloc /\ f \in open /\ f \in Fds /\ f # NULL /\ p \in Recs \cup {NULL}
  BY WatchedIs, Fields DEF Watched
<1>2. /\ rec' = [q \in Recs |->
                        IF q = r THEN [rec[r] EXCEPT !.fd = NULL, !.peer = NULL]
                        ELSE IF q = p THEN [rec[p] EXCEPT !.peer = NULL]
                        ELSE rec[q]]
      /\ alloc' = alloc \ {r}
      /\ fin' = (fin \cup shut) \ {f}
      /\ watch' = [watch EXCEPT ![f] = NULL]
      /\ edge' = (edge \cup {g \in shut : watch[g] # NULL}) \ {f}
      /\ open' = open \ {f}
      /\ input' = [g \in Fds |-> IF g \in {f} THEN <<>> ELSE input[g]]
      /\ orphans' = orphans \ {f}
      /\ stale' = stale \cup {w \in Workers : current[w] = r}
  BY <1>1 DEF CleanupClient, CloseFds
<1>3. MemoryTypes'
  <2>1. \A q \in Recs : rec[q] \in Records
    BY DEF TypeOK, MemoryTypes
  <2>2. [rec[r] EXCEPT !.fd = NULL, !.peer = NULL] \in Records
    BY RecordsMade
  <2>3. p \in Recs => [rec[p] EXCEPT !.peer = NULL] \in Records
    BY RecordsMade
  <2>4. rec' \in [Recs -> Records]
    BY <1>2, <2>1, <2>2, <2>3
  <2>5. alloc' \in SUBSET Recs
    BY <1>2 DEF TypeOK, MemoryTypes
  <2> QED  BY <2>4, <2>5 DEF MemoryTypes
<1>4. SocketTypes'
  <2>1. /\ open \in SUBSET Fds /\ fin \in SUBSET open /\ edge \in SUBSET open /\ orphans \in SUBSET open
        /\ watch \in [Fds -> Recs \cup {NULL}] /\ shut \subseteq open
    BY DEF TypeOK, SocketTypes
  <2>2. open' \in SUBSET Fds /\ fin' \in SUBSET open' /\ edge' \in SUBSET open' /\ orphans' \in SUBSET open'
    BY <1>2, <2>1
  <2>3. watch' \in [Fds -> Recs \cup {NULL}]
    BY <1>2, <2>1
  <2>4. input' \in [Fds -> Seq(Chunks)] /\ \A g \in Fds : Len(input'[g]) <= MaxInput
    BY <1>2, Constants, EmptySeq DEF TypeOK, SocketTypes
  <2> QED  BY <2>2, <2>3, <2>4 DEF SocketTypes
<1>5. rec'[r].peer = NULL
  <2>1. rec[r] \in Records /\ rec'[r] = [rec[r] EXCEPT !.fd = NULL, !.peer = NULL]
    BY <1>2 DEF TypeOK, MemoryTypes
  <2> QED  BY <2>1 DEF Records
<1>6. ASSUME NEW q \in Recs, q # r
      PROVE  /\ rec'[q].fd = rec[q].fd /\ rec'[q].state = rec[q].state
             /\ rec'[q].bytes = rec[q].bytes
             /\ rec'[q].peer = IF q = p THEN NULL ELSE rec[q].peer
  <2>1. CASE q = p
    <3>1. rec[q] \in Records /\ rec'[q] = [rec[q] EXCEPT !.peer = NULL]
      BY <1>2, <1>6, <2>1 DEF TypeOK, MemoryTypes
    <3> QED  BY <2>1, <3>1 DEF Records
  <2>2. CASE q # p
    BY <1>2, <1>6, <2>2
  <2> QED  BY <2>1, <2>2
<1>7. ASSUME NEW g \in Fds, g # f, watch[g] # NULL
      PROVE  /\ g \in edge => g \in edge'
             /\ Readable(g)' => Readable(g) \/ g \in edge'
  BY <1>2, <1>7 DEF Readable
<1>8. EdgeWatched => EdgeWatched'
  BY <1>2 DEF EdgeWatched, TypeOK, SocketTypes
<1> QED  BY <1>2, <1>3, <1>4, <1>5, <1>6, <1>7, <1>8

-----------------------------------------------------------------------------
(* The invariant, step by step. *)

(* main cleans up the record that it handles.                                *)
LEMMA CleanupKept ==
  ASSUME IInv, fault = "none", NEW r \in Recs, cur = r, Watched(r), CleanupClient(r),
         UNCHANGED <<batch, handoff, wpc, fault>>,
         (mpc' = "check" /\ cur' = cur) \/ (mpc' = "next" /\ cur' = NULL)
  PROVE  IInv'
<1>1. TypeOK /\ ThreadInv /\ WatchMatches /\ BatchInv /\ BusyInv /\ PeersAgree /\ PeerInv /\ LifeInv /\ NoEdgeLost
  BY DEF IInv
<1> DEFINE f == rec[r].fd
           p == rec[r].peer
<1>2. /\ MemoryTypes' /\ SocketTypes'
      /\ alloc' = alloc \ {r} /\ open' = open \ {f}
      /\ watch' = [watch EXCEPT ![f] = NULL]
      /\ stale' = stale \cup {w \in Workers : current[w] = r}
      /\ rec'[r].peer = NULL
      /\ \A q \in Recs : q # r =>
              /\ rec'[q].fd = rec[q].fd /\ rec'[q].state = rec[q].state
              /\ rec'[q].bytes = rec[q].bytes
              /\ rec'[q].peer = IF q = p THEN NULL ELSE rec[q].peer
      /\ \A g \in Fds : g # f /\ watch[g] # NULL =>
              /\ g \in edge => g \in edge'
              /\ Readable(g)' => Readable(g) \/ g \in edge'
      /\ EdgeWatched'
  BY CleanedUp DEF IInv
<1>3. /\ r \in alloc /\ f \in open /\ f \in Fds /\ f # NULL /\ r # NULL
      /\ \A g \in Fds : watch[g] = r => g = f
      /\ \A q \in Recs : q # r /\ Watched(q) => rec[q].fd # f
      /\ \A q \in Recs : Busy(q) => q # r /\ rec[q].fd # f
      /\ r \notin batch /\ watch \in [Fds -> Recs \cup {NULL}] /\ alloc \subseteq Recs
  BY <1>1, WatchedIs, Constants DEF Watched, ThreadInv, TypeOK, SocketTypes, MemoryTypes
<1>14. /\ batch' = batch /\ pending' = pending /\ current' = current /\ wpc' = wpc /\ fault' = fault
       /\ mpc' \in {"check", "next"} /\ cur' \in {r, NULL}
  BY DEF handoff
<1>4. ASSUME NEW q \in Recs
      PROVE  /\ InQueue(q)' = InQueue(q) /\ AtWork(q)' = AtWork(q) /\ Busy(q)' = Busy(q)
             /\ q # r => (Watched(q)' <=> Watched(q))
             /\ Busy(q) => rec'[q].fd = rec[q].fd
                           /\ watch'[rec'[q].fd] = NULL
  <2>1. InQueue(q)' = InQueue(q) /\ AtWork(q)' = AtWork(q) /\ Busy(q)' = Busy(q)
    BY <1>14 DEF InQueue, AtWork, LetsGo, Busy
  <2>2. Busy(q) => rec[q].fd \in open /\ watch[rec[q].fd] = NULL /\ rec[q].fd \in Fds
    BY <1>1 DEF BusyInv, TypeOK, SocketTypes
  <2>3. q # r => (Watched(q)' <=> Watched(q))
    BY <1>2, <1>3, Constants DEF Watched
  <2>4. Busy(q) => rec'[q].fd = rec[q].fd /\ watch'[rec'[q].fd] = NULL
    BY <1>2, <1>3, <2>2
  <2> QED  BY <2>1, <2>3, <2>4
<1> HIDE DEF f, p
<1>5. TypeOK'
  <2>1. ThreadTypes'
    BY <1>1, <1>2, <1>14, Constants DEF TypeOK, ThreadTypes, MainPc
  <2> QED  BY <1>2, <2>1 DEF TypeOK
<1>6. ThreadInv'
  <2>1. \A w \in Workers : current[w] = r => wpc[w] \in {"peer", "mod"}
    BY <1>1, <1>3 DEF ThreadInv, Busy, AtWork, LetsGo
  <2> QED  BY <1>1, <1>2, <1>3, <1>14, <2>1, Constants DEF ThreadInv, TypeOK, ThreadTypes
<1>7. WatchMatches'
  BY <1>1, <1>2, <1>3 DEF WatchMatches
<1>8. BatchInv'
  BY <1>1, <1>3, <1>4, <1>14 DEF BatchInv, Handling
<1>9. BusyInv'
  <2>1. \A q \in Recs : Busy(q) => q # r /\ rec'[q].state = rec[q].state /\ rec[q].fd # f
    BY <1>2, <1>3
  <2>2. \A q \in Recs : Busy(q)' =>
          q \in alloc' /\ rec'[q].fd \in open' /\ watch'[rec'[q].fd] = NULL
    BY <1>1, <1>2, <1>4, <2>1 DEF BusyInv
  <2>3. \A q, s \in Recs : Busy(q)' /\ Busy(s)' /\ rec'[q].fd = rec'[s].fd => q = s
    BY <1>1, <1>4 DEF BusyInv
  <2>4. \A q \in Recs : InQueue(q)' => rec'[q].state = "READ_REQUEST"
    BY <1>1, <1>4, <2>1 DEF BusyInv, Busy
  <2>5. ASSUME NEW w \in Workers, wpc[w] \in {"work", "rearm", "connect"}
        PROVE  rec'[current[w]].state = "READ_REQUEST"
    <3>1. current[w] \in Recs /\ AtWork(current[w])
      BY <1>1, <2>5 DEF AtWork, LetsGo, ThreadInv, TypeOK, ThreadTypes
    <3> QED  BY <1>1, <2>1, <2>5, <3>1 DEF BusyInv, Busy
  <2> QED  BY <1>1, <1>4, <1>14, <2>2, <2>3, <2>4, <2>5 DEF BusyInv, LetsGo
<1>10. PeersAgree'
  <2> SUFFICES ASSUME NEW q \in alloc', rec'[q].peer # NULL
               PROVE  /\ rec'[q].peer \in alloc' /\ rec'[rec'[q].peer].peer = q
                      /\ {rec'[q].fd, rec'[rec'[q].peer].fd} \subseteq open'
                      /\ rec'[q].state = "PROXYING" /\ rec'[rec'[q].peer].state = "PROXYING"
    BY DEF PeersAgree
  <2> DEFINE s == rec[q].peer
  <2>1. q \in alloc /\ q # r /\ q \in Recs /\ q # p /\ rec'[q].peer = s /\ s # NULL
    BY <1>2, <1>3
  <2>2. /\ s \in alloc /\ rec[s].peer = q /\ {rec[q].fd, rec[s].fd} \subseteq open
        /\ rec[q].state = "PROXYING" /\ rec[s].state = "PROXYING"
    BY <1>1, <2>1 DEF PeersAgree
  <2>3. s # r /\ s \in Recs
    BY <1>3, <2>1, <2>2 DEF p
  <2>4. rec[q].fd # f /\ rec[s].fd # f
    <3>1. rec[q].peer # NULL /\ rec[s].peer # NULL
      BY <2>1, <2>2, Constants
    <3>2. (Watched(q) \/ AtWork(q)) /\ (Watched(s) \/ AtWork(s))
      BY <1>1, <2>1, <2>2, <3>1, fault = "none" DEF PeerInv
    <3> QED  BY <1>3, <2>1, <2>3, <3>2 DEF Busy
  <2>5. s # p
    <3>1. CASE p = NULL
      BY <2>1, <3>1
    <3>2. CASE p # NULL
      <4>1. rec[p].peer = r
        BY <1>1, <1>3, <3>2 DEF PeersAgree, p
      <4> QED  BY <2>1, <2>2, <4>1
    <3> QED  BY <3>1, <3>2
  <2> HIDE DEF s
  <2>6. rec'[q].fd = rec[q].fd /\ rec'[q].state = rec[q].state
        /\ rec'[s].fd = rec[s].fd /\ rec'[s].state = rec[s].state /\ rec'[s].peer = rec[s].peer
    BY <1>2, <2>1, <2>3, <2>5
  <2> QED  BY <1>2, <2>1, <2>2, <2>3, <2>4, <2>6
<1>11. PeerInv'
  BY <1>1, <1>2, <1>3, <1>4, <1>14, Constants DEF PeerInv, PeersAgree, p
<1>12. LifeInv'
  BY <1>1, <1>2, <1>14 DEF LifeInv, TypeOK, ThreadTypes
<1>13. NoEdgeLost'
  BY <1>1, <1>2, <1>3, Constants DEF NoEdgeLost
<1> QED  BY <1>2, <1>5, <1>6, <1>7, <1>8, <1>9, <1>10, <1>11, <1>12, <1>13 DEF IInv

(* Worker w goes on with what it has. *)
GoesOn(w) ==
  /\ wpc'[w] = "pop" <=> wpc[w] = "pop"
  /\ wpc'[w] \in {"peer", "mod"} <=> wpc[w] \in {"peer", "mod"}
  /\ wpc'[w] \in {"work", "rearm", "connect"} => wpc[w] \in {"work", "rearm", "connect"}

(* Steps that change neither who has a record nor what records stand for.    *)
LEMMA Quiet ==
  ASSUME IInv, fault = "none", \A w \in Workers : GoesOn(w),
         UNCHANGED <<alloc, open, watch, handoff, stale>>,
         \A q \in Recs : /\ rec'[q].fd = rec[q].fd /\ rec'[q].state = rec[q].state
                         /\ rec'[q].peer = rec[q].peer
  PROVE  /\ WatchMatches' /\ BusyInv' /\ PeersAgree' /\ PeerInv' /\ LifeInv'
         /\ \A q \in Recs : Watched(q)' <=> Watched(q)
         /\ UNCHANGED main => ThreadInv' /\ BatchInv'
<1>1. TypeOK /\ ThreadInv /\ WatchMatches /\ BatchInv /\ BusyInv /\ PeersAgree /\ PeerInv /\ LifeInv
  BY DEF IInv
<1>2. /\ alloc' = alloc /\ open' = open /\ watch' = watch /\ pending' = pending
      /\ current' = current /\ stale' = stale
  BY DEF handoff
<1>3. /\ alloc \subseteq Recs /\ \A f \in Fds : watch[f] \in Recs \cup {NULL}
      /\ \A q \in Recs : rec[q].peer \in Recs \cup {NULL}
      /\ cur \in Recs \cup {NULL} /\ batch \subseteq Recs
      /\ \A w \in Workers : current[w] \in Recs \cup {NULL}
      /\ \A w \in Workers : ~LetsGo(w) => current[w] \in Recs
      /\ stale \subseteq Workers
  BY <1>1, Fields DEF TypeOK, MemoryTypes, SocketTypes, ThreadTypes, ThreadInv, LetsGo
<1>4. \A w \in Workers : LetsGo(w)' <=> LetsGo(w)
  BY DEF GoesOn, LetsGo
<1>5. \A q \in Recs : /\ Watched(q)' <=> Watched(q)
                      /\ InQueue(q)' <=> InQueue(q)
                      /\ AtWork(q)' <=> AtWork(q)
                      /\ Busy(q)' <=> Busy(q)
  BY <1>2, <1>4 DEF Watched, InQueue, AtWork, Busy
<1>6. WatchMatches'
  BY <1>1, <1>2, <1>3 DEF WatchMatches
<1>7. PeersAgree'
  BY <1>1, <1>2, <1>3, Constants DEF PeersAgree
<1>8. LifeInv'
  BY <1>1, <1>2 DEF LifeInv
<1>9. PeerInv'
  <2> SUFFICES ASSUME NEW q \in alloc, rec[q].peer # NULL
               PROVE  /\ Watched(q)' \/ AtWork(q)'
                      /\ AtWork(q)' => /\ Watched(rec[q].peer)'
                                       /\ \A v \in Workers : current[v] = rec[q].peer => v \in stale
    BY <1>2, <1>3 DEF PeerInv, Watched
  <2> QED  BY <1>1, <1>3, <1>5, fault = "none" DEF PeerInv, Watched
<1>10. BusyInv'
  <2>1. \A q \in Recs : InQueue(q) => rec'[q].state = "READ_REQUEST"
    BY <1>1 DEF BusyInv
  <2>2. ASSUME NEW w \in Workers, wpc'[w] \in {"work", "rearm", "connect"}
        PROVE  rec'[current[w]].state = "READ_REQUEST"
    <3>1. wpc[w] \in {"work", "rearm", "connect"} /\ current[w] \in Recs
      BY <1>3, <2>2 DEF GoesOn, LetsGo
    <3> QED  BY <1>1, <3>1 DEF BusyInv
  <2>3. \A q \in Recs : Busy(q)' => q \in alloc' /\ rec'[q].fd \in open' /\ watch'[rec'[q].fd] = NULL
    BY <1>1, <1>2, <1>5 DEF BusyInv
  <2>4. \A q, s \in Recs : Busy(q)' /\ Busy(s)' /\ rec'[q].fd = rec'[s].fd => q = s
    BY <1>1, <1>5 DEF BusyInv
  <2> QED  BY <1>1, <1>2, <1>4, <1>5, <2>1, <2>2, <2>3, <2>4 DEF BusyInv
<1>11. ASSUME UNCHANGED main PROVE ThreadInv' /\ BatchInv'
  <2>1. batch' = batch /\ mpc' = mpc /\ cur' = cur
    BY <1>11 DEF main
  <2>2. ThreadInv'
    BY <1>1, <1>2, <1>3, <2>1, Constants DEF ThreadInv, GoesOn
  <2>3. BatchInv'
    BY <1>1, <1>3, <1>5, <2>1 DEF BatchInv, Handling
  <2> QED  BY <2>2, <2>3
<1> QED  BY <1>5, <1>6, <1>7, <1>8, <1>9, <1>10, <1>11

(* Another thread takes a step: worker w stays where it is.                  *)
LEMMA Stays ==
  ASSUME UNCHANGED wpc
  PROVE  \A w \in Workers : GoesOn(w)
BY DEF GoesOn

(* Bytes and hang-ups change the sockets only, and epoll notes them.         *)
LEMMA NetworkKept ==
  ASSUME IInv, fault = "none", Network
  PROVE  IInv'
<1>1. TypeOK /\ WatchMatches /\ NoEdgeLost
  BY DEF IInv
<1>2. PICK f \in Fds : Gone(f) \/ \E chunk \in Chunks : Arrive(f, chunk)
  BY DEF Network
<1>3. /\ UNCHANGED <<memory, open, watch, main, handoff, wpc, flaws>>
      /\ edge' = IF watch[f] # NULL THEN edge \cup {f} ELSE edge
      /\ f \in open \ fin
      /\ \A g \in Fds : g # f => (Readable(g)' <=> Readable(g))
  BY <1>1, <1>2 DEF Gone, Arrive, Readable, TypeOK, SocketTypes
<1>4. UNCHANGED <<rec, alloc, stale, fault, orphans, batch, mpc, cur, pending, current, wpc, open, watch>>
  BY <1>3 DEF memory, flaws, lost, main, handoff
<1>5. SocketTypes'
  <2>1. CASE Gone(f)
    BY <1>1, <1>3, <1>4, <2>1 DEF Gone, TypeOK, SocketTypes
  <2>2. ASSUME NEW chunk \in Chunks, Arrive(f, chunk) PROVE SocketTypes'
    <3>1. /\ input[f] \in Seq(Chunks) /\ Len(input[f]) \in Nat /\ Len(input[f]) < MaxInput
          /\ input' = [input EXCEPT ![f] = Append(input[f], chunk)] /\ fin' = fin
      BY <1>1, <2>2 DEF Arrive, TypeOK, SocketTypes
    <3>2. Append(input[f], chunk) \in Seq(Chunks) /\ Len(Append(input[f], chunk)) <= MaxInput
      BY <3>1, <2>2, AppendProperties, Constants
    <3> QED  BY <1>1, <1>3, <1>4, <3>1, <3>2 DEF TypeOK, SocketTypes
  <2> QED  BY <1>2, <2>1, <2>2
<1>6. TypeOK'
  BY <1>1, <1>4, <1>5 DEF TypeOK, MemoryTypes, ThreadTypes
<1>7. ThreadInv' /\ WatchMatches' /\ BatchInv' /\ BusyInv' /\ PeersAgree' /\ PeerInv' /\ LifeInv'
  <2>1. UNCHANGED <<alloc, open, watch, handoff, stale>> /\ UNCHANGED main
    BY <1>4 DEF handoff, main
  <2> QED  BY <1>4, <2>1, Quiet, Stays
<1>8. NoEdgeLost'
  BY <1>1, <1>3, <1>4 DEF NoEdgeLost, WatchMatches
<1>9. EdgeWatched'
  BY <1>3, <1>4 DEF EdgeWatched, IInv
<1> QED  BY <1>6, <1>7, <1>8, <1>9 DEF IInv

(* A worker goes on, and touches nothing but the bytes of its connection.    *)
LEMMA MovesKept ==
  ASSUME IInv, fault = "none", \A v \in Workers : GoesOn(v), ThreadTypes',
         UNCHANGED <<alloc, open, fin, epoll, main, handoff, stale>>,
         rec' \in [Recs -> Records],
         \A q \in Recs : /\ rec'[q].fd = rec[q].fd /\ rec'[q].state = rec[q].state
                         /\ rec'[q].peer = rec[q].peer
                         /\ Watched(q) => rec'[q].bytes = rec[q].bytes,
         orphans' \in SUBSET open, input' \in [Fds -> Seq(Chunks)],
         \A f \in Fds : Len(input'[f]) <= MaxInput /\ (input[f] = <<>> => input'[f] = <<>>)
  PROVE  IInv'
<1>1. TypeOK /\ WatchMatches /\ NoEdgeLost
  BY DEF IInv
<1>2. UNCHANGED <<alloc, stale, batch, mpc, cur, pending, current, open, watch, fin, edge>>
  BY DEF main, handoff, epoll
<1>3. TypeOK'
  BY <1>1, <1>2 DEF TypeOK, MemoryTypes, SocketTypes
<1>4. ThreadInv' /\ WatchMatches' /\ BatchInv' /\ BusyInv' /\ PeersAgree' /\ PeerInv' /\ LifeInv'
  <2>1. UNCHANGED <<alloc, open, watch, handoff, stale>> /\ UNCHANGED main
    BY <1>2 DEF handoff, main
  <2> QED  BY <2>1, Quiet
<1>5. NoEdgeLost'
  <2>1. \A f \in Fds : Readable(f)' => Readable(f)
    BY <1>2 DEF Readable
  <2>2. ASSUME NEW f \in Fds, watch[f] # NULL
        PROVE  /\ watch[f] \in Recs
               /\ rec'[watch[f]].state = rec[watch[f]].state /\ rec'[watch[f]].bytes = rec[watch[f]].bytes
    <3>1. watch[f] \in Recs /\ Watched(watch[f])
      BY <1>1, <2>2 DEF WatchMatches, Watched, TypeOK, SocketTypes
    <3> QED  BY <3>1
  <2> QED  BY <1>1, <1>2, <2>1, <2>2 DEF NoEdgeLost
<1>6. EdgeWatched'
  BY <1>2 DEF EdgeWatched, IInv
<1> QED  BY <1>3, <1>4, <1>5, <1>6 DEF IInv

(* The worker's steps of this kind.                                          *)
LEMMA WorkerMoves ==
  ASSUME IInv, fault = "none", NEW w \in Workers,
         \/ ServeStaticFile(w) \/ HandleCgiRequest(w) \/ Connect(w) \/ TestPeer(w)
         \/ PeerGone(w) \/ SendRequest(w) \/ PeerOfAnother(w)
  PROVE  IInv'
<1>1. TypeOK
  BY DEF IInv
<1>2. UNCHANGED <<memory, open, fin, epoll, main, handoff, stale, orphans>>
  BY DEF ServeStaticFile, HandleCgiRequest, Connect, TestPeer, PeerGone, SendRequest, PeerOfAnother,
         sockets, flaws, lost
<1>3. \A v \in Workers : GoesOn(v) /\ wpc'[v] \in WorkerPc
  BY <1>1 DEF ServeStaticFile, HandleCgiRequest, Connect, TestPeer, PeerGone, SendRequest, PeerOfAnother,
              WorkerGoto, GoesOn, TypeOK, ThreadTypes, WorkerPc
<1>4. ThreadTypes'
  <2>1. wpc' \in [Workers -> WorkerPc]
    BY <1>1, <1>3 DEF ServeStaticFile, HandleCgiRequest, Connect, TestPeer, PeerGone, SendRequest,
                      PeerOfAnother, WorkerGoto, TypeOK, ThreadTypes
  <2>2. fault' \in {"none", "overfull", "peer_gone", "peer_freed", "add_failed", "stale"}
    BY <1>1 DEF ServeStaticFile, HandleCgiRequest, Connect, TestPeer, PeerGone, SendRequest,
                PeerOfAnother, flaws, TypeOK, ThreadTypes
  <2> QED  BY <1>1, <1>2, <2>1, <2>2 DEF TypeOK, ThreadTypes, main, handoff
<1>5. input' \in [Fds -> Seq(Chunks)]
      /\ \A f \in Fds : Len(input'[f]) <= MaxInput /\ (input[f] = <<>> => input'[f] = <<>>)
  <2>0. input \in [Fds -> Seq(Chunks)] /\ \A f \in Fds : Len(input[f]) <= MaxInput /\ Len(input[f]) \in Nat
    BY <1>1, LenProperties DEF TypeOK, SocketTypes
  <2>1. CASE HandleCgiRequest(w)
    <3> DEFINE f == rec[current[w]].fd
    <3>1. PICK n \in 0..Len(input[f]) :
            input' = [input EXCEPT ![f] = SubSeq(input[f], n + 1, Len(input[f]))]
      BY <2>1 DEF HandleCgiRequest, Client
    <3>2. CASE f \in Fds
      <4>1. /\ SubSeq(input[f], n + 1, Len(input[f])) \in Seq(Chunks)
            /\ Len(SubSeq(input[f], n + 1, Len(input[f]))) <= Len(input[f])
            /\ Len(SubSeq(input[f], n + 1, Len(input[f]))) \in Nat
            /\ input[f] = <<>> => SubSeq(input[f], n + 1, Len(input[f])) = <<>>
        BY <2>0, <3>1, <3>2, Rest, LenProperties
      <4> HIDE DEF f
      <4> QED  BY <2>0, <3>1, <3>2, <4>1, Constants
    <3>3. CASE f \notin Fds
      <4>1. input' = input
        BY <2>0, <3>1, <3>3
      <4> QED  BY <2>0, <4>1
    <3> QED  BY <3>2, <3>3
  <2>2. CASE ~HandleCgiRequest(w)
    <3>1. input' = input
      BY <2>2 DEF ServeStaticFile, Connect, TestPeer, PeerGone, SendRequest, PeerOfAnother, sockets
    <3> QED  BY <2>0, <3>1
  <2> QED  BY <2>1, <2>2
<1>6. rec' = rec /\ rec \in [Recs -> Records] /\ orphans \in SUBSET open
  BY <1>1, <1>2 DEF memory, TypeOK, MemoryTypes, SocketTypes
<1>7. UNCHANGED <<alloc, open, fin, epoll, main, handoff, stale>>
  BY <1>2 DEF memory
<1> QED  BY <1>2, <1>3, <1>4, <1>5, <1>6, <1>7, MovesKept, fault = "none"

(* A request that cannot be proxied stays where it is.                       *)
LEMMA ConnectFailsKept ==
  ASSUME IInv, fault = "none", NEW w \in Workers, ConnectFails(w)
  PROVE  IInv'
<1>1. TypeOK /\ ThreadInv /\ BusyInv /\ PeersAgree
  BY DEF IInv
<1>2. PICK c : c = current[w]
  OBVIOUS
<1>3. /\ wpc[w] = "connect" /\ wpc' = [wpc EXCEPT ![w] = "test"]
      /\ UNCHANGED <<alloc, open, input, fin, epoll, main, handoff, stale, orphans, fault>>
      /\ rec' = rec \/ rec' = [rec EXCEPT ![c] = NewRecord(rec[c].fd)]
  BY <1>2 DEF ConnectFails, WorkerGoto, Client, Forget, sockets, flaws, lost
<1>4. c \in Recs /\ AtWork(c) /\ Busy(c) /\ c \in alloc /\ rec[c].state = "READ_REQUEST" /\ rec[c].peer = NULL
      /\ watch[rec[c].fd] = NULL
  <2>1. c \in Recs
    BY <1>1, <1>2, <1>3 DEF ThreadInv, TypeOK, ThreadTypes
  <2>2. AtWork(c) /\ Busy(c)
    BY <1>2, <1>3 DEF AtWork, LetsGo, Busy
  <2> QED  BY <1>1, <1>2, <1>3, <2>1, <2>2 DEF BusyInv, PeersAgree
<1>5. \A v \in Workers : GoesOn(v)
  BY <1>1, <1>3 DEF GoesOn, TypeOK, ThreadTypes
<1>6. ThreadTypes'
  <2>1. wpc' \in [Workers -> WorkerPc]
    BY <1>1, <1>3 DEF TypeOK, ThreadTypes, WorkerPc
  <2> QED  BY <1>1, <1>3, <2>1 DEF TypeOK, ThreadTypes, main, handoff
<1>7. /\ rec' \in [Recs -> Records]
      /\ \A q \in Recs : /\ rec'[q].fd = rec[q].fd /\ rec'[q].state = rec[q].state
                         /\ rec'[q].peer = rec[q].peer
                         /\ Watched(q) => rec'[q].bytes = rec[q].bytes
  <2>1. rec \in [Recs -> Records]
    BY <1>1 DEF TypeOK, MemoryTypes
  <2>2. CASE rec' = [rec EXCEPT ![c] = NewRecord(rec[c].fd)]
    <3>1. NewRecord(rec[c].fd) \in Records
      BY <1>1, <1>4, Fields, RecordsMade
    <3>2. rec'[c] = NewRecord(rec[c].fd) /\ \A q \in Recs : q # c => rec'[q] = rec[q]
      BY <1>4, <2>1, <2>2
    <3>3. rec'[c].fd = rec[c].fd /\ rec'[c].state = "READ_REQUEST" /\ rec'[c].peer = NULL
      BY <3>2 DEF NewRecord
    <3>4. ~Watched(c)
      BY <1>4, Constants DEF Watched
    <3> QED  BY <1>4, <2>1, <2>2, <3>1, <3>2, <3>3, <3>4
  <2> QED  BY <1>3, <2>1, <2>2
<1>8. /\ orphans' \in SUBSET open /\ input' \in [Fds -> Seq(Chunks)]
      /\ \A f \in Fds : Len(input'[f]) <= MaxInput /\ (input[f] = <<>> => input'[f] = <<>>)
  BY <1>1, <1>3 DEF TypeOK, SocketTypes
<1> QED  BY <1>3, <1>5, <1>6, <1>7, <1>8, MovesKept, fault = "none"

(* recv takes bytes from the record's own socket, and the record stays what  *)
(* it is.                                                                    *)
LEMMA Received ==
  ASSUME TypeOK, NEW r \in Recs, rec[r].fd \in Fds, Recv(r)
  PROVE  /\ rec' \in [Recs -> Records]
         /\ input' \in [Fds -> Seq(Chunks)]
         /\ \A f \in Fds : Len(input'[f]) <= MaxInput /\ (input[f] = <<>> => input'[f] = <<>>)
         /\ \A q \in Recs : /\ rec'[q].fd = rec[q].fd /\ rec'[q].state = rec[q].state
                            /\ rec'[q].peer = rec[q].peer
                            /\ q # r => rec'[q].bytes = rec[q].bytes
<1> DEFINE f == rec[r].fd
           n == Least(Len(input[f]), Cap - rec[r].bytes)
           d == rec[r].done \/ \E i \in 1..n : input[f][i] = "end"
<1>1. /\ input \in [Fds -> Seq(Chunks)] /\ \A g \in Fds : Len(input[g]) <= MaxInput
      /\ rec \in [Recs -> Records] /\ \A q \in Recs : rec[q] \in Records
      /\ input[f] \in Seq(Chunks) /\ Len(input[f]) \in Nat
  BY LenProperties DEF TypeOK, SocketTypes, MemoryTypes
<1>2. rec[r].bytes \in Nat /\ rec[r].bytes < Cap /\ Cap \in Nat
  BY Fields, Constants DEF Recv
<1>3. n \in 0..Len(input[f]) /\ rec[r].bytes + n \in 0..Cap
  BY <1>1, <1>2 DEF Least
<1>4. /\ input' = [input EXCEPT ![f] = SubSeq(input[f], n + 1, Len(input[f]))]
      /\ rec' = [rec EXCEPT ![r].bytes = @ + n, ![r].done = @ \/ \E i \in 1..n : input[f][i] = "end"]
  BY DEF Recv
<1>5. /\ SubSeq(input[f], n + 1, Len(input[f])) \in Seq(Chunks)
      /\ Len(SubSeq(input[f], n + 1, Len(input[f]))) <= MaxInput
      /\ input[f] = <<>> => SubSeq(input[f], n + 1, Len(input[f])) = <<>>
  <2>1. /\ Len(SubSeq(input[f], n + 1, Len(input[f]))) <= Len(input[f])
        /\ SubSeq(input[f], n + 1, Len(input[f])) \in Seq(Chunks)
        /\ input[f] = <<>> => SubSeq(input[f], n + 1, Len(input[f])) = <<>>
    BY <1>1, <1>3, Rest
  <2>2. Len(SubSeq(input[f], n + 1, Len(input[f]))) \in Nat
    BY <2>1, LenProperties
  <2> HIDE DEF n
  <2> QED  BY <1>1, <2>1, <2>2, Constants
<1> HIDE DEF n, d
<1>6. input' \in [Fds -> Seq(Chunks)]
      /\ \A g \in Fds : Len(input'[g]) <= MaxInput /\ (input[g] = <<>> => input'[g] = <<>>)
  BY <1>1, <1>4, <1>5
<1>7. d \in BOOLEAN
  BY Zenon DEF d
<1>8. rec' = [rec EXCEPT ![r] = [rec[r] EXCEPT !.bytes = rec[r].bytes + n, !.done = d]]
  BY <1>1, <1>4, Zenon DEF d
<1>9. \A q \in Recs : q # r => rec'[q] = rec[q]
  BY <1>1, <1>8
<1>10. /\ rec'[r] \in Records
       /\ rec'[r].fd = rec[r].fd /\ rec'[r].state = rec[r].state /\ rec'[r].peer = rec[r].peer
  <2>1. rec'[r] = [rec[r] EXCEPT !.bytes = rec[r].bytes + n, !.done = d]
    BY <1>1, <1>8
  <2> QED  BY <1>1, <1>3, <1>7, <2>1 DEF Records
<1>11. rec' \in [Recs -> Records]
  BY <1>1, <1>8, <1>10
<1> QED  BY <1>6, <1>9, <1>10, <1>11

(* What main handles is watched, so it is not with a worker.                 *)
LEMMA Handled ==
  ASSUME IInv, Handling
  PROVE  /\ cur \in Recs /\ cur # NULL /\ Watched(cur) /\ cur \in alloc /\ ~Busy(cur)
         /\ rec[cur].fd \in open /\ cur \notin batch /\ watch[rec[cur].fd] = cur
         /\ \A f \in Fds : watch[f] = cur => f = rec[cur].fd
<1>1. cur \in Recs
  BY Constants DEF IInv, ThreadInv, Handling, TypeOK, ThreadTypes
<1>2. ASSUME NEW r \in Recs, r = cur
      PROVE  /\ cur # NULL /\ Watched(cur) /\ cur \in alloc /\ ~Busy(cur)
             /\ rec[cur].fd \in open /\ cur \notin batch /\ watch[rec[cur].fd] = cur
             /\ \A f \in Fds : watch[f] = cur => f = rec[cur].fd
  <2>1. Watched(r)
    BY <1>2 DEF IInv, BatchInv
  <2>2. r \in alloc /\ rec[r].fd \in open /\ (\A f \in Fds : watch[f] = r => f = rec[r].fd) /\ ~Busy(r)
    BY <2>1, WatchedIs DEF IInv
  <2> QED  BY <1>2, <2>1, <2>2, Constants DEF IInv, ThreadInv, Watched
<1> QED  BY <1>1, <1>2

(* main takes events from epoll, and one of them from the batch.             *)
LEMMA EventsKept ==
  ASSUME IInv, fault = "none", EpollWait \/ \E r \in Recs : TakeEvent(r)
  PROVE  IInv'
<1>1. TypeOK /\ ThreadInv /\ WatchMatches /\ EdgeWatched /\ BatchInv /\ NoEdgeLost
  BY DEF IInv
<1>2. UNCHANGED <<memory, sockets, watch, handoff, wpc, flaws>>
  BY DEF EpollWait, TakeEvent, epoll
<1>3. UNCHANGED <<rec, alloc, open, input, fin, watch, pending, current, wpc, orphans, stale, fault>>
  BY <1>2 DEF memory, sockets, handoff, flaws, lost
<1>4. /\ WatchMatches' /\ BusyInv' /\ PeersAgree' /\ PeerInv' /\ LifeInv'
      /\ \A q \in Recs : Watched(q)' <=> Watched(q)
  <2>1. UNCHANGED <<alloc, open, watch, handoff, stale>>
    BY <1>3 DEF handoff
  <2> QED  BY <1>3, <2>1, Quiet, Stays
<1>5. ASSUME EpollWait PROVE TypeOK' /\ ThreadInv' /\ BatchInv' /\ NoEdgeLost'
  <2>1. mpc = "next" /\ mpc' = mpc /\ cur' = cur /\ edge' = {} /\ batch' = {watch[f] : f \in edge} /\ batch = {}
    BY <1>5 DEF EpollWait
  <2>2. \A f \in edge : watch[f] \in Recs /\ Watched(watch[f]) /\ f \in Fds
    <3>1. ASSUME NEW f \in edge PROVE watch[f] \in Recs /\ Watched(watch[f]) /\ f \in Fds
      <4>1. f \in Fds /\ watch[f] # NULL
        BY <1>1, <1>5 DEF TypeOK, SocketTypes, EdgeWatched
      <4> QED  BY <1>1, <4>1 DEF WatchMatches, Watched, TypeOK, SocketTypes
    <3> QED  BY <3>1
  <2>3. TypeOK'
    BY <1>1, <1>3, <2>1, <2>2 DEF TypeOK, MemoryTypes, SocketTypes, ThreadTypes
  <2>4. ThreadInv'
    BY <1>1, <1>3, <2>1, <2>2, Constants DEF ThreadInv
  <2>5. BatchInv'
    BY <1>4, <2>1, <2>2 DEF BatchInv, Handling
  <2>6. NoEdgeLost'
    BY <1>1, <1>3, <2>1 DEF NoEdgeLost, Readable, ThreadInv
  <2> QED  BY <2>3, <2>4, <2>5, <2>6
<1>6. ASSUME NEW r \in Recs, TakeEvent(r) PROVE TypeOK' /\ ThreadInv' /\ BatchInv' /\ NoEdgeLost'
  <2>1. /\ r \in batch /\ batch' = batch \ {r} /\ cur' = r /\ mpc = "next"
        /\ mpc' = (IF rec[r].state = "PROXYING" THEN "relay" ELSE "recv") /\ edge' = edge
    BY <1>6 DEF TakeEvent, MainGoto, epoll
  <2>2. rec[r].state \in {"READ_REQUEST", "PROXYING"} /\ r # NULL
    BY <1>1, Fields, Constants
  <2>3. TypeOK'
    BY <1>1, <1>3, <2>1 DEF TypeOK, MemoryTypes, SocketTypes, ThreadTypes, MainPc
  <2>4. ThreadInv'
    BY <1>1, <1>3, <2>1, <2>2 DEF ThreadInv
  <2>5. BatchInv'
    BY <1>1, <1>4, <2>1 DEF BatchInv, Handling
  <2>6. NoEdgeLost'
    BY <1>1, <1>3, <2>1, <2>2 DEF NoEdgeLost, Readable, ThreadInv
  <2> QED  BY <2>3, <2>4, <2>5, <2>6
<1>7. EdgeWatched'
  <2>1. edge' \subseteq edge
    BY DEF EpollWait, TakeEvent, epoll
  <2> QED  BY <1>1, <1>3, <2>1 DEF EdgeWatched
<1> QED  BY <1>4, <1>5, <1>6, <1>7 DEF IInv

(* main reads, or leaves the record alone: mpc and cur are all that changes, *)
(* besides the bytes.                                                        *)
LEMMA MainMoves ==
  ASSUME IInv, fault = "none",
         UNCHANGED <<alloc, open, fin, watch, edge, batch, handoff, wpc, stale>>,
         rec' \in [Recs -> Records], input' \in [Fds -> Seq(Chunks)],
         \A f \in Fds : Len(input'[f]) <= MaxInput /\ (input[f] = <<>> => input'[f] = <<>>),
         \A q \in Recs : /\ rec'[q].fd = rec[q].fd /\ rec'[q].state = rec[q].state
                         /\ rec'[q].peer = rec[q].peer
                         /\ q # cur => rec'[q].bytes = rec[q].bytes,
         orphans' \in SUBSET open,
         fault' \in {"none", "overfull", "main_waits"},
         cur # NULL,
         \/ UNCHANGED <<mpc, cur>>
         \/ mpc' \in {"check", "close"} /\ UNCHANGED cur
         \/ mpc' = "next" /\ cur' = NULL,
         \A f \in Fds : watch[f] = cur /\ rec[cur].state = "READ_REQUEST" /\ Readable(f)' =>
           f \in edge \/ (cur' = cur /\ (mpc' = "recv" \/ rec'[cur].bytes = Cap))
  PROVE  IInv'
<1>1. TypeOK /\ ThreadInv /\ WatchMatches /\ EdgeWatched /\ BatchInv /\ NoEdgeLost
  BY DEF IInv
<1>2. UNCHANGED <<alloc, open, fin, watch, edge, batch, pending, current, wpc, stale>>
  BY DEF handoff
<1>3. /\ WatchMatches' /\ BusyInv' /\ PeersAgree' /\ PeerInv' /\ LifeInv'
      /\ \A q \in Recs : Watched(q)' <=> Watched(q)
  <2>1. UNCHANGED <<alloc, open, watch, handoff, stale>>
    BY <1>2 DEF handoff
  <2>2. \A w \in Workers : GoesOn(w)
    BY <1>2, Stays
  <2>3. \A q \in Recs : /\ rec'[q].fd = rec[q].fd /\ rec'[q].state = rec[q].state
                        /\ rec'[q].peer = rec[q].peer
    OBVIOUS
  <2> QED  BY <2>1, <2>2, <2>3, Quiet
<1>4. cur \in Recs /\ cur' \in {cur, NULL} /\ mpc' \in MainPc
  BY <1>1 DEF TypeOK, ThreadTypes, MainPc
<1>5. TypeOK'
  BY <1>1, <1>2, <1>4 DEF TypeOK, MemoryTypes, SocketTypes, ThreadTypes
<1>6. ThreadInv'
  BY <1>1, <1>2, <1>4, Constants DEF ThreadInv, TypeOK, ThreadTypes
<1>7. BatchInv'
  BY <1>1, <1>2, <1>3, <1>4, Constants DEF BatchInv, Handling
<1>8. NoEdgeLost'
  <2> SUFFICES ASSUME NEW f \in Fds, watch[f] # NULL, rec'[watch[f]].state = "READ_REQUEST", Readable(f)'
               PROVE  \/ f \in edge \/ watch[f] \in batch
                      \/ cur' = watch[f] /\ (mpc' = "recv" \/ rec'[watch[f]].bytes = Cap)
    BY <1>2 DEF NoEdgeLost
  <2>1. watch[f] \in Recs /\ rec[watch[f]].state = "READ_REQUEST"
    BY <1>1 DEF TypeOK, SocketTypes
  <2>2. Readable(f)
    BY <1>2 DEF Readable
  <2>3. CASE watch[f] = cur
    BY <2>1, <2>3
  <2>4. CASE watch[f] # cur
    BY <1>1, <2>1, <2>2, <2>4 DEF NoEdgeLost
  <2> QED  BY <2>3, <2>4
<1>9. EdgeWatched'
  BY <1>1, <1>2 DEF EdgeWatched
<1> QED  BY <1>3, <1>5, <1>6, <1>7, <1>8, <1>9 DEF IInv

(* The steps of this kind, and the ones that clean up.                       *)
LEMMA MainKept ==
  ASSUME IInv, fault = "none",
         RecvMore \/ RecvEnd \/ RecvDone \/ CheckSize \/ CloseTooLarge \/ Relay
         \/ RelayWaits \/ RelayEnd
  PROVE  IInv'
<1>1. TypeOK /\ ThreadInv /\ WatchMatches /\ EdgeWatched /\ BatchInv /\ NoEdgeLost
  BY DEF IInv
<1>2. /\ mpc # "next" => cur \in Recs /\ cur # NULL
      /\ rec \in [Recs -> Records] /\ input \in [Fds -> Seq(Chunks)]
      /\ \A f \in Fds : Len(input[f]) <= MaxInput
      /\ orphans \in SUBSET open /\ open \subseteq Fds
  BY <1>1 DEF ThreadInv, TypeOK, ThreadTypes, MemoryTypes, SocketTypes
<1>3. Handling => /\ cur \in Recs /\ cur # NULL /\ Watched(cur) /\ rec[cur].fd \in open /\ rec[cur].fd \in Fds
                  /\ \A f \in Fds : watch[f] = cur => f = rec[cur].fd
  BY Handled DEF Watched
<1>4. CASE RecvMore
  <2>1. /\ mpc = "recv" /\ mpc' = "recv" /\ cur' = cur /\ Recv(cur) /\ Handling
        /\ UNCHANGED <<alloc, open, fin, watch, edge, batch, handoff, wpc, stale, orphans, fault>>
    BY <1>4 DEF RecvMore, MainGoto, Handling, epoll, flaws, lost
  <2>2. /\ rec' \in [Recs -> Records]
        /\ input' \in [Fds -> Seq(Chunks)]
        /\ \A f \in Fds : Len(input'[f]) <= MaxInput /\ (input[f] = <<>> => input'[f] = <<>>)
        /\ \A q \in Recs : /\ rec'[q].fd = rec[q].fd /\ rec'[q].state = rec[q].state
                           /\ rec'[q].peer = rec[q].peer
                           /\ q # cur => rec'[q].bytes = rec[q].bytes
    BY <1>1, <1>3, <2>1, Received
  <2> QED  BY <1>2, <1>3, <2>1, <2>2, MainMoves, fault = "none"
<1>5. CASE RecvDone
  <2>1. /\ mpc = "recv" /\ mpc' = "check" /\ Handling
        /\ UNCHANGED <<memory, sockets, epoll, batch, cur, handoff, wpc, flaws>>
        /\ rec[cur].bytes = Cap \/ ~Readable(rec[cur].fd)
    BY <1>5 DEF RecvDone, MainGoto, Handling
  <2>2. UNCHANGED <<rec, input, alloc, open, fin, watch, edge, batch, cur, handoff, wpc, stale, orphans, fault>>
    BY <2>1 DEF memory, sockets, epoll, flaws, lost
  <2>3. \A f \in Fds : Readable(f)' <=> Readable(f)
    BY <2>2 DEF Readable
  <2> QED  BY <1>2, <1>3, <2>1, <2>2, <2>3, MainMoves, fault = "none"
<1>6. CASE CheckSize
  <2>1. /\ mpc = "check" /\ UNCHANGED <<memory, sockets, epoll, batch, handoff, wpc, flaws>>
        /\ \/ rec[cur].bytes >= Cap /\ mpc' = "close" /\ cur' = cur
           \/ ~(rec[cur].bytes >= Cap) /\ mpc' = "next" /\ cur' = NULL
    BY <1>6 DEF CheckSize, MainNext
  <2>2. UNCHANGED <<rec, input, alloc, open, fin, watch, edge, batch, handoff, wpc, stale, orphans, fault>>
    BY <2>1 DEF memory, sockets, epoll, flaws, lost
  <2>3. \A f \in Fds : Readable(f)' <=> Readable(f)
    BY <2>2 DEF Readable
  <2>4. rec[cur].bytes \in 0..Cap /\ Cap \in Nat
    BY <1>1, <1>2, <2>1, Fields, Constants
  <2>5. cur \notin batch
    BY <1>1 DEF ThreadInv
  <2>6. \A f \in Fds : watch[f] = cur /\ rec[cur].state = "READ_REQUEST" /\ Readable(f)' =>
           f \in edge \/ (cur' = cur /\ (mpc' = "recv" \/ rec'[cur].bytes = Cap))
    BY <1>1, <1>2, <2>1, <2>2, <2>3, <2>4, <2>5 DEF NoEdgeLost
  <2> QED  BY <1>2, <2>1, <2>2, <2>6, MainMoves, fault = "none"
<1>7. CASE CloseTooLarge
  <2>1. mpc = "close" /\ mpc' = "next" /\ cur' = NULL /\ UNCHANGED <<batch, handoff, wpc>>
    BY <1>7 DEF CloseTooLarge, MainNext
  <2>2. CASE \E f \in Fds : watch[f] = cur
    <3>1. CleanupClient(cur) /\ UNCHANGED fault
      BY <1>7, <2>2 DEF CloseTooLarge
    <3>2. Watched(cur)
      BY <1>1, <1>2, <2>1, <2>2 DEF WatchMatches, Watched
    <3> QED  BY <1>2, <2>1, <3>1, <3>2, CleanupKept, fault = "none"
  <2>3. CASE ~\E f \in Fds : watch[f] = cur
    <3>1. fault' = "overfull" /\ UNCHANGED <<memory, sockets, epoll, lost>>
      BY <1>7, <2>3 DEF CloseTooLarge
    <3>2. UNCHANGED <<rec, input, alloc, open, fin, watch, edge, stale, orphans>>
      BY <3>1 DEF memory, sockets, epoll, lost
    <3> QED  BY <1>2, <2>1, <2>3, <3>1, <3>2, MainMoves, fault = "none"
  <2> QED  BY <2>2, <2>3
<1>8. CASE RecvEnd
  <2>1. mpc = "recv" /\ mpc' = "check" /\ CleanupClient(cur) /\ UNCHANGED <<batch, cur, handoff, wpc, fault>> /\ Handling
    BY <1>8 DEF RecvEnd, MainGoto, Handling
  <2> QED  BY <1>3, <2>1, CleanupKept, fault = "none"
<1>9. CASE Relay
  <2>1. mpc = "relay" /\ Handling /\ UNCHANGED <<batch, handoff, wpc, fault>> /\ rec[cur].state = "PROXYING"
    BY <1>1, <1>9 DEF Relay, Handling, ThreadInv
  <2>2. CASE MainNext /\ CleanupClient(cur)
    BY <1>3, <2>1, <2>2, CleanupKept, fault = "none" DEF MainNext
  <2>3. CASE ~(MainNext /\ CleanupClient(cur))
    <3>1. /\ input' = [input EXCEPT ![rec[cur].fd] = <<>>]
          /\ \/ UNCHANGED <<mpc, cur, orphans>>
             \/ mpc' = "next" /\ cur' = NULL /\ orphans' = orphans \cup {rec[cur].fd}
          /\ UNCHANGED <<memory, open, fin, epoll, stale>>
      BY <1>9, <2>3 DEF Relay, MainNext
    <3>2. UNCHANGED <<rec, alloc, open, fin, watch, edge, stale>>
      BY <3>1 DEF memory, epoll
    <3>3. /\ input' \in [Fds -> Seq(Chunks)]
          /\ \A f \in Fds : Len(input'[f]) <= MaxInput /\ (input[f] = <<>> => input'[f] = <<>>)
      <4>1. <<>> \in Seq(Chunks) /\ Len(<<>>) <= MaxInput
        BY Constants, EmptySeq
      <4>2. \A f \in Fds : input'[f] = <<>> \/ input'[f] = input[f]
        BY <1>2, <3>1
      <4>3. input' \in [Fds -> Seq(Chunks)]
        BY <1>2, <3>1, <4>1
      <4> QED  BY <1>2, <4>1, <4>2, <4>3
    <3>4. orphans' \in SUBSET open
      BY <1>2, <1>3, <2>1, <3>1
    <3> QED  BY <1>2, <1>3, <2>1, <3>1, <3>2, <3>3, <3>4, MainMoves, fault = "none"
  <2> QED  BY <2>2, <2>3
<1>10. CASE RelayEnd
  <2>1. /\ mpc = "relay" /\ Handling /\ UNCHANGED <<batch, handoff, wpc, fault>> /\ rec[cur].state = "PROXYING"
        /\ mpc' = "next" /\ cur' = NULL
    BY <1>1, <1>10 DEF RelayEnd, Handling, ThreadInv, MainNext
  <2>2. CASE CleanupClient(cur)
    BY <1>3, <2>1, <2>2, CleanupKept, fault = "none"
  <2>3. CASE ~CleanupClient(cur)
    <3>1. UNCHANGED <<memory, sockets, epoll, lost>>
      BY <1>10, <2>3 DEF RelayEnd
    <3>2. UNCHANGED <<rec, input, alloc, open, fin, watch, edge, stale, orphans>>
      BY <3>1 DEF memory, sockets, epoll, lost
    <3> QED  BY <1>2, <1>3, <2>1, <3>2, MainMoves, fault = "none"
  <2> QED  BY <2>2, <2>3
<1>11. CASE RelayWaits
  <2>1. /\ mpc = "relay" /\ Handling /\ rec[cur].state = "PROXYING" /\ fault' = "main_waits"
        /\ UNCHANGED <<memory, sockets, epoll, main, handoff, wpc, lost>>
    BY <1>1, <1>11 DEF RelayWaits, Handling, ThreadInv
  <2>2. UNCHANGED <<rec, input, alloc, open, fin, watch, edge, batch, mpc, cur, handoff, wpc, stale, orphans>>
    BY <2>1 DEF memory, sockets, epoll, main, lost
  <2> QED  BY <1>2, <1>3, <2>1, <2>2, MainMoves, fault = "none"
<1> QED  BY <1>4, <1>5, <1>6, <1>7, <1>8, <1>9, <1>10, <1>11

(* Nothing that is in use refers to a record that is free.                   *)
LEMMA Unallocated ==
  ASSUME IInv, NEW r \in Recs, r \notin alloc
  PROVE  /\ ~Busy(r) /\ ~InQueue(r) /\ ~AtWork(r) /\ ~Watched(r) /\ r \notin batch
         /\ Handling => cur # r
         /\ \A g \in Fds : watch[g] # r
         /\ \A q \in alloc : rec[q].peer # r
         /\ \A v \in Workers : current[v] = r => v \in stale
<1>1. TypeOK /\ WatchMatches /\ BatchInv /\ BusyInv /\ PeersAgree /\ LifeInv /\ r # NULL
  BY Constants DEF IInv
<1>2. ~Busy(r) /\ ~InQueue(r) /\ ~AtWork(r)
  BY <1>1 DEF BusyInv, Busy
<1>3. \A g \in Fds : watch[g] # r
  BY <1>1 DEF WatchMatches
<1>4. ~Watched(r) /\ r \notin batch /\ (Handling => cur # r)
  BY <1>1, <1>3 DEF Watched, BatchInv
<1>5. \A q \in alloc : rec[q].peer # r
  BY <1>1 DEF PeersAgree
<1>6. \A v \in Workers : current[v] = r => v \in stale
  BY <1>1 DEF LifeInv
<1> QED  BY <1>2, <1>3, <1>4, <1>5, <1>6

(* Nor to a descriptor that is free.                                         *)
LEMMA Unopened ==
  ASSUME IInv, NEW f \in Fds, f \notin open
  PROVE  /\ watch[f] = NULL /\ f \notin edge
         /\ \A q \in Recs : Busy(q) \/ Watched(q) => rec[q].fd # f
         /\ \A q \in alloc : rec[q].peer # NULL => rec[q].fd # f
<1>1. TypeOK /\ WatchMatches /\ BusyInv /\ PeersAgree
  BY DEF IInv
<1>2. watch[f] = NULL /\ f \notin edge
  BY <1>1 DEF WatchMatches, TypeOK, SocketTypes
<1> QED  BY <1>1, <1>2, Constants DEF BusyInv, PeersAgree, Watched

(* A descriptor is in the epoll set for another record, or for none before.  *)
LEMMA Rewatched ==
  ASSUME SocketTypes, NEW f \in Fds, NEW r \in Recs, Watch(f, r)
  PROVE  /\ watch' = [watch EXCEPT ![f] = r] /\ watch' \in [Fds -> Recs \cup {NULL}]
         /\ watch'[f] = r /\ \A g \in Fds : g # f => watch'[g] = watch[g]
         /\ edge \subseteq edge' /\ edge' \subseteq edge \cup {f}
         /\ Readable(f) => f \in edge'
         /\ EdgeWatched => EdgeWatched'
<1>1. r # NULL /\ watch \in [Fds -> Recs \cup {NULL}] /\ edge \subseteq Fds
  BY Constants DEF SocketTypes
<1> QED  BY <1>1 DEF Watch, SocketTypes, EdgeWatched

(* A connection is accepted. *)
LEMMA AcceptKept ==
  ASSUME IInv, fault = "none", NEW f \in Fds, NEW r \in Recs, Accept(f, r)
  PROVE  IInv'
<1>1. TypeOK /\ ThreadInv /\ WatchMatches /\ EdgeWatched /\ BatchInv /\ BusyInv /\ PeersAgree /\ PeerInv
      /\ LifeInv /\ NoEdgeLost
  BY DEF IInv
<1>2. /\ mpc = "next" /\ f \notin open /\ r \notin alloc /\ open' = open \cup {f} /\ alloc' = alloc \cup {r}
      /\ rec' = [rec EXCEPT ![r] = NewRecord(f)]
      /\ UNCHANGED <<input, fin, batch, mpc, cur, pending, current, wpc, orphans, stale, fault>>
      /\ cur = NULL
  BY <1>1 DEF Accept, main, handoff, flaws, lost, ThreadInv
<1>3. /\ watch' \in [Fds -> Recs \cup {NULL}]
      /\ watch'[f] = r /\ \A g \in Fds : g # f => watch'[g] = watch[g]
      /\ edge \subseteq edge' /\ edge' \subseteq edge \cup {f}
      /\ Readable(f) => f \in edge'
      /\ EdgeWatched'
  BY <1>1, Rewatched DEF Accept, TypeOK
<1>4. /\ rec' \in [Recs -> Records]
      /\ rec'[r].fd = f /\ rec'[r].state = "READ_REQUEST" /\ rec'[r].peer = NULL
      /\ \A q \in Recs : q # r => rec'[q] = rec[q]
  <2>1. rec \in [Recs -> Records] /\ NewRecord(f) \in Records
    BY <1>1, RecordsMade DEF TypeOK, MemoryTypes
  <2>2. rec'[r] = NewRecord(f)
    BY <1>2, <2>1
  <2> QED  BY <1>2, <2>1, <2>2 DEF NewRecord
<1>5. /\ ~Busy(r) /\ ~InQueue(r) /\ ~AtWork(r) /\ ~Watched(r) /\ r \notin batch
      /\ \A g \in Fds : watch[g] # r
      /\ \A q \in alloc : rec[q].peer # r
      /\ \A v \in Workers : current[v] = r => v \in stale
  BY <1>2, Unallocated
<1>6. /\ watch[f] = NULL /\ f \notin edge
      /\ \A q \in Recs : Busy(q) \/ Watched(q) => rec[q].fd # f
      /\ \A q \in alloc : rec[q].peer # NULL => rec[q].fd # f
  BY <1>2, Unopened
<1>7. /\ open \subseteq Fds /\ alloc \subseteq Recs /\ batch \subseteq Recs
      /\ \A q \in Recs : rec[q].peer \in Recs \cup {NULL}
      /\ r # NULL
  BY <1>1, Fields, Constants DEF TypeOK, SocketTypes, MemoryTypes, ThreadTypes
<1>8. ASSUME NEW q \in Recs
      PROVE  /\ InQueue(q)' <=> InQueue(q)
             /\ AtWork(q)' <=> AtWork(q)
             /\ Busy(q)' <=> Busy(q)
             /\ Watched(q) => Watched(q)'
             /\ q # r => (Watched(q)' => Watched(q))
  <2>1. (InQueue(q)' <=> InQueue(q)) /\ (AtWork(q)' <=> AtWork(q)) /\ (Busy(q)' <=> Busy(q))
    BY <1>2 DEF InQueue, AtWork, LetsGo, Busy
  <2>2. (Watched(q) => Watched(q)') /\ (q # r => (Watched(q)' => Watched(q)))
    BY <1>3, <1>4, <1>5, <1>6 DEF Watched
  <2> QED  BY <2>1, <2>2
<1>9. TypeOK'
  <2>1. MemoryTypes' /\ ThreadTypes'
    BY <1>1, <1>2, <1>4 DEF TypeOK, MemoryTypes, ThreadTypes
  <2>2. SocketTypes'
    BY <1>1, <1>2, <1>3 DEF TypeOK, SocketTypes
  <2> QED  BY <2>1, <2>2 DEF TypeOK
<1>10. ThreadInv' /\ LifeInv'
  BY <1>1, <1>2 DEF ThreadInv, LifeInv
<1>11. WatchMatches'
  BY <1>1, <1>2, <1>3, <1>4, <1>5 DEF WatchMatches
<1>12. BatchInv'
  BY <1>1, <1>2, <1>8 DEF BatchInv, Handling
<1>13. BusyInv'
  <2>1. \A q \in Recs : Busy(q) => q # r /\ rec'[q] = rec[q] /\ rec[q].fd # f
    BY <1>4, <1>5, <1>6
  <2>2. \A q \in Recs : Busy(q)' => q \in alloc' /\ rec'[q].fd \in open' /\ watch'[rec'[q].fd] = NULL
    BY <1>1, <1>2, <1>3, <1>7, <1>8, <2>1 DEF BusyInv
  <2>3. \A q, s \in Recs : Busy(q)' /\ Busy(s)' /\ rec'[q].fd = rec'[s].fd => q = s
    BY <1>1, <1>8, <2>1 DEF BusyInv
  <2>4. \A q \in Recs : InQueue(q)' => rec'[q].state = "READ_REQUEST"
    BY <1>1, <1>8, <2>1 DEF BusyInv, Busy
  <2>5. ASSUME NEW w \in Workers, wpc[w] \in {"work", "rearm", "connect"}
        PROVE  rec'[current[w]].state = "READ_REQUEST"
    <3>1. current[w] \in Recs /\ AtWork(current[w])
      BY <1>1, <2>5 DEF AtWork, LetsGo, ThreadInv, TypeOK, ThreadTypes
    <3> QED  BY <1>1, <2>1, <2>5, <3>1 DEF BusyInv, Busy
  <2> QED  BY <1>1, <1>2, <1>8, <2>2, <2>3, <2>4, <2>5 DEF BusyInv, LetsGo
<1>14. PeersAgree'
  BY <1>1, <1>2, <1>4, <1>5, <1>7 DEF PeersAgree
<1>15. PeerInv'
  BY <1>1, <1>2, <1>4, <1>5, <1>7, <1>8, fault = "none" DEF PeerInv
<1>16. NoEdgeLost'
  <2>1. \A g \in Fds : Readable(g)' <=> Readable(g)
    BY <1>2 DEF Readable
  <2> QED  BY <1>1, <1>2, <1>3, <1>4, <1>5, <1>6, <2>1 DEF NoEdgeLost
<1> QED  BY <1>3, <1>9, <1>10, <1>11, <1>12, <1>13, <1>14, <1>15, <1>16 DEF IInv

(* The queue after a push. *)
LEMMA Queued ==
  ASSUME NEW q \in Seq(Recs), NEW r \in Recs
  PROVE  /\ Append(q, r) \in Seq(Recs) /\ Len(Append(q, r)) = Len(q) + 1 /\ Len(q) \in Nat
         /\ Append(q, r)[Len(q) + 1] = r
         /\ \A i \in 1..Len(q) : Append(q, r)[i] = q[i]
BY AppendProperties, LenProperties

(* The queue after a pop, and what was popped. *)
LEMMA Popped ==
  ASSUME NEW q \in Seq(Recs), q # <<>>
  PROVE  /\ Head(q) \in Recs /\ Head(q) = q[1] /\ Tail(q) \in Seq(Recs)
         /\ Len(q) \in Nat \ {0} /\ Len(Tail(q)) = Len(q) - 1
         /\ \A i \in 1..Len(Tail(q)) : Tail(q)[i] = q[i + 1]
<1>1. Len(q) \in Nat \ {0}
  BY EmptySeq
<1>2. /\ Head(q) \in Recs /\ Tail(q) \in Seq(Recs)
      /\ Len(Tail(q)) = Len(q) - 1
      /\ \A i \in 1..Len(Tail(q)) : Tail(q)[i] = q[i + 1]
  BY HeadTailProperties
<1>3. Head(q) = q[1]
  OBVIOUS
<1> QED  BY <1>1, <1>2, <1>3

(* A complete request leaves the epoll set and joins the queue.              *)
LEMMA RecvRequestKept ==
  ASSUME IInv, fault = "none", NEW r \in Recs, r = cur, RecvRequest
  PROVE  /\ IInv'
         /\ ~InQueue(r) /\ ~AtWork(r) /\ pending' = Append(pending, r)
<1>1. TypeOK /\ ThreadInv /\ WatchMatches /\ EdgeWatched /\ BatchInv /\ BusyInv /\ PeersAgree /\ PeerInv
      /\ LifeInv /\ NoEdgeLost
  BY DEF IInv
<1> DEFINE f == rec[r].fd
<1>2. /\ mpc = "recv" /\ mpc' = "check" /\ Recv(r) /\ Unwatch(f) /\ pending' = Append(pending, r)
      /\ UNCHANGED <<alloc, open, fin, batch, cur, current, wpc, orphans, stale, fault>>
      /\ Handling
  BY DEF RecvRequest, MainGoto, flaws, lost, Handling
<1>3. /\ r # NULL /\ Watched(r) /\ r \in alloc /\ ~Busy(r) /\ f \in open /\ r \notin batch
      /\ watch[f] = r /\ f \in Fds
      /\ \A g \in Fds : watch[g] = r => g = f
      /\ \A q \in Recs : q # r /\ Watched(q) => rec[q].fd # f
  BY <1>1, <1>2, Handled, WatchedIs DEF Watched
<1>4. /\ rec' \in [Recs -> Records]
      /\ input' \in [Fds -> Seq(Chunks)]
      /\ \A g \in Fds : Len(input'[g]) <= MaxInput /\ (input[g] = <<>> => input'[g] = <<>>)
      /\ \A q \in Recs : /\ rec'[q].fd = rec[q].fd /\ rec'[q].state = rec[q].state
                         /\ rec'[q].peer = rec[q].peer
                         /\ q # r => rec'[q].bytes = rec[q].bytes
  BY <1>1, <1>2, <1>3, Received
<1>5. rec[r].state = "READ_REQUEST" /\ rec[r].peer = NULL
      /\ \A q \in alloc : rec[q].peer # NULL => rec[q].state = "PROXYING" /\ rec[rec[q].peer].state = "PROXYING"
                                               /\ rec[q].peer \in alloc
  BY <1>1, <1>2, <1>3 DEF ThreadInv, PeersAgree
<1>6. /\ watch' = [watch EXCEPT ![f] = NULL] /\ edge' = edge \ {f}
      /\ watch \in [Fds -> Recs \cup {NULL}] /\ alloc \subseteq Recs /\ batch \subseteq Recs /\ open \subseteq Fds
      /\ \A w \in Workers : current[w] \in Recs \cup {NULL}
      /\ pending \in Seq(Recs)
  BY <1>1, <1>2 DEF Unwatch, TypeOK, SocketTypes, MemoryTypes, ThreadTypes
<1>7. /\ pending' \in Seq(Recs) /\ Len(pending') = Len(pending) + 1 /\ Len(pending) \in Nat
      /\ pending'[Len(pending) + 1] = r
      /\ \A i \in 1..Len(pending) : pending'[i] = pending[i]
  BY <1>2, <1>6, Queued
<1>8. ~InQueue(r) /\ ~AtWork(r)
  BY <1>3 DEF Busy
<1> HIDE DEF f
<1>9. ASSUME NEW q \in Recs
      PROVE  /\ InQueue(q)' <=> InQueue(q) \/ q = r
             /\ AtWork(q)' <=> AtWork(q)
             /\ Busy(q)' <=> Busy(q) \/ q = r
             /\ q # r => (Watched(q)' <=> Watched(q))
             /\ Busy(q) => q # r /\ rec[q].fd \in open /\ watch[rec[q].fd] = NULL /\ rec[q].fd # f
  <2>1. AtWork(q)' <=> AtWork(q)
    BY <1>2 DEF AtWork, LetsGo
  <2>2. InQueue(q)' <=> InQueue(q) \/ q = r
    BY <1>7 DEF InQueue
  <2>3. q # r => (Watched(q)' <=> Watched(q))
    BY <1>3, <1>4, <1>6, Constants DEF Watched
  <2>4. Busy(q) => q # r /\ rec[q].fd \in open /\ watch[rec[q].fd] = NULL /\ rec[q].fd # f
    BY <1>1, <1>3 DEF BusyInv
  <2> QED  BY <2>1, <2>2, <2>3, <2>4 DEF Busy
<1>10. TypeOK'
  <2>1. MemoryTypes' /\ ThreadTypes'
    BY <1>1, <1>2, <1>4, <1>7 DEF TypeOK, MemoryTypes, ThreadTypes, MainPc
  <2>2. SocketTypes'
    BY <1>1, <1>2, <1>4, <1>6 DEF TypeOK, SocketTypes
  <2> QED  BY <2>1, <2>2 DEF TypeOK
<1>11. ThreadInv' /\ LifeInv' /\ EdgeWatched'
  BY <1>1, <1>2, <1>6 DEF ThreadInv, LifeInv, EdgeWatched, TypeOK, SocketTypes
<1>12. WatchMatches'
  BY <1>1, <1>2, <1>4, <1>6 DEF WatchMatches
<1>13. BatchInv'
  BY <1>1, <1>2, <1>3, <1>9 DEF BatchInv, Handling
<1>14. BusyInv'
  <2>1. rec'[r].fd = f
    BY <1>4 DEF f
  <2>2. \A q \in Recs : Busy(q)' => q \in alloc' /\ rec'[q].fd \in open' /\ watch'[rec'[q].fd] = NULL
    BY <1>1, <1>2, <1>3, <1>4, <1>6, <1>9, <2>1 DEF BusyInv
  <2>3. \A q, s \in Recs : Busy(q)' /\ Busy(s)' /\ rec'[q].fd = rec'[s].fd => q = s
    BY <1>1, <1>4, <1>9, <2>1 DEF BusyInv
  <2>4. \A i, j \in 1..Len(pending') : pending'[i] = pending'[j] => i = j
    <3>1. \A i \in 1..Len(pending) : pending[i] # r
      BY <1>8 DEF InQueue
    <3>2. \A i, j \in 1..Len(pending) : pending[i] = pending[j] => i = j
      BY <1>1 DEF BusyInv
    <3>3. \A i \in 1..Len(pending') : i \in 1..Len(pending) \/ i = Len(pending) + 1
      BY <1>7
    <3> QED  BY <1>7, <3>1, <3>2, <3>3
  <2>5. \A q \in Recs : AtWork(q)' => ~InQueue(q)'
    BY <1>1, <1>8, <1>9 DEF BusyInv
  <2>6. \A q \in Recs : InQueue(q)' => rec'[q].state = "READ_REQUEST"
    BY <1>1, <1>4, <1>5, <1>9 DEF BusyInv
  <2>7. ASSUME NEW w \in Workers, wpc[w] \in {"work", "rearm", "connect"}
        PROVE  rec'[current[w]].state = "READ_REQUEST"
    <3>1. current[w] \in Recs
      BY <1>1, <1>6, <2>7 DEF ThreadInv
    <3> QED  BY <1>1, <1>4, <2>7, <3>1 DEF BusyInv
  <2> QED  BY <1>1, <1>2, <2>2, <2>3, <2>4, <2>5, <2>6, <2>7 DEF BusyInv, LetsGo
<1>15. PeersAgree'
  BY <1>1, <1>2, <1>4, <1>6 DEF PeersAgree
<1>16. PeerInv'
  <2>1. \A q \in alloc : rec[q].peer # NULL => q # r /\ rec[q].peer # r /\ rec[q].peer \in Recs
                                               /\ q \in Recs /\ rec'[q].peer = rec[q].peer
    BY <1>4, <1>5, <1>6
  <2> QED  BY <1>1, <1>2, <1>4, <1>6, <1>9, <2>1, fault = "none", SMTT(30) DEF PeerInv
<1>17. NoEdgeLost'
  <2>1. \A g \in Fds : Readable(g)' => Readable(g)
    BY <1>2, <1>4 DEF Readable
  <2> SUFFICES ASSUME NEW g \in Fds, watch'[g] # NULL, rec'[watch'[g]].state = "READ_REQUEST", Readable(g)'
               PROVE  g \in edge' \/ watch'[g] \in batch'
    BY DEF NoEdgeLost
  <2>2. g # f /\ watch'[g] = watch[g] /\ watch[g] # r /\ watch[g] \in Recs
    BY <1>3, <1>6
  <2> QED  BY <1>1, <1>2, <1>4, <1>6, <2>1, <2>2 DEF NoEdgeLost
<1> QED  BY <1>2, <1>8, <1>10, <1>11, <1>12, <1>13, <1>14, <1>15, <1>16, <1>17 DEF IInv

(* A worker gets the first record of the queue.                              *)
LEMMA StartKept ==
  ASSUME IInv, fault = "none", NEW w \in Workers, Start(w)
  PROVE  IInv'
<1>1. TypeOK /\ ThreadInv /\ WatchMatches /\ EdgeWatched /\ BatchInv /\ BusyInv /\ PeersAgree /\ PeerInv
      /\ LifeInv /\ NoEdgeLost
  BY DEF IInv
<1>17. PICK r \in Recs : r = Head(pending)
  <2>1. pending \in Seq(Recs) /\ pending # <<>>
    BY <1>1 DEF Start, TypeOK, ThreadTypes
  <2> QED  BY <2>1, Popped
<1>2. /\ wpc[w] = "pop" /\ wpc' = [wpc EXCEPT ![w] = "work"] /\ pending # <<>>
      /\ current' = [current EXCEPT ![w] = r] /\ pending' = Tail(pending)
      /\ UNCHANGED <<rec, alloc, open, input, fin, watch, edge, batch, mpc, cur, orphans, stale, fault>>
  BY <1>17 DEF Start, WorkerGoto, memory, sockets, epoll, main, flaws, lost
<1>3. /\ r \in Recs /\ r = pending[1] /\ pending' \in Seq(Recs)
      /\ Len(pending) \in Nat \ {0} /\ Len(pending') = Len(pending) - 1
      /\ \A i \in 1..Len(pending') : pending'[i] = pending[i + 1]
  BY <1>1, <1>2, <1>17, Popped DEF TypeOK, ThreadTypes
<1>4. /\ wpc \in [Workers -> WorkerPc] /\ current \in [Workers -> Recs \cup {NULL}]
      /\ current[w] = NULL /\ w \notin stale /\ alloc \subseteq Recs /\ r # NULL
  BY <1>1, <1>2, <1>3, Constants DEF TypeOK, ThreadTypes, MemoryTypes, ThreadInv
<1>5. InQueue(r) /\ ~AtWork(r) /\ Busy(r) /\ r \in alloc /\ rec[r].state = "READ_REQUEST"
  <2>1. InQueue(r)
    BY <1>3 DEF InQueue
  <2> QED  BY <1>1, <1>3, <2>1 DEF BusyInv, Busy
<1>6. rec[r].peer = NULL /\ \A q \in alloc : rec[q].peer # r
  BY <1>1, <1>4, <1>5 DEF PeersAgree
<1>7. current'[w] = r /\ wpc'[w] = "work"
      /\ \A v \in Workers : v # w => current'[v] = current[v] /\ wpc'[v] = wpc[v]
  BY <1>2, <1>4
<1>8. ~InQueue(r)' /\ \A q \in Recs : q # r => (InQueue(q)' <=> InQueue(q))
  <2>1. \A i, j \in 1..Len(pending) : pending[i] = pending[j] => i = j
    BY <1>1 DEF BusyInv
  <2>2. ASSUME NEW i \in 1..Len(pending') PROVE pending'[i] # r
    <3>1. i + 1 \in 1..Len(pending) /\ 1 \in 1..Len(pending) /\ i + 1 # 1
      BY <1>3
    <3> QED  BY <1>3, <2>1, <3>1
  <2>3. ASSUME NEW q \in Recs, q # r PROVE InQueue(q)' <=> InQueue(q)
    <3>1. ASSUME NEW i \in 1..Len(pending), pending[i] = q PROVE InQueue(q)'
      <4>1. i # 1
        BY <1>3, <2>3, <3>1
      <4>2. i - 1 \in 1..Len(pending') /\ pending'[i - 1] = q
        BY <1>3, <3>1, <4>1
      <4> QED  BY <4>2 DEF InQueue
    <3>2. ASSUME NEW i \in 1..Len(pending'), pending'[i] = q PROVE InQueue(q)
      <4>1. i + 1 \in 1..Len(pending) /\ pending[i + 1] = q
        BY <1>3, <3>2
      <4> QED  BY <4>1 DEF InQueue
    <3> QED  BY <3>1, <3>2 DEF InQueue
  <2>4. ~InQueue(r)'
    BY <2>2 DEF InQueue
  <2> QED  BY <2>3, <2>4
<1>9. AtWork(r)' /\ \A q \in Recs : q # r => (AtWork(q)' <=> AtWork(q))
  BY <1>2, <1>7 DEF AtWork, LetsGo
<1>10. \A q \in Recs : (Busy(q)' <=> Busy(q)) /\ (Watched(q)' <=> Watched(q))
  BY <1>2, <1>5, <1>8, <1>9 DEF Busy, Watched
<1>11. TypeOK'
  <2>1. wpc' \in [Workers -> WorkerPc] /\ current' \in [Workers -> Recs \cup {NULL}]
    BY <1>2, <1>3, <1>4 DEF WorkerPc
  <2> QED  BY <1>1, <1>2, <1>3, <2>1 DEF TypeOK, MemoryTypes, SocketTypes, ThreadTypes
<1>12. ThreadInv'
  BY <1>1, <1>2, <1>4, <1>7 DEF ThreadInv
<1>13. LifeInv'
  BY <1>1, <1>2, <1>5, <1>7 DEF LifeInv
<1>14. WatchMatches' /\ EdgeWatched' /\ BatchInv' /\ PeersAgree' /\ NoEdgeLost'
  <2>1. \A f \in Fds : Readable(f)' <=> Readable(f)
    BY <1>2 DEF Readable
  <2> QED  BY <1>1, <1>2, <1>10, <2>1 DEF WatchMatches, EdgeWatched, BatchInv, Handling, PeersAgree, NoEdgeLost
<1>15. PeerInv'
  <2> SUFFICES ASSUME NEW q \in alloc, rec[q].peer # NULL
               PROVE  /\ Watched(q)' \/ AtWork(q)'
                      /\ AtWork(q)' => /\ Watched(rec[q].peer)'
                                       /\ \A v \in Workers : current'[v] = rec[q].peer => v \in stale
    BY <1>2 DEF PeerInv, Watched
  <2>1. q \in Recs /\ q # r /\ rec[q].peer # r /\ rec[q].peer \in Recs
    BY <1>1, <1>4, <1>6 DEF PeersAgree
  <2>2. /\ Watched(q) \/ AtWork(q)
        /\ AtWork(q) => /\ Watched(rec[q].peer)
                        /\ \A v \in Workers : current[v] = rec[q].peer => v \in stale
    BY <1>1, fault = "none" DEF PeerInv
  <2>3. Watched(rec[q].peer)' <=> Watched(rec[q].peer)
    BY <1>2 DEF Watched
  <2> QED  BY <1>7, <1>9, <1>10, <2>1, <2>2, <2>3
<1>16. BusyInv'
  <2>1. \A q \in Recs : Busy(q)' => q \in alloc' /\ rec'[q].fd \in open' /\ watch'[rec'[q].fd] = NULL
    BY <1>1, <1>2, <1>10 DEF BusyInv
  <2>2. \A q, s \in Recs : Busy(q)' /\ Busy(s)' /\ rec'[q].fd = rec'[s].fd => q = s
    BY <1>1, <1>2, <1>10 DEF BusyInv
  <2>3. \A i, j \in 1..Len(pending') : pending'[i] = pending'[j] => i = j
    <3>1. \A i, j \in 1..Len(pending) : pending[i] = pending[j] => i = j
      BY <1>1 DEF BusyInv
    <3> QED  BY <1>3, <3>1
  <2>4. \A q \in Recs : AtWork(q)' => ~InQueue(q)'
    BY <1>1, <1>8, <1>9 DEF BusyInv
  <2>5. \A q \in Recs : InQueue(q)' => rec'[q].state = "READ_REQUEST"
    BY <1>1, <1>2, <1>8 DEF BusyInv
  <2>6. \A v \in Workers : wpc'[v] \in {"work", "rearm", "connect"} => rec'[current'[v]].state = "READ_REQUEST"
    BY <1>1, <1>2, <1>5, <1>7 DEF BusyInv
  <2>7. ASSUME NEW u \in Workers, NEW v \in Workers, ~LetsGo(u)', ~LetsGo(v)', current'[u] = current'[v]
        PROVE  u = v
    <3>1. \A x \in Workers : x # w /\ ~LetsGo(x)' => ~LetsGo(x) /\ current[x] # r
      BY <1>5, <1>7 DEF LetsGo, AtWork
    <3> QED  BY <1>1, <1>7, <2>7, <3>1 DEF BusyInv
  <2> QED  BY <2>1, <2>2, <2>3, <2>4, <2>5, <2>6, <2>7 DEF BusyInv
<1> QED  BY <1>11, <1>12, <1>13, <1>14, <1>15, <1>16 DEF IInv

(* A worker is done with its record, and nobody else has it more or less.    *)
LEMMA Returned ==
  ASSUME IInv, NEW w \in Workers, NEW from \in WorkerPc \ {"pop"}, Return(w, from),
         NEW c, c = current[w]
  PROVE  /\ wpc[w] = from /\ c \in Recs /\ pending' = pending
         /\ current'[w] = NULL /\ wpc'[w] = "pop"
         /\ \A v \in Workers : v # w => current'[v] = current[v] /\ wpc'[v] = wpc[v]
         /\ current' \in [Workers -> Recs \cup {NULL}] /\ wpc' \in [Workers -> WorkerPc]
         /\ \A q \in Recs : InQueue(q)' <=> InQueue(q)
         /\ \A q \in Recs : q # c => (AtWork(q)' <=> AtWork(q)) /\ (Busy(q)' <=> Busy(q))
         /\ from \notin {"peer", "mod"} => AtWork(c) /\ Busy(c) /\ ~InQueue(c) /\ ~AtWork(c)' /\ ~Busy(c)'
         /\ from \in {"peer", "mod"} => (AtWork(c)' <=> AtWork(c)) /\ (Busy(c)' <=> Busy(c))
<1>1. /\ wpc[w] = from /\ wpc' = [wpc EXCEPT ![w] = "pop"] /\ current' = [current EXCEPT ![w] = NULL]
      /\ pending' = pending
  BY DEF Return, WorkerGoto
<1>2. /\ current \in [Workers -> Recs \cup {NULL}] /\ wpc \in [Workers -> WorkerPc] /\ "pop" \in WorkerPc
      /\ \A v \in Workers : wpc[v] = "pop" <=> current[v] = NULL
      /\ BusyInv
  BY DEF IInv, TypeOK, ThreadTypes, ThreadInv, WorkerPc
<1>3. c \in Recs /\ c # NULL
  BY <1>1, <1>2, Constants
<1>4. /\ current'[w] = NULL /\ wpc'[w] = "pop"
      /\ \A v \in Workers : v # w => current'[v] = current[v] /\ wpc'[v] = wpc[v]
      /\ current' \in [Workers -> Recs \cup {NULL}] /\ wpc' \in [Workers -> WorkerPc]
  BY <1>1, <1>2
<1>5. \A q \in Recs : InQueue(q)' <=> InQueue(q)
  BY <1>1 DEF InQueue
<1>6. ASSUME NEW q \in Recs, q # c PROVE AtWork(q)' <=> AtWork(q)
  BY <1>4, <1>6, Constants DEF AtWork, LetsGo
<1>7. from \notin {"peer", "mod"} => AtWork(c) /\ ~AtWork(c)' /\ ~InQueue(c)
  <2> SUFFICES ASSUME from \notin {"peer", "mod"} PROVE AtWork(c) /\ ~AtWork(c)' /\ ~InQueue(c)
    OBVIOUS
  <2>1. ~LetsGo(w)
    BY <1>1 DEF LetsGo
  <2>2. AtWork(c)
    BY <2>1 DEF AtWork
  <2>3. \A v \in Workers : ~LetsGo(v) /\ current[v] = c => v = w
    BY <1>2, <2>1 DEF BusyInv
  <2>4. ~AtWork(c)'
    BY <1>3, <1>4, <2>3 DEF AtWork, LetsGo
  <2> QED  BY <1>2, <1>3, <2>2, <2>4 DEF BusyInv
<1>8. from \in {"peer", "mod"} => (AtWork(c)' <=> AtWork(c))
  BY <1>1, <1>3, <1>4 DEF AtWork, LetsGo
<1>9. /\ \A q \in Recs : q # c => (AtWork(q)' <=> AtWork(q)) /\ (Busy(q)' <=> Busy(q))
      /\ from \notin {"peer", "mod"} => Busy(c) /\ ~Busy(c)'
      /\ from \in {"peer", "mod"} => (Busy(c)' <=> Busy(c))
  BY <1>3, <1>5, <1>6, <1>7, <1>8 DEF Busy
<1> QED  BY <1>1, <1>3, <1>4, <1>5, <1>7, <1>8, <1>9

(* A worker that is back at the queue leaves what is true of the others.     *)
LEMMA ReturnThreads ==
  ASSUME IInv, NEW w \in Workers, NEW from \in WorkerPc \ {"pop"}, Return(w, from),
         UNCHANGED main, stale' = stale \ {w},
         \A q \in Recs : Watched(q) /\ (q \in batch \/ (Handling /\ cur = q)) =>
           Watched(q)' /\ rec'[q].state = rec[q].state
  PROVE  ThreadInv' /\ BatchInv'
<1>1. ThreadInv /\ BatchInv /\ batch \subseteq Recs /\ cur \in Recs \cup {NULL} /\ stale \subseteq Workers
  BY DEF IInv, TypeOK, ThreadTypes
<1>2. batch' = batch /\ mpc' = mpc /\ cur' = cur
  BY DEF main
<1>3. current'[w] = NULL /\ wpc'[w] = "pop"
      /\ \A v \in Workers : v # w => current'[v] = current[v] /\ wpc'[v] = wpc[v]
  BY Returned
<1>4. BatchInv'
  BY <1>1, <1>2 DEF BatchInv, Handling
<1>5. Handling => cur \in Recs /\ rec'[cur].state = rec[cur].state
  BY Handled
<1>6. ThreadInv'
  BY <1>1, <1>2, <1>3, <1>5, Constants DEF ThreadInv, Handling
<1> QED  BY <1>4, <1>6

(* A worker returns and leaves everything as it is.                          *)
LEMMA ReturnKept ==
  ASSUME IInv, fault = "none", NEW w \in Workers, NEW from \in WorkerPc \ {"pop"}, Return(w, from),
         UNCHANGED <<memory, sockets, watch, main, orphans>>, stale' = stale \ {w},
         edge \subseteq edge', edge' \subseteq open, EdgeWatched',
         fault' \in {"none", "peer_freed", "add_failed"},
         from \in {"peer", "mod"} \/ fault' # "none"
  PROVE  IInv'
<1>1. TypeOK /\ ThreadInv /\ WatchMatches /\ BatchInv /\ BusyInv /\ PeersAgree /\ PeerInv
      /\ LifeInv /\ NoEdgeLost
  BY DEF IInv
<1>2. PICK c : c = current[w]
  OBVIOUS
<1>3. UNCHANGED <<rec, alloc, open, input, fin, watch, batch, mpc, cur, orphans>>
  BY DEF memory, sockets, main
<1>4. /\ wpc[w] = from /\ c \in Recs /\ pending' = pending
      /\ current'[w] = NULL /\ wpc'[w] = "pop"
      /\ \A v \in Workers : v # w => current'[v] = current[v] /\ wpc'[v] = wpc[v]
      /\ current' \in [Workers -> Recs \cup {NULL}] /\ wpc' \in [Workers -> WorkerPc]
      /\ \A q \in Recs : InQueue(q)' <=> InQueue(q)
      /\ \A q \in Recs : q # c => (AtWork(q)' <=> AtWork(q)) /\ (Busy(q)' <=> Busy(q))
      /\ from \notin {"peer", "mod"} => AtWork(c) /\ Busy(c) /\ ~InQueue(c) /\ ~AtWork(c)' /\ ~Busy(c)'
      /\ from \in {"peer", "mod"} => (AtWork(c)' <=> AtWork(c)) /\ (Busy(c)' <=> Busy(c))
  BY <1>2, Returned
<1>5. \A q \in Recs : (AtWork(q)' => AtWork(q)) /\ (Busy(q)' => Busy(q)) /\ (Watched(q)' <=> Watched(q))
                      /\ (fault' = "none" => (AtWork(q)' <=> AtWork(q)))
  BY <1>3, <1>4 DEF Watched
<1>6. TypeOK'
  BY <1>1, <1>3, <1>4 DEF TypeOK, MemoryTypes, SocketTypes, ThreadTypes
<1>7. ThreadInv' /\ BatchInv'
  BY <1>3, <1>5, ReturnThreads
<1>8. WatchMatches' /\ PeersAgree'
  BY <1>1, <1>3 DEF WatchMatches, PeersAgree
<1>9. BusyInv'
  <2>1. \A u \in Workers : ~LetsGo(u)' => ~LetsGo(u) /\ u # w
    BY <1>4 DEF LetsGo
  <2>2. \A u, v \in Workers : ~LetsGo(u)' /\ ~LetsGo(v)' /\ current'[u] = current'[v] => u = v
    BY <1>1, <1>4, <2>1 DEF BusyInv
  <2> QED  BY <1>1, <1>3, <1>4, <1>5, <2>2 DEF BusyInv
<1>10. PeerInv'
  <2> SUFFICES ASSUME fault' = "none", NEW q \in alloc, rec[q].peer # NULL
               PROVE  /\ Watched(q)' \/ AtWork(q)'
                      /\ AtWork(q)' => /\ Watched(rec[q].peer)'
                                       /\ \A v \in Workers : current'[v] = rec[q].peer => v \in stale'
    BY <1>3 DEF PeerInv, Watched
  <2>1. q \in Recs /\ rec[q].peer \in Recs
    BY <1>1 DEF PeersAgree, TypeOK, MemoryTypes
  <2>2. /\ Watched(q) \/ AtWork(q)
        /\ AtWork(q) => /\ Watched(rec[q].peer)
                        /\ \A v \in Workers : current[v] = rec[q].peer => v \in stale
    BY <1>1, fault = "none" DEF PeerInv
  <2>3. Watched(rec[q].peer)' <=> Watched(rec[q].peer)
    BY <1>3 DEF Watched
  <2>4. \A v \in Workers : current'[v] = rec[q].peer => v # w /\ current[v] = rec[q].peer
    BY <1>4, <2>1, Constants
  <2> QED  BY <1>5, <2>1, <2>2, <2>3, <2>4
<1>11. LifeInv'
  BY <1>1, <1>3, <1>4 DEF LifeInv
<1>12. NoEdgeLost'
  <2>1. \A f \in Fds : Readable(f)' <=> Readable(f)
    BY <1>3 DEF Readable
  <2> QED  BY <1>1, <1>3, <2>1 DEF NoEdgeLost
<1> QED  BY <1>6, <1>7, <1>8, <1>9, <1>10, <1>11, <1>12 DEF IInv

(* The records of a proxied connection have descriptors that no other record *)
(* in use has.                                                               *)
LEMMA PeersApart ==
  ASSUME IInv, fault = "none", NEW q \in alloc, rec[q].peer # NULL
  PROVE  /\ q \in Recs /\ rec[q].peer \in alloc /\ rec[q].peer \in Recs /\ rec[rec[q].peer].peer = q
         /\ Watched(q) \/ AtWork(q)
         /\ Watched(rec[q].peer) \/ AtWork(rec[q].peer)
         /\ AtWork(q) => Watched(rec[q].peer) /\ \A v \in Workers : current[v] = rec[q].peer => v \in stale
         /\ rec[q].state = "PROXYING" /\ rec[rec[q].peer].state = "PROXYING"
         /\ {rec[q].fd, rec[rec[q].peer].fd} \subseteq open
<1>1. /\ q \in Recs /\ q # NULL
      /\ rec[q].peer \in alloc /\ rec[q].peer \in Recs /\ rec[rec[q].peer].peer = q
      /\ rec[q].state = "PROXYING" /\ rec[rec[q].peer].state = "PROXYING"
      /\ {rec[q].fd, rec[rec[q].peer].fd} \subseteq open
  BY Constants DEF IInv, TypeOK, MemoryTypes, PeersAgree
<1> QED  BY <1>1, fault = "none" DEF IInv, PeerInv

(* A worker closes the descriptor of its request and forgets the record.     *)
LEMMA AbandonKept ==
  ASSUME IInv, fault = "none", NEW w \in Workers, NEW from \in WorkerPc \ {"pop", "peer", "mod"},
         Return(w, from), Abandon(w), rec[current[w]].peer = NULL,
         UNCHANGED <<main, fault>>
  PROVE  IInv'
<1>1. TypeOK /\ ThreadInv /\ WatchMatches /\ EdgeWatched /\ BatchInv /\ BusyInv /\ PeersAgree /\ PeerInv
      /\ LifeInv /\ NoEdgeLost
  BY DEF IInv
<1>2. PICK c : c = current[w]
  OBVIOUS
<1>3. PICK f : f = rec[c].fd
  OBVIOUS
<1>4. /\ open' = open \ {f} /\ input' = [g \in Fds |-> IF g \in {f} THEN <<>> ELSE input[g]]
      /\ orphans' = orphans \ {f} /\ fin' = fin \ {f}
      /\ alloc' = alloc \ {r \in {c} : r # cur /\ \A v \in Workers \ {w} : current[v] # r}
      /\ UNCHANGED <<rec, watch, edge, stale, batch, mpc, cur, fault>>
  BY <1>2, <1>3 DEF Abandon, CloseFds, Client, Leaked, epoll, main
<1>5. /\ wpc[w] = from /\ c \in Recs /\ pending' = pending
      /\ current'[w] = NULL /\ wpc'[w] = "pop"
      /\ \A v \in Workers : v # w => current'[v] = current[v] /\ wpc'[v] = wpc[v]
      /\ current' \in [Workers -> Recs \cup {NULL}] /\ wpc' \in [Workers -> WorkerPc]
      /\ \A q \in Recs : InQueue(q)' <=> InQueue(q)
      /\ \A q \in Recs : q # c => (AtWork(q)' <=> AtWork(q)) /\ (Busy(q)' <=> Busy(q))
      /\ AtWork(c) /\ Busy(c) /\ ~InQueue(c) /\ ~AtWork(c)' /\ ~Busy(c)'
  BY <1>2, Returned
<1>6. /\ f \in open /\ f \in Fds /\ watch[f] = NULL /\ f \notin edge
      /\ \A q \in Recs : q # c /\ Busy(q) => rec[q].fd # f
      /\ \A q \in Recs : Watched(q) => q # c /\ rec[q].fd # f
      /\ w \notin stale /\ rec[c].peer = NULL
  BY <1>1, <1>2, <1>3, <1>5, Constants
    DEF BusyInv, TypeOK, SocketTypes, EdgeWatched, ThreadInv, Watched
<1>7. \A q \in Recs : /\ (AtWork(q)' => AtWork(q)) /\ (Busy(q)' => Busy(q) /\ q # c)
                      /\ (Watched(q)' <=> Watched(q))
  BY <1>4, <1>5 DEF Watched
<1>8. TypeOK'
  <2>1. input' \in [Fds -> Seq(Chunks)] /\ \A g \in Fds : Len(input'[g]) <= MaxInput
    BY <1>1, <1>4, Constants, EmptySeq DEF TypeOK, SocketTypes
  <2> QED  BY <1>1, <1>4, <1>5, <1>6, <2>1 DEF TypeOK, MemoryTypes, SocketTypes, ThreadTypes
<1>9. ThreadInv' /\ BatchInv'
  <2>1. UNCHANGED main /\ stale' = stale \ {w}
    BY <1>4, <1>6
  <2> QED  BY <1>4, <1>7, <2>1, ReturnThreads
<1>10. WatchMatches' /\ EdgeWatched'
  BY <1>1, <1>4, <1>5, <1>6 DEF WatchMatches, EdgeWatched, BusyInv
<1>11. BusyInv'
  <2>1. \A q \in Recs : Busy(q)' => q \in alloc' /\ rec'[q].fd \in open' /\ watch'[rec'[q].fd] = NULL
    BY <1>1, <1>4, <1>6, <1>7 DEF BusyInv
  <2>2. \A u \in Workers : ~LetsGo(u)' => ~LetsGo(u) /\ u # w
    BY <1>5 DEF LetsGo
  <2>3. \A u, v \in Workers : ~LetsGo(u)' /\ ~LetsGo(v)' /\ current'[u] = current'[v] => u = v
    BY <1>1, <1>5, <2>2 DEF BusyInv
  <2> QED  BY <1>1, <1>4, <1>5, <1>7, <2>1, <2>3 DEF BusyInv
<1>12. ASSUME NEW q \in alloc', rec'[q].peer # NULL
       PROVE  /\ rec'[q].peer \in alloc' /\ rec'[rec'[q].peer].peer = q
              /\ {rec'[q].fd, rec'[rec'[q].peer].fd} \subseteq open'
              /\ rec'[q].state = "PROXYING" /\ rec'[rec'[q].peer].state = "PROXYING"
              /\ Watched(q)' \/ AtWork(q)'
              /\ AtWork(q)' => /\ Watched(rec[q].peer)'
                               /\ \A v \in Workers : current'[v] = rec[q].peer => v \in stale'
  <2>1. q \in alloc /\ q # c /\ rec[q].peer # NULL
    BY <1>4, <1>6, <1>12
  <2>2. PICK s : s = rec[q].peer
    OBVIOUS
  <2>3. /\ q \in Recs /\ s \in alloc /\ s \in Recs /\ rec[s].peer = q
        /\ Watched(q) \/ AtWork(q)
        /\ Watched(s) \/ AtWork(s)
        /\ AtWork(q) => Watched(s) /\ \A v \in Workers : current[v] = s => v \in stale
        /\ rec[q].state = "PROXYING" /\ rec[s].state = "PROXYING"
        /\ {rec[q].fd, rec[s].fd} \subseteq open
    BY <2>1, <2>2, PeersApart, fault = "none"
  <2>4. s # c /\ s # NULL
    BY <1>6, <2>3, Constants
  <2>5. s \in alloc' /\ rec[q].fd # f /\ rec[s].fd # f
    BY <1>4, <1>6, <2>1, <2>3, <2>4 DEF Busy
  <2>6. Watched(s)' <=> Watched(s)
    BY <1>7, <2>3
  <2>7. \A v \in Workers : current'[v] = s => current[v] = s
    BY <1>5, <2>4
  <2>8. rec'[q].peer = s /\ rec[q].peer = s
    BY <1>4, <2>2
  <2>9. /\ Watched(q)' \/ AtWork(q)'
        /\ AtWork(q)' => Watched(s)' /\ \A v \in Workers : current'[v] = s => v \in stale'
    BY <1>4, <1>5, <1>7, <2>1, <2>3, <2>6, <2>7
  <2>10. Watched(s)' => Watched(rec[q].peer)'
    BY <1>4, <2>8 DEF Watched
  <2> QED  BY <1>4, <2>3, <2>5, <2>8, <2>9, <2>10
<1>13. PeersAgree'
  BY <1>12 DEF PeersAgree
<1>14. PeerInv'
  <2>1. \A q \in Recs : rec'[q].peer = rec[q].peer
    BY <1>4
  <2>2. alloc' \subseteq Recs
    BY <1>8 DEF TypeOK, MemoryTypes
  <2> QED  BY <1>12, <2>1, <2>2 DEF PeerInv
<1>15. LifeInv'
  BY <1>1, <1>4, <1>5, <1>6 DEF LifeInv
<1>16. NoEdgeLost'
  <2>1. \A g \in Fds : Readable(g)' => Readable(g)
    BY <1>4 DEF Readable
  <2> QED  BY <1>1, <1>4, <2>1 DEF NoEdgeLost
<1> QED  BY <1>8, <1>9, <1>10, <1>11, <1>13, <1>14, <1>15, <1>16 DEF IInv

(* A worker puts its connection back into the epoll set.                     *)
LEMMA BackKept ==
  ASSUME IInv, fault = "none", NEW w \in Workers, ~LetsGo(w), NEW c \in Recs, c = current[w],
         Watch(rec[c].fd, c),
         UNCHANGED <<alloc, sockets, main, pending, orphans, stale, fault>>,
         rec' \in [Recs -> Records],
         \A q \in Recs : rec'[q].fd = rec[q].fd /\ rec'[q].state = rec[q].state /\ rec'[q].peer = rec[q].peer
                         /\ (q # c => rec'[q].bytes = rec[q].bytes),
         wpc' \in [Workers -> WorkerPc], current' \in [Workers -> Recs \cup {NULL}],
         \A v \in Workers : v # w => current'[v] = current[v] /\ wpc'[v] = wpc[v],
         \/ current'[w] = NULL /\ wpc'[w] = "pop"
         \/ current'[w] = c /\ wpc'[w] = "peer"
  PROVE  IInv'
<1>1. TypeOK /\ ThreadInv /\ WatchMatches /\ EdgeWatched /\ BatchInv /\ BusyInv /\ PeersAgree /\ PeerInv
      /\ LifeInv /\ NoEdgeLost
  BY DEF IInv
<1>2. PICK f : f = rec[c].fd
  OBVIOUS
<1>3. UNCHANGED <<alloc, open, input, fin, batch, mpc, cur, pending, orphans, stale, fault>>
  BY DEF sockets, main
<1>4. AtWork(c) /\ Busy(c) /\ ~InQueue(c) /\ w \notin stale /\ c \in alloc /\ c # NULL
  <2>1. AtWork(c)
    BY DEF AtWork
  <2> QED  BY <1>1, <2>1, Constants DEF Busy, BusyInv, ThreadInv, LetsGo
<1>5. /\ f \in open /\ f \in Fds /\ watch[f] = NULL
      /\ \A q \in Recs : q # c /\ Busy(q) => rec[q].fd # f
      /\ \A q \in Recs : Watched(q) => q # c /\ rec[q].fd # f
      /\ \A g \in Fds : watch[g] # c
      /\ c \notin batch /\ (Handling => cur # c)
  BY <1>1, <1>2, <1>4, Constants
    DEF BusyInv, BatchInv, TypeOK, SocketTypes, WatchMatches, Watched
<1>6. /\ watch' \in [Fds -> Recs \cup {NULL}]
      /\ watch'[f] = c /\ \A g \in Fds : g # f => watch'[g] = watch[g]
      /\ edge \subseteq edge' /\ edge' \subseteq edge \cup {f}
      /\ Readable(f) => f \in edge'
      /\ EdgeWatched'
  BY <1>1, <1>2, <1>5, Rewatched DEF TypeOK
<1>7. \A v \in Workers : ~LetsGo(v)' => ~LetsGo(v) /\ v # w
  BY DEF LetsGo
<1>8. \A v \in Workers : ~LetsGo(v) /\ current[v] = c => v = w
  BY <1>1 DEF BusyInv
<1>9. ASSUME NEW q \in Recs
      PROVE  /\ InQueue(q)' <=> InQueue(q)
             /\ AtWork(q)' <=> AtWork(q) /\ q # c
             /\ Busy(q)' <=> Busy(q) /\ q # c
             /\ Watched(q)' <=> Watched(q) \/ q = c
  <2>1. InQueue(q)' <=> InQueue(q)
    BY <1>3 DEF InQueue
  <2>2. AtWork(q)' => AtWork(q) /\ q # c
    BY <1>7, <1>8 DEF AtWork
  <2>3. AtWork(q) /\ q # c => AtWork(q)'
    BY DEF AtWork, LetsGo
  <2>4. Watched(q)' <=> Watched(q) \/ q = c
    BY <1>2, <1>5, <1>6 DEF Watched
  <2>5. Busy(q)' <=> Busy(q) /\ q # c
    BY <1>4, <2>1, <2>2, <2>3 DEF Busy
  <2> QED  BY <2>1, <2>2, <2>3, <2>4, <2>5
<1>10. TypeOK'
  BY <1>1, <1>3, <1>5, <1>6 DEF TypeOK, MemoryTypes, SocketTypes, ThreadTypes
<1>11. ThreadInv' /\ BatchInv'
  <2>1. stale \subseteq Workers /\ (mpc # "next" => cur \in Recs)
    BY <1>1 DEF TypeOK, ThreadTypes, ThreadInv
  <2>2. ThreadInv'
    BY <1>1, <1>3, <1>4, <2>1 DEF ThreadInv
  <2>3. BatchInv'
    BY <1>1, <1>3, <1>9 DEF BatchInv, Handling
  <2> QED  BY <2>2, <2>3
<1>12. WatchMatches'
  BY <1>1, <1>2, <1>3, <1>4, <1>5, <1>6 DEF WatchMatches, TypeOK, SocketTypes
<1>13. BusyInv'
  <2>1. \A q \in Recs : Busy(q)' => q \in alloc' /\ rec'[q].fd \in open' /\ watch'[rec'[q].fd] = NULL
    BY <1>1, <1>3, <1>5, <1>6, <1>9 DEF BusyInv, TypeOK, SocketTypes
  <2>2. \A u, v \in Workers : ~LetsGo(u)' /\ ~LetsGo(v)' /\ current'[u] = current'[v] => u = v
    BY <1>1, <1>7 DEF BusyInv
  <2>3. \A q, s \in Recs : Busy(q)' /\ Busy(s)' /\ rec'[q].fd = rec'[s].fd => q = s
    BY <1>1, <1>9 DEF BusyInv
  <2>4. \A q \in Recs : InQueue(q)' => rec'[q].state = "READ_REQUEST"
    BY <1>1, <1>9 DEF BusyInv
  <2>5. ASSUME NEW v \in Workers, wpc'[v] \in {"work", "rearm", "connect"}
        PROVE  rec'[current'[v]].state = "READ_REQUEST"
    <3>1. v # w /\ wpc'[v] = wpc[v] /\ current'[v] = current[v]
      BY <2>5
    <3>2. current[v] \in Recs
      BY <1>1, <2>5, <3>1 DEF ThreadInv, TypeOK, ThreadTypes
    <3> QED  BY <1>1, <2>5, <3>1, <3>2 DEF BusyInv
  <2> QED  BY <1>1, <1>3, <1>9, <2>1, <2>2, <2>3, <2>4, <2>5 DEF BusyInv
<1>14. PeersAgree'
  <2>1. alloc \subseteq Recs /\ \A q \in alloc : rec[q].peer # NULL => rec[q].peer \in Recs
    BY <1>1 DEF TypeOK, MemoryTypes, PeersAgree
  <2> QED  BY <1>1, <1>3, <2>1 DEF PeersAgree
<1>15. PeerInv'
  <2> SUFFICES ASSUME NEW q \in alloc, rec[q].peer # NULL
               PROVE  /\ Watched(q)' \/ AtWork(q)'
                      /\ AtWork(q)' => /\ Watched(rec[q].peer)'
                                       /\ \A v \in Workers : current'[v] = rec'[q].peer => v \in stale
    <3>1. \A q \in alloc : q \in Recs /\ rec'[q].peer = rec[q].peer
      BY <1>1 DEF TypeOK, MemoryTypes
    <3> QED  BY <1>3, <3>1 DEF PeerInv, Watched
  <2>1. PICK s : s = rec[q].peer
    OBVIOUS
  <2>2. /\ q \in Recs /\ s \in alloc /\ s \in Recs /\ rec[s].peer = q
        /\ Watched(q) \/ AtWork(q)
        /\ AtWork(q) => Watched(s) /\ \A v \in Workers : current[v] = s => v \in stale
    BY <2>1, PeersApart, fault = "none"
  <2>3. rec'[q].peer = s
    BY <2>1, <2>2
  <2>4. AtWork(q) => \A v \in Workers : current'[v] = s => v \in stale
    BY <2>2, <1>4, Constants
  <2>5. /\ Watched(q)' \/ AtWork(q)'
        /\ AtWork(q)' => Watched(s)' /\ \A v \in Workers : current'[v] = s => v \in stale
    BY <1>9, <2>2, <2>4
  <2>6. Watched(s)' => Watched(rec[q].peer)'
    BY <2>3 DEF Watched
  <2> QED  BY <2>3, <2>5, <2>6
<1>16. LifeInv'
  BY <1>1, <1>3, <1>4 DEF LifeInv
<1>17. NoEdgeLost'
  <2>1. \A g \in Fds : Readable(g)' <=> Readable(g)
    BY <1>3 DEF Readable
  <2> SUFFICES ASSUME NEW g \in Fds, watch'[g] # NULL, rec'[watch'[g]].state = "READ_REQUEST", Readable(g)
               PROVE  \/ g \in edge' \/ watch'[g] \in batch
                      \/ cur = watch'[g] /\ (mpc = "recv" \/ rec'[watch'[g]].bytes = Cap)
    BY <1>3, <2>1 DEF NoEdgeLost
  <2>2. CASE g = f
    BY <1>6, <2>2
  <2>3. CASE g # f
    <3>1. watch'[g] = watch[g] /\ watch[g] \in Recs /\ watch[g] # c
      BY <1>1, <1>5, <1>6, <2>3 DEF TypeOK, SocketTypes
    <3> QED  BY <1>1, <1>6, <3>1 DEF NoEdgeLost
  <2> QED  BY <2>2, <2>3
<1> QED  BY <1>6, <1>10, <1>11, <1>12, <1>13, <1>14, <1>15, <1>16, <1>17 DEF IInv

(* A worker connects its request to an upstream server: the new record is    *)
(* with epoll at once.                                                       *)
LEMMA ConnectedKept ==
  ASSUME IInv, fault = "none", NEW w \in Workers, NEW u \in Fds, NEW r \in Recs, Connected(w, u, r)
  PROVE  IInv'
<1>1. TypeOK /\ ThreadInv /\ WatchMatches /\ EdgeWatched /\ BatchInv /\ BusyInv /\ PeersAgree /\ PeerInv
      /\ LifeInv /\ NoEdgeLost
  BY DEF IInv
<1>2. PICK c : c = current[w]
  OBVIOUS
<1>3. /\ wpc[w] = "connect" /\ wpc' = [wpc EXCEPT ![w] = "test"]
      /\ u \notin open /\ r \notin alloc /\ open' = open \cup {u} /\ alloc' = alloc \cup {r}
      /\ rec' = [rec EXCEPT ![c].state = "PROXYING", ![c].peer = r,
                            ![r] = [NewRecord(u) EXCEPT !.state = "PROXYING", !.peer = c]]
      /\ UNCHANGED <<input, fin, batch, mpc, cur, pending, current, orphans, stale, fault>>
  BY <1>2 DEF Connected, WorkerGoto, Client, main, handoff, flaws, lost
<1>4. /\ wpc'[w] = "test" /\ wpc' \in [Workers -> WorkerPc]
      /\ \A v \in Workers : v # w => wpc'[v] = wpc[v]
  BY <1>1, <1>3 DEF TypeOK, ThreadTypes, WorkerPc
<1>5. /\ watch' \in [Fds -> Recs \cup {NULL}]
      /\ watch'[u] = r /\ \A g \in Fds : g # u => watch'[g] = watch[g]
      /\ edge \subseteq edge' /\ edge' \subseteq edge \cup {u}
      /\ EdgeWatched'
  BY <1>1, Rewatched DEF Connected, TypeOK
<1>6. /\ ~Busy(r) /\ ~InQueue(r) /\ ~AtWork(r) /\ ~Watched(r) /\ r \notin batch
      /\ Handling => cur # r
      /\ \A g \in Fds : watch[g] # r
      /\ \A q \in alloc : rec[q].peer # r
      /\ \A v \in Workers : current[v] = r => v \in stale
  BY <1>3, Unallocated
<1>7. /\ watch[u] = NULL /\ u \notin edge
      /\ \A q \in Recs : Busy(q) \/ Watched(q) => rec[q].fd # u
      /\ \A q \in alloc : rec[q].peer # NULL => rec[q].fd # u
  BY <1>3, Unopened
<1>8. /\ c \in Recs /\ c # NULL /\ r # NULL /\ AtWork(c) /\ Busy(c) /\ ~InQueue(c) /\ c \in alloc /\ c # r
      /\ rec[c].state = "READ_REQUEST" /\ rec[c].peer = NULL /\ rec[c].fd \in open /\ watch[rec[c].fd] = NULL
      /\ ~LetsGo(w) /\ w \notin stale
      /\ \A v \in Workers : ~LetsGo(v) /\ current[v] = c => v = w
  <2>1. c \in Recs
    BY <1>1, <1>2, <1>3 DEF ThreadInv, TypeOK, ThreadTypes
  <2>2. AtWork(c) /\ Busy(c) /\ ~LetsGo(w)
    BY <1>2, <1>3 DEF AtWork, LetsGo, Busy
  <2>3. /\ c \in alloc /\ rec[c].state = "READ_REQUEST" /\ rec[c].fd \in open /\ watch[rec[c].fd] = NULL
        /\ ~InQueue(c) /\ \A v \in Workers : ~LetsGo(v) /\ current[v] = c => v = w
    BY <1>1, <1>2, <1>3, <2>1, <2>2 DEF BusyInv
  <2>4. rec[c].peer = NULL
    BY <1>1, <2>3 DEF PeersAgree
  <2>5. w \notin stale
    BY <1>1, <1>3 DEF ThreadInv
  <2> QED  BY <1>3, <2>1, <2>2, <2>3, <2>4, <2>5, Constants
<1>9. /\ rec' \in [Recs -> Records]
      /\ rec'[c].state = "PROXYING" /\ rec'[c].peer = r /\ rec'[c].fd = rec[c].fd
      /\ rec'[r].state = "PROXYING" /\ rec'[r].peer = c /\ rec'[r].fd = u
      /\ \A q \in Recs : q # c /\ q # r => rec'[q] = rec[q]
  <2>1. rec \in [Recs -> Records] /\ rec[c] \in Records
    BY <1>1, <1>8 DEF TypeOK, MemoryTypes
  <2>2. rec' = [rec EXCEPT ![c] = [rec[c] EXCEPT !.state = "PROXYING", !.peer = r],
                           ![r] = [NewRecord(u) EXCEPT !.state = "PROXYING", !.peer = c]]
    BY <1>3, <1>8, <2>1
  <2>3. /\ [rec[c] EXCEPT !.state = "PROXYING", !.peer = r] \in Records
        /\ [NewRecord(u) EXCEPT !.state = "PROXYING", !.peer = c] \in Records
        /\ NewRecord(u) \in Records
    BY <1>1, <1>8, RecordsMade
  <2>4. /\ rec'[c] = [rec[c] EXCEPT !.state = "PROXYING", !.peer = r]
        /\ rec'[r] = [NewRecord(u) EXCEPT !.state = "PROXYING", !.peer = c]
        /\ \A q \in Recs : q # c /\ q # r => rec'[q] = rec[q]
    BY <1>8, <2>1, <2>2
  <2>5. rec' \in [Recs -> Records]
    BY <1>8, <2>1, <2>2, <2>3
  <2>6. rec'[c].state = "PROXYING" /\ rec'[c].peer = r /\ rec'[c].fd = rec[c].fd
    BY <2>1, <2>4 DEF Records
  <2>7. rec'[r].state = "PROXYING" /\ rec'[r].peer = c /\ rec'[r].fd = u
    BY <2>3, <2>4 DEF Records, NewRecord
  <2> QED  BY <2>4, <2>5, <2>6, <2>7
<1>10. \A v \in Workers : LetsGo(v)' <=> LetsGo(v)
  BY <1>3, <1>4 DEF LetsGo
<1>11. ASSUME NEW q \in Recs
       PROVE  /\ InQueue(q)' <=> InQueue(q)
              /\ AtWork(q)' <=> AtWork(q)
              /\ Busy(q)' <=> Busy(q)
              /\ Watched(q)' <=> Watched(q) \/ q = r
              /\ Busy(q) => q # r /\ rec[q].fd # u /\ rec'[q].fd = rec[q].fd
  <2>1. (InQueue(q)' <=> InQueue(q)) /\ (AtWork(q)' <=> AtWork(q)) /\ (Busy(q)' <=> Busy(q))
    BY <1>3, <1>10 DEF InQueue, AtWork, Busy
  <2>2. Watched(q)' <=> Watched(q) \/ q = r
    <3>1. CASE q = r
      BY <1>5, <1>9, <3>1 DEF Watched
    <3>2. CASE q # r
      <4>1. rec'[q].fd = rec[q].fd
        BY <1>9, <3>2
      <4> QED  BY <1>5, <1>7, <3>2, <4>1, Constants DEF Watched
    <3> QED  BY <3>1, <3>2
  <2>3. Busy(q) => q # r /\ rec[q].fd # u /\ rec'[q].fd = rec[q].fd
    BY <1>6, <1>7, <1>9
  <2> QED  BY <2>1, <2>2, <2>3
<1>12. TypeOK'
  <2>1. MemoryTypes' /\ ThreadTypes'
    BY <1>1, <1>3, <1>4, <1>9 DEF TypeOK, MemoryTypes, ThreadTypes
  <2>2. SocketTypes'
    BY <1>1, <1>3, <1>5 DEF TypeOK, SocketTypes
  <2> QED  BY <2>1, <2>2 DEF TypeOK
<1>13. ThreadInv'
  <2>1. Handling => cur \in Recs /\ rec'[cur] = rec[cur]
    <3>1. ASSUME Handling PROVE cur \in Recs /\ cur # c /\ cur # r
      BY <1>6, <1>8, <3>1, Handled
    <3> QED  BY <1>9, <3>1
  <2>2. stale \subseteq Workers
    BY <1>1 DEF TypeOK, ThreadTypes
  <2> QED  BY <1>1, <1>3, <1>4, <1>8, <2>1, <2>2 DEF ThreadInv, Handling
<1>14. LifeInv' /\ BatchInv'
  BY <1>1, <1>3, <1>11 DEF LifeInv, BatchInv, Handling
<1>15. WatchMatches'
  <2> SUFFICES ASSUME NEW g \in Fds, watch'[g] # NULL
               PROVE  g \in open' /\ watch'[g] \in alloc' /\ rec'[watch'[g]].fd = g
    BY DEF WatchMatches
  <2>1. CASE g = u
    BY <1>3, <1>5, <1>9, <2>1
  <2>2. CASE g # u
    <3>1. g \in open /\ watch[g] \in alloc /\ rec[watch[g]].fd = g /\ watch'[g] = watch[g] /\ watch[g] \in Recs
      BY <1>1, <1>5, <2>2 DEF WatchMatches, TypeOK, MemoryTypes
    <3>2. rec'[watch[g]].fd = rec[watch[g]].fd
      BY <1>6, <1>9, <3>1
    <3> QED  BY <1>3, <3>1, <3>2
  <2> QED  BY <2>1, <2>2
<1>16. BusyInv'
  <2>1. \A q \in Recs : Busy(q)' => q \in alloc' /\ rec'[q].fd \in open' /\ watch'[rec'[q].fd] = NULL
    <3>1. ASSUME NEW q \in Recs, Busy(q)' PROVE q \in alloc' /\ rec'[q].fd \in open' /\ watch'[rec'[q].fd] = NULL
      <4>1. Busy(q) /\ rec'[q].fd = rec[q].fd /\ rec[q].fd # u
        BY <1>11, <3>1
      <4>2. q \in alloc /\ rec[q].fd \in open /\ watch[rec[q].fd] = NULL /\ open \subseteq Fds
        BY <1>1, <4>1 DEF BusyInv, TypeOK, SocketTypes
      <4> QED  BY <1>3, <1>5, <4>1, <4>2
    <3> QED  BY <3>1
  <2>2. \A q, s \in Recs : Busy(q)' /\ Busy(s)' /\ rec'[q].fd = rec'[s].fd => q = s
    BY <1>1, <1>11 DEF BusyInv
  <2>3. \A q \in Recs : AtWork(q)' => ~InQueue(q)'
    BY <1>1, <1>11 DEF BusyInv
  <2>4. \A q \in Recs : InQueue(q)' => rec'[q].state = "READ_REQUEST"
    BY <1>1, <1>6, <1>8, <1>9, <1>11 DEF BusyInv
  <2>5. ASSUME NEW v \in Workers, wpc'[v] \in {"work", "rearm", "connect"}
        PROVE  rec'[current[v]].state = "READ_REQUEST"
    <3>1. v # w /\ wpc'[v] = wpc[v]
      BY <1>4, <2>5
    <3>2. current[v] \in Recs /\ ~LetsGo(v) /\ rec[current[v]].state = "READ_REQUEST"
      BY <1>1, <2>5, <3>1 DEF ThreadInv, TypeOK, ThreadTypes, LetsGo, BusyInv
    <3>3. current[v] # c /\ AtWork(current[v])
      BY <1>8, <3>1, <3>2 DEF AtWork
    <3> QED  BY <1>6, <1>9, <3>2, <3>3
  <2>6. \A x, v \in Workers : ~LetsGo(x)' /\ ~LetsGo(v)' /\ current'[x] = current'[v] => x = v
    BY <1>1, <1>3, <1>10 DEF BusyInv
  <2> QED  BY <1>1, <1>3, <2>1, <2>2, <2>3, <2>4, <2>5, <2>6 DEF BusyInv
<1>17. ASSUME NEW q \in alloc', rec'[q].peer # NULL
       PROVE  /\ rec'[q].peer \in alloc' /\ rec'[rec'[q].peer].peer = q
              /\ {rec'[q].fd, rec'[rec'[q].peer].fd} \subseteq open'
              /\ rec'[q].state = "PROXYING" /\ rec'[rec'[q].peer].state = "PROXYING"
              /\ Watched(q)' \/ AtWork(q)'
              /\ AtWork(q)' => \A p \in Recs : p = rec'[q].peer =>
                               /\ Watched(p)'
                               /\ \A v \in Workers : current'[v] = p => v \in stale'
  <2>1. CASE q = r
    BY <1>3, <1>6, <1>8, <1>9, <1>11, <2>1
  <2>2. CASE q = c
    BY <1>3, <1>6, <1>8, <1>9, <1>11, <2>2
  <2>3. CASE q # c /\ q # r
    <3>1. PICK s : s = rec[q].peer
      OBVIOUS
    <3>2. q \in alloc /\ q \in Recs /\ rec'[q] = rec[q]
      BY <1>1, <1>3, <1>9, <2>3 DEF TypeOK, MemoryTypes
    <3>3. /\ s \in alloc /\ s \in Recs /\ rec[s].peer = q
          /\ Watched(q) \/ AtWork(q)
          /\ AtWork(q) => Watched(s) /\ \A v \in Workers : current[v] = s => v \in stale
          /\ rec[q].state = "PROXYING" /\ rec[s].state = "PROXYING"
          /\ {rec[q].fd, rec[s].fd} \subseteq open
      BY <1>17, <3>1, <3>2, PeersApart, fault = "none"
    <3>4. s # c /\ s # r /\ rec'[s] = rec[s]
      BY <1>3, <1>8, <1>9, <3>2, <3>3, Constants
    <3>5. rec'[q].peer = s /\ s \in alloc' /\ rec'[s].peer = q /\ rec'[q].state = "PROXYING"
          /\ rec'[s].state = "PROXYING" /\ {rec'[q].fd, rec'[s].fd} \subseteq open'
      BY <1>3, <3>1, <3>2, <3>3, <3>4
    <3>6. Watched(q)' \/ AtWork(q)'
      BY <1>11, <3>2, <3>3
    <3>7. AtWork(q)' => Watched(s)' /\ \A v \in Workers : current'[v] = s => v \in stale'
      BY <1>3, <1>11, <3>2, <3>3
    <3> QED  BY <3>5, <3>6, <3>7
  <2> QED  BY <2>1, <2>2, <2>3
<1>18. PeersAgree'
  BY <1>17 DEF PeersAgree
<1>19. PeerInv'
  <2>1. \A q \in Recs : rec'[q].peer # NULL => rec'[q].peer \in Recs
    BY <1>9 DEF Records
  <2>2. alloc' \subseteq Recs
    BY <1>12 DEF TypeOK, MemoryTypes
  <2>3. ASSUME NEW q \in alloc', rec'[q].peer # NULL, AtWork(q)', NEW p, p = rec'[q].peer
        PROVE  Watched(p)' /\ \A v \in Workers : current'[v] = p => v \in stale'
    BY <1>17, <2>1, <2>2, <2>3
  <2> QED  BY <1>17, <2>3 DEF PeerInv, Watched
<1>20. NoEdgeLost'
  <2>1. \A g \in Fds : Readable(g)' <=> Readable(g)
    BY <1>3 DEF Readable
  <2> SUFFICES ASSUME NEW g \in Fds, watch'[g] # NULL, rec'[watch'[g]].state = "READ_REQUEST", Readable(g)
               PROVE  \/ g \in edge' \/ watch'[g] \in batch
                      \/ cur = watch'[g] /\ (mpc = "recv" \/ rec'[watch'[g]].bytes = Cap)
    BY <1>3, <2>1 DEF NoEdgeLost
  <2>2. g # u
    BY <1>5, <1>9
  <2>3. watch'[g] = watch[g] /\ watch[g] \in Recs /\ watch[g] # c /\ watch[g] # r
    BY <1>1, <1>5, <1>6, <1>8, <2>2 DEF TypeOK, SocketTypes, WatchMatches
  <2> QED  BY <1>1, <1>5, <1>9, <2>3 DEF NoEdgeLost
<1> QED  BY <1>5, <1>12, <1>13, <1>14, <1>15, <1>16, <1>18, <1>19, <1>20 DEF IInv

(* A worker that cannot send the request upstream frees the upstream record, *)
(* and leaves the client behind.                                             *)
LEMMA SendFailedKept ==
  ASSUME IInv, fault = "none", NEW w \in Workers, SendFailed(w)
  PROVE  IInv'
<1>1. TypeOK /\ ThreadInv /\ WatchMatches /\ EdgeWatched /\ BatchInv /\ BusyInv /\ PeersAgree /\ PeerInv
      /\ LifeInv /\ NoEdgeLost
  BY DEF IInv
<1>2. PICK c : c = current[w]
  OBVIOUS
<1>3. PICK r : r = rec[c].peer
  OBVIOUS
<1>4. PICK f : f = rec[r].fd
  OBVIOUS
<1>5. Return(w, "failed") /\ r # NULL /\ UNCHANGED <<main, stale>> /\ "failed" \in WorkerPc \ {"pop"}
  BY <1>2, <1>3 DEF SendFailed, Client, WorkerPc
<1>6. /\ wpc[w] = "failed" /\ c \in Recs /\ pending' = pending
      /\ current'[w] = NULL /\ wpc'[w] = "pop"
      /\ \A v \in Workers : v # w => current'[v] = current[v] /\ wpc'[v] = wpc[v]
      /\ current' \in [Workers -> Recs \cup {NULL}] /\ wpc' \in [Workers -> WorkerPc]
      /\ \A q \in Recs : InQueue(q)' <=> InQueue(q)
      /\ \A q \in Recs : q # c => (AtWork(q)' <=> AtWork(q)) /\ (Busy(q)' <=> Busy(q))
      /\ AtWork(c) /\ Busy(c) /\ ~InQueue(c) /\ ~AtWork(c)' /\ ~Busy(c)'
  BY <1>2, <1>5, Returned
<1>7. w \notin stale
  BY <1>1, <1>6 DEF ThreadInv
<1>8. CASE r \in batch \/ (mpc = "relay" /\ cur = r)
  <2>1. fault' = "peer_freed" /\ UNCHANGED <<memory, sockets, epoll, orphans>>
    BY <1>2, <1>3, <1>8 DEF SendFailed, Client
  <2>2. UNCHANGED <<memory, sockets, watch, main, orphans>> /\ stale' = stale \ {w} /\ edge' = edge
    BY <1>5, <1>7, <2>1 DEF epoll
  <2>3. edge \subseteq edge' /\ edge' \subseteq open /\ EdgeWatched'
    BY <1>1, <2>2 DEF EdgeWatched, TypeOK, SocketTypes
  <2> QED  BY <1>5, <2>1, <2>2, <2>3, ReturnKept, fault = "none"
<1>9. CASE ~(r \in batch \/ (mpc = "relay" /\ cur = r))
  <2>1. /\ alloc' = alloc \ ({r} \cup {x \in {c} : x # cur /\ \A v \in Workers \ {w} : current[v] # x})
        /\ rec' = [rec EXCEPT ![c] = NewRecord(rec[c].fd)]
        /\ open' = open \ {f} /\ input' = [input EXCEPT ![f] = <<>>] /\ fin' = fin \ {f}
        /\ watch' = [watch EXCEPT ![f] = NULL] /\ edge' = edge \ {f}
        /\ orphans' = (orphans \ {f}) \cup {rec[c].fd}
        /\ UNCHANGED <<batch, mpc, cur, fault, stale>>
    BY <1>2, <1>3, <1>4, <1>9, <1>5 DEF SendFailed, Client, Leaked, Forget, Unwatch, main
  <2>2. /\ c \in alloc /\ rec[c].fd \in open /\ rec[c].fd \in Fds /\ watch[rec[c].fd] = NULL /\ c # NULL
        /\ \A q \in Recs : q # c /\ Busy(q) => rec[q].fd # rec[c].fd
    BY <1>1, <1>6, Constants DEF BusyInv, TypeOK, SocketTypes
  <2>3. /\ r \in alloc /\ r \in Recs /\ rec[r].peer = c /\ r # c
        /\ Watched(r) /\ \A v \in Workers : current[v] = r => v \in stale
        /\ rec[r].state = "PROXYING"
    <3>1. rec[c].peer # NULL /\ c \in alloc
      BY <1>3, <1>5, <2>2
    <3>2. /\ rec[c].peer \in alloc /\ rec[c].peer \in Recs /\ rec[rec[c].peer].peer = c
          /\ Watched(rec[c].peer) /\ \A v \in Workers : current[v] = rec[c].peer => v \in stale
          /\ rec[rec[c].peer].state = "PROXYING"
      BY <1>6, <3>1, PeersApart, fault = "none"
    <3>3. ~Watched(c)
      BY <2>2 DEF Watched
    <3> QED  BY <1>3, <3>2, <3>3
  <2>4. /\ f \in open /\ f \in Fds /\ watch[f] = r /\ r # NULL
        /\ \A g \in Fds : watch[g] = r => g = f
        /\ \A q \in Recs : q # r /\ Watched(q) => rec[q].fd # f
        /\ \A q \in Recs : Busy(q) => q # r /\ rec[q].fd # f
        /\ rec[c].fd # f
    BY <1>1, <1>4, <1>6, <2>3, WatchedIs, Constants DEF Watched
  <2>5. r \notin batch /\ ~(Handling /\ cur = r)
    BY <1>1, <1>9, <2>3 DEF Handling, ThreadInv
  <2>6. /\ rec' \in [Recs -> Records]
        /\ rec'[c].fd = rec[c].fd /\ rec'[c].state = "READ_REQUEST" /\ rec'[c].peer = NULL
        /\ \A q \in Recs : q # c => rec'[q] = rec[q]
    <3>1. rec \in [Recs -> Records] /\ NewRecord(rec[c].fd) \in Records
      BY <1>1, <2>2, RecordsMade DEF TypeOK, MemoryTypes
    <3>2. rec'[c] = NewRecord(rec[c].fd)
      BY <1>6, <2>1, <3>1
    <3>3. rec'[c].fd = rec[c].fd /\ rec'[c].state = "READ_REQUEST" /\ rec'[c].peer = NULL
      BY <3>2 DEF NewRecord
    <3>4. rec' \in [Recs -> Records] /\ \A q \in Recs : q # c => rec'[q] = rec[q]
      BY <2>1, <3>1
    <3> QED  BY <3>3, <3>4
  <2>7. \A q \in Recs : /\ (AtWork(q)' => AtWork(q) /\ q # c) /\ (Busy(q)' => Busy(q) /\ q # c)
                        /\ rec'[q].fd = rec[q].fd
                        /\ Watched(q)' <=> Watched(q) /\ q # r
    <3>1. \A q \in Recs : (AtWork(q)' => AtWork(q) /\ q # c) /\ (Busy(q)' => Busy(q) /\ q # c)
      BY <1>6
    <3>2. \A q \in Recs : rec'[q].fd = rec[q].fd
      BY <2>6
    <3>3. watch' \in [Fds -> Recs \cup {NULL}] /\ watch'[f] = NULL /\ \A g \in Fds : g # f => watch'[g] = watch[g]
      BY <1>1, <2>1, <2>4 DEF TypeOK, SocketTypes
    <3>4. ASSUME NEW q \in Recs PROVE Watched(q)' <=> Watched(q) /\ q # r
      <4>1. CASE q = r
        BY <1>4, <2>3, <2>4, <3>2, <3>3, <4>1 DEF Watched
      <4>2. CASE q # r /\ rec[q].fd = f
        BY <2>4, <3>2, <3>3, <4>2, Constants DEF Watched
      <4>3. CASE q # r /\ rec[q].fd # f
        BY <3>2, <3>3, <4>3 DEF Watched
      <4> QED  BY <4>1, <4>2, <4>3
    <3> QED  BY <3>1, <3>2, <3>4
  <2>8. TypeOK'
    <3>1. input' \in [Fds -> Seq(Chunks)] /\ \A g \in Fds : Len(input'[g]) <= MaxInput
      <4>1. <<>> \in Seq(Chunks) /\ Len(<<>>) <= MaxInput
        BY Constants, EmptySeq
      <4> QED  BY <1>1, <2>1, <4>1 DEF TypeOK, SocketTypes
    <3>2. SocketTypes'
      BY <1>1, <2>1, <2>2, <2>4, <3>1 DEF TypeOK, SocketTypes
    <3>3. MemoryTypes' /\ ThreadTypes'
      BY <1>1, <1>6, <2>1, <2>6 DEF TypeOK, MemoryTypes, ThreadTypes
    <3> QED  BY <3>2, <3>3 DEF TypeOK
  <2>9. ThreadInv' /\ BatchInv'
    <3>1. \A q \in Recs : Watched(q) /\ (q \in batch \/ (Handling /\ cur = q)) =>
             Watched(q)' /\ rec'[q].state = rec[q].state
      BY <2>2, <2>5, <2>6, <2>7 DEF Watched
    <3> QED  BY <1>5, <1>7, <3>1, ReturnThreads
  <2>10. WatchMatches' /\ EdgeWatched'
    <3>1. ASSUME NEW g \in Fds, watch'[g] # NULL
          PROVE  g \in open' /\ watch'[g] \in alloc' /\ rec'[watch'[g]].fd = g
      <4>1. g # f /\ watch'[g] = watch[g]
        BY <1>1, <2>1, <2>4, <3>1 DEF TypeOK, SocketTypes
      <4>2. watch[g] \in alloc /\ watch[g] \in Recs /\ rec[watch[g]].fd = g /\ g \in open
        BY <1>1, <3>1, <4>1 DEF WatchMatches, TypeOK, MemoryTypes
      <4>3. watch[g] # r /\ watch[g] # c
        BY <2>2, <2>4, <4>1, <4>2, <3>1
      <4> QED  BY <2>1, <2>6, <4>1, <4>2, <4>3
    <3> QED  BY <1>1, <2>1, <3>1 DEF WatchMatches, EdgeWatched, TypeOK, SocketTypes
  <2>11. BusyInv'
    <3>1. \A q \in Recs : Busy(q)' => q \in alloc' /\ rec'[q].fd \in open' /\ watch'[rec'[q].fd] = NULL
      <4>1. ASSUME NEW q \in Recs, Busy(q)' PROVE q \in alloc' /\ rec'[q].fd \in open' /\ watch'[rec'[q].fd] = NULL
        <5>1. Busy(q) /\ q # c /\ q # r /\ rec'[q].fd = rec[q].fd /\ rec[q].fd # f
          BY <2>4, <2>7, <4>1
        <5>2. q \in alloc /\ rec[q].fd \in open /\ watch[rec[q].fd] = NULL /\ open \subseteq Fds
          BY <1>1, <5>1 DEF BusyInv, TypeOK, SocketTypes
        <5>3. watch'[rec[q].fd] = watch[rec[q].fd]
          BY <1>1, <2>1, <5>1, <5>2 DEF TypeOK, SocketTypes
        <5> QED  BY <2>1, <5>1, <5>2, <5>3
      <4> QED  BY <4>1
    <3>2. \A u \in Workers : ~LetsGo(u)' => ~LetsGo(u) /\ u # w
      BY <1>6 DEF LetsGo
    <3>3. \A u, v \in Workers : ~LetsGo(u)' /\ ~LetsGo(v)' /\ current'[u] = current'[v] => u = v
      BY <1>1, <1>6, <3>2 DEF BusyInv
    <3>4. \A q, s \in Recs : Busy(q)' /\ Busy(s)' /\ rec'[q].fd = rec'[s].fd => q = s
      BY <1>1, <2>7 DEF BusyInv
    <3>5. \A q \in Recs : InQueue(q)' => rec'[q].state = "READ_REQUEST"
      BY <1>1, <1>6, <2>6 DEF BusyInv
    <3>6. ASSUME NEW v \in Workers, wpc'[v] \in {"work", "rearm", "connect"}
          PROVE  rec'[current'[v]].state = "READ_REQUEST"
      <4>1. v # w /\ wpc'[v] = wpc[v] /\ current'[v] = current[v]
        BY <1>6, <3>6
      <4>2. current[v] \in Recs
        BY <1>1, <3>6, <4>1 DEF ThreadInv, TypeOK, ThreadTypes
      <4> QED  BY <1>1, <2>6, <3>6, <4>1, <4>2 DEF BusyInv
    <3> QED  BY <1>1, <1>6, <2>7, <3>1, <3>3, <3>4, <3>5, <3>6 DEF BusyInv
  <2>12. ASSUME NEW q \in alloc', rec'[q].peer # NULL
         PROVE  /\ rec'[q].peer \in alloc' /\ rec'[rec'[q].peer].peer = q
                /\ {rec'[q].fd, rec'[rec'[q].peer].fd} \subseteq open'
                /\ rec'[q].state = "PROXYING" /\ rec'[rec'[q].peer].state = "PROXYING"
                /\ Watched(q)' \/ AtWork(q)'
                /\ AtWork(q)' => \A p \in Recs : p = rec'[q].peer =>
                                 /\ Watched(p)'
                                 /\ \A v \in Workers : current'[v] = p => v \in stale'
    <3>1. PICK s : s = rec[q].peer
      OBVIOUS
    <3>2. q \in alloc /\ q \in Recs /\ q # r /\ q # c /\ rec'[q] = rec[q]
      BY <1>1, <2>1, <2>6, <2>12 DEF TypeOK, MemoryTypes
    <3>3. /\ s \in alloc /\ s \in Recs /\ rec[s].peer = q
          /\ Watched(q) \/ AtWork(q)
          /\ Watched(s) \/ AtWork(s)
          /\ AtWork(q) => Watched(s) /\ \A v \in Workers : current[v] = s => v \in stale
          /\ rec[q].state = "PROXYING" /\ rec[s].state = "PROXYING"
          /\ {rec[q].fd, rec[s].fd} \subseteq open
      BY <2>12, <3>1, <3>2, PeersApart, fault = "none"
    <3>4. s # c /\ s # r /\ rec'[s] = rec[s] /\ s # NULL
      BY <1>3, <2>3, <2>6, <3>2, <3>3, Constants
    <3>5. rec[q].fd # f /\ rec[s].fd # f
      BY <2>4, <3>2, <3>3, <3>4 DEF Busy
    <3>6. rec'[q].peer = s /\ s \in alloc' /\ rec'[s].peer = q /\ rec'[q].state = "PROXYING"
          /\ rec'[s].state = "PROXYING" /\ {rec'[q].fd, rec'[s].fd} \subseteq open'
      BY <2>1, <3>1, <3>2, <3>3, <3>4, <3>5
    <3>7. Watched(q)' \/ AtWork(q)'
      BY <1>6, <2>7, <3>2, <3>3
    <3>8. AtWork(q)' => Watched(s)' /\ \A v \in Workers : current'[v] = s => v \in stale'
      BY <1>6, <2>1, <2>7, <3>2, <3>3, <3>4
    <3> QED  BY <3>6, <3>7, <3>8
  <2>13. PeersAgree'
    BY <2>12 DEF PeersAgree
  <2>14. PeerInv'
    <3>1. \A q \in Recs : rec'[q].peer # NULL => rec'[q].peer \in Recs
      BY <2>6 DEF Records
    <3>2. alloc' \subseteq Recs
      BY <2>8 DEF TypeOK, MemoryTypes
    <3>3. ASSUME NEW q \in alloc', rec'[q].peer # NULL, AtWork(q)', NEW p, p = rec'[q].peer
          PROVE  Watched(p)' /\ \A v \in Workers : current'[v] = p => v \in stale'
      BY <2>12, <3>1, <3>2, <3>3
    <3> QED  BY <2>12, <3>3 DEF PeerInv, Watched
  <2>15. LifeInv'
    <3> SUFFICES ASSUME NEW v \in Workers, current'[v] # NULL, v \notin stale'
                 PROVE  current'[v] \in alloc'
      BY DEF LifeInv
    <3>1. v # w /\ current'[v] = current[v] /\ v \notin stale
      BY <1>6, <2>1
    <3> QED  BY <1>1, <2>1, <2>3, <3>1 DEF LifeInv
  <2>16. NoEdgeLost'
    <3>1. \A g \in Fds : g # f => (Readable(g)' <=> Readable(g))
      BY <1>1, <2>1 DEF Readable, TypeOK, SocketTypes
    <3> SUFFICES ASSUME NEW g \in Fds, watch'[g] # NULL, rec'[watch'[g]].state = "READ_REQUEST", Readable(g)'
                 PROVE  \/ g \in edge' \/ watch'[g] \in batch
                        \/ cur = watch'[g] /\ (mpc = "recv" \/ rec'[watch'[g]].bytes = Cap)
      BY <2>1 DEF NoEdgeLost
    <3>2. g # f /\ watch'[g] = watch[g]
      BY <1>1, <2>1, <2>4 DEF TypeOK, SocketTypes
    <3>3. watch[g] \in Recs /\ watch[g] # c
      BY <1>1, <2>2, <3>2 DEF TypeOK, SocketTypes, WatchMatches
    <3> QED  BY <1>1, <2>1, <2>6, <3>1, <3>2, <3>3 DEF NoEdgeLost
  <2> QED  BY <2>8, <2>9, <2>10, <2>11, <2>13, <2>14, <2>15, <2>16 DEF IInv
<1> QED  BY <1>8, <1>9

(* What a worker has that answers a request, or has not proxied it yet.      *)
LEMMA Unproxied ==
  ASSUME IInv, NEW w \in Workers, ~LetsGo(w), NEW c, c = current[w]
  PROVE  /\ c \in Recs /\ c \in alloc /\ Busy(c) /\ rec[c].fd \in Fds
         /\ wpc[w] \in {"work", "rearm", "connect"} =>
              rec[c].state = "READ_REQUEST" /\ rec[c].peer = NULL
<1>1. c \in Recs
  BY DEF IInv, ThreadInv, TypeOK, ThreadTypes, LetsGo
<1>2. Busy(c)
  BY <1>1 DEF Busy, AtWork
<1>3. c \in alloc /\ rec[c].fd \in Fds
  BY <1>1, <1>2 DEF IInv, BusyInv, TypeOK, SocketTypes
<1>4. wpc[w] \in {"work", "rearm", "connect"} => rec[c].state = "READ_REQUEST"
  BY DEF IInv, BusyInv
<1> QED  BY <1>1, <1>2, <1>3, <1>4 DEF IInv, PeersAgree

(* The steps that end a request, or the setting up of a proxied one.         *)
LEMMA FinishKept ==
  ASSUME IInv, fault = "none", NEW w \in Workers, Reject(w) \/ Rearm(w) \/ ReAdd(w)
  PROVE  IInv'
<1>1. TypeOK /\ ThreadInv /\ EdgeWatched
  BY DEF IInv
<1>2. PICK c : c = current[w]
  OBVIOUS
<1>3. /\ wpc[w] \in {"work", "rearm", "readd"} /\ ~LetsGo(w) /\ w \notin stale
      /\ {"work", "rearm", "readd"} \subseteq WorkerPc \ {"pop", "peer", "mod"}
  BY <1>1 DEF Reject, Rearm, ReAdd, Return, WorkerGoto, LetsGo, ThreadInv, WorkerPc
<1>4. /\ c \in Recs /\ c \in alloc /\ rec[c].fd \in Fds
      /\ wpc[w] \in {"work", "rearm"} => rec[c].state = "READ_REQUEST" /\ rec[c].peer = NULL
  BY <1>2, <1>3, Unproxied
<1>5. ASSUME NEW from \in {"work", "rearm", "readd"}, Return(w, from), Abandon(w), rec[c].peer = NULL,
             UNCHANGED main, UNCHANGED fault
      PROVE  IInv'
  <2>1. from \in WorkerPc \ {"pop", "peer", "mod"}
    BY <1>3
  <2>2. rec[current[w]].peer = NULL
    BY <1>2, <1>5
  <2> QED  BY <1>5, <2>1, <2>2, AbandonKept, fault = "none"
<1>6. CASE Reject(w)
  <2>1. Return(w, "work") /\ Abandon(w) /\ UNCHANGED main /\ UNCHANGED fault /\ wpc[w] = "work"
    BY <1>6 DEF Reject, Return, WorkerGoto
  <2> QED  BY <1>4, <1>5, <2>1
<1>7. CASE Rearm(w)
  <2>1. Return(w, "rearm") /\ UNCHANGED main /\ UNCHANGED fault /\ wpc[w] = "rearm"
    BY <1>7 DEF Rearm, Return, WorkerGoto
  <2>2. CASE Abandon(w)
    BY <1>4, <1>5, <2>1, <2>2
  <2>3. CASE ~Abandon(w)
    <3>1. /\ rec' = [rec EXCEPT ![c] = NewRecord(rec[c].fd)] /\ Watch(rec[c].fd, c)
          /\ UNCHANGED <<alloc, sockets, lost>>
      BY <1>2, <1>7, <2>3 DEF Rearm, Forget, Client
    <3>2. /\ rec' \in [Recs -> Records]
          /\ \A q \in Recs : rec'[q].fd = rec[q].fd /\ rec'[q].state = rec[q].state
                             /\ rec'[q].peer = rec[q].peer
                             /\ (q # c => rec'[q].bytes = rec[q].bytes)
      <4>1. rec \in [Recs -> Records] /\ NewRecord(rec[c].fd) \in Records
        BY <1>1, <1>4, RecordsMade DEF TypeOK, MemoryTypes
      <4>2. rec'[c] = NewRecord(rec[c].fd) /\ \A q \in Recs : q # c => rec'[q] = rec[q]
        BY <1>4, <3>1, <4>1
      <4>3. rec'[c].fd = rec[c].fd /\ rec'[c].state = "READ_REQUEST" /\ rec'[c].peer = NULL
        BY <4>2 DEF NewRecord
      <4>4. rec' \in [Recs -> Records]
        BY <3>1, <4>1
      <4> QED  BY <1>4, <2>1, <4>2, <4>3, <4>4
    <3>3. /\ pending' = pending
          /\ current'[w] = NULL /\ wpc'[w] = "pop"
          /\ \A v \in Workers : v # w => current'[v] = current[v] /\ wpc'[v] = wpc[v]
          /\ current' \in [Workers -> Recs \cup {NULL}] /\ wpc' \in [Workers -> WorkerPc]
      <4>1. "rearm" \in WorkerPc \ {"pop"}
        BY <1>3
      <4> QED  BY <1>2, <2>1, <4>1, Returned
    <3>4. UNCHANGED <<alloc, sockets, main, pending, orphans, stale, fault>>
      BY <2>1, <3>1, <3>3 DEF lost
    <3>5. Watch(rec[c].fd, c)
      BY <3>1
    <3> QED  BY <1>2, <1>3, <1>4, <3>2, <3>3, <3>4, <3>5, BackKept, fault = "none"
  <2> QED  BY <2>2, <2>3
<1>8. CASE ReAdd(w)
  <2>1. CASE WorkerGoto(w, "readd", "peer")
    <3>1. wpc' = [wpc EXCEPT ![w] = "peer"] /\ wpc \in [Workers -> WorkerPc]
          /\ current \in [Workers -> Recs \cup {NULL}]
      BY <1>1, <2>1 DEF WorkerGoto, TypeOK, ThreadTypes
    <3>2. /\ wpc'[w] = "peer" /\ wpc' \in [Workers -> WorkerPc]
          /\ \A v \in Workers : v # w => wpc'[v] = wpc[v]
      BY <3>1 DEF WorkerPc
    <3>3. Watch(rec[c].fd, c) /\ UNCHANGED <<memory, sockets, main, handoff, flaws>>
      BY <1>2, <1>8, <2>1, <3>2 DEF ReAdd, Return, WorkerGoto, Client
    <3>4. UNCHANGED <<alloc, sockets, main, pending, orphans, stale, fault>> /\ current' = current /\ rec' = rec
      BY <3>3 DEF memory, handoff, flaws, lost
    <3>5. Watch(rec[c].fd, c) /\ rec' \in [Recs -> Records]
      BY <1>1, <3>3, <3>4 DEF TypeOK, MemoryTypes
    <3> QED  BY <1>2, <1>3, <1>4, <3>1, <3>2, <3>4, <3>5, BackKept, fault = "none"
  <2>2. CASE ~WorkerGoto(w, "readd", "peer")
    <3>1. Return(w, "readd") /\ UNCHANGED main
      BY <1>8, <2>2 DEF ReAdd
    <3>2. CASE rec[c].peer = NULL
      BY <1>2, <1>5, <1>8, <2>2, <3>1, <3>2 DEF ReAdd, Client
    <3>3. CASE rec[c].peer # NULL
      <4>1. fault' = "add_failed" /\ UNCHANGED <<memory, sockets, epoll, lost>>
        BY <1>2, <1>8, <2>2, <3>3 DEF ReAdd, Client
      <4>2. UNCHANGED <<memory, sockets, watch, main, orphans>> /\ stale' = stale \ {w} /\ edge' = edge
        BY <1>3, <3>1, <4>1 DEF epoll, lost
      <4>3. edge \subseteq edge' /\ edge' \subseteq open /\ EdgeWatched' /\ "readd" \in WorkerPc \ {"pop"}
        BY <1>1, <1>3, <4>2 DEF EdgeWatched, TypeOK, SocketTypes
      <4> QED  BY <3>1, <4>1, <4>2, <4>3, ReturnKept, fault = "none"
    <3> QED  BY <3>2, <3>3
  <2> QED  BY <2>1, <2>2
<1> QED  BY <1>6, <1>7, <1>8

(* The last look at the peer, and the event that may come of it.             *)
LEMMA LookKept ==
  ASSUME IInv, fault = "none", NEW w \in Workers, LookAtPeer(w) \/ ModPeer(w)
  PROVE  IInv'
<1>1. TypeOK /\ ThreadInv /\ WatchMatches /\ EdgeWatched /\ LifeInv
  BY DEF IInv
<1>2. {"peer", "mod"} \subseteq WorkerPc \ {"pop"} /\ "mod" \in WorkerPc
  BY DEF WorkerPc
<1>3. edge \subseteq open
  BY <1>1 DEF TypeOK, SocketTypes
<1>4. CASE LookAtPeer(w)
  <2>1. UNCHANGED <<memory, sockets, epoll, main, orphans, fault>>
    BY <1>4 DEF LookAtPeer
  <2>2. CASE Return(w, "peer")
    <3>1. stale' = stale \ {w}
      BY <1>4, <2>2, <1>1 DEF LookAtPeer, Return, WorkerGoto, TypeOK, ThreadTypes
    <3>2. UNCHANGED <<memory, sockets, watch, main, orphans>> /\ edge' = edge /\ fault' = "none"
      BY <2>1, fault = "none" DEF epoll
    <3>3. edge \subseteq edge' /\ edge' \subseteq open /\ EdgeWatched'
      BY <1>1, <1>3, <3>2 DEF EdgeWatched
    <3> QED  BY <1>2, <2>2, <3>1, <3>2, <3>3, ReturnKept, fault = "none"
  <2>3. CASE ~Return(w, "peer")
    <3>1. WorkerGoto(w, "peer", "mod") /\ UNCHANGED <<handoff, stale>>
      BY <1>4, <2>3 DEF LookAtPeer
    <3>2. wpc' \in [Workers -> WorkerPc] /\ \A v \in Workers : GoesOn(v)
      BY <1>1, <1>2, <3>1 DEF WorkerGoto, GoesOn, TypeOK, ThreadTypes
    <3>3. ThreadTypes'
      BY <1>1, <2>1, <3>1, <3>2 DEF TypeOK, ThreadTypes, main, handoff
    <3>4. /\ rec' = rec /\ rec \in [Recs -> Records] /\ orphans' \in SUBSET open
          /\ UNCHANGED <<alloc, open, fin, epoll, main, handoff, stale>>
          /\ input' \in [Fds -> Seq(Chunks)]
          /\ \A f \in Fds : Len(input'[f]) <= MaxInput /\ (input[f] = <<>> => input'[f] = <<>>)
      BY <1>1, <2>1, <3>1 DEF memory, sockets, TypeOK, MemoryTypes, SocketTypes
    <3> QED  BY <3>2, <3>3, <3>4, MovesKept, fault = "none"
  <2> QED  BY <2>2, <2>3
<1>5. CASE ModPeer(w)
  <2>1. PICK c : c = current[w]
    OBVIOUS
  <2>2. PICK r : r = rec[c].peer
    OBVIOUS
  <2>3. /\ Return(w, "mod") /\ wpc[w] = "mod" /\ r # NULL /\ w \notin stale
        /\ \/ Watch(rec[r].fd, r) /\ UNCHANGED fault
           \/ fault' = "add_failed" /\ UNCHANGED epoll
        /\ UNCHANGED <<memory, sockets, main, lost>>
    BY <1>5, <2>1, <2>2 DEF ModPeer, Client, Return, WorkerGoto
  <2>4. c \in alloc /\ c \in Recs
    BY <1>1, <2>1, <2>3 DEF LifeInv, ThreadInv, TypeOK, ThreadTypes
  <2>5. r \in alloc /\ r \in Recs /\ rec[r].peer = c /\ (Watched(r) \/ AtWork(r))
    BY <2>2, <2>3, <2>4, PeersApart, fault = "none"
  <2>6. ~AtWork(r)
    <3>1. rec[r].peer # NULL
      BY <2>4, <2>5, Constants
    <3>2. AtWork(r) => \A v \in Workers : current[v] = rec[r].peer => v \in stale
      BY <2>5, <3>1, PeersApart, fault = "none"
    <3> QED  BY <2>1, <2>3, <2>5, <3>2
  <2>7. rec[r].fd \in Fds /\ watch[rec[r].fd] = r
    BY <2>5, <2>6 DEF Watched
  <2>8. UNCHANGED <<memory, sockets, main, orphans>> /\ stale' = stale \ {w}
    BY <2>3 DEF lost
  <2>9. watch' = watch /\ edge \subseteq edge' /\ edge' \subseteq open /\ EdgeWatched'
        /\ fault' \in {"none", "add_failed"}
    <3>1. CASE Watch(rec[r].fd, r) /\ UNCHANGED fault
      <4>1. /\ watch' = [watch EXCEPT ![rec[r].fd] = r]
            /\ edge \subseteq edge' /\ edge' \subseteq edge \cup {rec[r].fd} /\ EdgeWatched'
        BY <1>1, <2>5, <2>7, <3>1, Rewatched DEF TypeOK
      <4>2. watch' = watch
        BY <1>1, <2>7, <4>1 DEF TypeOK, SocketTypes
      <4>3. rec[r].fd \in open
        BY <1>1, <2>5, <2>7, Constants DEF WatchMatches
      <4> QED  BY <1>3, <3>1, <4>1, <4>2, <4>3, fault = "none"
    <3>2. CASE fault' = "add_failed" /\ UNCHANGED epoll
      BY <1>1, <1>3, <3>2 DEF epoll, EdgeWatched
    <3> QED  BY <2>3, <3>1, <3>2
  <2>10. UNCHANGED <<memory, sockets, watch, main, orphans>>
    BY <2>8, <2>9
  <2> QED  BY <1>2, <2>3, <2>8, <2>9, <2>10, ReturnKept, fault = "none"
<1> QED  BY <1>4, <1>5

(* At the start nobody has anything. *)
LEMMA InitInv == Init => IInv
<1> SUFFICES ASSUME Init PROVE IInv
  OBVIOUS
<1>1. /\ rec = [r \in Recs |-> NewRecord(NULL)] /\ alloc = {}
      /\ open = {} /\ input = [f \in Fds |-> <<>>] /\ fin = {}
      /\ watch = [f \in Fds |-> NULL] /\ edge = {}
      /\ batch = {} /\ mpc = "next" /\ cur = NULL
      /\ pending = <<>> /\ current = [w \in Workers |-> NULL]
      /\ wpc = [w \in Workers |-> "pop"]
      /\ orphans = {} /\ stale = {} /\ fault = "none"
  BY DEF Init
<1>2. TypeOK
  <2>1. NewRecord(NULL) \in Records
    BY Constants DEF NewRecord, Records
  <2>2. MemoryTypes /\ ThreadTypes
    BY <1>1, <2>1 DEF MemoryTypes, ThreadTypes, MainPc, WorkerPc
  <2>3. SocketTypes
    BY <1>1, Constants, EmptySeq DEF SocketTypes
  <2> QED  BY <2>2, <2>3 DEF TypeOK
<1>3. ThreadInv /\ WatchMatches /\ EdgeWatched /\ BatchInv /\ PeersAgree /\ PeerInv /\ LifeInv /\ NoEdgeLost
  BY <1>1 DEF ThreadInv, WatchMatches, EdgeWatched, BatchInv, Handling, PeersAgree, PeerInv, LifeInv, NoEdgeLost
<1>4. BusyInv
  <2>1. Len(pending) = 0
    BY <1>1
  <2>2. \A w \in Workers : LetsGo(w)
    BY <1>1 DEF LetsGo
  <2>3. \A r \in Recs : ~InQueue(r) /\ ~AtWork(r)
    BY <2>1, <2>2 DEF InQueue, AtWork
  <2> QED  BY <1>1, <2>1, <2>2, <2>3 DEF BusyInv, Busy
<1> QED  BY <1>2, <1>3, <1>4 DEF IInv

(* The inductive invariant holds: types, who has which record, what epoll    *)
(* says of it, and whom its peer pointer points to.                          *)
THEOREM Invariance == Spec => []IInv
<1>1. IInv /\ [Next]_vars => IInv'
  <2> SUFFICES ASSUME IInv, [Next]_vars PROVE IInv'
    OBVIOUS
  <2>1. CASE UNCHANGED vars
    <3>1. UNCHANGED <<rec, alloc, open, input, fin, watch, edge, batch, mpc, cur, pending, current, wpc,
                      orphans, stale, fault>>
      BY <2>1 DEF vars, memory, sockets, epoll, main, handoff, flaws, lost
    <3> QED  BY <3>1 DEF IInv, TypeOK, MemoryTypes, SocketTypes, ThreadTypes, ThreadInv, WatchMatches,
                   EdgeWatched, BatchInv, Handling, Watched, BusyInv, Busy, InQueue, AtWork, LetsGo,
                   PeersAgree, PeerInv, LifeInv, NoEdgeLost, Readable
  <2>2. CASE Next
    <3>1. fault = "none"
      BY <2>2 DEF Next
    <3>2. CASE Network
      BY <3>1, <3>2, NetworkKept
    <3>3. ASSUME NEW f \in Fds, NEW r \in Recs, Accept(f, r) PROVE IInv'
      BY <3>1, <3>3, AcceptKept
    <3>4. CASE MainStep
      <4>1. CASE RecvRequest
        <5>1. cur \in Recs
          BY <4>1, Handled DEF RecvRequest, MainGoto, Handling
        <5> QED  BY <3>1, <4>1, <5>1, RecvRequestKept
      <4>2. CASE EpollWait \/ \E r \in Recs : TakeEvent(r)
        BY <3>1, <4>2, EventsKept
      <4>3. CASE RecvMore \/ RecvEnd \/ RecvDone \/ CheckSize \/ CloseTooLarge \/ Relay
                 \/ RelayWaits \/ RelayEnd
        BY <3>1, <4>3, MainKept
      <4> QED  BY <3>4, <4>1, <4>2, <4>3 DEF MainStep
    <3>5. ASSUME NEW w \in Workers, WorkerStep(w) PROVE IInv'
      <4>1. CASE Start(w)
        BY <3>1, <4>1, StartKept
      <4>2. CASE Reject(w) \/ Rearm(w) \/ ReAdd(w)
        BY <3>1, <4>2, FinishKept
      <4>3. CASE ServeStaticFile(w) \/ HandleCgiRequest(w) \/ Connect(w) \/ TestPeer(w)
                 \/ PeerGone(w) \/ SendRequest(w) \/ PeerOfAnother(w)
        BY <3>1, <4>3, WorkerMoves
      <4>4. CASE ConnectFails(w)
        BY <3>1, <4>4, ConnectFailsKept
      <4>5. ASSUME NEW u \in Fds, NEW q \in Recs, Connected(w, u, q) PROVE IInv'
        BY <3>1, <4>5, ConnectedKept
      <4>6. CASE SendFailed(w)
        BY <3>1, <4>6, SendFailedKept
      <4>7. CASE LookAtPeer(w) \/ ModPeer(w)
        BY <3>1, <4>7, LookKept
      <4> QED  BY <3>5, <4>1, <4>2, <4>3, <4>4, <4>5, <4>6, <4>7 DEF WorkerStep
    <3> QED  BY <2>2, <3>2, <3>3, <3>4, <3>5 DEF Next
  <2> QED  BY <2>1, <2>2
<1> QED  BY InitInv, <1>1, PTL DEF Spec

(* The epoll set names, for every descriptor, the connection that has it     *)
(* now, and the peers of a proxied connection point to each other.           *)
THEOREM TableRight == Spec => []Consistent
<1>1. IInv => Consistent
  BY DEF IInv, Consistent
<1> QED  BY Invariance, <1>1, PTL

(* No event is lost: a connection that waits for a request and has bytes to  *)
(* read will be looked at.                                                   *)
THEOREM EdgesKept == Spec => []NoEdgeLost
<1>1. IInv => NoEdgeLost
  BY DEF IInv
<1> QED  BY Invariance, <1>1, PTL

(* Neither main, nor the queue, nor a worker works with a freed record.      *)
THEOREM RecordsStayLive == Spec => []RecordsLive
<1>1. IInv => RecordsLive
  <2> SUFFICES ASSUME IInv PROVE RecordsLive
    OBVIOUS
  <2>1. batch \subseteq alloc
    <3>1. \A r \in batch : r \in Recs /\ Watched(r)
      BY DEF IInv, BatchInv, TypeOK, ThreadTypes
    <3>2. \A r \in batch : r \in alloc
      BY <3>1, Constants DEF IInv, WatchMatches, Watched
    <3> QED  BY <3>2
  <2>2. Handling => cur \in alloc
    BY Handled
  <2>3. \A i \in 1..Len(pending) : pending[i] \in alloc
    <3>1. ASSUME NEW i \in 1..Len(pending) PROVE pending[i] \in alloc
      <4>1. pending[i] \in Recs
        BY ElementOfSeq DEF IInv, TypeOK, ThreadTypes
      <4>2. Busy(pending[i])
        BY DEF Busy, InQueue
      <4> QED  BY <4>1, <4>2 DEF IInv, BusyInv
    <3> QED  BY <3>1
  <2>4. \A w \in Workers : ~LetsGo(w) => current[w] \in alloc
    BY Unproxied
  <2> QED  BY <2>1, <2>2, <2>3, <2>4 DEF RecordsLive
<1> QED  BY Invariance, <1>1, PTL

(* A request is with the queue or with one worker, and no event for its      *)
(* connection can come meanwhile.                                            *)
THEOREM OneOwnerEach == Spec => []OneOwner
<1>1. IInv => OneOwner
  <2> SUFFICES ASSUME IInv, NEW r \in Recs
               PROVE  /\ InQueue(r) \/ AtWork(r) =>
                           watch[rec[r].fd] = NULL /\ r \notin batch /\ ~(Handling /\ cur = r)
                      /\ AtWork(r) => ~InQueue(r)
                      /\ \A v, w \in Workers : current[v] = r /\ current[w] = r /\ ~LetsGo(v) /\ ~LetsGo(w)
                                               => v = w
    BY DEF OneOwner
  <2>1. Busy(r) => watch[rec[r].fd] = NULL
    BY DEF IInv, BusyInv
  <2>2. Busy(r) => ~Watched(r)
    BY <2>1, Constants DEF Watched
  <2>3. Busy(r) => r \notin batch /\ ~(Handling /\ cur = r)
    BY <2>2 DEF IInv, BatchInv
  <2> QED  BY <2>1, <2>3 DEF Busy, IInv, BusyInv
<1> QED  BY Invariance, <1>1, PTL

-----------------------------------------------------------------------------
(* Hang-ups: the safety half of HangupsEnd. *)

(* Epoll or main knows of a hang-up on a proxied connection.                 *)
Heard(f) ==
  LET r == watch[f]
  IN  r # NULL /\ rec[r].state = "PROXYING" =>
        f \in edge \/ r \in batch \/ (cur = r /\ mpc = "relay")

(* The descriptor is with epoll, or its record with the workers.             *)
Held(f) == watch[f] # NULL \/ \E r \in Recs : Busy(r) /\ rec[r].fd = f

(* Both hold of all that the server has not lost track of.                   *)
HangupInv ==
  fault = "none" => /\ \A f \in open \ orphans : Held(f)
                    /\ \A f \in fin \ orphans : Heard(f)

(* Nobody has anything to do. *)
Idle == /\ edge = {} /\ batch = {} /\ mpc = "next"
        /\ pending = <<>> /\ \A w \in Workers : wpc[w] = "pop"

(* When nobody has anything to do, every connection whose other end is gone  *)
(* has been closed, but for those the server lost track of.                  *)
NoHangupForgotten == fault = "none" /\ Idle => fin \subseteq orphans

(* The descriptors that a step deals with apart, here X; the others are      *)
(* with whom they were.                                                      *)
LEMMA OthersHeard ==
  ASSUME IInv, HangupInv, fault = "none", UNCHANGED main, NEW X,
         open' \in SUBSET Fds, fin' \in SUBSET open',
         \A f \in Fds \ X :
           /\ f \in open' => f \in open
           /\ f \in fin' => f \in fin
           /\ f \in orphans => f \in orphans'
           /\ watch'[f] = watch[f] /\ (f \in edge => f \in edge'),
         \A q \in Recs : Watched(q) /\ rec[q].fd \notin X => rec'[q].state = rec[q].state,
         \A q \in Recs : Busy(q) /\ rec[q].fd \notin X => Busy(q)' /\ rec'[q].fd = rec[q].fd,
         \A f \in X : /\ f \in open' \ orphans' => Held(f)'
                      /\ f \in fin' \ orphans' => Heard(f)'
  PROVE  HangupInv'
<1>1. (\A f \in open \ orphans : Held(f)) /\ (\A f \in fin \ orphans : Heard(f))
  BY DEF HangupInv
<1>2. batch' = batch /\ mpc' = mpc /\ cur' = cur
  BY DEF main
<1>3. ASSUME NEW f \in open', f \notin orphans', f \notin X PROVE Held(f)'
  <2>1. f \in Fds /\ Held(f)
    BY <1>1, <1>3
  <2> QED  BY <1>3, <2>1 DEF Held
<1>4. ASSUME NEW f \in fin', f \notin orphans', f \notin X PROVE Heard(f)'
  <2>1. f \in Fds /\ Heard(f) /\ watch'[f] = watch[f] /\ (f \in edge => f \in edge')
    BY <1>1, <1>4
  <2>2. watch[f] # NULL => watch[f] \in Recs /\ Watched(watch[f]) /\ rec[watch[f]].fd = f
    BY <2>1 DEF IInv, WatchMatches, Watched, TypeOK, SocketTypes
  <2> QED  BY <1>2, <1>4, <2>1, <2>2 DEF Heard
<1> QED  BY <1>3, <1>4 DEF HangupInv

(* Whom the workers have, they keep as long as they do not let go.           *)
LEMMA BusyStays ==
  ASSUME UNCHANGED handoff, \A v \in Workers : LetsGo(v)' => LetsGo(v)
  PROVE  \A r \in Recs : Busy(r) => Busy(r)'
<1>1. pending' = pending /\ current' = current
  BY DEF handoff
<1> QED  BY <1>1 DEF Busy, InQueue, AtWork

(* Epoll sees bytes and hang-ups of all that it has.                         *)
LEMMA NetworkHeard ==
  ASSUME IInv, HangupInv, fault = "none", Network
  PROVE  HangupInv'
<1>1. PICK f \in Fds : Gone(f) \/ \E chunk \in Chunks : Arrive(f, chunk)
  BY DEF Network
<1>2. /\ UNCHANGED <<memory, open, watch, main, handoff, wpc, flaws>>
      /\ edge' = IF watch[f] # NULL THEN edge \cup {f} ELSE edge
      /\ fin' \subseteq fin \cup {f} /\ f \in open
  BY <1>1 DEF Gone, Arrive
<1>3. UNCHANGED <<rec, orphans, batch, mpc, cur, handoff, wpc>>
  BY <1>2 DEF memory, flaws, lost, main
<1>4. \A r \in Recs : Busy(r) => Busy(r)'
  BY <1>3, BusyStays DEF LetsGo
<1>5. HangupInv => \A g \in open \ orphans : Held(g)'
  BY <1>2, <1>3, <1>4, fault = "none" DEF HangupInv, Held
<1>6. \A g \in fin' \ orphans' : Heard(g)'
  BY <1>2, <1>3, fault = "none" DEF HangupInv, Heard
<1> QED  BY <1>2, <1>3, <1>5, <1>6 DEF HangupInv

(* main cleans up the record that it handles, and its peer's descriptor is   *)
(* shut down where epoll sees it.                                            *)
LEMMA CleanupHeard ==
  ASSUME IInv, HangupInv, fault = "none", NEW r \in Recs, cur = r, Watched(r), CleanupClient(r),
         UNCHANGED <<batch, handoff, wpc, fault>>,
         (mpc' = "check" /\ cur' = cur) \/ (mpc' = "next" /\ cur' = NULL)
  PROVE  HangupInv'
<1> DEFINE f == rec[r].fd
           p == rec[r].peer
           shut == {g \in open : p # NULL /\ g = rec[p].fd}
<1>1. TypeOK /\ WatchMatches /\ BusyInv
  BY DEF IInv
<1>2. /\ f \in Fds /\ f # NULL
      /\ \A g \in Fds : watch[g] = r => g = f
      /\ \A q \in Recs : Busy(q) => q # r /\ rec[q].fd # f
  BY <1>1, WatchedIs DEF Watched
<1>3. /\ watch' = [watch EXCEPT ![f] = NULL] /\ open' = open \ {f}
      /\ \A q \in Recs : q # r => rec'[q].fd = rec[q].fd /\ rec'[q].state = rec[q].state
  BY <1>1, CleanedUp
<1>4. /\ fin' = (fin \cup shut) \ {f}
      /\ edge' = (edge \cup {g \in shut : watch[g] # NULL}) \ {f}
      /\ orphans' = orphans \ {f}
  BY <1>2 DEF CleanupClient, CloseFds
<1>5. \A q \in Recs : Busy(q) => Busy(q)'
  BY BusyStays DEF LetsGo
<1>6. watch \in [Fds -> Recs \cup {NULL}] /\ open \subseteq Fds /\ fin \subseteq open /\ NULL \notin Recs
  BY <1>1, Constants DEF TypeOK, SocketTypes
<1>7. ASSUME NEW g \in open', g \notin orphans' PROVE Held(g)'
  <2>1. g \in Fds /\ g # f /\ Held(g) /\ watch'[g] = watch[g]
    BY <1>3, <1>4, <1>6, <1>7, fault = "none" DEF HangupInv
  <2> QED  BY <1>2, <1>3, <1>5, <2>1 DEF Held
<1>8. ASSUME NEW g \in fin', g \notin orphans' PROVE Heard(g)'
  <2>1. g \in Fds /\ g # f /\ watch'[g] = watch[g] /\ g \notin orphans
    BY <1>3, <1>4, <1>6, <1>8
  <2>2. watch[g] # NULL => watch[g] \in Recs /\ watch[g] # r
    BY <1>2, <1>6, <2>1
  <2>3. CASE g \in shut
    BY <1>4, <2>1, <2>3 DEF Heard
  <2>4. CASE g \notin shut
    <3>1. Heard(g)
      BY <1>4, <1>8, <2>1, <2>4, fault = "none" DEF HangupInv
    <3> QED  BY <1>3, <1>4, <2>1, <2>2, <3>1 DEF Heard
  <2> QED  BY <2>3, <2>4
<1> QED  BY <1>7, <1>8 DEF HangupInv

(* main takes events and reads; what it leaves behind is read or lost track  *)
(* of.                                                                       *)
LEMMA MainHeard ==
  ASSUME IInv, HangupInv, fault = "none", MainStep
  PROVE  HangupInv'
<1>1. TypeOK /\ ThreadInv /\ WatchMatches /\ EdgeWatched /\ BusyInv
  BY DEF IInv
<1>2. /\ watch \in [Fds -> Recs \cup {NULL}] /\ open \subseteq Fds /\ fin \subseteq open /\ edge \subseteq open
      /\ NULL \notin Recs
  BY <1>1, Constants DEF TypeOK, SocketTypes
<1>3. (\A f \in open \ orphans : Held(f)) /\ (\A f \in fin \ orphans : Heard(f))
  BY fault = "none" DEF HangupInv
<1>4. Handling => /\ cur \in Recs /\ Watched(cur) /\ watch[rec[cur].fd] = cur /\ rec[cur].fd \in open
                  /\ rec[cur].fd \in Fds
                  /\ \A f \in Fds : watch[f] = cur => f = rec[cur].fd
  BY Handled DEF Watched
<1>5. ASSUME UNCHANGED <<open, watch, handoff, wpc>>, orphans \subseteq orphans',
             \A q \in Recs : rec'[q].fd = rec[q].fd
      PROVE  \A f \in open' \ orphans' : Held(f)'
  <2>1. \A q \in Recs : Busy(q) => Busy(q)'
    BY <1>5, BusyStays DEF LetsGo
  <2> QED  BY <1>3, <1>5, <2>1 DEF Held
<1>6. CASE EpollWait
  <2>1. /\ edge' = {} /\ batch' = {watch[f] : f \in edge} /\ batch = {} /\ mpc = "next"
        /\ UNCHANGED <<rec, open, fin, watch, mpc, cur, handoff, wpc, orphans, fault>>
    BY <1>6 DEF EpollWait, memory, sockets, flaws, lost
  <2>2. \A f \in fin' \ orphans' : Heard(f)'
    BY <1>3, <2>1 DEF Heard
  <2> QED  BY <1>5, <2>1, <2>2 DEF HangupInv
<1>7. ASSUME NEW r \in Recs, TakeEvent(r) PROVE HangupInv'
  <2>1. /\ batch' = batch \ {r} /\ cur' = r /\ mpc = "next"
        /\ mpc' = (IF rec[r].state = "PROXYING" THEN "relay" ELSE "recv")
        /\ UNCHANGED <<rec, open, fin, watch, edge, handoff, wpc, orphans, fault>>
    BY <1>7 DEF TakeEvent, MainGoto, memory, sockets, epoll, flaws, lost
  <2>2. \A f \in fin' \ orphans' : Heard(f)'
    BY <1>3, <2>1 DEF Heard
  <2> QED  BY <1>5, <2>1, <2>2 DEF HangupInv
<1>8. CASE RecvMore \/ RecvDone \/ CheckSize
  <2>1. /\ mpc \in {"recv", "check"}
        /\ UNCHANGED <<open, fin, watch, edge, batch, handoff, wpc, orphans, fault>>
    BY <1>8 DEF RecvMore, RecvDone, CheckSize, MainGoto, sockets, epoll, flaws, lost
  <2>2. \A q \in Recs : rec'[q].fd = rec[q].fd /\ rec'[q].state = rec[q].state
    <3>1. CASE RecvMore
      BY <1>1, <1>4, <3>1, Received DEF RecvMore, MainGoto, Handling
    <3>2. CASE RecvDone \/ CheckSize
      BY <3>2 DEF RecvDone, CheckSize, memory
    <3> QED  BY <1>8, <3>1, <3>2
  <2>3. \A f \in fin' \ orphans' : Heard(f)'
    <3> SUFFICES ASSUME NEW f \in fin, f \notin orphans PROVE Heard(f)'
      BY <2>1
    <3>1. Heard(f) /\ watch[f] \in Recs \cup {NULL}
      BY <1>2, <1>3
    <3> QED  BY <2>1, <2>2, <3>1 DEF Heard
  <2> QED  BY <1>5, <2>1, <2>2, <2>3 DEF HangupInv
<1>9. CASE RecvRequest
  <2>1. /\ mpc = "recv" /\ pending' = Append(pending, cur) /\ Recv(cur) /\ Unwatch(rec[cur].fd)
        /\ UNCHANGED <<open, fin, batch, cur, current, wpc, orphans, fault>>
    BY <1>9 DEF RecvRequest, MainGoto, flaws, lost
  <2>2. Handling /\ cur \in Recs /\ rec[cur].fd \in Fds
    BY <1>4, <2>1 DEF Handling
  <2>3. \A q \in Recs : rec'[q].fd = rec[q].fd /\ rec'[q].state = rec[q].state
    BY <1>1, <2>1, <2>2, Received
  <2>4. Busy(cur)' /\ \A q \in Recs : Busy(q) => Busy(q)'
    <3>1. pending \in Seq(Recs)
      BY <1>1 DEF TypeOK, ThreadTypes
    <3>2. /\ Len(pending') = Len(pending) + 1 /\ Len(pending) \in Nat /\ pending'[Len(pending) + 1] = cur
          /\ \A i \in 1..Len(pending) : pending'[i] = pending[i]
      BY <2>1, <2>2, <3>1, Queued
    <3>3. \A q \in Recs : InQueue(q) => InQueue(q)'
      BY <3>2 DEF InQueue
    <3>4. InQueue(cur)'
      <4>1. Len(pending) + 1 \in 1..Len(pending')
        BY <3>2
      <4> QED  BY <2>1, <3>2, <4>1 DEF InQueue
    <3>5. \A q \in Recs : AtWork(q) => AtWork(q)'
      BY <2>1 DEF AtWork, LetsGo
    <3> QED  BY <2>1, <3>3, <3>4, <3>5 DEF Busy
  <2>5. /\ watch' = [watch EXCEPT ![rec[cur].fd] = NULL] /\ edge' = edge \ {rec[cur].fd}
    BY <2>1 DEF Unwatch
  <2>6. \A f \in open' \ orphans' : Held(f)'
    <3> SUFFICES ASSUME NEW f \in open, f \notin orphans PROVE Held(f)'
      BY <2>1
    <3>1. CASE f = rec[cur].fd
      <4>1. cur' \in Recs /\ Busy(cur)' /\ rec'[cur].fd = f
        BY <2>1, <2>2, <2>3, <2>4, <3>1
      <4> QED  BY <2>1, <2>2, <4>1 DEF Held
    <3>2. CASE f # rec[cur].fd
      <4>1. Held(f) /\ watch'[f] = watch[f]
        BY <1>2, <1>3, <2>5, <3>2
      <4> QED  BY <2>3, <2>4, <4>1 DEF Held
    <3> QED  BY <3>1, <3>2
  <2>7. \A f \in fin' \ orphans' : Heard(f)'
    <3> SUFFICES ASSUME NEW f \in fin, f \notin orphans PROVE Heard(f)'
      BY <2>1
    <3>1. Heard(f) /\ watch[f] \in Recs \cup {NULL} /\ f \in Fds
      BY <1>2, <1>3
    <3> QED  BY <1>2, <2>1, <2>2, <2>3, <2>5, <3>1 DEF Heard
  <2> QED  BY <2>6, <2>7 DEF HangupInv
<1>10. CASE RecvEnd
  <2>1. /\ mpc = "recv" /\ mpc' = "check" /\ cur' = cur /\ CleanupClient(cur)
        /\ UNCHANGED <<batch, handoff, wpc, fault>>
    BY <1>10 DEF RecvEnd, MainGoto
  <2> QED  BY <1>4, <2>1, CleanupHeard, fault = "none" DEF Handling
<1>11. CASE CloseTooLarge
  <2>1. mpc' = "next" /\ cur' = NULL /\ UNCHANGED <<batch, handoff, wpc>>
    BY <1>11 DEF CloseTooLarge, MainNext
  <2>2. CASE \E f \in Fds : watch[f] = cur
    <3>1. CleanupClient(cur) /\ fault' = fault
      BY <1>11, <2>2 DEF CloseTooLarge
    <3>2. cur # NULL
      BY <1>1, <1>11 DEF CloseTooLarge, ThreadInv
    <3>3. cur \in Recs /\ Watched(cur)
      BY <1>1, <2>2, <3>2 DEF TypeOK, ThreadTypes, WatchMatches, Watched
    <3> QED  BY <2>1, <3>1, <3>3, CleanupHeard, fault = "none"
  <2>3. CASE ~\E f \in Fds : watch[f] = cur
    BY <1>11, <2>3 DEF CloseTooLarge, HangupInv
  <2> QED  BY <2>2, <2>3
<1>12. CASE Relay
  <2>1. mpc = "relay" /\ UNCHANGED <<batch, handoff, wpc, fault>> /\ Handling
    BY <1>12 DEF Relay, Handling
  <2>2. CASE CleanupClient(cur) /\ MainNext
    BY <1>4, <2>1, <2>2, CleanupHeard, fault = "none" DEF MainNext
  <2>3. CASE ~(CleanupClient(cur) /\ MainNext)
    <3>1. /\ UNCHANGED <<rec, open, fin, watch, edge>>
          /\ \/ UNCHANGED <<mpc, cur, orphans>>
             \/ mpc' = "next" /\ orphans' = orphans \cup {rec[cur].fd}
      BY <1>12, <2>3 DEF Relay, MainNext, memory, epoll
    <3>2. \A f \in fin' \ orphans' : Heard(f)'
      <4> SUFFICES ASSUME NEW f \in fin, f \notin orphans' PROVE Heard(f)'
        BY <3>1
      <4>1. Heard(f) /\ f \in Fds
        BY <1>2, <1>3, <3>1
      <4> QED  BY <1>4, <2>1, <3>1, <4>1 DEF Heard
    <3> QED  BY <1>5, <2>1, <3>1, <3>2 DEF HangupInv
  <2> QED  BY <2>2, <2>3
<1>13. CASE RelayEnd
  <2>1. /\ mpc = "relay" /\ mpc' = "next" /\ cur' = NULL
        /\ UNCHANGED <<batch, handoff, wpc, fault>> /\ Handling
    BY <1>13 DEF RelayEnd, MainNext, Handling
  <2>2. CASE rec[cur].fd \in fin
    <3>1. CleanupClient(cur)
      BY <1>13, <2>2 DEF RelayEnd
    <3> QED  BY <1>4, <2>1, <3>1, CleanupHeard, fault = "none"
  <2>3. CASE rec[cur].fd \notin fin
    <3>1. UNCHANGED <<rec, open, fin, watch, edge, orphans>>
      BY <1>13, <2>3 DEF RelayEnd, memory, sockets, epoll, lost
    <3>2. \A f \in fin' \ orphans' : Heard(f)'
      <4> SUFFICES ASSUME NEW f \in fin, f \notin orphans PROVE Heard(f)'
        BY <3>1
      <4>1. Heard(f) /\ f \in Fds
        BY <1>2, <1>3
      <4> QED  BY <1>4, <2>1, <2>3, <3>1, <4>1 DEF Heard
    <3> QED  BY <1>5, <2>1, <3>1, <3>2 DEF HangupInv
  <2> QED  BY <2>2, <2>3
<1>14. CASE RelayWaits
  BY <1>14 DEF RelayWaits, HangupInv
<1> QED  BY <1>6, <1>7, <1>8, <1>9, <1>10, <1>11, <1>12, <1>13, <1>14 DEF MainStep

(* A connection is accepted: it is with epoll at once.                       *)
LEMMA AcceptHeard ==
  ASSUME IInv, IInv', HangupInv, fault = "none", NEW f \in Fds, NEW r \in Recs, Accept(f, r)
  PROVE  HangupInv'
<1>1. /\ f \notin open /\ r \notin alloc /\ open' = open \cup {f}
      /\ rec' = [rec EXCEPT ![r] = NewRecord(f)] /\ Watch(f, r)
      /\ UNCHANGED <<fin, main, handoff, wpc, orphans>>
  BY DEF Accept, flaws, lost
<1>2. SocketTypes /\ fin \subseteq open /\ SocketTypes' /\ r # NULL
  BY Constants DEF IInv, TypeOK, SocketTypes
<1>3. watch'[f] = r /\ (\A g \in Fds : g # f => watch'[g] = watch[g]) /\ edge \subseteq edge'
  BY <1>1, <1>2, Rewatched
<1>4. ~Busy(r) /\ ~Watched(r)
  BY <1>1, Unallocated
<1>5. \A q \in Recs : q # r => rec'[q] = rec[q]
  BY <1>1 DEF IInv, TypeOK, MemoryTypes
<1>6. \A q \in Recs : Busy(q) => Busy(q)'
  BY <1>1, BusyStays DEF LetsGo
<1>7. Held(f)' /\ f \notin fin'
  BY <1>1, <1>2, <1>3 DEF Held
<1> QED
  <2> DEFINE X == {f}
  <2>1. \A g \in Fds \ X :
          /\ g \in open' => g \in open
          /\ g \in fin' => g \in fin
          /\ g \in orphans => g \in orphans'
          /\ watch'[g] = watch[g] /\ (g \in edge => g \in edge')
    BY <1>1, <1>3
  <2>2. open' \in SUBSET Fds /\ fin' \in SUBSET open'
    BY <1>2 DEF SocketTypes
  <2>3. \A g \in X : Held(g)' /\ g \notin fin'
    BY <1>7
  <2> HIDE DEF X
  <2> QED  BY <1>1, <1>4, <1>5, <1>6, <2>1, <2>2, <2>3, OthersHeard, fault = "none"

(* A worker takes a request.                                                 *)
LEMMA StartHeard ==
  ASSUME IInv, IInv', HangupInv, fault = "none", NEW w \in Workers, Start(w)
  PROVE  HangupInv'
<1>1. /\ wpc[w] = "pop" /\ pending # <<>> /\ pending' = Tail(pending)
      /\ wpc' = [wpc EXCEPT ![w] = "work"] /\ current' = [current EXCEPT ![w] = Head(pending)]
      /\ UNCHANGED <<rec, open, fin, watch, edge, main, orphans>>
  BY DEF Start, WorkerGoto, memory, sockets, epoll, flaws, lost
<1>2. /\ wpc'[w] = "work" /\ current'[w] = Head(pending)
      /\ \A v \in Workers : v # w => wpc'[v] = wpc[v] /\ current'[v] = current[v]
  BY <1>1 DEF IInv, TypeOK, ThreadTypes
<1>3. /\ Head(pending) = pending[1] /\ Len(pending) \in Nat \ {0}
      /\ Len(pending') = Len(pending) - 1
      /\ \A i \in 1..Len(pending') : pending'[i] = pending[i + 1]
  BY <1>1, Popped DEF IInv, TypeOK, ThreadTypes
<1>4. ASSUME NEW q \in Recs, Busy(q) PROVE Busy(q)'
  <2>1. CASE AtWork(q)
    <3>1. PICK v \in Workers : current[v] = q /\ ~LetsGo(v)
      BY <2>1 DEF AtWork
    <3>2. v # w
      BY <1>1, <3>1 DEF LetsGo
    <3> QED  BY <1>2, <3>1, <3>2 DEF Busy, AtWork, LetsGo
  <2>2. CASE InQueue(q)
    <3>1. PICK i \in 1..Len(pending) : pending[i] = q
      BY <2>2 DEF InQueue
    <3>2. CASE i = 1
      BY <1>2, <1>3, <3>1, <3>2 DEF Busy, AtWork, LetsGo
    <3>3. CASE i # 1
      <4>1. i - 1 \in 1..Len(pending') /\ pending'[i - 1] = q
        BY <1>3, <3>1, <3>3
      <4> QED  BY <4>1 DEF Busy, InQueue
    <3> QED  BY <3>2, <3>3
  <2> QED  BY <1>4, <2>1, <2>2 DEF Busy
<1> QED
  <2>1. open' \in SUBSET Fds /\ fin' \in SUBSET open'
    BY DEF IInv, TypeOK, SocketTypes
  <2> QED  BY <1>1, <1>4, <2>1, OthersHeard, fault = "none"

(* A worker goes on with its request: what it has, it keeps.                 *)
LEMMA MovesHeard ==
  ASSUME IInv, IInv', HangupInv, fault = "none", \A v \in Workers : LetsGo(v)' => LetsGo(v),
         UNCHANGED <<open, fin, epoll, main, handoff, orphans>>,
         \A q \in Recs : rec'[q].fd = rec[q].fd /\ (Watched(q) => rec'[q].state = rec[q].state)
  PROVE  HangupInv'
<1>1. \A q \in Recs : Busy(q) => Busy(q)'
  BY BusyStays
<1>2. open' \in SUBSET Fds /\ fin' \in SUBSET open' /\ watch' = watch /\ edge' = edge
  BY DEF IInv, TypeOK, SocketTypes, epoll
<1> QED  BY <1>1, <1>2, OthersHeard, fault = "none"

(* A worker is done with record c, and leaves its descriptor to epoll,       *)
(* closed, or lost.                                                          *)
LEMMA ReturnHeard ==
  ASSUME IInv, IInv', HangupInv, fault = "none", NEW w \in Workers,
         NEW from \in WorkerPc \ {"pop"}, Return(w, from), NEW c, c = current[w], UNCHANGED main,
         NEW X, from \notin {"peer", "mod"} => rec[c].fd \in X,
         \A f \in Fds \ X :
           /\ f \in open' => f \in open
           /\ f \in fin' => f \in fin
           /\ f \in orphans => f \in orphans'
           /\ watch'[f] = watch[f] /\ (f \in edge => f \in edge'),
         \A q \in Recs : rec[q].fd \notin X => rec'[q].state = rec[q].state /\ rec'[q].fd = rec[q].fd,
         \A f \in X : /\ f \in open' \ orphans' => watch'[f] # NULL
                      /\ f \in fin' \ orphans' => Heard(f)'
  PROVE  HangupInv'
<1>1. open' \in SUBSET Fds /\ fin' \in SUBSET open'
  BY DEF IInv, TypeOK, SocketTypes
<1>2. \A q \in Recs : Busy(q) /\ rec[q].fd \notin X => Busy(q)' /\ rec'[q].fd = rec[q].fd
  <2>1. \A q \in Recs : q # c => (Busy(q)' <=> Busy(q))
    BY Returned
  <2>2. from \in {"peer", "mod"} => (Busy(c)' <=> Busy(c))
    BY Returned
  <2> QED  BY <2>1, <2>2
<1>3. \A f \in X : f \in open' \ orphans' => Held(f)'
  BY DEF Held
<1> QED  BY <1>1, <1>2, <1>3, OthersHeard, fault = "none"

(* The steps that end a request, or the setting up of a proxied one.         *)
LEMMA FinishHeard ==
  ASSUME IInv, IInv', HangupInv, fault = "none", NEW w \in Workers, Reject(w) \/ Rearm(w) \/ ReAdd(w)
  PROVE  HangupInv'
<1>1. TypeOK /\ SocketTypes /\ ThreadInv /\ WatchMatches
  BY DEF IInv, TypeOK
<1>2. PICK c : c = current[w]
  OBVIOUS
<1>3. /\ wpc[w] \in {"work", "rearm", "readd"} /\ ~LetsGo(w)
      /\ {"work", "rearm", "readd"} \subseteq WorkerPc \ {"pop"} /\ "peer" \in WorkerPc
  BY <1>1 DEF Reject, Rearm, ReAdd, Return, WorkerGoto, LetsGo, WorkerPc
<1>4. c \in Recs /\ rec[c].fd \in Fds /\ Busy(c)
  BY <1>2, <1>3, Unproxied
<1> DEFINE f == rec[c].fd
           X == {f}
<1>5. ASSUME NEW from \in {"work", "rearm", "readd"}, Return(w, from), Abandon(w), UNCHANGED main
      PROVE  HangupInv'
  <2>1. /\ open' = open \ {f} /\ fin' = fin \ {f} /\ orphans' = orphans \ {f} /\ rec' = rec
        /\ watch' = watch /\ edge' = edge
    BY <1>2, <1>5 DEF Abandon, CloseFds, Client, epoll
  <2>2. \A g \in Fds \ X :
          /\ g \in open' => g \in open
          /\ g \in fin' => g \in fin
          /\ g \in orphans => g \in orphans'
          /\ watch'[g] = watch[g] /\ (g \in edge => g \in edge')
    BY <2>1
  <2>3. \A g \in X : g \notin open' /\ g \notin fin'
    BY <2>1
  <2>4. from \in WorkerPc \ {"pop"} /\ f \in X
    BY <1>3
  <2> HIDE DEF X
  <2> QED  BY <1>2, <1>5, <2>1, <2>2, <2>3, <2>4, ReturnHeard, fault = "none"
<1>6. CASE Reject(w)
  <2>1. Return(w, "work") /\ Abandon(w) /\ UNCHANGED main
    BY <1>6 DEF Reject
  <2> QED  BY <1>5, <2>1
<1>7. CASE Rearm(w)
  <2>1. Return(w, "rearm") /\ UNCHANGED main
    BY <1>7 DEF Rearm
  <2>2. CASE Abandon(w)
    BY <1>5, <2>1, <2>2
  <2>3. CASE ~Abandon(w)
    <3>1. /\ rec' = [rec EXCEPT ![c] = NewRecord(f)] /\ Watch(f, c) /\ UNCHANGED <<open, fin, orphans>>
      BY <1>2, <1>7, <2>3 DEF Rearm, Forget, Client, sockets, lost
    <3>2. /\ watch'[f] = c /\ (\A g \in Fds : g # f => watch'[g] = watch[g]) /\ edge \subseteq edge'
      BY <1>1, <1>4, <3>1, Rewatched
    <3>3. \A q \in Recs : q # c => rec'[q] = rec[q]
      BY <3>1 DEF IInv, TypeOK, MemoryTypes
    <3>4. rec'[c].state = "READ_REQUEST" /\ c # NULL
      <4>1. rec'[c] = NewRecord(f)
        BY <1>1, <1>4, <3>1 DEF TypeOK, MemoryTypes
      <4> QED  BY <1>4, <4>1, Constants DEF NewRecord
    <3>5. \A g \in X : watch'[g] # NULL /\ Heard(g)'
      BY <3>2, <3>4 DEF Heard
    <3>6. \A g \in Fds \ X : watch'[g] = watch[g] /\ (g \in edge => g \in edge')
      BY <3>2
    <3>7. /\ "rearm" \in WorkerPc \ {"pop"} /\ f \in X
          /\ \A q \in Recs : rec[q].fd \notin X => rec'[q].state = rec[q].state /\ rec'[q].fd = rec[q].fd
      BY <1>3, <3>3
    <3> HIDE DEF X
    <3> QED  BY <1>2, <2>1, <3>1, <3>5, <3>6, <3>7, ReturnHeard, fault = "none"
  <2> QED  BY <2>2, <2>3
<1>8. CASE ReAdd(w)
  <2>1. CASE WorkerGoto(w, "readd", "peer")
    <3>1. Watch(f, c) /\ UNCHANGED <<rec, open, fin, main, handoff, orphans>>
      <4>1. wpc' = [wpc EXCEPT ![w] = "peer"] /\ wpc \in [Workers -> WorkerPc]
        BY <1>1, <2>1 DEF WorkerGoto, TypeOK, ThreadTypes
      <4>2. wpc'[w] = "peer"
        BY <4>1
      <4>3. ~Return(w, "readd")
        BY <4>1, <4>2 DEF Return, WorkerGoto
      <4>4. Watch(f, c) /\ UNCHANGED <<memory, sockets, main, handoff, flaws>>
        BY <1>2, <1>8, <4>3, Zenon DEF ReAdd, Client
      <4> QED  BY <4>4 DEF memory, sockets, flaws, lost
    <3>2. /\ watch'[f] = c /\ (\A g \in Fds : g # f => watch'[g] = watch[g]) /\ edge \subseteq edge'
          /\ Readable(f) => f \in edge'
      BY <1>1, <1>4, <3>1, Rewatched
    <3>3. \A g \in X : Held(g)' /\ (g \in fin' => Heard(g)')
      <4>1. c # NULL /\ (f \in fin' => f \in edge')
        BY <1>4, <3>1, <3>2, Constants DEF Readable
      <4> QED  BY <3>2, <4>1 DEF Held, Heard
    <3>4. \A q \in Recs : Busy(q) /\ rec[q].fd \notin X => Busy(q)'
      <4>1. \A v \in Workers : v # w => wpc'[v] = wpc[v]
        BY <1>1, <2>1 DEF WorkerGoto, TypeOK, ThreadTypes
      <4>2. pending' = pending /\ current' = current
        BY <3>1 DEF handoff
      <4> QED  BY <1>2, <4>1, <4>2 DEF Busy, InQueue, AtWork, LetsGo
    <3>5. open' \in SUBSET Fds /\ fin' \in SUBSET open'
      BY <1>1, <3>1 DEF SocketTypes
    <3>6. \A g \in Fds \ X : watch'[g] = watch[g] /\ (g \in edge => g \in edge')
      BY <3>2
    <3> HIDE DEF X
    <3> QED  BY <3>1, <3>3, <3>4, <3>5, <3>6, OthersHeard, fault = "none"
  <2>2. CASE ~WorkerGoto(w, "readd", "peer")
    <3>1. Return(w, "readd") /\ UNCHANGED main
      BY <1>8, <2>2 DEF ReAdd
    <3>2. CASE rec[c].peer = NULL
      BY <1>2, <1>5, <1>8, <2>2, <3>1, <3>2 DEF ReAdd, Client
    <3>3. CASE rec[c].peer # NULL
      BY <1>2, <1>8, <2>2, <3>3 DEF ReAdd, Client, HangupInv
    <3> QED  BY <3>2, <3>3
  <2> QED  BY <2>1, <2>2
<1> QED  BY <1>6, <1>7, <1>8

(* An upstream connection is set up, or is not.                              *)
LEMMA ConnectHeard ==
  ASSUME IInv, IInv', HangupInv, fault = "none", NEW w \in Workers,
         ConnectFails(w) \/ \E u \in Fds, q \in Recs : Connected(w, u, q)
  PROVE  HangupInv'
<1>1. TypeOK /\ WatchMatches /\ BusyInv
  BY DEF IInv
<1>2. PICK c : c = current[w]
  OBVIOUS
<1>3. /\ wpc[w] = "connect" /\ wpc'[w] = "test" /\ ~LetsGo(w) /\ UNCHANGED <<fin, main, handoff, orphans>>
      /\ \A v \in Workers : v # w => wpc'[v] = wpc[v]
  BY <1>1 DEF ConnectFails, Connected, WorkerGoto, LetsGo, TypeOK, ThreadTypes, WorkerPc, sockets, flaws, lost
<1>4. c \in Recs /\ rec[c].fd \in Fds /\ Busy(c) /\ rec[c].state = "READ_REQUEST" /\ ~Watched(c)
  <2>1. c \in Recs /\ rec[c].fd \in Fds /\ Busy(c) /\ rec[c].state = "READ_REQUEST"
    BY <1>2, <1>3, Unproxied
  <2> QED  BY <1>1, <2>1, WatchedIs
<1>5. \A v \in Workers : LetsGo(v)' => LetsGo(v)
  BY <1>3 DEF LetsGo
<1>6. CASE ConnectFails(w)
  <2>1. \A q \in Recs : rec'[q].fd = rec[q].fd /\ rec'[q].state = rec[q].state
    <3>1. rec' = rec \/ rec' = [rec EXCEPT ![c] = NewRecord(rec[c].fd)]
      BY <1>2, <1>6 DEF ConnectFails, Forget, Client
    <3>2. ASSUME rec' = [rec EXCEPT ![c] = NewRecord(rec[c].fd)], NEW q \in Recs
          PROVE  rec'[q].fd = rec[q].fd /\ rec'[q].state = rec[q].state
      <4>1. rec'[q] = IF q = c THEN NewRecord(rec[c].fd) ELSE rec[q]
        BY <1>1, <3>2 DEF TypeOK, MemoryTypes
      <4> QED  BY <1>4, <4>1 DEF NewRecord
    <3> QED  BY <3>1, <3>2
  <2>2. UNCHANGED <<open, fin, epoll, main, handoff, orphans>>
    BY <1>3, <1>6 DEF ConnectFails, sockets
  <2> QED  BY <1>5, <2>1, <2>2, MovesHeard, fault = "none"
<1>7. ASSUME NEW u \in Fds, NEW q \in Recs, Connected(w, u, q) PROVE HangupInv'
  <2>1. /\ u \notin open /\ q \notin alloc /\ open' = open \cup {u} /\ Watch(u, q)
        /\ rec' = [rec EXCEPT ![c].state = "PROXYING", ![c].peer = q,
                              ![q] = [NewRecord(u) EXCEPT !.state = "PROXYING", !.peer = c]]
    BY <1>2, <1>7 DEF Connected, Client
  <2>2. ~Busy(q) /\ ~Watched(q) /\ q # c
    BY <1>4, <2>1, Unallocated
  <2>3. /\ rec'[c].fd = rec[c].fd
        /\ \A r \in Recs : r # c /\ r # q => rec'[r] = rec[r]
    <3>1. rec \in [Recs -> Records] /\ rec[c] \in Records
      BY <1>1, <1>4 DEF TypeOK, MemoryTypes
    <3>2. rec'[c] = [rec[c] EXCEPT !.state = "PROXYING", !.peer = q]
      BY <1>4, <2>1, <2>2, <3>1
    <3> QED  BY <2>1, <3>1, <3>2, ZenonT(30) DEF Records
  <2>4. /\ watch'[u] = q /\ (\A g \in Fds : g # u => watch'[g] = watch[g]) /\ edge \subseteq edge' /\ q # NULL
    BY <1>1, <2>1, Rewatched, Constants DEF TypeOK
  <2>5. \A r \in Recs : Busy(r) => Busy(r)' /\ rec'[r].fd = rec[r].fd
    BY <1>3, <1>5, <2>2, <2>3, BusyStays
  <2> DEFINE X == {u}
  <2>6. \A g \in X : Held(g)' /\ g \notin fin'
    BY <1>1, <1>3, <2>1, <2>4 DEF Held, TypeOK, SocketTypes
  <2>7. \A g \in Fds \ X : (g \in open' => g \in open) /\ watch'[g] = watch[g] /\ (g \in edge => g \in edge')
    BY <2>1, <2>4
  <2>8. \A r \in Recs : Watched(r) => rec'[r].state = rec[r].state
    BY <1>4, <2>2, <2>3
  <2>9. open' \in SUBSET Fds /\ fin' \in SUBSET open'
    BY DEF IInv, TypeOK, SocketTypes
  <2> HIDE DEF X
  <2> QED  BY <1>3, <2>5, <2>6, <2>7, <2>8, <2>9, OthersHeard, fault = "none"
<1> QED  BY <1>6, <1>7

(* After a failed send the upstream connection is closed, and the client's   *)
(* is lost.                                                                  *)
LEMMA SendFailedHeard ==
  ASSUME IInv, IInv', HangupInv, fault = "none", NEW w \in Workers, SendFailed(w)
  PROVE  HangupInv'
<1> SUFFICES ASSUME fault' = "none" PROVE HangupInv'
  BY DEF HangupInv
<1>1. PICK c : c = current[w]
  OBVIOUS
<1>2. PICK q : q = rec[c].peer
  OBVIOUS
<1>3. /\ Return(w, "failed") /\ UNCHANGED main
      /\ rec' = [rec EXCEPT ![c] = NewRecord(rec[c].fd)]
      /\ open' = open \ {rec[q].fd} /\ fin' = fin \ {rec[q].fd} /\ Unwatch(rec[q].fd)
      /\ orphans' = (orphans \ {rec[q].fd}) \cup {rec[c].fd}
  BY <1>1, <1>2, fault' = "none" DEF SendFailed, Client, Forget
<1> DEFINE X == {rec[q].fd, rec[c].fd}
<1>4. \A g \in Fds \ X :
        /\ g \in open' => g \in open
        /\ g \in fin' => g \in fin
        /\ g \in orphans => g \in orphans'
        /\ watch'[g] = watch[g] /\ (g \in edge => g \in edge')
  BY <1>3 DEF Unwatch, IInv, TypeOK, SocketTypes
<1>5. \A g \in X : g \notin open' \ orphans' /\ g \notin fin' \ orphans'
  BY <1>3
<1>6. \A r \in Recs : r # c => rec'[r] = rec[r]
  BY <1>3 DEF IInv, TypeOK, MemoryTypes
<1>7. "failed" \in WorkerPc \ {"pop"} /\ rec[c].fd \in X
  BY DEF WorkerPc
<1>8. \A r \in Recs : rec[r].fd \notin X => rec'[r].state = rec[r].state /\ rec'[r].fd = rec[r].fd
  BY <1>6
<1> HIDE DEF X
<1> QED  BY <1>1, <1>3, <1>4, <1>5, <1>7, <1>8, ReturnHeard, fault = "none"

(* The last look at the peer arms its descriptor, which is armed.            *)
LEMMA LookHeard ==
  ASSUME IInv, IInv', HangupInv, fault = "none", NEW w \in Workers, LookAtPeer(w) \/ ModPeer(w)
  PROVE  HangupInv'
<1> SUFFICES ASSUME fault' = "none" PROVE HangupInv'
  BY DEF HangupInv
<1>1. TypeOK /\ ThreadInv /\ LifeInv /\ SocketTypes
  BY DEF IInv, TypeOK
<1>2. PICK c : c = current[w]
  OBVIOUS
<1>3. {"peer", "mod"} \subseteq WorkerPc \ {"pop"}
  BY DEF WorkerPc
<1>4. CASE LookAtPeer(w)
  <2>1. UNCHANGED <<rec, open, fin, epoll, main, orphans>> /\ watch' = watch /\ edge' = edge
    BY <1>4 DEF LookAtPeer, memory, sockets, epoll
  <2>2. CASE Return(w, "peer")
    <3> DEFINE X == {}
    <3>1. "peer" \in WorkerPc \ {"pop"} /\ \A g \in X : FALSE
      BY <1>3
    <3> HIDE DEF X
    <3> QED  BY <1>2, <2>1, <2>2, <3>1, ReturnHeard, fault = "none"
  <2>3. CASE ~Return(w, "peer")
    <3>1. WorkerGoto(w, "peer", "mod") /\ UNCHANGED handoff
      BY <1>4, <2>3 DEF LookAtPeer
    <3>2. \A v \in Workers : LetsGo(v)' => LetsGo(v)
      BY <1>1, <3>1 DEF WorkerGoto, LetsGo, TypeOK, ThreadTypes
    <3> QED  BY <2>1, <3>1, <3>2, MovesHeard, fault = "none"
  <2> QED  BY <2>2, <2>3
<1>5. CASE ModPeer(w)
  <2>1. PICK r : r = rec[c].peer
    OBVIOUS
  <2>2. /\ Return(w, "mod") /\ wpc[w] = "mod" /\ r # NULL /\ w \notin stale
        /\ Watch(rec[r].fd, r) /\ UNCHANGED <<rec, open, fin, main, orphans>>
    BY <1>2, <1>5, <2>1, fault' = "none"
    DEF ModPeer, Client, Return, WorkerGoto, memory, sockets, lost
  <2>3. c \in alloc
    BY <1>1, <1>2, <2>2 DEF LifeInv, ThreadInv, TypeOK, ThreadTypes
  <2>4. r \in alloc /\ r \in Recs /\ rec[r].peer = c /\ c # NULL /\ (Watched(r) \/ AtWork(r))
    BY <2>1, <2>2, <2>3, PeersApart, Constants, fault = "none" DEF TypeOK, MemoryTypes
  <2>5. ~AtWork(r)
    <3>1. AtWork(r) => \A v \in Workers : current[v] = rec[r].peer => v \in stale
      BY <2>4, PeersApart, fault = "none"
    <3> QED  BY <1>2, <2>2, <2>4, <3>1
  <2>6. rec[r].fd \in Fds /\ watch[rec[r].fd] = r
    BY <2>4, <2>5 DEF Watched
  <2>7. (\A g \in Fds : watch'[g] = watch[g]) /\ edge \subseteq edge'
    BY <1>1, <2>2, <2>4, <2>6, Rewatched
  <2> DEFINE X == {}
  <2>8. "mod" \in WorkerPc \ {"pop"} /\ \A g \in X : FALSE
    BY <1>3
  <2> HIDE DEF X
  <2> QED  BY <1>2, <2>2, <2>7, <2>8, ReturnHeard, fault = "none"
<1> QED  BY <1>4, <1>5

(* The other steps of a worker touch its connection's bytes at most.         *)
LEMMA WorkerHeard ==
  ASSUME IInv, IInv', HangupInv, fault = "none", NEW w \in Workers, WorkerStep(w)
  PROVE  HangupInv'
<1>1. CASE Reject(w) \/ Rearm(w) \/ ReAdd(w)
  BY <1>1, FinishHeard, fault = "none"
<1>2. CASE ConnectFails(w) \/ \E u \in Fds, q \in Recs : Connected(w, u, q)
  BY <1>2, ConnectHeard, fault = "none"
<1>3. CASE ServeStaticFile(w) \/ HandleCgiRequest(w) \/ Connect(w) \/ TestPeer(w)
           \/ PeerGone(w) \/ SendRequest(w) \/ PeerOfAnother(w)
  <2>1. UNCHANGED <<memory, open, fin, epoll, main, handoff, orphans>>
    BY <1>3 DEF ServeStaticFile, HandleCgiRequest, Connect, TestPeer, PeerGone, SendRequest, PeerOfAnother,
                sockets, flaws, lost
  <2>2. \A v \in Workers : LetsGo(v)' => LetsGo(v)
    BY <1>3 DEF IInv, ServeStaticFile, HandleCgiRequest, Connect, TestPeer, PeerGone, SendRequest,
                PeerOfAnother, WorkerGoto, LetsGo, TypeOK, ThreadTypes
  <2>3. rec' = rec
    BY <2>1 DEF memory
  <2> QED  BY <2>1, <2>2, <2>3, MovesHeard, fault = "none"
<1> QED  BY <1>1, <1>2, <1>3, StartHeard, SendFailedHeard, LookHeard, fault = "none" DEF WorkerStep

(* Every step leaves every hang-up with someone who will see to it.          *)
LEMMA HangupStep == IInv /\ IInv' /\ HangupInv /\ [Next]_vars => HangupInv'
<1> SUFFICES ASSUME IInv, IInv', HangupInv, [Next]_vars PROVE HangupInv'
  OBVIOUS
<1>1. CASE UNCHANGED vars
  <2>1. UNCHANGED <<rec, open, fin, watch, edge, batch, mpc, cur, pending, current, wpc, orphans, fault>>
    BY <1>1 DEF vars, memory, sockets, epoll, main, handoff, flaws, lost
  <2> QED  BY <2>1 DEF HangupInv, Held, Heard, Busy, InQueue, AtWork, LetsGo
<1>2. CASE Next
  BY <1>2, NetworkHeard, AcceptHeard, MainHeard, WorkerHeard DEF Next
<1> QED  BY <1>1, <1>2

(* The epoll loop of main and handle_work: when nobody has anything to do,   *)
(* no connection is left whose other end is gone, or was shut down by        *)
(* cleanup_client, but for those the server lost track of; which is          *)
(* HangupsEnd without the fairness.                                          *)
THEOREM HangupsHeard == Spec => []NoHangupForgotten
<1>1. Init => HangupInv
  BY DEF Init, HangupInv
<1>2. IInv /\ HangupInv => NoHangupForgotten
  <2> SUFFICES ASSUME IInv, HangupInv, fault = "none", Idle, NEW f \in fin, f \notin orphans
               PROVE  FALSE
    BY DEF NoHangupForgotten
  <2>1. TypeOK /\ ThreadInv /\ WatchMatches /\ NoEdgeLost /\ f \in open /\ f \in Fds
    BY DEF IInv, TypeOK, SocketTypes
  <2>2. Held(f) /\ Heard(f)
    BY <2>1, fault = "none" DEF HangupInv
  <2>3. \A r \in Recs : ~Busy(r)
    <3>1. Len(pending) = 0 /\ \A w \in Workers : LetsGo(w)
      BY DEF Idle, LetsGo
    <3> QED  BY <3>1 DEF Busy, InQueue, AtWork
  <2>4. watch[f] \in Recs /\ watch[f] # NULL
    BY <2>1, <2>2, <2>3 DEF Held, TypeOK, SocketTypes
  <2>5. rec[watch[f]].state # "PROXYING"
    BY <2>2, <2>4 DEF Heard, Idle
  <2>6. rec[watch[f]].state = "READ_REQUEST"
    BY <2>1, <2>4, <2>5, Fields
  <2>7. cur = NULL
    BY <2>1 DEF Idle, ThreadInv
  <2> QED  BY <2>1, <2>4, <2>6, <2>7 DEF NoEdgeLost, Readable, Idle
<1> QED  BY Invariance, HangupStep, <1>1, <1>2, PTL DEF Spec

-----------------------------------------------------------------------------
(* The hand-off, as TaskFifo has it. *)

(* A worker has what it took from the queue until it lets go of it.          *)
Serving == [w \in Workers |-> IF LetsGo(w) THEN NULL ELSE current[w]]

(* A step that leaves the queue alone and what the workers have is a stutter *)
(* of TaskFifo.                                                              *)
LEMMA SameLine ==
  ASSUME pending' = pending,
         \A w \in Workers : LetsGo(w)' = LetsGo(w) /\ (~LetsGo(w) => current'[w] = current[w])
  PROVE  UNCHANGED Fifo!vars
<1>1. Serving' = Serving
  BY DEF Serving
<1> QED  BY <1>1 DEF Serving, Fifo!vars

(* The workers go on with what they have.                                    *)
LEMMA Onwards ==
  ASSUME UNCHANGED handoff, wpc \in [Workers -> WorkerPc],
         \/ UNCHANGED wpc
         \/ \E w \in Workers : \E from, to \in WorkerPc :
              /\ WorkerGoto(w, from, to)
              /\ from \in {"pop", "peer", "mod"} <=> to \in {"pop", "peer", "mod"}
  PROVE  UNCHANGED Fifo!vars
<1>1. pending' = pending /\ current' = current
  BY DEF handoff
<1>2. \A v \in Workers : LetsGo(v)' = LetsGo(v)
  BY DEF LetsGo, WorkerGoto
<1> QED  BY <1>1, <1>2, SameLine

(* queue_push: the record is neither in the queue nor with a worker.         *)
LEMMA RecvRequestSubmits ==
  ASSUME IInv, fault = "none", RecvRequest
  PROVE  \E r \in Recs : Fifo!Submit(r)
<1>1. cur \in Recs
  BY Handled DEF RecvRequest, MainGoto, Handling
<1>2. PICK r \in Recs : r = cur
  BY <1>1
<1>3. ~InQueue(r) /\ ~AtWork(r) /\ pending' = Append(pending, r)
  BY <1>2, RecvRequestKept
<1>4. UNCHANGED <<current, wpc>>
  BY DEF RecvRequest
<1>5. Serving' = Serving /\ \A w \in Workers : Serving[w] # r
  BY <1>3, <1>4, Constants DEF Serving, LetsGo, AtWork
<1>6. \A i \in 1..Len(pending) : pending[i] # r
  BY <1>3 DEF InQueue
<1>7. Fifo!Submit(r)
  BY <1>3, <1>5, <1>6 DEF Fifo!Submit, Fifo!Idle, Serving
<1> QED  BY <1>7

(* queue_pop: a worker that has nothing takes the first record.              *)
LEMMA StartStarts ==
  ASSUME IInv, NEW w \in Workers, Start(w)
  PROVE  Fifo!Start(w)
<1>1. wpc \in [Workers -> WorkerPc] /\ current \in [Workers -> Recs \cup {NULL}]
  BY DEF IInv, TypeOK, ThreadTypes
<1>2. /\ wpc[w] = "pop" /\ wpc' = [wpc EXCEPT ![w] = "work"]
      /\ current' = [current EXCEPT ![w] = Head(pending)]
      /\ pending # <<>> /\ pending' = Tail(pending)
  BY DEF Start, WorkerGoto
<1>3. Serving[w] = NULL /\ Serving' = [Serving EXCEPT ![w] = Head(pending)]
  BY <1>1, <1>2 DEF Serving, LetsGo
<1> QED  BY <1>2, <1>3 DEF Fifo!Start, Serving

(* A worker gives its record back, or goes on to its last look at the peer.  *)
LEMMA LetsGoFinishes ==
  ASSUME IInv, NEW w \in Workers, ~LetsGo(w), LetsGo(w)', pending' = pending,
         \A v \in Workers : v # w => wpc'[v] = wpc[v] /\ current'[v] = current[v]
  PROVE  Fifo!Finish(w)
<1>1. current[w] # NULL
  BY DEF IInv, ThreadInv, LetsGo
<1>2. Serving[w] # NULL /\ Serving' = [Serving EXCEPT ![w] = NULL]
  BY <1>1 DEF Serving, LetsGo
<1> QED  BY <1>2 DEF Fifo!Finish, Serving

(* handle_work returns.                                                      *)
LEMMA ReturnFinishes ==
  ASSUME IInv, NEW w \in Workers, NEW from \in WorkerPc \ {"pop"}, Return(w, from)
  PROVE  IF from \in {"peer", "mod"} THEN UNCHANGED Fifo!vars ELSE Fifo!Finish(w)
<1>1. /\ wpc[w] = from /\ wpc'[w] = "pop" /\ pending' = pending
      /\ \A v \in Workers : v # w => wpc'[v] = wpc[v] /\ current'[v] = current[v]
  BY Returned
<1>2. CASE from \in {"peer", "mod"}
  BY <1>1, <1>2, SameLine DEF LetsGo
<1>3. CASE from \notin {"peer", "mod"}
  BY <1>1, <1>3, LetsGoFinishes DEF LetsGo
<1> QED  BY <1>2, <1>3

(* server.c:324-326 takes a connection out of epoll before it pushes it, and *)
(* handle_work puts it back when it is done: so main hands over no record    *)
(* that is in the queue or with a worker, which is what TaskFifo asks for.   *)
THEOREM QueueUsedAsAsked == Spec => UsesFifo
<1>1. Init => Fifo!Init
  BY DEF Init, Fifo!Init, LetsGo
<1>2. IInv /\ [Next]_vars => [Fifo!Next]_(Fifo!vars)
  <2> SUFFICES ASSUME IInv, [Next]_vars PROVE [Fifo!Next]_(Fifo!vars)
    OBVIOUS
  <2>1. wpc \in [Workers -> WorkerPc]
    BY DEF IInv, TypeOK, ThreadTypes
  <2>2. ASSUME UNCHANGED <<handoff, wpc>> PROVE UNCHANGED Fifo!vars
    BY <2>1, <2>2, Onwards
  <2>3. CASE UNCHANGED vars
    BY <2>2, <2>3 DEF vars
  <2>4. CASE Network \/ \E f \in Fds, r \in Recs : Accept(f, r)
    BY <2>2, <2>4 DEF Network, Arrive, Gone, Accept
  <2>5. CASE fault = "none" /\ MainStep
    <3>1. CASE RecvRequest
      BY <2>5, <3>1, RecvRequestSubmits DEF Fifo!Next
    <3>2. CASE ~RecvRequest
      <4>1. UNCHANGED <<handoff, wpc>>
        BY <2>5, <3>2 DEF MainStep, EpollWait, TakeEvent, RecvMore, RecvEnd, RecvDone, CheckSize,
                          CloseTooLarge, Relay, RelayWaits, RelayEnd
      <4> QED  BY <2>2, <4>1
    <3> QED  BY <3>1, <3>2
  <2>6. ASSUME NEW w \in Workers, WorkerStep(w) PROVE [Fifo!Next]_(Fifo!vars)
    <3>1. CASE Start(w)
      BY <3>1, StartStarts DEF Fifo!Next
    <3>2. ASSUME NEW from \in WorkerPc \ {"pop"}, Return(w, from)
          PROVE  [Fifo!Next]_(Fifo!vars)
      BY <3>2, ReturnFinishes DEF Fifo!Next
    <3>3. CASE Reject(w) \/ Rearm(w) \/ SendFailed(w) \/ ModPeer(w)
      BY <3>2, <3>3 DEF Reject, Rearm, SendFailed, ModPeer, WorkerPc
    <3>4. CASE \/ ServeStaticFile(w) \/ HandleCgiRequest(w) \/ Connect(w) \/ ConnectFails(w)
               \/ TestPeer(w) \/ SendRequest(w) \/ \E u \in Fds, q \in Recs : Connected(w, u, q)
      <4>1. /\ UNCHANGED handoff
            /\ \E from, to \in WorkerPc \ {"pop", "peer", "mod"} : WorkerGoto(w, from, to)
        BY <3>4 DEF ServeStaticFile, HandleCgiRequest, Connect, ConnectFails, TestPeer, SendRequest,
                    Connected, WorkerPc
      <4> QED  BY <2>1, <4>1, Onwards
    <3>5. CASE PeerGone(w) \/ PeerOfAnother(w)
      BY <2>2, <3>5 DEF PeerGone, PeerOfAnother
    <3>6. CASE ReAdd(w)
      <4>1. CASE Return(w, "readd")
        BY <3>2, <4>1 DEF WorkerPc
      <4>2. CASE ~Return(w, "readd")
        <5>1. WorkerGoto(w, "readd", "peer") /\ UNCHANGED handoff
          BY <3>6, <4>2 DEF ReAdd
        <5>2. ~LetsGo(w) /\ LetsGo(w)' /\ \A v \in Workers : v # w => wpc'[v] = wpc[v]
          BY <2>1, <5>1 DEF WorkerGoto, LetsGo
        <5> QED  BY <5>1, <5>2, LetsGoFinishes DEF handoff, Fifo!Next
      <4> QED  BY <4>1, <4>2
    <3>7. CASE LookAtPeer(w)
      <4>1. CASE Return(w, "peer")
        BY <3>2, <4>1 DEF WorkerPc
      <4>2. CASE ~Return(w, "peer")
        <5>1. WorkerGoto(w, "peer", "mod") /\ UNCHANGED handoff
          BY <3>7, <4>2 DEF LookAtPeer
        <5> QED  BY <2>1, <5>1, Onwards DEF WorkerPc
      <4> QED  BY <4>1, <4>2
    <3> QED  BY <2>6, <3>1, <3>3, <3>4, <3>5, <3>6, <3>7 DEF WorkerStep
  <2> QED  BY <2>3, <2>4, <2>5, <2>6 DEF Next
<1> QED  BY <1>1, <1>2, Invariance, PTL DEF Spec, UsesFifo, Fifo!Spec

-----------------------------------------------------------------------------
(* The part of a file that is sent: of a file of any size, through a buffer  *)
(* of any size.  By induction over the buffers.                              *)

(* One buffer, as far as it is there and wanted. *)
NextBuffer(there, wanted, sent) ==
  sent + Smaller(there - sent, Smaller(BUFFER_SIZE, wanted - sent))

(* A buffer brings the sending on, and not beyond what is there and wanted.  *)
LEMMA BufferSent ==
  ASSUME NEW there \in Nat, NEW wanted \in Nat, NEW sent \in Nat,
         sent <= there, sent <= wanted
  PROVE  /\ NextBuffer(there, wanted, sent) \in Nat
         /\ NextBuffer(there, wanted, sent) <= there
         /\ NextBuffer(there, wanted, sent) <= wanted
         /\ sent < there /\ sent < wanted => NextBuffer(there, wanted, sent) >= sent + 1
<1>1. BUFFER_SIZE \in Nat /\ BUFFER_SIZE >= 1
  BY RangesAssumption
<1> QED  BY <1>1 DEF NextBuffer, Smaller

(* fread and send, until all that is there or all that is wanted is sent.    *)
LEMMA SentIs ==
  ASSUME NEW range, NEW size, There(range, size) \in Nat, NEW limit \in Int
  PROVE  Sent(range, size, limit)
           = IF limit < 0 THEN There(range, size)
             ELSE Smaller(There(range, size), limit)
<1> DEFINE there == There(range, size)
           wanted == IF limit < 0 THEN there + BUFFER_SIZE ELSE limit
           last == there + 1
           Def(g) ==
             [round \in 0..last |->
                IF round = 0 THEN 0
                ELSE g[round - 1]
                     + Smaller(there - g[round - 1],
                               Smaller(BUFFER_SIZE, wanted - g[round - 1]))]
           step == [x \in (1..last) \X Int |-> NextBuffer(there, wanted, x[2])]
           loop == CHOOSE f : f = Def(f)
<1>1. BUFFER_SIZE \in Nat /\ BUFFER_SIZE >= 1
  BY RangesAssumption
<1>2. /\ there \in Nat /\ there = There(range, size) /\ last \in Nat /\ wanted \in Nat
      /\ last = there + 1
      /\ limit < 0 => wanted >= there
      /\ ~(limit < 0) => wanted = limit
  BY <1>1
<1>3. Sent(range, size, limit) = loop[last]
  BY DEF Sent
<1> HIDE DEF there, wanted, last
<1>4. step \in Steps(last, Int)
  <2>1. \A sent \in Int : NextBuffer(there, wanted, sent) \in Int
    BY <1>1, <1>2 DEF NextBuffer, Smaller
  <2> QED  BY <2>1 DEF Steps
<1>5. PICK g : Computes(g, last, Int, 0, step)
  <2>1. 0 \in Int
    OBVIOUS
  <2> HIDE DEF step
  <2> QED  BY <1>2, <1>4, <2>1, Recursion
<1>6. ASSUME NEW round \in 1..last PROVE g[round] = NextBuffer(there, wanted, g[round - 1])
  <2>1. round - 1 \in 0..last
    BY <1>2
  <2>2. g[round - 1] \in Int
    BY <1>5, <2>1 DEF Computes
  <2>3. <<round, g[round - 1]>> \in (1..last) \X Int
    BY <2>2
  <2> QED  BY <1>5, <2>3 DEF Computes
<1>7. g = Def(g)
  <2> HIDE DEF step
  <2> QED  BY <1>2, <1>5, <1>6 DEF Computes, NextBuffer
<1>8. loop = Def(loop)
  <2> HIDE DEF Def
  <2> QED  BY <1>7
<1>9. loop[0] = 0 /\ \A round \in 1..last : loop[round] = NextBuffer(there, wanted, loop[round - 1])
  <2> HIDE DEF loop
  <2>1. DOMAIN loop = 0..last /\ \A round \in 0..last : loop[round] = Def(loop)[round]
    BY <1>8
  <2> QED  BY <1>2, <2>1 DEF NextBuffer
<1> HIDE DEF loop
<1> DEFINE S == {round \in 0..last :
                   /\ loop[round] \in Nat /\ loop[round] <= there /\ loop[round] <= wanted
                   /\ loop[round] >= round \/ loop[round] = there \/ loop[round] = wanted}
<1>10. 0 \in S
  BY <1>2, <1>9
<1>11. ASSUME NEW round \in 1..last, round - 1 \in S PROVE round \in S
  <2> DEFINE sent == loop[round - 1]
  <2>1. /\ sent \in Nat /\ sent <= there /\ sent <= wanted
        /\ sent >= round - 1 \/ sent = there \/ sent = wanted
        /\ loop[round] = NextBuffer(there, wanted, sent)
    BY <1>2, <1>9, <1>11
  <2> HIDE DEF sent
  <2>2. /\ loop[round] \in Nat /\ loop[round] <= there /\ loop[round] <= wanted
        /\ sent < there /\ sent < wanted => loop[round] >= sent + 1
    <3>1. there \in Nat /\ wanted \in Nat
      BY <1>2
    <3>2. ASSUME NEW t \in Nat, NEW w \in Nat, NEW s \in Nat, s <= t, s <= w
          PROVE  /\ NextBuffer(t, w, s) \in Nat /\ NextBuffer(t, w, s) <= t
                 /\ NextBuffer(t, w, s) <= w
                 /\ s < t /\ s < w => NextBuffer(t, w, s) >= s + 1
      BY <3>2, BufferSent
    <3>3. /\ NextBuffer(there, wanted, sent) \in Nat /\ NextBuffer(there, wanted, sent) <= there
          /\ NextBuffer(there, wanted, sent) <= wanted
          /\ sent < there /\ sent < wanted => NextBuffer(there, wanted, sent) >= sent + 1
      BY <2>1, <3>1, <3>2
    <3> QED  BY <2>1, <3>3
  <2>3. CASE sent < there /\ sent < wanted
    BY <1>2, <2>1, <2>2, <2>3
  <2>4. CASE sent = there \/ sent = wanted
    <3>1. loop[round] = sent
      BY <1>1, <1>2, <2>1, <2>4 DEF NextBuffer, Smaller
    <3> QED  BY <1>2, <2>1, <2>2, <2>4, <3>1
  <2> QED  BY <1>2, <2>1, <2>3, <2>4
<1> HIDE DEF S
<1>12. last \in S
  <2>1. 0..last \subseteq S
    BY <1>2, <1>10, <1>11, UpTo
  <2> QED  BY <1>2, <2>1
<1>13. /\ loop[last] \in Nat /\ loop[last] <= there /\ loop[last] <= wanted
       /\ loop[last] = there \/ loop[last] = wanted
  BY <1>2, <1>12 DEF S
<1> QED
  BY <1>2, <1>3, <1>13 DEF Smaller

(* Any Range header. *)
SomeRanges == [kind : RangeKinds, first : Nat, last : Nat]

(* serve_static_file: of files of any size, and of any range, the plain      *)
(* server sends as much as it announces exactly if there is as much, and a   *)
(* range inside the file is announced as it was asked for.                   *)
THEOREM EveryRangeHonoured ==
  \A size \in Nat, range \in SomeRanges : RangeHonoured(range, size)
<1> SUFFICES ASSUME NEW size \in Nat, NEW range \in SomeRanges
             PROVE  RangeHonoured(range, size)
  OBVIOUS
<1> DEFINE announced == ContentLength(range, size)
           there == There(range, size)
<1>1. range.first \in Nat /\ range.last \in Nat /\ range.kind \in RangeKinds
  BY DEF SomeRanges
<1>2. StartByte(range) \in Int /\ EndByte(range, size) \in Int
  BY <1>1 DEF StartByte, EndByte, RangeKinds
<1>3. Position(range) \in Nat /\ there \in Nat /\ announced \in Int
  BY <1>2 DEF Position, There, ContentLength
<1>4. SentPlain(range, size) = IF announced < 0 THEN there ELSE Smaller(there, announced)
  <2>1. \A limit \in Int : Sent(range, size, limit) = IF limit < 0 THEN there ELSE Smaller(there, limit)
    BY <1>3, SentIs
  <2> QED  BY <1>3, <2>1 DEF SentPlain
<1>5. SentPlain(range, size) = announced <=> announced \in 0..there
  <2> HIDE DEF announced, there
  <2> QED  BY <1>3, <1>4 DEF Smaller
<1>6. ASSUME Inside(range, size)
      PROVE  /\ Position(range) = FirstAsked(range)
             /\ announced = Cardinality(FirstAsked(range)..LastAsked(range, size))
             /\ announced <= there
  <2> DEFINE first == FirstAsked(range)
             last == LastAsked(range, size)
  <2>1. /\ first \in Nat /\ last \in Int /\ last < size /\ first <= last + 1
        /\ StartByte(range) = first /\ EndByte(range, size) = last
    <3>1. CASE range.kind = "whole"
      BY <1>1, <3>1 DEF FirstAsked, LastAsked, StartByte, EndByte
    <3>2. CASE range.kind = "first"
      BY <1>1, <1>6, <3>2 DEF FirstAsked, LastAsked, StartByte, EndByte, Inside
    <3>3. CASE range.kind = "both"
      BY <1>1, <1>6, <3>3 DEF FirstAsked, LastAsked, StartByte, EndByte, Inside
    <3>4. CASE range.kind = "last"
      BY <1>6, <3>4 DEF Inside
    <3> QED  BY <1>1, <3>1, <3>2, <3>3, <3>4 DEF RangeKinds
  <2> HIDE DEF first, last
  <2>2. Position(range) = first /\ there = size - first
    BY <2>1 DEF Position, There
  <2>3. announced = last - first + 1
    BY <2>1 DEF ContentLength
  <2>4. Cardinality(first..last) = last - first + 1
    BY <2>1, FS_Interval
  <2>5. announced <= there
    BY <2>1, <2>2, <2>3
  <2> QED  BY <2>2, <2>3, <2>4, <2>5 DEF first, last
<1>7. ASSUME range.kind = "last", range.last > 0
      PROVE  announced = SentPlain(range, size) + range.last
  <2>1. StartByte(range) = 0 - range.last /\ EndByte(range, size) = size - 1
    BY <1>7 DEF StartByte, EndByte
  <2>2. announced = size + range.last /\ there = size
    BY <1>1, <1>7, <2>1 DEF ContentLength, Position, There
  <2> HIDE DEF announced, there
  <2> QED  BY <1>1, <1>4, <1>7, <2>2 DEF Smaller
<1> QED  BY <1>5, <1>6, <1>7 DEF RangeHonoured

(* The TLS server's loop and the events after it, one write after the other: *)
(* as long as none of LastWrites was among them, all the buffers are sent    *)
(* and there is somebody to write on, the worker if no write had to wait.    *)
(* After the first of LastWrites nothing is sent any more.                   *)
THEOREM EveryFileEnds ==
  \A there \in Nat : \A outcomes \in [0..there -> Outcomes] : FileEnds(there, outcomes)
<1> SUFFICES ASSUME NEW there \in Nat, NEW outcomes \in [0..there -> Outcomes]
             PROVE  FileEnds(there, outcomes)
  OBVIOUS
<1> DEFINE DefMode(g) ==
             [round \in 0..there |->
                After(IF round = 0 THEN "loop" ELSE g[round - 1], outcomes[round])]
           mode == CHOOSE f : f = DefMode(f)
           DefSent(g) ==
             [round \in 0..there |->
                IF round = 0 THEN 0
                ELSE IF mode[round - 1] = "left" \/ outcomes[round] = "refused" THEN g[round - 1]
                ELSE g[round - 1] + Smaller(there - g[round - 1], BUFFER_SIZE)]
           loop == CHOOSE f : f = DefSent(f)
           Modes == {"loop", "events", "left"}
<1>1. SentTls(there, outcomes) = loop[there]
  BY DEF SentTls
<1>2. /\ mode[0] = After("loop", outcomes[0])
      /\ \A round \in 1..there : mode[round] = After(mode[round - 1], outcomes[round])
  <2> DEFINE step == [x \in (1..there) \X Modes |-> After(x[2], outcomes[x[1]])]
             first == After("loop", outcomes[0])
  <2>1. step \in Steps(there, Modes) /\ first \in Modes
    BY DEF Steps, After
  <2>2. PICK g : Computes(g, there, Modes, first, step)
    <3> HIDE DEF step, first, Modes
    <3> QED  BY <2>1, Recursion
  <2>3. ASSUME NEW round \in 1..there PROVE g[round] = After(g[round - 1], outcomes[round])
    <3>1. round - 1 \in 0..there
      OBVIOUS
    <3>2. <<round, g[round - 1]>> \in (1..there) \X Modes
      BY <2>2, <3>1 DEF Computes
    <3> QED  BY <2>2, <3>2 DEF Computes
  <2>4. g = DefMode(g)
    <3> HIDE DEF step, Modes
    <3> QED  BY <2>2, <2>3 DEF Computes
  <2>5. mode = DefMode(mode)
    <3> HIDE DEF DefMode
    <3> QED  BY <2>4
  <2> HIDE DEF mode
  <2>6. \A round \in 0..there : mode[round] = DefMode(mode)[round]
    BY <2>5
  <2> QED  BY <2>6
<1> HIDE DEF mode
<1>3. /\ loop[0] = 0
      /\ \A round \in 1..there :
           loop[round] = IF mode[round - 1] = "left" \/ outcomes[round] = "refused" THEN loop[round - 1]
                         ELSE loop[round - 1] + Smaller(there - loop[round - 1], BUFFER_SIZE)
  <2> DEFINE step == [x \in (1..there) \X Int |->
                        IF mode[x[1] - 1] = "left" \/ outcomes[x[1]] = "refused" THEN x[2]
                        ELSE x[2] + Smaller(there - x[2], BUFFER_SIZE)]
  <2>1. step \in Steps(there, Int)
    BY RangesAssumption DEF Steps, Smaller
  <2>2. PICK g : Computes(g, there, Int, 0, step)
    <3>1. 0 \in Int
      OBVIOUS
    <3> HIDE DEF step
    <3> QED  BY <2>1, <3>1, Recursion
  <2>3. ASSUME NEW round \in 1..there
        PROVE  g[round] = IF mode[round - 1] = "left" \/ outcomes[round] = "refused" THEN g[round - 1]
                          ELSE g[round - 1] + Smaller(there - g[round - 1], BUFFER_SIZE)
    <3>1. round - 1 \in 0..there
      OBVIOUS
    <3>2. <<round, g[round - 1]>> \in (1..there) \X Int
      BY <2>2, <3>1 DEF Computes
    <3> QED  BY <2>2, <3>2 DEF Computes
  <2>4. g = DefSent(g)
    <3> HIDE DEF step
    <3> QED  BY <2>2, <2>3 DEF Computes
  <2>5. loop = DefSent(loop)
    <3> HIDE DEF DefSent
    <3> QED  BY <2>4
  <2> HIDE DEF loop
  <2>6. \A round \in 0..there : loop[round] = DefSent(loop)[round]
    BY <2>5
  <2> QED  BY <2>6
<1> HIDE DEF loop
<1> DEFINE ends == LastWrites(there, outcomes)
           NoneUpTo(k) == \A j \in 0..k : j \notin ends
           NoWait(k) == \A j \in 0..k : outcomes[j] # "waits"
           Whole(k) == Smaller(there, BUFFER_SIZE * k)
           Going(k) == /\ mode[k] = IF NoWait(k) THEN "loop" ELSE "events"
                       /\ loop[k] = Whole(k)
           S == {k \in 0..there : NoneUpTo(k) => Going(k)}
<1>4. \A j \in 0..there :
        j \in ends <=> (outcomes[j] = "refused" \/ (outcomes[j] = "room" /\ ~NoWait(j)))
  BY DEF LastWrites
<1> HIDE DEF ends
<1>5. \A j \in 0..there : outcomes[j] \in Outcomes
  OBVIOUS
<1>6. BUFFER_SIZE \in Nat /\ BUFFER_SIZE >= 1
  BY RangesAssumption
<1>7. /\ Whole(0) = 0
      /\ \A k \in 1..there : Whole(k) = Whole(k - 1) + Smaller(there - Whole(k - 1), BUFFER_SIZE)
  <2>1. Whole(0) = 0
    BY <1>6 DEF Smaller
  <2>2. ASSUME NEW k \in 1..there
        PROVE  Whole(k) = Whole(k - 1) + Smaller(there - Whole(k - 1), BUFFER_SIZE)
    <3>1. PICK m \in Nat : m = BUFFER_SIZE * (k - 1)
      BY <1>6
    <3>2. BUFFER_SIZE * k = m + BUFFER_SIZE
      BY <1>6, <3>1
    <3> QED  BY <1>6, <3>1, <3>2 DEF Smaller
  <2> QED  BY <2>1, <2>2
<1> HIDE DEF Whole
<1>8. 0..there \subseteq S
  <2>1. 0 \in S
    <3> SUFFICES ASSUME NoneUpTo(0) PROVE Going(0)
      OBVIOUS
    <3>1. outcomes[0] # "refused" /\ (outcomes[0] = "room" => NoWait(0))
      BY <1>4
    <3>2. mode[0] = IF NoWait(0) THEN "loop" ELSE "events"
      BY <1>2, <1>5, <3>1 DEF After, Outcomes
    <3> QED  BY <1>3, <1>7, <3>2
  <2>2. ASSUME NEW k \in 1..there, k - 1 \in S PROVE k \in S
    <3> SUFFICES ASSUME NoneUpTo(k) PROVE Going(k)
      OBVIOUS
    <3>1. k - 1 \in 0..there /\ Going(k - 1)
      BY <2>2
    <3>2. outcomes[k] \in {"room", "waits"} /\ (outcomes[k] = "room" => NoWait(k))
      BY <1>4, <1>5 DEF Outcomes
    <3>3. mode[k] = After(mode[k - 1], outcomes[k])
      BY <1>2
    <3>4. CASE outcomes[k] = "room"
      <4>1. NoWait(k) /\ NoWait(k - 1)
        BY <3>2, <3>4
      <4>2. mode[k - 1] = "loop" /\ mode[k] = "loop"
        BY <3>1, <3>3, <3>4, <4>1 DEF After
      <4> QED  BY <1>3, <1>7, <3>1, <3>4, <4>1, <4>2
    <3>5. CASE outcomes[k] = "waits"
      <4>1. ~NoWait(k)
        BY <3>5
      <4>2. mode[k - 1] # "left" /\ mode[k] = "events"
        BY <3>1, <3>3, <3>5 DEF After
      <4> QED  BY <1>3, <1>7, <3>1, <3>5, <4>1, <4>2
    <3> QED  BY <3>2, <3>4, <3>5
  <2> HIDE DEF S
  <2> QED  BY <2>1, <2>2, UpTo
<1>9. ends = {} => loop[there] = there
  <2> SUFFICES ASSUME ends = {} PROVE loop[there] = there
    OBVIOUS
  <2>1. loop[there] = Whole(there)
    BY <1>8
  <2>2. BUFFER_SIZE * there >= there
    BY <1>6
  <2> QED  BY <1>6, <2>1, <2>2 DEF Whole, Smaller
<1>10. ASSUME NEW e \in ends, \A i \in ends : e <= i
       PROVE  loop[there] = Whole(IF outcomes[e] = "refused" /\ e > 0 THEN e - 1 ELSE e)
  <2>1. e \in 0..there
    BY DEF ends, LastWrites
  <2>2. e > 0 => e - 1 \in 0..there /\ Going(e - 1)
    <3> SUFFICES ASSUME e > 0 PROVE e - 1 \in 0..there /\ Going(e - 1)
      OBVIOUS
    <3>1. e - 1 \in 0..there
      BY <2>1
    <3>2. NoneUpTo(e - 1)
      BY <1>10, <2>1
    <3> QED  BY <1>8, <3>1, <3>2
  <2>3. mode[e] = "left" /\ loop[e] = Whole(IF outcomes[e] = "refused" /\ e > 0 THEN e - 1 ELSE e)
    <3>1. CASE outcomes[e] = "refused"
      <4>1. CASE e = 0
        BY <1>2, <1>3, <1>7, <3>1, <4>1 DEF After
      <4>2. CASE e > 0
        <5>1. mode[e] = After(mode[e - 1], outcomes[e]) /\ loop[e] = loop[e - 1]
          BY <1>2, <1>3, <2>1, <3>1, <4>2
        <5> QED  BY <2>2, <3>1, <4>2, <5>1 DEF After
      <4> QED  BY <2>1, <4>1, <4>2
    <3>2. CASE outcomes[e] # "refused"
      <4>1. outcomes[e] = "room" /\ ~NoWait(e)
        BY <1>4, <2>1, <3>2
      <4>2. e > 0 /\ ~NoWait(e - 1)
        <5>1. PICK i \in 0..e : outcomes[i] = "waits"
          BY <4>1
        <5>2. i # e
          BY <4>1, <5>1
        <5>3. i \in 0..(e - 1) /\ e > 0
          BY <2>1, <5>2
        <5> QED  BY <5>1, <5>3
      <4>3. mode[e - 1] = "events" /\ loop[e - 1] = Whole(e - 1) /\ e \in 1..there
        BY <2>1, <2>2, <4>2
      <4>4. mode[e] = "left"
        BY <1>2, <4>1, <4>3 DEF After
      <4>5. loop[e] = loop[e - 1] + Smaller(there - loop[e - 1], BUFFER_SIZE)
        BY <1>3, <3>2, <4>3
      <4>6. loop[e] = Whole(e)
        BY <1>7, <4>3, <4>5
      <4> QED  BY <3>2, <4>4, <4>6
    <3> QED  BY <3>1, <3>2
  <2> DEFINE T == {k \in 0..there : k >= e => mode[k] = "left" /\ loop[k] = loop[e]}
  <2>4. 0 \in T
    BY <2>1, <2>3
  <2>5. ASSUME NEW k \in 1..there, k - 1 \in T PROVE k \in T
    <3>1. CASE k <= e
      BY <2>1, <2>3, <3>1
    <3>2. CASE k > e
      <4>1. mode[k - 1] = "left" /\ loop[k - 1] = loop[e]
        BY <2>1, <2>5, <3>2
      <4>2. mode[k] = "left"
        BY <1>2, <4>1 DEF After
      <4>3. loop[k] = loop[e]
        BY <1>3, <4>1
      <4> QED  BY <4>2, <4>3
    <3> QED  BY <2>1, <3>1, <3>2
  <2>6. there \in T
    <3> HIDE DEF T
    <3>1. 0..there \subseteq T
      BY <2>4, <2>5, UpTo
    <3> QED  BY <3>1
  <2> QED  BY <2>1, <2>3, <2>6
<1> QED  BY <1>1, <1>9, <1>10 DEF FileEnds, ends, Whole
(* The sizes, ranges and writes that TLC looks at are among those.           *)
THEOREM RangesAlwaysHonoured == Spec => []RangesHonoured
<1>1. RangeHeaders \subseteq SomeRanges /\ 0..Bound \subseteq Nat
  BY DEF RangeHeaders, SomeRanges, Bound
<1>2. RangesRight
  BY <1>1, EveryRangeHonoured, EveryFileEnds DEF RangesRight
<1> QED  BY <1>2, PTL DEF RangesHonoured

-----------------------------------------------------------------------------
(* The routes: of a configuration file of any length, with any number of     *)
(* routes in the table.  By induction over its lines, and over the rules.    *)

(* Any line, and any rule that one can become.                               *)
SomeLines == [kind : Kinds, path : Seq(Characters)]
SomeRules == [path : Seq(Characters), line : Nat, needs_auth : BOOLEAN]

(* One line of the file.                                                     *)
ReadLine(line, i, before) ==
  CASE ~before.on -> before
    [] before.on /\ line.kind = "auth" ->
         [before EXCEPT !.rules = Mark(@, line.path)]
    [] before.on /\ line.kind # "auth" /\ Len(before.rules) >= MAX_ROUTES ->
         [before EXCEPT !.on = FALSE]
    [] before.on /\ line.kind = "unknown" /\ Len(before.rules) < MAX_ROUTES ->
         before
    [] before.on /\ line.kind = "route" /\ Len(before.rules) < MAX_ROUTES ->
         [before EXCEPT !.rules =
            Append(@, [path |-> line.path, line |-> i, needs_auth |-> FALSE])]

(* What load_config_file has made so far.                                    *)
Tables == [rules : Seq(SomeRules), on : BOOLEAN]

(* AUTH marks the rules of its path, and leaves the others as they are.      *)
LEMMA Marked ==
  ASSUME NEW rules \in Seq(SomeRules), NEW path \in Seq(Characters)
  PROVE  /\ Mark(rules, path) \in Seq(SomeRules) /\ Len(Mark(rules, path)) = Len(rules)
         /\ \A m \in 1..Len(rules) :
              /\ Mark(rules, path)[m].path = rules[m].path
              /\ Mark(rules, path)[m].line = rules[m].line
              /\ Mark(rules, path)[m].needs_auth <=> rules[m].needs_auth \/ rules[m].path = path
<1> DEFINE marked == Mark(rules, path)
<1>1. DOMAIN rules = 1..Len(rules) /\ Len(rules) \in Nat
  BY LenProperties
<1>2. ASSUME NEW m \in 1..Len(rules)
      PROVE  /\ marked[m] \in SomeRules
             /\ marked[m].path = rules[m].path /\ marked[m].line = rules[m].line
             /\ marked[m].needs_auth <=> rules[m].needs_auth \/ rules[m].path = path
  <2>1. rules[m] \in SomeRules
    BY ElementOfSeq
  <2>2. marked[m] = IF rules[m].path = path THEN [rules[m] EXCEPT !.needs_auth = TRUE] ELSE rules[m]
    BY <1>1 DEF Mark
  <2> HIDE DEF marked
  <2>3. CASE rules[m].path = path
    BY <2>1, <2>2, <2>3 DEF SomeRules
  <2>4. CASE rules[m].path # path
    BY <2>1, <2>2, <2>4
  <2> QED  BY <2>3, <2>4
<1>3. marked = [m \in 1..Len(rules) |-> marked[m]]
  BY <1>1 DEF Mark
<1> HIDE DEF marked
<1>4. marked \in [1..Len(rules) -> SomeRules]
  BY <1>2, <1>3
<1>5. marked \in Seq(SomeRules) /\ Len(marked) = Len(rules)
  BY <1>1, <1>4, SeqDef, LenProperties
<1> QED  BY <1>2, <1>5 DEF marked

(* What each kind of line does.                                              *)
LEMMA LineRead ==
  ASSUME NEW line \in SomeLines, NEW i \in Nat, NEW before \in Tables
  PROVE  LET after == ReadLine(line, i, before)
             made == [path |-> line.path, line |-> i, needs_auth |-> FALSE]
         IN /\ after \in Tables
            /\ ~before.on => after = before
            /\ before.on /\ line.kind = "auth" =>
                 after.on /\ after.rules = Mark(before.rules, line.path)
            /\ before.on /\ line.kind # "auth" /\ Len(before.rules) >= MAX_ROUTES =>
                 ~after.on /\ after.rules = before.rules
            /\ before.on /\ line.kind = "unknown" /\ Len(before.rules) < MAX_ROUTES =>
                 after = before
            /\ before.on /\ line.kind = "route" /\ Len(before.rules) < MAX_ROUTES =>
                 /\ made \in SomeRules
                 /\ after.on /\ after.rules = Append(before.rules, made)
<1> DEFINE after == ReadLine(line, i, before)
           made == [path |-> line.path, line |-> i, needs_auth |-> FALSE]
<1>1. /\ before.rules \in Seq(SomeRules) /\ before.on \in BOOLEAN
      /\ Len(before.rules) \in Nat /\ line.path \in Seq(Characters)
      /\ line.kind \in {"route", "unknown", "auth"} /\ MAX_ROUTES \in Nat
  BY LenProperties, RoutesAssumption DEF Tables, SomeLines, Kinds
<1>2. CASE ~before.on
  <2>1. after = before
    BY <1>2 DEF ReadLine
  <2> HIDE DEF after
  <2> QED  BY <1>2, <2>1 DEF after
<1>3. CASE before.on /\ line.kind = "auth"
  <2>1. after = [before EXCEPT !.rules = Mark(before.rules, line.path)]
    BY <1>3 DEF ReadLine
  <2> HIDE DEF after
  <2>2. /\ after.rules = Mark(before.rules, line.path) /\ after.on /\ after \in Tables
    BY <1>1, <1>3, <2>1, Marked DEF Tables
  <2> QED  BY <1>3, <2>2 DEF after
<1>4. CASE before.on /\ line.kind # "auth" /\ Len(before.rules) >= MAX_ROUTES
  <2>1. after = [before EXCEPT !.on = FALSE]
    BY <1>1, <1>4 DEF ReadLine
  <2> HIDE DEF after
  <2>2. after.rules = before.rules /\ ~after.on /\ after \in Tables
    BY <1>1, <2>1 DEF Tables
  <2> QED  BY <1>1, <1>4, <2>2 DEF after
<1>5. CASE before.on /\ line.kind = "unknown" /\ Len(before.rules) < MAX_ROUTES
  <2>1. after = before
    BY <1>1, <1>5 DEF ReadLine
  <2> HIDE DEF after
  <2> QED  BY <1>1, <1>5, <2>1 DEF after
<1>6. CASE before.on /\ line.kind = "route" /\ Len(before.rules) < MAX_ROUTES
  <2>1. after = [before EXCEPT !.rules = Append(before.rules, made)]
    BY <1>1, <1>6 DEF ReadLine
  <2>2. made \in SomeRules
    BY <1>1 DEF SomeRules
  <2> HIDE DEF after, made
  <2>3. Append(before.rules, made) \in Seq(SomeRules)
    BY <1>1, <2>2, AppendProperties
  <2>4. after.rules = Append(before.rules, made) /\ after.on /\ after \in Tables
    BY <1>1, <1>6, <2>1, <2>3 DEF Tables
  <2> QED  BY <1>1, <1>6, <2>2, <2>4 DEF after, made
<1> HIDE DEF after, made
<1>7. \/ ~before.on
      \/ before.on /\ line.kind = "auth"
      \/ before.on /\ line.kind # "auth" /\ Len(before.rules) >= MAX_ROUTES
      \/ before.on /\ line.kind = "unknown" /\ Len(before.rules) < MAX_ROUTES
      \/ before.on /\ line.kind = "route" /\ Len(before.rules) < MAX_ROUTES
  BY <1>1
<1> QED  BY <1>2, <1>3, <1>4, <1>5, <1>6, <1>7

(* load_config_file is what its lines come to.                               *)
LEMMA Lines ==
  ASSUME NEW file \in Seq(SomeLines)
  PROVE  \E after \in [0..Len(file) -> Tables] :
           /\ after[0] = [rules |-> <<>>, on |-> TRUE]
           /\ \A i \in 1..Len(file) : after[i] = ReadLine(file[i], i, after[i - 1])
           /\ Loaded(file) = after[Len(file)].rules
<1> DEFINE k == Len(file)
           none == [rules |-> <<>>, on |-> TRUE]
           Def(g) ==
             [i \in 0..k |->
                IF i = 0 THEN none
                ELSE LET before == g[i - 1]
                         line == file[i]
                     IN CASE ~before.on -> before
                          [] before.on /\ line.kind = "auth" ->
                               [before EXCEPT !.rules = Mark(@, line.path)]
                          [] before.on /\ line.kind # "auth" /\ Len(before.rules) >= MAX_ROUTES ->
                               [before EXCEPT !.on = FALSE]
                          [] before.on /\ line.kind = "unknown" /\ Len(before.rules) < MAX_ROUTES ->
                               before
                          [] before.on /\ line.kind = "route" /\ Len(before.rules) < MAX_ROUTES ->
                               [before EXCEPT !.rules =
                                  Append(@, [path |-> line.path, line |-> i,
                                             needs_auth |-> FALSE])]]
           Read(g) == [i \in 0..k |-> IF i = 0 THEN none ELSE ReadLine(file[i], i, g[i - 1])]
           step == [x \in (1..k) \X Tables |-> ReadLine(file[x[1]], x[1], x[2])]
           after == CHOOSE f : f = Def(f)
<1>1. k \in Nat /\ \A i \in 1..k : file[i] \in SomeLines /\ i \in Nat
  BY LenProperties, ElementOfSeq
<1>2. \A i \in 1..k, t \in Tables : ReadLine(file[i], i, t) \in Tables
  <2> HIDE DEF k
  <2> QED  BY <1>1, LineRead
<1>3. step \in Steps(k, Tables)
  <2> HIDE DEF k
  <2> QED  BY <1>2 DEF Steps
<1>4. none \in Tables
  BY DEF Tables
<1>5. \A g : Def(g) = Read(g)
  BY DEF ReadLine
<1>6. Loaded(file) = after[k].rules
  BY DEF Loaded
<1> HIDE DEF k, none, Def
<1>7. PICK g : Computes(g, k, Tables, none, step)
  <2> HIDE DEF step
  <2> QED  BY <1>1, <1>3, <1>4, Recursion
<1>8. ASSUME NEW i \in 1..k PROVE g[i] = ReadLine(file[i], i, g[i - 1])
  <2>1. i - 1 \in 0..k
    BY <1>1
  <2>2. g[i - 1] \in Tables
    BY <1>7, <2>1 DEF Computes
  <2>3. <<i, g[i - 1]>> \in (1..k) \X Tables
    BY <2>2
  <2> QED  BY <1>7, <2>3 DEF Computes
<1>9. g = Read(g)
  <2> HIDE DEF step
  <2> QED  BY <1>1, <1>7, <1>8 DEF Computes
<1>10. after = Read(after)
  <2>1. g = Def(g)
    BY <1>5, <1>9
  <2>2. after = Def(after)
    BY <2>1
  <2> HIDE DEF after
  <2> QED  BY <1>5, <2>2
<1> HIDE DEF after
<1>11. /\ after[0] = none
       /\ \A i \in 1..k : after[i] = ReadLine(file[i], i, after[i - 1])
  <2>1. DOMAIN after = 0..k /\ \A i \in 0..k : after[i] = Read(after)[i]
    BY <1>10
  <2> QED  BY <1>1, <2>1
<1>12. \A i \in 0..k : after[i] \in Tables
  <2>1. \A i \in 1..k : after[i - 1] \in Tables => after[i] \in Tables
    BY <1>2, <1>11
  <2> QED  BY <1>1, <1>4, <1>11, <2>1, Values
<1>13. after = [i \in 0..k |-> after[i]]
  BY <1>10
<1>14. after \in [0..k -> Tables]
  BY <1>12, <1>13
<1> QED  BY <1>6, <1>11, <1>14 DEF k, none

-----------------------------------------------------------------------------
(* Which lines are read, one line on.                                        *)
LEMMA RouteLinesOn ==
  ASSUME NEW file \in Seq(SomeLines), NEW i \in 1..Len(file)
  PROVE  /\ RouteLines(file, i) = IF file[i].kind = "route"
                                  THEN RouteLines(file, i - 1) \cup {i}
                                  ELSE RouteLines(file, i - 1)
         /\ i \notin RouteLines(file, i - 1)
         /\ IsFiniteSet(RouteLines(file, i - 1))
         /\ Cardinality(RouteLines(file, i - 1)) \in Nat
         /\ Cardinality(RouteLines(file, i))
              = IF file[i].kind = "route" THEN Cardinality(RouteLines(file, i - 1)) + 1
                ELSE Cardinality(RouteLines(file, i - 1))
<1>1. i \in Nat /\ i - 1 \in Nat
  BY LenProperties
<1>2. 1..i = (1..(i - 1)) \cup {i} /\ i \notin 1..(i - 1)
  BY <1>1
<1>3. RouteLines(file, i) = IF file[i].kind = "route"
                            THEN RouteLines(file, i - 1) \cup {i}
                            ELSE RouteLines(file, i - 1)
  BY <1>2 DEF RouteLines
<1>4. i \notin RouteLines(file, i - 1)
  BY <1>2 DEF RouteLines
<1>5. IsFiniteSet(RouteLines(file, i - 1)) /\ Cardinality(RouteLines(file, i - 1)) \in Nat
  <2>1. IsFiniteSet(1..(i - 1))
    BY <1>1, FS_Interval
  <2>2. RouteLines(file, i - 1) \subseteq 1..(i - 1)
    BY DEF RouteLines
  <2>3. IsFiniteSet(RouteLines(file, i - 1))
    BY <2>1, <2>2, FS_Subset
  <2> QED  BY <2>3, FS_CardinalityType
<1>6. Cardinality(RouteLines(file, i - 1) \cup {i}) = Cardinality(RouteLines(file, i - 1)) + 1
  BY <1>4, <1>5, FS_AddElement
<1> QED  BY <1>3, <1>4, <1>5, <1>6

(* A line is read if the one before it is, and the table has room for it.    *)
LEMMA IsReadOn ==
  ASSUME NEW file \in Seq(SomeLines), NEW i \in 1..Len(file)
  PROVE  IsRead(file, i) <=> /\ IsRead(file, i - 1)
                             /\ file[i].kind # "auth" =>
                                  Cardinality(RouteLines(file, i - 1)) < MAX_ROUTES
<1>1. i \in Nat /\ i - 1 \in Nat
  BY LenProperties
<1>2. 1..i = (1..(i - 1)) \cup {i}
  BY <1>1
<1> QED  BY <1>2 DEF IsRead

(* What the table says of the lines up to n.                                 *)
Listed(file, n, table) ==
  LET rules == table.rules
  IN /\ table.on <=> IsRead(file, n)
     /\ table.on => Len(rules) = Cardinality(RouteLines(file, n))
     /\ \A m \in 1..Len(rules) :
          /\ rules[m].line \in ReadRoutes(file, n)
          /\ rules[m].path = file[rules[m].line].path
          /\ rules[m].needs_auth <=> Guarded(file, rules[m].line, n)
     /\ \A m \in 1..Len(rules) : \A p \in 1..(m - 1) : rules[p].line < rules[m].line
     /\ \A l \in ReadRoutes(file, n) : \E m \in 1..Len(rules) : rules[m].line = l

(* What one line more adds to the passwords that are asked for.              *)
LEMMA GuardedOn ==
  ASSUME NEW file \in Seq(SomeLines), NEW i \in 1..Len(file), NEW l \in 1..(i - 1)
  PROVE  Guarded(file, l, i) <=> \/ Guarded(file, l, i - 1)
                                 \/ /\ file[i].kind = "auth" /\ file[i].path = file[l].path
                                    /\ IsRead(file, i)
<1>1. i \in Nat /\ l \in Nat /\ l < i
  BY LenProperties
<1>2. l..i = (l..(i - 1)) \cup {i}
  BY <1>1
<1> QED  BY <1>2 DEF Guarded

(* What one line more adds to the routes.                                    *)
LEMMA ReadRoutesOn ==
  ASSUME NEW file \in Seq(SomeLines), NEW i \in 1..Len(file)
  PROVE  ReadRoutes(file, i) = IF file[i].kind = "route" /\ IsRead(file, i)
                               THEN ReadRoutes(file, i - 1) \cup {i}
                               ELSE ReadRoutes(file, i - 1)
BY RouteLinesOn DEF ReadRoutes

(* A line keeps the table what it should be.                                 *)
LEMMA ListedOn ==
  ASSUME NEW file \in Seq(SomeLines), NEW i \in 1..Len(file), NEW before \in Tables,
         Listed(file, i - 1, before)
  PROVE  Listed(file, i, ReadLine(file[i], i, before))
<1> DEFINE line == file[i]
           after == ReadLine(line, i, before)
           old == before.rules
           made == [path |-> line.path, line |-> i, needs_auth |-> FALSE]
<1>1. /\ line \in SomeLines /\ line.kind \in {"route", "unknown", "auth"}
      /\ line.path \in Seq(Characters) /\ i \in Nat /\ MAX_ROUTES \in Nat
      /\ old \in Seq(SomeRules) /\ Len(old) \in Nat /\ before.on \in BOOLEAN
  <2>1. line \in SomeLines /\ i \in Nat
    BY LenProperties, ElementOfSeq
  <2>2. line.kind \in {"route", "unknown", "auth"} /\ line.path \in Seq(Characters)
    BY <2>1 DEF SomeLines, Kinds
  <2>3. old \in Seq(SomeRules) /\ before.on \in BOOLEAN
    BY DEF Tables
  <2>4. Len(old) \in Nat
    BY <2>3, LenProperties
  <2> QED  BY <2>1, <2>2, <2>3, <2>4, RoutesAssumption
<1>2. /\ after \in Tables
      /\ ~before.on => after = before
      /\ before.on /\ line.kind = "auth" => after.on /\ after.rules = Mark(old, line.path)
      /\ before.on /\ line.kind # "auth" /\ Len(old) >= MAX_ROUTES =>
           ~after.on /\ after.rules = old
      /\ before.on /\ line.kind = "unknown" /\ Len(old) < MAX_ROUTES => after = before
      /\ before.on /\ line.kind = "route" /\ Len(old) < MAX_ROUTES =>
           /\ made \in SomeRules
           /\ after.on /\ after.rules = Append(old, made)
  BY <1>1, LineRead
<1> HIDE DEF after
<1>3. /\ before.on <=> IsRead(file, i - 1)
      /\ before.on => Len(old) = Cardinality(RouteLines(file, i - 1))
      /\ \A m \in 1..Len(old) :
           /\ old[m].line \in ReadRoutes(file, i - 1)
           /\ old[m].path = file[old[m].line].path
           /\ old[m].needs_auth <=> Guarded(file, old[m].line, i - 1)
      /\ \A m \in 1..Len(old) : \A p \in 1..(m - 1) : old[p].line < old[m].line
      /\ \A l \in ReadRoutes(file, i - 1) : \E m \in 1..Len(old) : old[m].line = l
  BY DEF Listed
<1> HIDE DEF old
<1>4. \A l \in ReadRoutes(file, i - 1) : l \in 1..(i - 1)
  BY DEF ReadRoutes, RouteLines
<1> SUFFICES Listed(file, i, after)
  BY DEF after
<1>5. CASE ~IsRead(file, i)
  <2>1. after.rules = old /\ ~after.on
    <3>1. ~before.on \/ (line.kind # "auth" /\ Len(old) >= MAX_ROUTES)
      BY <1>1, <1>3, <1>5, IsReadOn, RouteLinesOn
    <3> QED  BY <1>2, <1>3, <3>1 DEF old
  <2>2. ReadRoutes(file, i) = ReadRoutes(file, i - 1)
    BY <1>5, ReadRoutesOn
  <2>3. \A m \in 1..Len(old) : Guarded(file, old[m].line, i) <=> Guarded(file, old[m].line, i - 1)
    BY <1>3, <1>4, <1>5, GuardedOn
  <2> QED  BY <1>3, <1>5, <2>1, <2>2, <2>3 DEF Listed
<1>6. CASE IsRead(file, i) /\ line.kind = "auth"
  <2>1. before.on /\ after.on /\ after.rules = Mark(old, line.path)
    BY <1>2, <1>3, <1>6, IsReadOn
  <2>2. RouteLines(file, i) = RouteLines(file, i - 1)
    BY <1>6, RouteLinesOn
  <2>3. ReadRoutes(file, i) = ReadRoutes(file, i - 1)
    BY <1>6, ReadRoutesOn
  <2>4. /\ Len(after.rules) = Len(old)
        /\ \A m \in 1..Len(old) :
              /\ after.rules[m].path = old[m].path
              /\ after.rules[m].line = old[m].line
              /\ after.rules[m].needs_auth <=> old[m].needs_auth \/ old[m].path = line.path
    BY <1>1, <2>1, Marked
  <2>5. ASSUME NEW m \in 1..Len(old)
        PROVE  after.rules[m].needs_auth <=> Guarded(file, after.rules[m].line, i)
    <3>1. old[m].line \in 1..(i - 1) /\ old[m].path = file[old[m].line].path
      BY <1>3, <1>4
    <3>2. Guarded(file, old[m].line, i)
            <=> Guarded(file, old[m].line, i - 1) \/ line.path = file[old[m].line].path
      BY <1>6, <3>1, GuardedOn
    <3> QED  BY <1>3, <2>4, <3>1, <3>2
  <2>6. \A m \in 1..Len(old) : \A p \in 1..(m - 1) : p \in 1..Len(old)
    BY <1>1
  <2>7. \A m \in 1..Len(after.rules) :
          /\ after.rules[m].line \in ReadRoutes(file, i)
          /\ after.rules[m].path = file[after.rules[m].line].path
          /\ after.rules[m].needs_auth <=> Guarded(file, after.rules[m].line, i)
    BY <1>3, <2>3, <2>4, <2>5, SMTT(30)
  <2>8. \A m \in 1..Len(after.rules) : \A p \in 1..(m - 1) :
          after.rules[p].line < after.rules[m].line
    BY <1>3, <2>4, <2>6
  <2>9. \A l \in ReadRoutes(file, i) : \E m \in 1..Len(after.rules) : after.rules[m].line = l
    BY <1>3, <2>3, <2>4, SMTT(30)
  <2>10. after.on /\ Len(after.rules) = Cardinality(RouteLines(file, i))
    BY <1>3, <2>1, <2>2, <2>4
  <2> QED  BY <1>6, <2>7, <2>8, <2>9, <2>10 DEF Listed
<1>7. CASE IsRead(file, i) /\ line.kind = "unknown"
  <2>1. before.on /\ Len(old) < MAX_ROUTES
    BY <1>3, <1>7, IsReadOn
  <2>2. after = before
    BY <1>2, <1>7, <2>1
  <2>3. ReadRoutes(file, i) = ReadRoutes(file, i - 1) /\ RouteLines(file, i) = RouteLines(file, i - 1)
    BY <1>7, ReadRoutesOn, RouteLinesOn
  <2>4. \A m \in 1..Len(old) : Guarded(file, old[m].line, i) <=> Guarded(file, old[m].line, i - 1)
    BY <1>3, <1>4, <1>7, GuardedOn
  <2>5. after.rules = old
    BY <2>2 DEF old
  <2> QED  BY <1>3, <1>7, <2>1, <2>2, <2>3, <2>4, <2>5 DEF Listed
<1>8. CASE IsRead(file, i) /\ line.kind = "route"
  <2>1. before.on /\ Len(old) < MAX_ROUTES
    BY <1>3, <1>8, IsReadOn
  <2>2. made \in SomeRules /\ after.on /\ after.rules = Append(old, made)
    BY <1>2, <1>8, <2>1
  <2>3. /\ ReadRoutes(file, i) = ReadRoutes(file, i - 1) \cup {i}
        /\ Cardinality(RouteLines(file, i)) = Cardinality(RouteLines(file, i - 1)) + 1
    BY <1>8, ReadRoutesOn, RouteLinesOn
  <2>4. /\ made.path = line.path /\ made.line = i /\ made.needs_auth = FALSE
    OBVIOUS
  <2> HIDE DEF made, line
  <2>5. /\ Len(after.rules) = Len(old) + 1 /\ after.rules[Len(old) + 1] = made
        /\ \A m \in 1..Len(old) : after.rules[m] = old[m]
    BY <1>1, <2>2, AppendProperties
  <2>6. ~Guarded(file, i, i)
    BY <1>1, <1>8 DEF Guarded, line
  <2>7. \A m \in 1..Len(old) : Guarded(file, old[m].line, i) <=> Guarded(file, old[m].line, i - 1)
    BY <1>3, <1>4, <1>8, GuardedOn DEF line
  <2>8. ASSUME NEW m \in 1..Len(after.rules)
        PROVE  /\ after.rules[m].line \in ReadRoutes(file, i)
               /\ after.rules[m].path = file[after.rules[m].line].path
               /\ after.rules[m].needs_auth <=> Guarded(file, after.rules[m].line, i)
               /\ \A p \in 1..(m - 1) : after.rules[p].line < after.rules[m].line
    <3>1. CASE m \in 1..Len(old)
      <4>1. \A p \in 1..(m - 1) : p \in 1..Len(old)
        BY <1>1, <3>1
      <4> QED  BY <1>3, <2>3, <2>5, <2>7, <3>1, <4>1
    <3>2. CASE m = Len(old) + 1
      <4>1. after.rules[m] = made
        BY <2>5, <3>2
      <4>2. ASSUME NEW p \in 1..(m - 1) PROVE after.rules[p].line < i
        <5>1. p \in 1..Len(old)
          BY <1>1, <3>2
        <5>2. old[p].line \in 1..(i - 1)
          BY <1>3, <1>4, <5>1
        <5> QED  BY <1>1, <2>5, <5>1, <5>2
      <4>3. file[i].path = line.path
        BY DEF line
      <4> QED  BY <2>3, <2>4, <2>6, <4>1, <4>2, <4>3
    <3> QED  BY <1>1, <2>5, <3>1, <3>2
  <2>9. ASSUME NEW l \in ReadRoutes(file, i)
        PROVE  \E m \in 1..Len(after.rules) : after.rules[m].line = l
    <3>1. CASE l = i
      <4>1. Len(old) + 1 \in 1..Len(after.rules)
        BY <1>1, <2>5
      <4> QED  BY <2>4, <2>5, <3>1, <4>1
    <3>2. CASE l \in ReadRoutes(file, i - 1)
      <4>1. PICK m \in 1..Len(old) : old[m].line = l
        BY <1>3, <3>2
      <4>2. m \in 1..Len(after.rules)
        BY <1>1, <2>5
      <4> QED  BY <2>5, <4>1, <4>2
    <3> QED  BY <2>3, <3>1, <3>2
  <2>10. Len(after.rules) = Cardinality(RouteLines(file, i))
    BY <1>3, <2>1, <2>3, <2>5
  <2> QED  BY <1>8, <2>2, <2>8, <2>9, <2>10 DEF Listed
<1> QED  BY <1>1, <1>5, <1>6, <1>7, <1>8

(* So it is when the whole file has been read.                               *)
LEMMA LoadedIs ==
  ASSUME NEW file \in Seq(SomeLines)
  PROVE  \E on \in BOOLEAN :
           /\ Loaded(file) \in Seq(SomeRules)
           /\ Listed(file, Len(file), [rules |-> Loaded(file), on |-> on])
<1> DEFINE k == Len(file)
<1>1. k \in Nat
  BY LenProperties
<1>2. PICK after \in [0..Len(file) -> Tables] :
           /\ after[0] = [rules |-> <<>>, on |-> TRUE]
           /\ \A i \in 1..Len(file) : after[i] = ReadLine(file[i], i, after[i - 1])
           /\ Loaded(file) = after[Len(file)].rules
  BY Lines
<1> DEFINE S == {i \in 0..k : Listed(file, i, after[i])}
<1>3. 0 \in S
  <2>1. RouteLines(file, 0) = {} /\ ReadRoutes(file, 0) = {} /\ IsRead(file, 0)
    BY DEF RouteLines, ReadRoutes, IsRead
  <2>2. Cardinality({}) = 0
    BY FS_EmptySet
  <2>3. after[0].rules = <<>> /\ after[0].on = TRUE /\ Len(<<>>) = 0
    BY <1>2
  <2>4. Listed(file, 0, after[0])
    BY <2>1, <2>2, <2>3 DEF Listed
  <2> QED  BY <1>1, <2>4
<1> HIDE DEF k
<1>4. ASSUME NEW i \in 1..k, i - 1 \in S PROVE i \in S
  <2>1. i - 1 \in 0..k /\ i \in 0..k /\ Listed(file, i - 1, after[i - 1])
    BY <1>1, <1>4
  <2>2. after[i - 1] \in Tables
    BY <1>2, <2>1 DEF k
  <2>3. Listed(file, i, ReadLine(file[i], i, after[i - 1]))
    BY <2>1, <2>2, ListedOn DEF k
  <2> QED  BY <1>2, <2>1, <2>3 DEF k
<1> HIDE DEF S
<1>5. k \in S
  <2>1. 0..k \subseteq S
    BY <1>1, <1>3, <1>4, UpTo
  <2> QED  BY <1>1, <2>1
<1>6. Listed(file, k, after[k]) /\ after[k] \in Tables
  BY <1>1, <1>2, <1>5 DEF S, k
<1>7. after[k] = [rules |-> Loaded(file), on |-> after[k].on]
  BY <1>2, <1>6 DEF Tables, k
<1> QED  BY <1>6, <1>7 DEF Tables, k

-----------------------------------------------------------------------------
(* Of the first n rules, r is the first of the longest that begin the path.  *)
Chosen(rules, path, n, best) ==
  LET r == best.rule
  IN \/ /\ r = 0 /\ best.length = 0
        /\ \A m \in 1..n : ~IsPrefix(rules[m].path, path)
     \/ /\ r \in 1..n /\ IsPrefix(rules[r].path, path)
        /\ best.length = Len(rules[r].path) + 1
        /\ \A m \in 1..n : IsPrefix(rules[m].path, path) =>
             \/ Len(rules[m].path) < Len(rules[r].path)
             \/ Len(rules[m].path) = Len(rules[r].path) /\ r <= m

(* One rule.                                                                 *)
Compared(rules, path, i, before) ==
  LET length == Len(rules[i].path) + 1
  IN IF IsPrefix(rules[i].path, path) /\ length > before.length
     THEN [length |-> length, rule |-> i] ELSE before

(* The length and the number of the best rule so far.                        *)
SoFar == [length : Nat, rule : Nat]

(* Comparing one rule more keeps the choice right.                           *)
LEMMA ChosenOn ==
  ASSUME NEW rules \in Seq(SomeRules), NEW path, NEW i \in 1..Len(rules),
         NEW before \in SoFar, Chosen(rules, path, i - 1, before)
  PROVE  /\ Compared(rules, path, i, before) \in SoFar
         /\ Chosen(rules, path, i, Compared(rules, path, i, before))
<1> DEFINE length == Len(rules[i].path) + 1
           after == Compared(rules, path, i, before)
<1>1. /\ i \in Nat /\ 1..i = (1..(i - 1)) \cup {i}
      /\ \A m \in 1..i : Len(rules[m].path) \in Nat
      /\ before.length \in Nat /\ before.rule \in Nat
  <2>1. Len(rules) \in Nat /\ i \in Nat
    BY LenProperties
  <2>2. ASSUME NEW m \in 1..i PROVE Len(rules[m].path) \in Nat
    <3>1. m \in 1..Len(rules)
      BY <2>1
    <3>2. rules[m] \in SomeRules
      BY <3>1, ElementOfSeq
    <3>3. rules[m].path \in Seq(Characters)
      BY <3>2 DEF SomeRules
    <3> QED  BY <3>3, LenProperties
  <2> QED  BY <2>1, <2>2 DEF SoFar
<1>2. i \in 1..i /\ length \in Nat
  BY <1>1
<1>3. CASE IsPrefix(rules[i].path, path) /\ length > before.length
  <2>1. after = [length |-> length, rule |-> i]
    BY <1>3 DEF Compared
  <2> HIDE DEF after
  <2>2. after \in SoFar /\ after.rule = i /\ after.length = length
    BY <1>1, <1>2, <2>1 DEF SoFar
  <2>3. ASSUME NEW m \in 1..i, IsPrefix(rules[m].path, path)
        PROVE  \/ Len(rules[m].path) < Len(rules[i].path)
               \/ Len(rules[m].path) = Len(rules[i].path) /\ i <= m
    <3>1. CASE m = i
      BY <1>1, <3>1
    <3>2. CASE m \in 1..(i - 1)
      <4> DEFINE long   == Len(rules[m].path)
                 best   == Len(rules[before.rule].path)
                 longer == Len(rules[i].path)
      <4>1. before.rule \in 1..(i - 1) /\ before.length = best + 1 /\ long <= best
        BY <1>1, <2>3, <3>2, SMTT(30) DEF Chosen
      <4>2. long \in Nat /\ longer \in Nat /\ best \in Nat
        BY <1>1, <4>1
      <4>3. length = longer + 1 /\ length > before.length
        BY <1>3
      <4> HIDE DEF long, best, longer, length
      <4>4. long < longer
        BY <4>1, <4>2, <4>3
      <4> QED  BY <4>4 DEF long, longer
    <3> QED  BY <1>1, <3>1, <3>2
  <2>4. Chosen(rules, path, i, after)
    BY <1>2, <1>3, <2>2, <2>3 DEF Chosen
  <2> QED  BY <2>2, <2>4 DEF after
<1>4. CASE ~(IsPrefix(rules[i].path, path) /\ length > before.length)
  <2>1. after = before
    BY <1>4 DEF Compared
  <2>2. CASE before.rule = 0
    <3>1. before.length = 0 /\ \A m \in 1..(i - 1) : ~IsPrefix(rules[m].path, path)
      BY <1>1, <2>2 DEF Chosen
    <3>2. ~IsPrefix(rules[i].path, path)
      BY <1>1, <1>2, <1>4, <3>1
    <3>3. Chosen(rules, path, i, before)
      BY <1>1, <2>2, <3>1, <3>2 DEF Chosen
    <3> QED  BY <2>1, <3>3
  <2>3. CASE before.rule # 0
    <3> DEFINE r == before.rule
    <3>1. /\ r \in 1..(i - 1) /\ IsPrefix(rules[r].path, path)
          /\ before.length = Len(rules[r].path) + 1
          /\ \A m \in 1..(i - 1) : IsPrefix(rules[m].path, path) =>
               \/ Len(rules[m].path) < Len(rules[r].path)
               \/ Len(rules[m].path) = Len(rules[r].path) /\ r <= m
      BY <1>1, <2>3 DEF Chosen
    <3>2. IsPrefix(rules[i].path, path) =>
               \/ Len(rules[i].path) < Len(rules[r].path)
               \/ Len(rules[i].path) = Len(rules[r].path) /\ r <= i
      BY <1>1, <1>2, <1>4, <3>1
    <3>3. Chosen(rules, path, i, before)
      BY <1>1, <3>1, <3>2 DEF Chosen
    <3> QED  BY <2>1, <3>3
  <2> QED  BY <2>2, <2>3
<1> QED  BY <1>3, <1>4

(* handle_work takes the first of the longest rules that begin the path.     *)
LEMMA BestIs ==
  ASSUME NEW rules \in Seq(SomeRules), NEW path
  PROVE  \E length \in Nat : Chosen(rules, path, Len(rules),
                                    [length |-> length, rule |-> BestRule(rules, path)])
<1> DEFINE k == Len(rules)
           none == [length |-> 0, rule |-> 0]
           Def(g) ==
             [i \in 0..k |->
                IF i = 0 THEN none
                ELSE LET length == Len(rules[i].path) + 1
                     IN IF IsPrefix(rules[i].path, path) /\ length > g[i - 1].length
                        THEN [length |-> length, rule |-> i] ELSE g[i - 1]]
           Read(g) == [i \in 0..k |-> IF i = 0 THEN none ELSE Compared(rules, path, i, g[i - 1])]
           step == [x \in (1..k) \X SoFar |-> Compared(rules, path, x[1], x[2])]
           best == CHOOSE f : f = Def(f)
<1>1. /\ k \in Nat
      /\ \A i \in 1..k : i \in Nat /\ Len(rules[i].path) + 1 \in Nat
  <2>1. k \in Nat
    BY LenProperties
  <2>2. \A i \in 1..k : rules[i] \in SomeRules
    BY ElementOfSeq
  <2>3. \A i \in 1..k : Len(rules[i].path) \in Nat
    BY <2>2, LenProperties DEF SomeRules
  <2> HIDE DEF k
  <2> QED  BY <2>1, <2>3
<1>2. \A i \in 1..k, t \in SoFar : Compared(rules, path, i, t) \in SoFar
  <2> HIDE DEF k
  <2> QED  BY <1>1 DEF Compared, SoFar
<1>3. step \in Steps(k, SoFar)
  <2> HIDE DEF k
  <2> QED  BY <1>2 DEF Steps
<1>4. none \in SoFar
  BY DEF SoFar
<1>5. \A g : Def(g) = Read(g)
  BY DEF Compared
<1>6. BestRule(rules, path) = best[k].rule
  BY DEF BestRule
<1> HIDE DEF k, none, Def
<1>7. PICK g : Computes(g, k, SoFar, none, step)
  <2> HIDE DEF step
  <2> QED  BY <1>1, <1>3, <1>4, Recursion
<1>8. ASSUME NEW i \in 1..k PROVE g[i] = Compared(rules, path, i, g[i - 1])
  <2>1. i - 1 \in 0..k
    BY <1>1
  <2>2. g[i - 1] \in SoFar
    BY <1>7, <2>1 DEF Computes
  <2>3. <<i, g[i - 1]>> \in (1..k) \X SoFar
    BY <2>2
  <2> QED  BY <1>7, <2>3 DEF Computes
<1>9. g = Read(g)
  <2> HIDE DEF step
  <2> QED  BY <1>1, <1>7, <1>8 DEF Computes
<1>10. best = Read(best)
  <2>1. g = Def(g)
    BY <1>5, <1>9
  <2>2. best = Def(best)
    BY <2>1
  <2> HIDE DEF best
  <2> QED  BY <1>5, <2>2
<1> HIDE DEF best
<1>11. /\ best[0] = none
       /\ \A i \in 1..k : best[i] = Compared(rules, path, i, best[i - 1])
  <2>1. DOMAIN best = 0..k /\ \A i \in 0..k : best[i] = Read(best)[i]
    BY <1>10
  <2> QED  BY <1>1, <2>1
<1> DEFINE S == {i \in 0..k : best[i] \in SoFar /\ Chosen(rules, path, i, best[i])}
<1>12. 0 \in S
  <2>1. none.rule = 0 /\ none.length = 0
    BY DEF none
  <2>2. Chosen(rules, path, 0, none)
    BY <2>1 DEF Chosen
  <2> QED  BY <1>1, <1>4, <1>11, <2>2
<1>13. ASSUME NEW i \in 1..k, i - 1 \in S PROVE i \in S
  <2>1. /\ i \in 0..k /\ best[i - 1] \in SoFar /\ Chosen(rules, path, i - 1, best[i - 1])
        /\ best[i] = Compared(rules, path, i, best[i - 1])
    BY <1>1, <1>11, <1>13
  <2>2. best[i] \in SoFar /\ Chosen(rules, path, i, best[i])
    BY <2>1, ChosenOn DEF k
  <2> QED  BY <2>1, <2>2
<1> HIDE DEF S
<1>14. k \in S
  <2>1. 0..k \subseteq S
    BY <1>1, <1>12, <1>13, UpTo
  <2> QED  BY <1>1, <2>1
<1>15. best[k] \in SoFar /\ Chosen(rules, path, k, best[k])
  BY <1>14 DEF S
<1>16. best[k] = [length |-> best[k].length, rule |-> BestRule(rules, path)]
       /\ best[k].length \in Nat
  BY <1>6, <1>15 DEF SoFar
<1> QED  BY <1>15, <1>16 DEF k

(* load_config_file and handle_work: of any configuration file and for any   *)
(* path, a request goes to the longest route that is read and begins its     *)
(* path, the first of equal ones, and asks for a password exactly if the     *)
(* file says so behind that route.                                           *)
THEOREM EveryPathRouted ==
  \A file \in Seq(SomeLines), path \in Seq(Characters) : RoutedRight(file, path)
<1> SUFFICES ASSUME NEW file \in Seq(SomeLines), NEW path \in Seq(Characters)
             PROVE  RoutedRight(file, path)
  OBVIOUS
<1> DEFINE rules == Loaded(file)
           asked == Requested(path)
           read == ReadRoutes(file, Len(file))
           matching == {i \in read : IsPrefix(file[i].path, asked)}
           best == BestRule(rules, asked)
           l == rules[best].line
<1>1. /\ rules \in Seq(SomeRules) /\ Len(rules) \in Nat
      /\ \A m \in 1..Len(rules) :
           /\ rules[m].line \in read
           /\ rules[m].path = file[rules[m].line].path
           /\ rules[m].needs_auth <=> Guarded(file, rules[m].line, Len(file))
      /\ \A m \in 1..Len(rules) : \A p \in 1..(m - 1) : rules[p].line < rules[m].line
      /\ \A i \in read : \E m \in 1..Len(rules) : rules[m].line = i
  <2>1. PICK on \in BOOLEAN :
           /\ rules \in Seq(SomeRules)
           /\ Listed(file, Len(file), [rules |-> rules, on |-> on])
    BY LoadedIs
  <2> HIDE DEF rules
  <2>2. Len(rules) \in Nat
    BY <2>1, LenProperties
  <2> QED  BY <2>1, <2>2 DEF Listed
<1> HIDE DEF rules
<1>2. \/ /\ best = 0
         /\ \A m \in 1..Len(rules) : ~IsPrefix(rules[m].path, asked)
      \/ /\ best \in 1..Len(rules) /\ IsPrefix(rules[best].path, asked)
         /\ \A m \in 1..Len(rules) : IsPrefix(rules[m].path, asked) =>
              \/ Len(rules[m].path) < Len(rules[best].path)
              \/ Len(rules[m].path) = Len(rules[best].path) /\ best <= m
  <2>1. PICK length \in Nat : Chosen(rules, asked, Len(rules), [length |-> length, rule |-> best])
    BY <1>1, BestIs
  <2> HIDE DEF best, asked
  <2> QED  BY <2>1 DEF Chosen
<1> HIDE DEF best, asked
<1>3. \A i \in read : i \in 1..Len(file)
  BY DEF ReadRoutes, RouteLines
<1> HIDE DEF read
<1>4. ASSUME matching = {} PROVE best = 0
  BY <1>1, <1>2, <1>4
<1>5. ASSUME matching # {}
      PROVE  /\ best # 0 /\ l \in matching /\ rules[best].path = file[l].path
             /\ \A i \in matching : \/ Len(file[i].path) < Len(file[l].path)
                                    \/ Len(file[i].path) = Len(file[l].path) /\ l <= i
             /\ rules[best].needs_auth <=> Guarded(file, l, Len(file))
  <2>1. PICK i \in read : IsPrefix(file[i].path, asked)
    BY <1>5
  <2>2. PICK m \in 1..Len(rules) : rules[m].line = i /\ rules[m].path = file[i].path
    BY <1>1
  <2>3. /\ best \in 1..Len(rules) /\ IsPrefix(rules[best].path, asked)
        /\ \A p \in 1..Len(rules) : IsPrefix(rules[p].path, asked) =>
              \/ Len(rules[p].path) < Len(rules[best].path)
              \/ Len(rules[p].path) = Len(rules[best].path) /\ best <= p
    BY <1>2, <2>1, <2>2
  <2>4. /\ best # 0 /\ l \in read /\ rules[best].path = file[l].path /\ l \in matching
        /\ rules[best].needs_auth <=> Guarded(file, l, Len(file))
    BY <1>1, <2>3
  <2>5. ASSUME NEW j \in matching
        PROVE  \/ Len(file[j].path) < Len(file[l].path)
               \/ Len(file[j].path) = Len(file[l].path) /\ l <= j
    <3>1. PICK p \in 1..Len(rules) : rules[p].line = j /\ rules[p].path = file[j].path
      <4>1. j \in read
        OBVIOUS
      <4>2. PICK p \in 1..Len(rules) : rules[p].line = j
        BY <1>1, <4>1
      <4> QED  BY <1>1, <4>2
    <3>2. \/ Len(file[j].path) < Len(file[l].path)
          \/ Len(file[j].path) = Len(file[l].path) /\ best <= p
      BY <2>3, <2>4, <3>1
    <3>3. best <= p => l <= j
      <4>1. CASE best = p
        BY <1>3, <3>1, <4>1
      <4>2. CASE best < p
        <5>1. best \in 1..(p - 1)
          BY <1>1, <2>3, <4>2
        <5>2. l < j /\ l \in 1..Len(file) /\ j \in 1..Len(file)
          BY <1>1, <1>3, <2>4, <3>1, <5>1
        <5> QED  BY <5>2
      <4> QED  BY <2>3, <4>1, <4>2
    <3> QED  BY <3>2, <3>3
  <2> QED  BY <2>4, <2>5
<1> QED  BY <1>4, <1>5 DEF RoutedRight, rules, asked, best, read

(* The files and paths that TLC looks at are among those.                    *)
THEOREM RoutesAlwaysAsConfigured == Spec => []RoutesAsConfigured
<1>1. Paths \subseteq Seq(Characters)
  <2>1. "c" \in Characters /\ "r" \in Characters
    BY RoutesAssumption
  <2>2. ASSUME NEW a \in Characters, NEW b \in Characters
        PROVE  <<a>> \in Seq(Characters) /\ <<a, b>> \in Seq(Characters)
    OBVIOUS
  <2>3. <<>> \in Seq(Characters)
    OBVIOUS
  <2> QED  BY <2>1, <2>2, <2>3 DEF Paths
<1>2. Files \subseteq Seq(SomeLines)
  <2>1. \A n \in 0..4 : [1..n -> [kind : Kinds, path : Paths]] \subseteq Seq(SomeLines)
    <3>1. [kind : Kinds, path : Paths] \subseteq SomeLines
      BY <1>1 DEF SomeLines
    <3> QED  BY <3>1, SeqDef
  <2> QED  BY <2>1 DEF Files
<1>3. RoutesRight
  BY <1>1, <1>2, EveryPathRouted DEF RoutesRight
<1> QED  BY <1>3, PTL DEF RoutesAsConfigured

=============================================================================
