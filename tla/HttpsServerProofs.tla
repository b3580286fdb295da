-------------------------- MODULE HttpsServerProofs --------------------------
(***************************************************************************)
(* HttpsServer for any number of records, descriptors and workers.  Unlike *)
(* in the plain server a cleanup frees both records of a proxied           *)
(* connection; what keeps main from an event of the other one is that no   *)
(* event ever comes for a browser while it is proxied.                     *)
(*                                                                         *)
(* Nearly all that has to be said is said of one record, its peer and      *)
(* their descriptors (Fine), and most steps touch one record and at most   *)
(* its peer; so that one lemma (Untouched) deals with all the others.      *)
(***************************************************************************)
EXTENDS HttpsServer, FiniteSetTheorems, SequenceTheorems, WellFoundedInduction, TLAPS

-----------------------------------------------------------------------------
(* The inductive invariant. *)

(* Epoll has the record, or main an event for it, or the workers have it.    *)
Watched(r)  == rec[r].fd \in Fds /\ watch[rec[r].fd] = r
HasEvent(r) == <<r, "in">> \in batch \/ <<r, "out">> \in batch
Busy(r)     == InQueue(r) \/ AtWork(r)
AtRearm(r)  == \E w \in Workers : wpc[w] = "rearm" /\ current[w] = r

(* A browser that is proxied, and an upstream connection.                    *)
Browser(r)  == r \in alloc /\ rec[r].ssl /\ rec[r].peer # NULL
Upper(r)    == r \in alloc /\ ~rec[r].ssl

ThreadInv ==
  /\ mpc = "next" <=> cur = NULL
  /\ \A w \in Workers : wpc[w] = "pop" <=> current[w] = NULL

(* Every allocated record has a descriptor of its own.                       *)
OwnFd == \A r, q \in alloc : rec[r].fd = rec[q].fd => r = q

(* Only what is in the epoll set is armed, or on epoll's ready list.         *)
ArmedInv == \A f \in Fds : watch[f] = NULL => mask[f] = {} /\ f \notin ready

(* A record is in the queue once, or with one worker.                        *)
QueueInv ==
  /\ \A i, j \in 1..Len(pending) : pending[i] = pending[j] => i = j
  /\ \A r \in Recs : AtWork(r) => ~InQueue(r)
  /\ \A v, w \in Workers : current[v] = current[w] /\ current[v] # NULL => v = w

(* Before main looks at the size, it has been told of nothing more for that  *)
(* record, nor for a peer that it has got meanwhile.                         *)
CheckInv ==
  mpc = "check" =>
    /\ ~HasEvent(cur)
    /\ Browser(cur) => ~HasEvent(rec[cur].peer)

(* Now for one record.  What main has been told of is still in the epoll     *)
(* set, and main was told of it once.                                        *)
EventFine(r) ==
  /\ HasEvent(r) => Watched(r)
  /\ ~(<<r, "in">> \in batch /\ <<r, "out">> \in batch)

(* What the workers have is a request without a peer, and epoll has it not.  *)
BusyFine(r) ==
  Busy(r) => /\ r \in alloc /\ watch[rec[r].fd] = NULL
             /\ rec[r].ssl /\ rec[r].peer = NULL
             /\ rec[r].state = "READ_REQUEST"

PeerFine(r) ==
  r \in alloc => LET p == rec[r].peer IN
    /\ rec[r].fd \in open
    /\ rec[r].state = "PROXYING" <=> p # NULL
    /\ p # NULL => p \in alloc /\ rec[p].peer = r /\ rec[p].ssl = ~rec[r].ssl

(* An upstream connection has read no request and is told of bytes, unless   *)
(* some wait for the browser; a browser is told of nothing, which is noted.  *)
UpperFine(r) ==
  Upper(r) => LET b == rec[r].peer IN
    /\ b # NULL /\ Watched(r)
    /\ ~rec[r].pend /\ ~rec[r].stream /\ ~rec[r].want /\ rec[r].bytes = 0
    /\ mask[rec[r].fd] = IF rec[b].pend THEN {} ELSE {"in"}
    /\ <<r, "out">> \notin batch
    /\ rec[b].pend => ~HasEvent(r)

BrowserFine(r) ==
  Browser(r) => watch[rec[r].fd] = NULL /\ lost[rec[r].fd] = Events

(* A request of which something is still to be sent has been answered.       *)
AnswerFine(r) ==
  r \in alloc =>
    /\ rec[r].want => rec[r].state = "SSL_HANDSHAKE"
    /\ (rec[r].pend \/ rec[r].stream) /\ rec[r].peer = NULL => rec[r].old \/ AtRearm(r)

(* EveryoneHeard, also of the record that main is about to check.            *)
Heard(r) ==
  LET f == rec[r].fd
  IN  \A e \in Events \ lost[f] :
        e = "in" \/ rec[r].pend \/ rec[r].stream \/ rec[r].want =>
          /\ watch[f] = r /\ e \in mask[f]
          /\ e \in Due(f) => f \in ready

HeardFine(r) == r \in alloc /\ ~Busy(r) /\ ~HasEvent(r) => Heard(r)

Fine(r) == /\ EventFine(r) /\ BusyFine(r) /\ PeerFine(r) /\ UpperFine(r)
           /\ BrowserFine(r) /\ AnswerFine(r) /\ HeardFine(r)

IInv == /\ TypeOK /\ ThreadInv /\ OwnFd /\ WatchMatches /\ ArmedInv /\ QueueInv
        /\ CheckInv /\ \A r \in Recs : Fine(r)

-----------------------------------------------------------------------------
(* Types. *)

(* What is assumed of the constants.                                         *)
LEMMA Constants ==
  /\ NULL \notin Recs /\ NULL \notin Fds /\ NULL \notin Workers
  /\ Cap \in Nat \ {0} /\ MaxInput \in Nat
BY HttpsAssumption

(* The fields of a record, one by one.                                       *)
LEMMA Fields ==
  ASSUME TypeOK, NEW r \in Recs
  PROVE  /\ rec[r] \in Records
         /\ rec[r].fd \in Fds \cup {NULL} /\ rec[r].ssl \in BOOLEAN
         /\ rec[r].state \in {"SSL_HANDSHAKE", "READ_REQUEST", "PROXYING"}
         /\ rec[r].bytes \in 0..Cap /\ rec[r].done \in BOOLEAN /\ rec[r].peer \in Recs \cup {NULL}
         /\ rec[r].pend \in BOOLEAN /\ rec[r].stream \in BOOLEAN
         /\ rec[r].want \in BOOLEAN /\ rec[r].old \in BOOLEAN
<1>1. rec[r] \in Records
  BY DEF TypeOK, MemoryTypes
<1> QED  BY <1>1 DEF Records

(* A new record.                                                             *)
LEMMA RecordMade ==
  ASSUME NEW f \in Fds \cup {NULL}
  PROVE  NewRecord(f) \in Records
BY Constants DEF NewRecord, Records

(* What is taken from the front of a socket leaves the rest.                 *)
LEMMA Rest ==
  ASSUME NEW S, NEW s \in Seq(S), NEW n \in 0..Len(s)
  PROVE  /\ SubSeq(s, n + 1, Len(s)) \in Seq(S)
         /\ Len(SubSeq(s, n + 1, Len(s))) = Len(s) - n
         /\ n = Len(s) => SubSeq(s, n + 1, Len(s)) = <<>>
<1>1. Len(s) \in Nat /\ \A i \in n + 1..Len(s) : i \in 1..Len(s) /\ s[i] \in S
  BY LenProperties, ElementOfSeq
<1>2. /\ SubSeq(s, n + 1, Len(s)) \in Seq(S)
      /\ Len(SubSeq(s, n + 1, Len(s))) = IF n + 1 <= Len(s) THEN Len(s) - n ELSE 0
  BY <1>1, SubSeqProperties
<1>3. Len(SubSeq(s, n + 1, Len(s))) = Len(s) - n
  BY <1>1, <1>2
<1>4. n = Len(s) => SubSeq(s, n + 1, Len(s)) = <<>>
  BY <1>1, <1>2, EmptySeq
<1> QED  BY <1>2, <1>3, <1>4

(* One recv from a socket.                                                   *)
LEMMA Dropped ==
  ASSUME TypeOK, NEW f \in Fds, NEW n \in 0..Len(input[f]), Drop(f, n)
  PROVE  /\ input' \in [Fds -> Seq(Chunks \cup {"more"})]
         /\ \A g \in Fds : Len(input'[g]) <= MaxInput
         /\ \A g \in Fds : g # f => input'[g] = input[g]
         /\ n = Len(input[f]) => input'[f] = <<>>
<1>1. /\ input \in [Fds -> Seq(Chunks \cup {"more"})]
      /\ \A g \in Fds : Len(input[g]) <= MaxInput /\ Len(input[g]) \in Nat
  BY LenProperties DEF TypeOK, SocketTypes
<1>2. input' = [input EXCEPT ![f] = SubSeq(input[f], n + 1, Len(input[f]))]
  BY DEF Drop
<1>3. /\ SubSeq(input[f], n + 1, Len(input[f])) \in Seq(Chunks \cup {"more"})
      /\ Len(SubSeq(input[f], n + 1, Len(input[f]))) = Len(input[f]) - n
      /\ n = Len(input[f]) => SubSeq(input[f], n + 1, Len(input[f])) = <<>>
  BY <1>1, Rest
<1> QED  BY <1>1, <1>2, <1>3, Constants

-----------------------------------------------------------------------------
(* Counting chunks. *)

(* A set of numbers has a least one.                                         *)
LEMMA LeastOf ==
  ASSUME NEW S, S \subseteq Nat, S # {}
  PROVE  \E n \in S : \A k \in S : n <= k
<1>1. PICK n \in S : \A k \in S : ~ (<<k, n>> \in OpToRel(<, Nat))
  BY NatLessThanWellFounded, WFMin
<1>2. \A k \in S : ~ (k < n)
  BY <1>1 DEF OpToRel
<1> QED  BY <1>2

(* A chunk more is at most one more that has data.                           *)
LEMMA DataStep ==
  ASSUME NEW f
  PROVE  /\ Data(f, 0) = 0
         /\ \A n \in Nat : Data(f, n) \in Nat
         /\ \A n \in Nat : Data(f, n + 1) \in {Data(f, n), Data(f, n) + 1}
<1> DEFINE D(n) == {i \in 1..n : input[f][i] # "part"}
<1>1. ASSUME NEW n \in Nat PROVE IsFiniteSet(D(n)) /\ Cardinality(D(n)) \in Nat
  <2>1. IsFiniteSet(1..n) /\ D(n) \subseteq 1..n
    BY FS_Interval
  <2> QED  BY <2>1, FS_Subset, FS_CardinalityType
<1>2. Data(f, 0) = 0
  <2>1. D(0) = {}
    OBVIOUS
  <2> QED  BY <2>1, FS_EmptySet DEF Data
<1>3. ASSUME NEW n \in Nat
      PROVE  Cardinality(D(n + 1)) \in {Cardinality(D(n)), Cardinality(D(n)) + 1}
  <2>1. CASE input[f][n + 1] = "part"
    <3>1. D(n + 1) = D(n)
      BY <2>1
    <3> QED  BY <3>1
  <2>2. CASE input[f][n + 1] # "part"
    <3>1. D(n + 1) = D(n) \cup {n + 1} /\ n + 1 \notin D(n)
      BY <2>2
    <3> HIDE DEF D
    <3> QED  BY <1>1, <3>1, FS_AddElement
  <2> QED  BY <2>1, <2>2
<1> QED  BY <1>1, <1>2, <1>3 DEF Data

(* Where the read loop has not ended, there was room.                        *)
LEMMA Below ==
  ASSUME TypeOK, NEW r \in Recs, rec[r].fd \in Fds, rec[r].bytes < Cap,
         NEW m \in 0..Len(input[rec[r].fd]), \A k \in 1..m : ~Ends(r, k)
  PROVE  rec[r].bytes + Data(rec[r].fd, m) \in 0..Cap - 1
<1> DEFINE f == rec[r].fd
           B == {k \in 0..m : ~(rec[r].bytes + Data(f, k) < Cap)}
<1>1. rec[r].bytes \in Nat /\ Cap \in Nat /\ Len(input[f]) \in Nat /\ m \in Nat
  BY Fields, Constants, LenProperties DEF TypeOK, SocketTypes
<1>2. B = {}
  <2> SUFFICES ASSUME B # {} PROVE FALSE
    OBVIOUS
  <2>1. PICK k \in B : \A i \in B : k <= i
    <3>1. B \subseteq Nat
      BY <1>1
    <3> HIDE DEF B
    <3> QED  BY <3>1, LeastOf
  <2>2. k \in 0..m /\ ~(rec[r].bytes + Data(f, k) < Cap)
    OBVIOUS
  <2>3. k # 0
    BY <1>1, <2>2, DataStep, SMTT(30)
  <2>4. PICK j \in Nat : k = j + 1 /\ j \in 0..m /\ j \notin B
    <3>1. k - 1 \in Nat /\ k = (k - 1) + 1 /\ k - 1 \in 0..m /\ ~(k <= k - 1)
      BY <1>1, <2>2, <2>3
    <3>2. k - 1 \notin B
      BY <2>1, <3>1
    <3> QED  BY <3>1, <3>2
  <2>5. rec[r].bytes + Data(f, j) < Cap /\ Data(f, j) \in Nat /\ Data(f, j + 1) \in {Data(f, j), Data(f, j) + 1}
    BY <2>4, DataStep
  <2>6. rec[r].bytes + Data(f, k) = Cap /\ Data(f, k) > Data(f, k - 1)
    <3>1. k - 1 = j
      BY <2>4
    <3> QED  BY <1>1, <2>2, <2>4, <2>5, <3>1
  <2>7. Ends(r, k)
    BY <2>6 DEF Ends
  <2> QED  BY <1>1, <2>2, <2>3, <2>7
<1>3. rec[r].bytes + Data(f, m) < Cap /\ Data(f, m) \in Nat
  BY <1>1, <1>2, DataStep
<1> QED  BY <1>1, <1>3

(* The chunk at which it ends is the first of its kind, and there was room   *)
(* for it.                                                                   *)
LEMMA StopIs ==
  ASSUME TypeOK, NEW r \in Recs, rec[r].fd \in Fds, rec[r].bytes < Cap
  PROVE  /\ Stop(r) # 0 => /\ Stop(r) \in 1..Len(input[rec[r].fd])
                           /\ rec[r].bytes + Data(rec[r].fd, Stop(r)) \in 0..Cap
         /\ Stop(r) = 0 => rec[r].bytes + Data(rec[r].fd, Len(input[rec[r].fd])) \in 0..Cap
<1> DEFINE f == rec[r].fd
           ends == {n \in 1..Len(input[f]) : Ends(r, n)}
<1>1. rec[r].bytes \in Nat /\ Cap \in Nat /\ Len(input[f]) \in Nat
  BY Fields, Constants, LenProperties DEF TypeOK, SocketTypes
<1>2. CASE ends = {}
  <2>1. Stop(r) = 0 /\ \A k \in 1..Len(input[f]) : ~Ends(r, k)
    BY <1>2 DEF Stop
  <2>2. Len(input[f]) \in 0..Len(input[f])
    BY <1>1
  <2>3. rec[r].bytes + Data(f, Len(input[f])) \in 0..Cap - 1
    BY <2>1, <2>2, Below
  <2> QED  BY <1>1, <2>1, <2>3
<1>3. CASE ends # {}
  <2>1. \E n \in ends : \A k \in ends : n <= k
    <3>1. ends \subseteq Nat
      BY <1>1
    <3> HIDE DEF ends
    <3> QED  BY <1>3, <3>1, LeastOf
  <2>2. PICK s : s = Stop(r) /\ s \in ends /\ \A k \in ends : s <= k
    BY <1>3, <2>1 DEF Stop
  <2>3. s \in 1..Len(input[f]) /\ s - 1 \in 0..Len(input[f]) /\ s - 1 \in Nat
    BY <1>1, <2>2
  <2>4. \A k \in 1..s - 1 : ~Ends(r, k)
    <3>1. ASSUME NEW k \in 1..s - 1 PROVE k \in 1..Len(input[f]) /\ ~(s <= k)
      BY <1>1, <2>3
    <3> QED  BY <2>2, <3>1
  <2>5. rec[r].bytes + Data(f, s - 1) \in 0..Cap - 1
    BY <2>3, <2>4, Below
  <2>6. Data(f, s) \in {Data(f, s - 1), Data(f, s - 1) + 1} /\ Data(f, s - 1) \in Nat
    <3>1. s - 1 + 1 = s
      BY <2>3
    <3> QED  BY <2>3, <3>1, DataStep
  <2> QED  BY <1>1, <2>2, <2>3, <2>5, <2>6
<1> QED  BY <1>2, <1>3

(* What a handshake takes from the socket is the messages before the first   *)
(* data.                                                                     *)
LEMMA MessagesFirst ==
  ASSUME TypeOK, NEW f \in Fds
  PROVE  \E n \in 0..Len(input[f]) : Data(f, n) = 0 /\ (n < Len(input[f]) => Data(f, n + 1) = 1)
<1> DEFINE B == {k \in 0..Len(input[f]) : Data(f, k) # 0}
<1>1. Len(input[f]) \in Nat
  BY LenProperties DEF TypeOK, SocketTypes
<1>2. CASE B = {}
  <2>1. Len(input[f]) \in 0..Len(input[f]) /\ ~(Len(input[f]) < Len(input[f]))
    BY <1>1
  <2> QED  BY <1>2, <2>1
<1>3. CASE B # {}
  <2>1. PICK k \in B : \A i \in B : k <= i
    <3>1. B \subseteq Nat
      BY <1>1
    <3> HIDE DEF B
    <3> QED  BY <1>3, <3>1, LeastOf
  <2>2. k # 0
    BY <2>1, DataStep
  <2>3. k - 1 \in Nat /\ k - 1 \in 0..Len(input[f]) /\ (k - 1) + 1 = k /\ ~(k <= k - 1)
    BY <1>1, <2>1, <2>2
  <2>4. Data(f, k - 1) = 0
    BY <2>1, <2>3
  <2>5. Data(f, (k - 1) + 1) \in {Data(f, k - 1), Data(f, k - 1) + 1} /\ Data(f, k) # 0
    BY <2>1, <2>3, DataStep
  <2>6. Data(f, (k - 1) + 1) = 1
    BY <2>3, <2>4, <2>5
  <2> QED  BY <2>3, <2>4, <2>6
<1> QED  BY <1>2, <1>3

-----------------------------------------------------------------------------
(* Frames. *)

(* A step leaves a record, or a descriptor, alone.  A descriptor may have    *)
(* got ready.                                                                *)
SameRec(q) ==
  /\ rec'[q] = rec[q] /\ (q \in alloc' <=> q \in alloc)
  /\ \A e \in Events : <<q, e>> \in batch' => <<q, e>> \in batch
  /\ Busy(q)' <=> Busy(q)
  /\ AtRearm(q)' <=> AtRearm(q)

SameFd(f) ==
  /\ f \in open => f \in open'
  /\ watch'[f] = watch[f] /\ mask'[f] = mask[f] /\ lost[f] \subseteq lost'[f]
  /\ f \in ready => f \in ready'
  /\ \A e \in Due(f)' : e \in Due(f) \/ f \in ready'

(* Nothing happens for a record that is free.                                *)
LEMMA Free ==
  ASSUME IInv, NEW r \in Recs, r \notin alloc
  PROVE  ~HasEvent(r) /\ ~Busy(r)
<1>1. Fine(r) /\ WatchMatches
  BY DEF IInv
<1>2. ~Watched(r)
  BY <1>1, Constants DEF Watched, WatchMatches
<1> QED  BY <1>1, <1>2 DEF Fine, EventFine, BusyFine

(* A record that is not free has its own descriptor, and its peer, if any,   *)
(* points back.                                                              *)
LEMMA Alone ==
  ASSUME IInv, NEW r \in alloc
  PROVE  /\ r \in Recs /\ rec[r].fd \in Fds /\ rec[r].fd \in open
         /\ \A q \in alloc : rec[q].fd = rec[r].fd => q = r
         /\ \A q \in alloc : rec[q].peer = r => rec[r].peer = q
         /\ rec[r].peer # NULL <=> rec[r].state = "PROXYING"
         /\ rec[r].peer # NULL => /\ rec[r].peer \in alloc /\ rec[rec[r].peer].peer = r
                                  /\ rec[rec[r].peer].ssl = ~rec[r].ssl
<1>1. alloc \subseteq Recs /\ open \subseteq Fds
  BY DEF IInv, TypeOK, MemoryTypes, SocketTypes
<1>2. \A q \in alloc : PeerFine(q)
  BY <1>1 DEF IInv, Fine
<1>3. ASSUME NEW q \in alloc, rec[q].peer = r PROVE rec[r].peer = q
  <2>1. r # NULL
    BY <1>1, Constants
  <2> QED  BY <1>2, <1>3, <2>1 DEF PeerFine
<1> QED  BY <1>1, <1>2, <1>3 DEF PeerFine, IInv, OwnFd

(* A browser is with nobody while it is proxied.                             *)
LEMMA BrowserQuiet ==
  ASSUME IInv, NEW b \in Recs, Browser(b)
  PROVE  watch[rec[b].fd] = NULL /\ lost[rec[b].fd] = Events /\ ~Busy(b) /\ ~HasEvent(b)
<1>1. Fine(b)
  BY DEF IInv
<1>2. watch[rec[b].fd] = NULL /\ lost[rec[b].fd] = Events
  BY <1>1 DEF Fine, BrowserFine
<1>3. ~HasEvent(b)
  BY <1>1, <1>2, Constants DEF Fine, EventFine, Watched
<1>4. ~Busy(b)
  BY <1>1 DEF Fine, BusyFine, Browser
<1> QED  BY <1>2, <1>3, <1>4

(* A record that is free, and that nothing refers to, is fine.               *)
LEMMA Freed ==
  ASSUME NEW q \in Recs, q \notin alloc', ~HasEvent(q)', ~Busy(q)'
  PROVE  Fine(q)'
BY DEF Fine, EventFine, HasEvent, BusyFine, PeerFine, UpperFine, Upper,
       BrowserFine, Browser, AnswerFine, HeardFine

(* What a step does not touch stays fine.                                    *)
LEMMA Others ==
  ASSUME IInv, TypeOK', NEW A, A \subseteq Recs, NEW F, F \subseteq Fds,
         \A q \in Recs \ A : SameRec(q),
         \A f \in Fds \ F : SameFd(f),
         \A q \in alloc \ A :
           /\ rec[q].fd \notin F
           /\ rec[q].peer # NULL => /\ rec[q].peer \in alloc'
                                    /\ rec'[rec[q].peer] = rec[rec[q].peer]
           /\ HasEvent(q) => HasEvent(q)' \/ lost'[rec[q].fd] = Events
  PROVE  \A q \in Recs \ A : Fine(q)'
<1> SUFFICES ASSUME NEW q \in Recs \ A PROVE Fine(q)'
  OBVIOUS
<1>1. Fine(q)
  BY DEF IInv
<1>2. SameRec(q)
  OBVIOUS
<1>3. CASE q \notin alloc
  <2>1. ~HasEvent(q) /\ ~Busy(q)
    BY <1>3, Free
  <2>2. ~HasEvent(q)' /\ ~Busy(q)' /\ q \notin alloc'
    BY <1>2, <1>3, <2>1 DEF SameRec, HasEvent, Events
  <2> QED  BY <2>2, Freed
<1>4. CASE q \in alloc
  <2>1. PICK f \in Fds : f = rec[q].fd
    BY <1>4, Alone
  <2>2. /\ f \in open /\ f \notin F /\ SameFd(f)
    BY <1>4, <2>1, Alone
  <2>3. /\ rec'[q] = rec[q] /\ rec'[q].fd = f /\ q \in alloc'
        /\ f \in open' /\ watch'[f] = watch[f] /\ mask'[f] = mask[f] /\ lost[f] \subseteq lost'[f]
    BY <1>2, <1>4, <2>1, <2>2 DEF SameRec, SameFd
  <2>4. lost'[f] \subseteq Events /\ lost[f] \subseteq Events
    BY DEF IInv, TypeOK, SocketTypes
  <2>5. HasEvent(q)' => HasEvent(q)
    BY <1>2 DEF SameRec, HasEvent, Events
  <2>6. EventFine(q)'
    BY <1>1, <1>2, <2>1, <2>3, <2>5 DEF Fine, EventFine, Watched, SameRec, Events
  <2>7. BusyFine(q)'
    BY <1>1, <1>2, <2>1, <2>3 DEF Fine, BusyFine, SameRec
  <2>8. PeerFine(q)'
    BY <1>1, <1>4, <2>1, <2>3 DEF Fine, PeerFine
  <2>9. UpperFine(q)'
    <3> SUFFICES ASSUME ~rec[q].ssl PROVE UpperFine(q)'
      BY <2>3 DEF UpperFine, Upper
    <3>1. Upper(q) /\ UpperFine(q)
      BY <1>1, <1>4 DEF Upper, Fine
    <3>2. rec'[rec[q].peer] = rec[rec[q].peer]
      BY <1>4, <3>1 DEF UpperFine
    <3>3. <<q, "out">> \notin batch'
      BY <1>2, <3>1 DEF UpperFine, SameRec, Events
    <3>4. Watched(q)'
      BY <2>1, <2>3, <3>1 DEF UpperFine, Watched
    <3> QED  BY <2>1, <2>3, <2>5, <3>1, <3>2, <3>3, <3>4 DEF UpperFine
  <2>10. BrowserFine(q)'
    <3>1. lost[f] = Events => lost'[f] = Events
      BY <2>3, <2>4
    <3> QED  BY <1>1, <1>4, <2>1, <2>3, <3>1 DEF Fine, BrowserFine, Browser
  <2>11. AnswerFine(q)'
    BY <1>1, <1>2, <1>4, <2>1, <2>3 DEF Fine, AnswerFine, SameRec
  <2>12. HeardFine(q)'
    <3> SUFFICES ASSUME ~Busy(q)', ~HasEvent(q)', lost'[f] # Events PROVE Heard(q)'
      BY <2>3 DEF HeardFine, Heard
    <3>1. Heard(q)
      BY <1>1, <1>2, <1>4, <2>1 DEF Fine, HeardFine, SameRec
    <3> QED  BY <2>1, <2>2, <2>3, <3>1 DEF Heard, SameFd
  <2> QED  BY <2>6, <2>7, <2>8, <2>9, <2>10, <2>11, <2>12 DEF Fine
<1> QED  BY <1>3, <1>4

(* The same, of a step that touches one record without a peer, or one that   *)
(* it allocates for a new descriptor.                                        *)
LEMMA OthersApart ==
  ASSUME IInv, TypeOK', NEW r \in Recs, NEW f \in Fds,
         r \in alloc => rec[r].fd = f /\ rec[r].peer = NULL,
         r \notin alloc => f \notin open,
         \A q \in Recs \ {r} : SameRec(q),
         \A g \in Fds \ {f} : SameFd(g),
         \A q \in alloc \ {r} : HasEvent(q) => HasEvent(q)'
  PROVE  \A q \in Recs \ {r} : Fine(q)'
<1>1. alloc \subseteq Recs
  BY DEF IInv, TypeOK, MemoryTypes
<1>2. ASSUME NEW q \in alloc \ {r}
      PROVE  /\ rec[q].fd \notin {f}
             /\ rec[q].peer # NULL => /\ rec[q].peer \in alloc'
                                      /\ rec'[rec[q].peer] = rec[rec[q].peer]
             /\ HasEvent(q) => HasEvent(q)' \/ lost'[rec[q].fd] = Events
  <2>1. rec[q].fd # f
    BY <1>1, Alone
  <2>2. q # NULL /\ r # NULL
    BY <1>1, Constants
  <2>3. rec[q].peer # NULL => rec[q].peer \in alloc /\ rec[q].peer # r
    BY <2>2, Alone
  <2>4. rec[q].peer # NULL => rec[q].peer \in alloc' /\ rec'[rec[q].peer] = rec[rec[q].peer]
    <3> SUFFICES ASSUME rec[q].peer # NULL
                 PROVE  rec[q].peer \in alloc' /\ rec'[rec[q].peer] = rec[rec[q].peer]
      OBVIOUS
    <3>1. PICK p \in Recs \ {r} : p = rec[q].peer /\ p \in alloc
      BY <1>1, <2>3
    <3>2. SameRec(p)
      OBVIOUS
    <3> QED  BY <3>1, <3>2 DEF SameRec
  <2> QED  BY <2>1, <2>4
<1>3. {r} \subseteq Recs /\ {f} \subseteq Fds
  OBVIOUS
<1> QED  BY <1>2, <1>3, Others

-----------------------------------------------------------------------------
(* What main does for one event. *)

(* Whose event it is, and that it is the only one.                           *)
LEMMA EventOf ==
  ASSUME IInv, NEW r, NEW e, Event(r, e)
  PROVE  /\ mpc = "next" /\ cur = NULL
         /\ r \in Recs /\ r \in alloc /\ e \in Events
         /\ rec[r].fd \in Fds /\ rec[r].fd \in open /\ watch[rec[r].fd] = r
         /\ ~Busy(r) /\ ~AtRearm(r)
         /\ \A d \in Events : <<r, d>> \in batch => d = e
         /\ rec[r].pend \/ rec[r].stream => rec[r].old
         /\ rec[r].state = "PROXYING" => /\ Upper(r) /\ e = "in"
                                         /\ rec[r].peer # NULL /\ ~rec[rec[r].peer].pend
         /\ rec[r].state # "PROXYING" => rec[r].ssl /\ rec[r].peer = NULL
         /\ e = "out" => rec[r].state # "PROXYING"
<1>1. mpc = "next" /\ cur = NULL /\ r \in Recs /\ e \in Events /\ <<r, e>> \in batch
  <2>1. batch \subseteq Recs \X Events
    BY DEF IInv, TypeOK, ThreadTypes
  <2> QED  BY <2>1 DEF Event, IInv, ThreadInv
<1>2. Fine(r) /\ HasEvent(r)
  BY <1>1 DEF IInv, HasEvent, Events
<1>3. rec[r].fd \in Fds /\ watch[rec[r].fd] = r /\ r # NULL
  BY <1>1, <1>2, Constants DEF Fine, EventFine, Watched
<1>4. r \in alloc /\ rec[r].fd \in open
  BY <1>1, <1>3 DEF IInv, WatchMatches
<1>5. ~Busy(r)
  BY <1>2, <1>3 DEF Fine, BusyFine
<1>6. ~AtRearm(r)
  BY <1>5 DEF Busy, AtWork, AtRearm
<1>7. rec[r].peer # NULL <=> rec[r].state = "PROXYING"
  BY <1>4, Alone
<1>8. ~Browser(r)
  BY <1>2, <1>3 DEF Fine, BrowserFine
<1>9. rec[r].state # "PROXYING" => rec[r].ssl /\ rec[r].peer = NULL
  BY <1>2, <1>4, <1>7 DEF Fine, UpperFine, Upper
<1>10. rec[r].state = "PROXYING" => /\ Upper(r) /\ e = "in"
                                    /\ rec[r].peer # NULL /\ ~rec[rec[r].peer].pend
  <2> SUFFICES ASSUME rec[r].state = "PROXYING"
               PROVE  Upper(r) /\ e = "in" /\ rec[r].peer # NULL /\ ~rec[rec[r].peer].pend
    OBVIOUS
  <2>1. rec[r].ssl \in BOOLEAN
    BY <1>1, Fields DEF IInv
  <2>2. Upper(r)
    BY <1>4, <1>7, <1>8, <2>1 DEF Browser, Upper
  <2> QED  BY <1>1, <1>2, <2>2 DEF Fine, UpperFine, Events
<1>11. rec[r].pend \/ rec[r].stream => rec[r].old
  BY <1>2, <1>4, <1>6, <1>9, <1>10 DEF Fine, AnswerFine, UpperFine
<1>12. \A d \in Events : <<r, d>> \in batch => d = e
  BY <1>1, <1>2 DEF Fine, EventFine, Events
<1>13. e = "out" => rec[r].state # "PROXYING"
  BY <1>10
<1> QED  BY <1>1, <1>3, <1>4, <1>5, <1>6, <1>9, <1>10, <1>11, <1>12, <1>13

(* What epoll is told.                                                       *)
LEMMA WatchTyped ==
  ASSUME TypeOK, NEW f \in Fds, NEW r \in Recs, NEW m \in Masks, Watch(f, r, m),
         open \subseteq open', f \in open'
  PROVE  /\ watch' \in [Fds -> Recs \cup {NULL}] /\ mask' \in [Fds -> Masks]
         /\ ready' \subseteq open'
         /\ watch'[f] = r /\ mask'[f] = m
         /\ \A g \in Fds : g # f => /\ watch'[g] = watch[g] /\ mask'[g] = mask[g]
                                    /\ g \in ready' <=> g \in ready
         /\ ready \subseteq ready' \cup {f}
BY DEF TypeOK, SocketTypes, Watch

(* EPOLL_CTL_MOD: nothing of a connection is missed from now on, if it is    *)
(* armed for all that it waits for.                                          *)
LEMMA WatchHears ==
  ASSUME TypeOK, NEW f \in Fds, NEW r \in Recs, NEW m \in Masks, Watch(f, r, m),
         rec'[r].fd = f, "in" \in m,
         rec'[r].pend \/ rec'[r].stream \/ rec'[r].want => "out" \in m \/ "out" \in lost'[f]
  PROVE  Heard(r)'
<1>1. watch'[f] = r /\ mask'[f] = m
  BY DEF TypeOK, SocketTypes, Watch
<1>2. \A e \in Due(f)' : f \in ready'
  BY <1>1 DEF Watch, Due, Readable, Events
<1>3. ASSUME NEW e \in Events \ lost'[f],
             e = "in" \/ rec'[r].pend \/ rec'[r].stream \/ rec'[r].want
      PROVE  e \in m
  BY <1>3 DEF Events
<1> QED  BY <1>1, <1>2, <1>3 DEF Heard

(* What is taken from the socket of a client, and put into its record.       *)
LEMMA ClientTyped ==
  ASSUME IInv, NEW r, NEW e, Event(r, e), Handled(r, e),
         NEW new \in Records, rec' = [rec EXCEPT ![r] = new],
         UNCHANGED <<alloc, open, fin, mpc, cur, handoff, wpc, fault>>,
         input' \in [Fds -> Seq(Chunks \cup {"more"})],
         \A g \in Fds : Len(input'[g]) <= MaxInput,
         full' \subseteq full \cup {rec[r].fd}, ready' \subseteq open,
         watch' \in [Fds -> Recs \cup {NULL}], mask' \in [Fds -> Masks],
         lost' \in [Fds -> SUBSET Events]
  PROVE  TypeOK'
<1>1. r \in Recs /\ rec[r].fd \in open
  BY EventOf
<1>2. MemoryTypes'
  BY <1>1 DEF IInv, TypeOK, MemoryTypes
<1>3. SocketTypes'
  BY <1>1 DEF IInv, TypeOK, SocketTypes
<1>4. ThreadTypes'
  BY DEF IInv, TypeOK, ThreadTypes, Handled, handoff
<1> QED  BY <1>2, <1>3, <1>4 DEF TypeOK

(* An event of a client is handled, and it stays.                            *)
LEMMA ClientKept ==
  ASSUME IInv, TypeOK', NEW r, NEW e, Event(r, e), rec[r].state # "PROXYING",
         NEW new \in Records, rec' = [rec EXCEPT ![r] = new],
         new.fd = rec[r].fd, new.ssl, new.peer = NULL, new.state # "PROXYING",
         new.want => new.state = "SSL_HANDSHAKE", new.pend \/ new.stream => new.old,
         UNCHANGED <<alloc, open, fin, watch, mpc, cur, handoff, wpc>>, Handled(r, e),
         \A g \in Fds : g # rec[r].fd =>
           /\ input'[g] = input[g] /\ mask'[g] = mask[g] /\ lost'[g] = lost[g]
           /\ (g \in ready' <=> g \in ready) /\ (g \in full' <=> g \in full),
         Heard(r)'
  PROVE  IInv'
<1>1. /\ mpc = "next" /\ cur = NULL
      /\ r \in Recs /\ r \in alloc /\ e \in Events
      /\ rec[r].fd \in Fds /\ rec[r].fd \in open /\ watch[rec[r].fd] = r
      /\ ~Busy(r) /\ ~AtRearm(r)
      /\ \A d \in Events : <<r, d>> \in batch => d = e
      /\ rec[r].ssl /\ rec[r].peer = NULL
  BY EventOf
<1>2. /\ rec'[r] = new /\ \A q \in Recs : q # r => rec'[q] = rec[q]
      /\ \A q \in Recs : rec'[q].fd = rec[q].fd
  BY <1>1 DEF IInv, TypeOK, MemoryTypes
<1>3. batch' = batch \ {<<r, e>>} /\ ~HasEvent(r)'
  BY <1>1 DEF Handled, HasEvent, Events
<1>4. \A q \in Recs : Busy(q)' <=> Busy(q)
  BY DEF Busy, InQueue, AtWork, handoff
<1>5. \A q \in Recs : AtRearm(q)' <=> AtRearm(q)
  BY DEF AtRearm, handoff
<1>6. alloc \subseteq Recs /\ open \subseteq Fds
  BY DEF IInv, TypeOK, MemoryTypes, SocketTypes
<1>7. \A q \in Recs \ {r} : Fine(q)'
  <2>1. \A q \in Recs \ {r} : SameRec(q)
    BY <1>2, <1>3, <1>4, <1>5 DEF SameRec
  <2>2. \A g \in Fds \ {rec[r].fd} : SameFd(g)
    BY DEF SameFd, Due, Readable
  <2>3. \A q \in alloc \ {r} : HasEvent(q) => HasEvent(q)'
    BY <1>3 DEF HasEvent
  <2> QED  BY <1>1, <2>1, <2>2, <2>3, OthersApart
<1>8. Fine(r)'
  <2>1. PICK f \in Fds : f = rec[r].fd
    BY <1>1
  <2>2. /\ rec'[r] = new /\ new.fd = f /\ r \in alloc' /\ f \in open' /\ watch'[f] = r
    BY <1>1, <1>2, <2>1
  <2>3. EventFine(r)'
    BY <1>3 DEF EventFine, HasEvent
  <2>4. ~Busy(r)' /\ BusyFine(r)'
    BY <1>1, <1>4 DEF BusyFine
  <2>5. PeerFine(r)'
    BY <2>2 DEF PeerFine
  <2>6. UpperFine(r)' /\ BrowserFine(r)'
    BY <2>2 DEF UpperFine, Upper, BrowserFine, Browser
  <2>7. AnswerFine(r)'
    BY <2>2 DEF AnswerFine
  <2>8. HeardFine(r)'
    BY DEF HeardFine
  <2> QED  BY <2>3, <2>4, <2>5, <2>6, <2>7, <2>8 DEF Fine
<1>9. OwnFd'
  BY <1>2, <1>6 DEF IInv, OwnFd
<1>10. WatchMatches'
  BY <1>2, <1>6 DEF IInv, WatchMatches
<1>11. ArmedInv'
  BY <1>1, Constants DEF IInv, ArmedInv
<1>12. ThreadInv' /\ QueueInv'
  BY DEF IInv, ThreadInv, QueueInv, AtWork, InQueue, handoff
<1>13. CheckInv'
  BY <1>1 DEF CheckInv
<1>14. \A q \in Recs : Fine(q)'
  BY <1>7, <1>8
<1> QED  BY <1>9, <1>10, <1>11, <1>12, <1>13, <1>14 DEF IInv

(* A connection is closed, and its peer; main has no event more for them.    *)
LEMMA CleanupKept ==
  ASSUME IInv, NEW r \in alloc, NEW S \in SUBSET (Recs \X Events), CleanupLeaving(r, S),
         batch' \subseteq batch, UNCHANGED <<handoff, wpc>>,
         mpc' = "next", cur' = NULL, fault' \in {"none", "overfull"},
         \A q \in {r, rec[r].peer} \ {NULL} :
           ~Busy(q) /\ \A e \in Events : <<q, e>> \notin batch',
         \A q \in alloc \ {r, rec[r].peer} : HasEvent(q) => HasEvent(q)' \/ \E e \in Events : <<q, e>> \in S
  PROVE  IInv'
<1> DEFINE gone == {r, rec[r].peer} \ {NULL}
           fds  == {rec[q].fd : q \in gone}
<1>1. alloc \subseteq Recs /\ open \subseteq Fds /\ r \in Recs /\ r # NULL
  BY Constants DEF IInv, TypeOK, MemoryTypes, SocketTypes
<1>2. gone \subseteq alloc /\ gone \subseteq Recs
  BY <1>1, Alone
<1>3. fds \subseteq Fds /\ fds \subseteq open
  BY <1>2, Alone
<1>4. /\ alloc' = alloc \ gone
      /\ rec' = [q \in Recs |-> IF q \in gone THEN NewRecord(NULL) ELSE rec[q]]
      /\ open' = open \ fds /\ fin' = fin \ fds /\ full' = full \ fds
      /\ input' = [f \in Fds |-> IF f \in fds THEN <<>> ELSE input[f]]
      /\ watch' = [f \in Fds |-> IF f \in fds THEN NULL ELSE watch[f]]
      /\ mask' = [f \in Fds |-> IF f \in fds THEN {} ELSE mask[f]]
      /\ ready' = ready \ fds
      /\ lost' = [f \in Fds |-> IF f \in fds THEN {} ELSE AndLost(LeftBehind(S))[f]]
  BY DEF CleanupLeaving, CloseFds, Unwatch
<1>5. \A q \in alloc \ gone : rec[q].fd \notin fds /\ rec[q].peer \notin gone
  <2> SUFFICES ASSUME NEW q \in alloc \ gone PROVE rec[q].fd \notin fds /\ rec[q].peer \notin gone
    OBVIOUS
  <2>1. rec[q].fd \notin fds
    BY <1>2, Alone
  <2>2. q # NULL
    BY <1>1, Constants
  <2>3. rec[q].peer # r
    BY <2>2, Alone
  <2>4. rec[r].peer # NULL => rec[q].peer # rec[r].peer
    BY <2>2, Alone
  <2> QED  BY <2>1, <2>3, <2>4
<1> HIDE DEF gone, fds
<1>6. \A q \in Recs \ gone : rec'[q] = rec[q] /\ (q \in alloc' <=> q \in alloc)
  BY <1>4
<1>7. \A f \in Fds \ fds :
        /\ watch'[f] = watch[f] /\ mask'[f] = mask[f] /\ input'[f] = input[f]
        /\ (f \in open' <=> f \in open) /\ (f \in ready' <=> f \in ready)
        /\ (f \in fin' <=> f \in fin) /\ (f \in full' <=> f \in full)
  BY <1>4
<1>8. \A f \in Fds \ fds : lost'[f] = IF f \in LeftBehind(S) THEN Events ELSE lost[f]
  BY <1>4 DEF AndLost
<1>9. TypeOK'
  <2>1. MemoryTypes'
    BY <1>4, RecordMade DEF IInv, TypeOK, MemoryTypes
  <2>2. SocketTypes'
    <3>1. input' \in [Fds -> Seq(Chunks \cup {"more"})]
      <4>1. <<>> \in Seq(Chunks \cup {"more"})
        OBVIOUS
      <4> QED  BY <1>4, <4>1 DEF IInv, TypeOK, SocketTypes
    <3>2. \A f \in Fds : Len(input'[f]) <= MaxInput
      <4>1. Len(<<>>) = 0 /\ 0 <= MaxInput
        BY Constants
      <4> QED  BY <1>4, <4>1 DEF IInv, TypeOK, SocketTypes
    <3>3. lost' \in [Fds -> SUBSET Events]
      BY <1>4 DEF AndLost, IInv, TypeOK, SocketTypes
    <3>4. {} \in Masks
      BY DEF Masks
    <3> QED  BY <1>4, <3>1, <3>2, <3>3, <3>4 DEF IInv, TypeOK, SocketTypes
  <2>3. ThreadTypes'
    BY DEF IInv, TypeOK, ThreadTypes, handoff
  <2> QED  BY <2>1, <2>2, <2>3 DEF TypeOK
<1>10. \A q \in Recs : (Busy(q)' <=> Busy(q)) /\ (AtRearm(q)' <=> AtRearm(q))
  BY DEF Busy, InQueue, AtWork, AtRearm, handoff
<1>11. \A q \in Recs \ gone : Fine(q)'
  <2>1. \A q \in Recs \ gone : SameRec(q)
    BY <1>6, <1>10 DEF SameRec
  <2>2. \A f \in Fds \ fds : SameFd(f)
    <3> SUFFICES ASSUME NEW f \in Fds \ fds PROVE SameFd(f)
      OBVIOUS
    <3>1. lost[f] \subseteq lost'[f]
      BY <1>8 DEF IInv, TypeOK, SocketTypes
    <3> QED  BY <1>7, <3>1 DEF SameFd, Due, Readable
  <2>3. ASSUME NEW q \in alloc \ gone
        PROVE  /\ rec[q].fd \notin fds
               /\ rec[q].peer # NULL => /\ rec[q].peer \in alloc'
                                        /\ rec'[rec[q].peer] = rec[rec[q].peer]
               /\ HasEvent(q) => HasEvent(q)' \/ lost'[rec[q].fd] = Events
    <3>1. rec[q].fd \notin fds /\ rec[q].peer \notin gone
      BY <1>5
    <3>2. rec[q].peer # NULL => rec[q].peer \in alloc
      BY Alone
    <3>3. q \notin {r, rec[r].peer}
      BY <1>1, Constants DEF gone
    <3>4. ASSUME NEW e \in Events, <<q, e>> \in S PROVE lost'[rec[q].fd] = Events
      <4>1. rec[q].fd \in Fds
        BY Alone
      <4>2. rec[q].fd \in LeftBehind(S)
        <5>1. <<q, e>>[1] = q
          OBVIOUS
        <5> QED  BY <3>4, <5>1 DEF LeftBehind
      <4> QED  BY <1>8, <3>1, <4>1, <4>2
    <3> QED  BY <1>1, <1>4, <1>6, <3>1, <3>2, <3>3, <3>4
  <2> QED  BY <1>2, <1>3, <1>9, <2>1, <2>2, <2>3, Others
<1>12. ASSUME NEW q \in gone PROVE Fine(q)'
  <2>1. q \in Recs /\ q \notin alloc' /\ ~Busy(q)'
    BY <1>2, <1>4, <1>10 DEF gone
  <2>2. ~HasEvent(q)'
    BY DEF gone, HasEvent, Events
  <2> QED  BY <2>1, <2>2, Freed
<1>13. OwnFd'
  BY <1>1, <1>4, <1>6 DEF IInv, OwnFd
<1>14. WatchMatches'
  <2> SUFFICES ASSUME NEW f \in Fds, watch'[f] # NULL
               PROVE  f \in open' /\ watch'[f] \in alloc' /\ rec'[watch'[f]].fd = f
    BY DEF WatchMatches
  <2>1. f \notin fds
    BY <1>4
  <2>2. watch'[f] = watch[f] /\ f \in open /\ watch[f] \in alloc /\ rec[watch[f]].fd = f
    BY <1>7, <2>1 DEF IInv, WatchMatches
  <2>3. watch[f] \notin gone
    BY <2>1, <2>2 DEF fds
  <2> QED  BY <1>1, <1>4, <1>6, <2>1, <2>2, <2>3
<1>15. ArmedInv'
  BY <1>4 DEF IInv, ArmedInv
<1>16. ThreadInv' /\ QueueInv'
  BY DEF IInv, ThreadInv, QueueInv, AtWork, InQueue, handoff
<1>17. CheckInv'
  BY DEF CheckInv
<1> QED  BY <1>9, <1>11, <1>12, <1>13, <1>14, <1>15, <1>16, <1>17 DEF IInv

(* The same for the connection of an event that is handled.                  *)
LEMMA CleanupHandled ==
  ASSUME IInv, NEW r, NEW e, Event(r, e), CleanupClient(r), Handled(r, e),
         UNCHANGED <<mpc, cur, handoff, wpc, fault>>
  PROVE  IInv'
<1>1. /\ mpc = "next" /\ cur = NULL
      /\ r \in Recs /\ r \in alloc /\ e \in Events /\ ~Busy(r)
      /\ \A d \in Events : <<r, d>> \in batch => d = e
      /\ rec[r].state = "PROXYING" => Upper(r) /\ rec[r].peer # NULL
      /\ rec[r].state # "PROXYING" => rec[r].peer = NULL
  BY EventOf
<1>2. batch' = batch \ {<<r, e>>}
  BY DEF Handled
<1>3. \A d \in Events : <<r, d>> \notin batch'
  BY <1>1, <1>2
<1>4. ASSUME rec[r].peer # NULL
      PROVE  ~Busy(rec[r].peer) /\ \A d \in Events : <<rec[r].peer, d>> \notin batch
  <2>1. PICK b \in Recs : b = rec[r].peer
    BY <1>1, <1>4, Fields DEF IInv
  <2>2. b \in alloc /\ rec[b].peer = r /\ rec[b].ssl
    BY <1>1, <1>4, <2>1, Alone DEF Upper
  <2>3. Browser(b)
    BY <1>1, <2>2, Constants DEF Browser
  <2> QED  BY <2>1, <2>3, BrowserQuiet DEF HasEvent, Events
<1>5. \A q \in {r, rec[r].peer} \ {NULL} : ~Busy(q) /\ \A d \in Events : <<q, d>> \notin batch'
  BY <1>1, <1>2, <1>3, <1>4
<1>6. \A q \in alloc \ {r, rec[r].peer} : HasEvent(q) => HasEvent(q)'
  BY <1>2 DEF HasEvent
<1>7. fault' \in {"none", "overfull"} /\ mpc' = "next" /\ cur' = NULL /\ batch' \subseteq batch
  BY <1>1, <1>2 DEF IInv, TypeOK, ThreadTypes
<1>8. CleanupLeaving(r, {}) /\ {} \in SUBSET (Recs \X Events)
  BY DEF CleanupClient
<1> QED  BY <1>1, <1>5, <1>6, <1>7, <1>8, CleanupKept

-----------------------------------------------------------------------------
(* The steps of main. *)

(* EPOLL_CTL_MOD by rearm_client.                                            *)
LEMMA ClientRearmed ==
  ASSUME IInv, NEW r, NEW e, Event(r, e), NEW want \in BOOLEAN, RearmClient(r, want),
         open' = open, rec'[r].fd = rec[r].fd, rec'[r].pend = rec[r].pend,
         rec'[r].stream = rec[r].stream, rec'[r].want => want
  PROVE  /\ watch' = watch /\ mask' \in [Fds -> Masks] /\ ready' \subseteq open
         /\ watch' \in [Fds -> Recs \cup {NULL}] /\ lost' \in [Fds -> SUBSET Events]
         /\ \A g \in Fds : g # rec[r].fd =>
              mask'[g] = mask[g] /\ lost'[g] = lost[g] /\ (g \in ready' <=> g \in ready)
         /\ Heard(r)'
<1> DEFINE m == {"in", "once"} \cup (IF want THEN {"out"} ELSE {})
<1>1. PICK f \in Fds : f = rec[r].fd /\ f \in open /\ watch[f] = r /\ r \in Recs
  BY EventOf
<1>2. TypeOK /\ m \in Masks
  BY DEF IInv, Masks
<1>3. /\ Watch(f, r, m)
      /\ lost' = [lost EXCEPT ![f] = IF (rec[r].pend \/ rec[r].stream) /\ ~want THEN {"out"} ELSE {}]
  BY <1>1 DEF RearmClient
<1>4. lost \in [Fds -> SUBSET Events] /\ watch \in [Fds -> Recs \cup {NULL}]
  BY <1>2 DEF TypeOK, SocketTypes
<1>5. /\ lost' \in [Fds -> SUBSET Events]
      /\ \A g \in Fds : g # f => lost'[g] = lost[g]
      /\ (rec[r].pend \/ rec[r].stream) /\ ~want => "out" \in lost'[f]
  BY <1>3, <1>4 DEF Events
<1>6. watch' = watch
  BY <1>1, <1>3, <1>4 DEF Watch
<1>7. Heard(r)'
  <2>1. "in" \in m /\ (want => "out" \in m)
    OBVIOUS
  <2>2. rec'[r].fd = f
    BY <1>1
  <2>3. rec'[r].pend \/ rec'[r].stream \/ rec'[r].want => "out" \in m \/ "out" \in lost'[f]
    BY <1>5, <2>1
  <2> HIDE DEF m
  <2> QED  BY <1>1, <1>2, <1>3, <2>1, <2>2, <2>3, WatchHears
<1> HIDE DEF m
<1>8. /\ mask' \in [Fds -> Masks] /\ ready' \subseteq open
      /\ \A g \in Fds : g # f => mask'[g] = mask[g] /\ (g \in ready' <=> g \in ready)
  BY <1>1, <1>2, <1>3, WatchTyped
<1> QED  BY <1>1, <1>4, <1>5, <1>6, <1>7, <1>8

(* The handshake: rearmed, or closed.                                        *)
LEMMA HandshakeKeeps ==
  ASSUME IInv, NEW r \in Recs, Handshake(r)
  PROVE  IInv'
<1> DEFINE n == CHOOSE n \in 0..Len(input[rec[r].fd]) :
                  /\ Data(rec[r].fd, n) = 0
                  /\ (n < Len(input[rec[r].fd]) => Data(rec[r].fd, n + 1) = 1)
<1>1. /\ Event(r, "in") /\ rec[r].state = "SSL_HANDSHAKE" /\ Handled(r, "in")
      /\ UNCHANGED <<mpc, cur, handoff, wpc, fault>>
  BY DEF Handshake
<1>2. CASE CleanupClient(r)
  BY <1>1, <1>2, CleanupHandled
<1>3. ASSUME NEW done \in BOOLEAN, NEW want \in BOOLEAN,
             done => n > 0 /\ ~want,
             done \/ want \/ (n = Len(input[rec[r].fd]) /\ rec[r].fd \notin fin),
             Drop(rec[r].fd, n),
             IF want THEN WriteWants(rec[r].fd) ELSE UNCHANGED full,
             UNCHANGED <<alloc, open, fin>>,
             rec' = [rec EXCEPT ![r].want = want,
                       ![r].state = IF done THEN "READ_REQUEST" ELSE "SSL_HANDSHAKE"],
             RearmClient(r, want)
      PROVE  IInv'
  <2> DEFINE new == [rec[r] EXCEPT !.want = want,
                       !.state = IF done THEN "READ_REQUEST" ELSE "SSL_HANDSHAKE"]
  <2>1. /\ rec[r].fd \in Fds /\ rec[r].ssl /\ rec[r].peer = NULL
        /\ (rec[r].pend \/ rec[r].stream => rec[r].old)
    BY <1>1, EventOf
  <2>2. rec[r] \in Records /\ TypeOK
    BY Fields DEF IInv
  <2>3. rec' = [rec EXCEPT ![r] = new] /\ rec'[r] = new
    BY <1>3 DEF IInv, TypeOK, MemoryTypes
  <2>4. new \in Records
    BY <2>2 DEF Records
  <2>5. /\ new.fd = rec[r].fd /\ new.ssl /\ new.peer = NULL
        /\ new.pend = rec[r].pend /\ new.stream = rec[r].stream /\ new.old = rec[r].old
        /\ new.want = want /\ new.state = (IF done THEN "READ_REQUEST" ELSE "SSL_HANDSHAKE")
    BY <2>1, <2>2 DEF Records
  <2>6. new.want => new.state = "SSL_HANDSHAKE"
    BY <1>3, <2>5
  <2>7. new.state # "PROXYING" /\ (new.pend \/ new.stream => new.old)
    BY <2>1, <2>5
  <2> HIDE DEF new
  <2>8. n \in 0..Len(input[rec[r].fd])
    BY <2>1, <2>2, MessagesFirst
  <2> HIDE DEF n
  <2>9. /\ input' \in [Fds -> Seq(Chunks \cup {"more"})]
        /\ \A g \in Fds : Len(input'[g]) <= MaxInput
        /\ \A g \in Fds : g # rec[r].fd => input'[g] = input[g]
    BY <1>3, <2>1, <2>2, <2>8, Dropped
  <2>10. /\ full' \subseteq full \cup {rec[r].fd}
         /\ \A g \in Fds : g # rec[r].fd => (g \in full' <=> g \in full)
    BY <1>3 DEF WriteWants
  <2>11. /\ watch' = watch /\ mask' \in [Fds -> Masks] /\ ready' \subseteq open
         /\ watch' \in [Fds -> Recs \cup {NULL}] /\ lost' \in [Fds -> SUBSET Events]
         /\ \A g \in Fds : g # rec[r].fd =>
              mask'[g] = mask[g] /\ lost'[g] = lost[g] /\ (g \in ready' <=> g \in ready)
         /\ Heard(r)'
    <3>1. /\ open' = open /\ rec'[r].fd = rec[r].fd /\ rec'[r].pend = rec[r].pend
          /\ rec'[r].stream = rec[r].stream /\ (rec'[r].want => want)
      BY <1>3, <2>3, <2>5
    <3> QED  BY <1>1, <1>3, <3>1, ClientRearmed
  <2>12. TypeOK'
    BY <1>1, <1>3, <2>3, <2>4, <2>9, <2>10, <2>11, ClientTyped
  <2> QED
    BY <1>1, <1>3, <2>3, <2>4, <2>5, <2>6, <2>7, <2>9, <2>10, <2>11, <2>12, ClientKept
<1> QED  BY <1>2, <1>3 DEF Handshake

(* A request that has not all come yet: rearmed.                             *)
LEMMA ReadMoreKeeps ==
  ASSUME IInv, NEW r \in Recs, ReadMore(r)
  PROVE  IInv'
<1> DEFINE n   == Len(input[rec[r].fd])
           new == [rec[r] EXCEPT !.bytes = @ + Data(rec[r].fd, n)]
<1>1. /\ Event(r, "in") /\ rec[r].state = "READ_REQUEST" /\ Handled(r, "in")
      /\ rec[r].bytes < Cap /\ Stop(r) = 0
      /\ UNCHANGED <<mpc, cur, handoff, wpc, fault, alloc, open, fin, full>>
      /\ Drop(rec[r].fd, n) /\ RearmClient(r, FALSE)
      /\ rec' = [rec EXCEPT ![r].bytes = @ + Data(rec[r].fd, n)]
  BY DEF ReadMore, Reads
<1>2. /\ rec[r].fd \in Fds /\ rec[r].ssl /\ rec[r].peer = NULL /\ r \in alloc
      /\ (rec[r].pend \/ rec[r].stream => rec[r].old)
  BY <1>1, EventOf
<1>3. rec[r] \in Records /\ TypeOK
  BY Fields DEF IInv
<1>4. rec' = [rec EXCEPT ![r] = new] /\ rec'[r] = new
  BY <1>1 DEF IInv, TypeOK, MemoryTypes
<1>5. rec[r].bytes + Data(rec[r].fd, n) \in 0..Cap
  BY <1>1, <1>2, <1>3, StopIs
<1>6. new \in Records
  BY <1>3, <1>5 DEF Records
<1>7. ~rec[r].want
  BY <1>1, <1>2 DEF IInv, Fine, AnswerFine
<1>8. /\ new.fd = rec[r].fd /\ new.ssl /\ new.peer = NULL
      /\ new.pend = rec[r].pend /\ new.stream = rec[r].stream /\ new.old = rec[r].old
      /\ ~new.want /\ new.state = "READ_REQUEST"
  BY <1>1, <1>2, <1>3, <1>7 DEF Records
<1> HIDE DEF new
<1>9. n \in 0..n
  BY <1>2, <1>3, LenProperties DEF TypeOK, SocketTypes
<1>10. /\ input' \in [Fds -> Seq(Chunks \cup {"more"})]
       /\ \A g \in Fds : Len(input'[g]) <= MaxInput
       /\ \A g \in Fds : g # rec[r].fd => input'[g] = input[g]
  BY <1>1, <1>2, <1>3, <1>9, Dropped
<1> HIDE DEF n
<1>11. /\ watch' = watch /\ mask' \in [Fds -> Masks] /\ ready' \subseteq open
       /\ watch' \in [Fds -> Recs \cup {NULL}] /\ lost' \in [Fds -> SUBSET Events]
       /\ \A g \in Fds : g # rec[r].fd =>
            mask'[g] = mask[g] /\ lost'[g] = lost[g] /\ (g \in ready' <=> g \in ready)
       /\ Heard(r)'
  <2>1. /\ open' = open /\ rec'[r].fd = rec[r].fd /\ rec'[r].pend = rec[r].pend
        /\ rec'[r].stream = rec[r].stream /\ (rec'[r].want => FALSE)
    BY <1>1, <1>4, <1>8
  <2> QED  BY <1>1, <2>1, ClientRearmed
<1>12. TypeOK'
  <2>1. full' \subseteq full \cup {rec[r].fd}
    BY <1>1
  <2> QED  BY <1>1, <1>4, <1>6, <1>10, <1>11, <2>1, ClientTyped
<1>13. rec[r].state # "PROXYING" /\ new.state # "PROXYING" /\ (new.pend \/ new.stream => new.old)
       /\ (new.want => new.state = "SSL_HANDSHAKE")
  BY <1>1, <1>2, <1>8
<1>14. \A g \in Fds : g \in full' <=> g \in full
  BY <1>1
<1> QED
  BY <1>1, <1>4, <1>6, <1>8, <1>10, <1>11, <1>12, <1>13, <1>14, ClientKept

(* An event of a client that cannot be read, or written to: closed.          *)
LEMMA FailsKeep ==
  ASSUME IInv, NEW r \in Recs, ReadFails(r) \/ FlushFails(r)
  PROVE  IInv'
BY CleanupHandled DEF ReadFails, FlushFails

(* What still does not go out is waited for.                                 *)
LEMMA FlushWaitsKeeps ==
  ASSUME IInv, NEW r \in Recs, FlushWaits(r)
  PROVE  IInv'
<1> DEFINE m == {"in", "out", "once"}
<1>1. /\ Event(r, "out") /\ Handled(r, "out") /\ WriteWants(rec[r].fd)
      /\ UNCHANGED <<rec, alloc, open, input, fin, mpc, cur, handoff, wpc, fault>>
      /\ Watch(rec[r].fd, r, m) /\ Finds(rec[r].fd, Events)
  BY DEF FlushWaits, memory
<1>2. PICK f \in Fds : f = rec[r].fd /\ f \in open /\ watch[f] = r
  BY <1>1, EventOf
<1>3. /\ rec[r].ssl /\ rec[r].peer = NULL /\ r \in alloc /\ rec[r].state # "PROXYING"
      /\ (rec[r].pend \/ rec[r].stream => rec[r].old)
  BY <1>1, EventOf
<1>4. rec[r] \in Records /\ TypeOK /\ m \in Masks
  BY Fields DEF IInv, Masks
<1>5. rec' = [rec EXCEPT ![r] = rec[r]]
  BY <1>1, <1>4 DEF TypeOK, MemoryTypes
<1>6. rec[r].want => rec[r].state = "SSL_HANDSHAKE"
  BY <1>3 DEF IInv, Fine, AnswerFine
<1>7. /\ watch' \in [Fds -> Recs \cup {NULL}] /\ mask' \in [Fds -> Masks]
      /\ ready' \subseteq open
      /\ \A g \in Fds : g # f => mask'[g] = mask[g] /\ (g \in ready' <=> g \in ready)
  <2> HIDE DEF m
  <2> QED  BY <1>1, <1>2, <1>4, WatchTyped
<1>8. watch' = watch
  BY <1>1, <1>2, <1>4 DEF Watch, TypeOK, SocketTypes
<1>9. lost' \in [Fds -> SUBSET Events] /\ \A g \in Fds : g # f => lost'[g] = lost[g]
  BY <1>1, <1>2, <1>4 DEF Finds, TypeOK, SocketTypes
<1>10. Heard(r)'
  <2>1. "in" \in m /\ "out" \in m
    OBVIOUS
  <2>2. rec'[r].fd = f
    BY <1>1, <1>2
  <2> HIDE DEF m
  <2> QED  BY <1>1, <1>2, <1>4, <2>1, <2>2, WatchHears
<1>11. /\ full' \subseteq full \cup {f} /\ \A g \in Fds : g # f => (g \in full' <=> g \in full)
  BY <1>1, <1>2 DEF WriteWants
<1>12. /\ input' \in [Fds -> Seq(Chunks \cup {"more"})] /\ input' = input
       /\ \A g \in Fds : Len(input'[g]) <= MaxInput
  BY <1>1, <1>4 DEF TypeOK, SocketTypes
<1>13. TypeOK'
  BY <1>1, <1>2, <1>4, <1>5, <1>7, <1>9, <1>11, <1>12, ClientTyped
<1>14. UNCHANGED <<alloc, open, fin, watch, mpc, cur, handoff, wpc>>
  BY <1>1, <1>8
<1> QED
  BY <1>1, <1>2, <1>3, <1>4, <1>5, <1>6, <1>7, <1>9, <1>10, <1>11, <1>12, <1>13, <1>14, ClientKept

(* All is written: what is not armed for the rest of a file, or for the next *)
(* request, is noted as lost.                                                *)
LEMMA FlushDoneKeeps ==
  ASSUME IInv, NEW r \in Recs, FlushDone(r)
  PROVE  IInv'
<1>1. /\ Event(r, "out") /\ Handled(r, "out")
      /\ UNCHANGED <<alloc, open, input, fin, mpc, cur, handoff, wpc, fault>>
  BY DEF FlushDone
<1>2. PICK f \in Fds : f = rec[r].fd /\ f \in open /\ watch[f] = r
  BY <1>1, EventOf
<1>3. PICK rest \in IF rec[r].stream THEN {"end", "written", "waits"} ELSE {"end"} :
        /\ rec' = [rec EXCEPT ![r].pend = rest = "waits", ![r].stream = rest # "end"]
        /\ IF rest = "waits"
           THEN /\ WriteWants(f)
                /\ Watch(f, r, {"in", "out"})
                /\ Finds(f, Events)
           ELSE /\ UNCHANGED full
                /\ IF rec[r].pend THEN Watch(f, r, {"in", "once"}) ELSE UNCHANGED epoll
                /\ lost' = [lost EXCEPT ![f] = (IF rec[r].pend THEN {} ELSE {"in"}) \cup
                              (IF rest = "written" \/ rec[r].want THEN {"out"} ELSE {})]
  BY <1>2 DEF FlushDone
<1> DEFINE new == [rec[r] EXCEPT !.pend = rest = "waits", !.stream = rest # "end"]
<1>4. /\ rec[r].ssl /\ rec[r].peer = NULL /\ r \in alloc /\ rec[r].state # "PROXYING"
      /\ (rec[r].pend \/ rec[r].stream => rec[r].old)
  BY <1>1, EventOf
<1>5. rec[r] \in Records /\ TypeOK
  BY Fields DEF IInv
<1>6. rec' = [rec EXCEPT ![r] = new] /\ rec'[r] = new
  BY <1>3, <1>5 DEF TypeOK, MemoryTypes
<1>7. new \in Records
  BY <1>5 DEF Records
<1>8. rec[r].want => rec[r].state = "SSL_HANDSHAKE"
  BY <1>4 DEF IInv, Fine, AnswerFine
<1>9. /\ new.fd = f /\ new.ssl /\ new.peer = NULL /\ new.state = rec[r].state
      /\ new.want = rec[r].want /\ new.old = rec[r].old
      /\ new.pend = (rest = "waits") /\ new.stream = (rest # "end")
  BY <1>2, <1>4, <1>5 DEF Records
<1>10. rest # "end" => rec[r].stream
  BY <1>3
<1> HIDE DEF new
<1>11. lost' \in [Fds -> SUBSET Events] /\ \A g \in Fds : g # f => lost'[g] = lost[g]
  <2>1. lost \in [Fds -> SUBSET Events]
    BY <1>5 DEF TypeOK, SocketTypes
  <2>2. PICK S \in SUBSET Events : lost' = [lost EXCEPT ![f] = S]
    <3>1. CASE rest = "waits"
      <4>1. lost' = [lost EXCEPT ![f] = lost[f] \ Events] /\ lost[f] \ Events \in SUBSET Events
        BY <1>3, <2>1, <3>1 DEF Finds
      <4> QED  BY <4>1
    <3>2. CASE rest # "waits"
      BY <1>3, <3>2 DEF Events
    <3> QED  BY <3>1, <3>2
  <2> QED  BY <2>1, <2>2
<1>12. /\ watch' \in [Fds -> Recs \cup {NULL}] /\ mask' \in [Fds -> Masks] /\ ready' \subseteq open
       /\ \A g \in Fds : g # f => mask'[g] = mask[g] /\ (g \in ready' <=> g \in ready)
       /\ watch' = watch
       /\ Heard(r)'
  <2>1. rec'[r].fd = f
    BY <1>6, <1>9
  <2>2. CASE rest = "waits"
    <3> DEFINE m == {"in", "out"}
    <3>1. Watch(f, r, m)
      BY <1>3, <2>2
    <3>2. "in" \in m /\ "out" \in m /\ m \in Masks
      BY DEF Masks
    <3>3. watch' = watch
      BY <1>2, <1>5, <3>1 DEF Watch, TypeOK, SocketTypes
    <3> HIDE DEF m
    <3> QED  BY <1>1, <1>2, <1>5, <2>1, <3>1, <3>2, <3>3, WatchTyped, WatchHears
  <2>3. CASE rest # "waits" /\ rec[r].pend
    <3> DEFINE m == {"in", "once"}
    <3>1. Watch(f, r, m)
      BY <1>3, <2>3
    <3>2. "in" \in m /\ m \in Masks
      BY DEF Masks
    <3>3. watch' = watch
      BY <1>2, <1>5, <3>1 DEF Watch, TypeOK, SocketTypes
    <3>4. rec'[r].pend \/ rec'[r].stream \/ rec'[r].want => "out" \in lost'[f]
      <4>1. rec'[r].pend \/ rec'[r].stream \/ rec'[r].want => rest = "written" \/ rec[r].want
        BY <1>3, <1>6, <1>9, <2>3
      <4>2. lost'[f] = {} \cup (IF rest = "written" \/ rec[r].want THEN {"out"} ELSE {})
        BY <1>3, <1>5, <2>3 DEF TypeOK, SocketTypes
      <4> QED  BY <4>1, <4>2
    <3> HIDE DEF m
    <3> QED  BY <1>1, <1>2, <1>5, <2>1, <3>1, <3>2, <3>3, <3>4, WatchTyped, WatchHears
  <2>4. CASE rest # "waits" /\ ~rec[r].pend
    <3>1. UNCHANGED <<watch, mask, ready>>
      BY <1>3, <2>4 DEF epoll
    <3>2. lost'[f] = {"in"} \cup (IF rest = "written" \/ rec[r].want THEN {"out"} ELSE {})
      BY <1>3, <1>5, <2>4 DEF TypeOK, SocketTypes
    <3>3. rec'[r].pend \/ rec'[r].stream \/ rec'[r].want => rest = "written" \/ rec[r].want
      BY <1>3, <1>6, <1>9, <2>4
    <3>4. Heard(r)'
      BY <2>1, <3>2, <3>3 DEF Heard, Events
    <3> QED  BY <1>5, <3>1, <3>4 DEF TypeOK, SocketTypes
  <2> QED  BY <2>2, <2>3, <2>4
<1>13. /\ full' \subseteq full \cup {f} /\ \A g \in Fds : g # f => (g \in full' <=> g \in full)
  BY <1>3 DEF WriteWants
<1>14. /\ input' \in [Fds -> Seq(Chunks \cup {"more"})] /\ input' = input
       /\ \A g \in Fds : Len(input'[g]) <= MaxInput
  BY <1>1, <1>5 DEF TypeOK, SocketTypes
<1>15. TypeOK'
  BY <1>1, <1>2, <1>6, <1>7, <1>11, <1>12, <1>13, <1>14, ClientTyped
<1>16. UNCHANGED <<alloc, open, fin, watch, mpc, cur, handoff, wpc>>
  BY <1>1, <1>12
<1>17. /\ new.state # "PROXYING" /\ (new.want => new.state = "SSL_HANDSHAKE")
       /\ (new.pend \/ new.stream => new.old)
  BY <1>4, <1>8, <1>9, <1>10
<1> QED
  BY <1>1, <1>2, <1>4, <1>6, <1>7, <1>9, <1>11, <1>12, <1>13, <1>14, <1>15, <1>16, <1>17, ClientKept

(* "Request too large": an upstream connection has no request, so that what  *)
(* is closed is a client, or a browser and its upstream connection; and main *)
(* has no event for either.                                                  *)
LEMMA CheckSizeKeeps ==
  ASSUME IInv, CheckSize
  PROVE  IInv'
<1>1. mpc = "check" /\ mpc' = "next" /\ cur' = NULL /\ UNCHANGED <<batch, handoff, wpc>>
  BY DEF CheckSize
<1>2. PICK r \in Recs : r = cur
  BY <1>1 DEF IInv, ThreadInv, TypeOK, ThreadTypes
<1>3. CASE UNCHANGED <<memory, sockets, epoll, lost>> /\ fault' \in {"none", "overfull"}
  <2>1. UNCHANGED <<rec, alloc, open, input, fin, full, watch, mask, ready, lost, batch, pending, current, wpc>>
    BY <1>1, <1>3 DEF memory, sockets, epoll, handoff
  <2>2. MemoryTypes'
    BY <2>1 DEF IInv, TypeOK, MemoryTypes
  <2>3. SocketTypes'
    BY <2>1 DEF IInv, TypeOK, SocketTypes
  <2>4. ThreadTypes'
    BY <1>1, <1>3, <2>1 DEF IInv, TypeOK, ThreadTypes
  <2>5. ThreadInv' /\ CheckInv'
    BY <1>1, <2>1 DEF IInv, ThreadInv, CheckInv
  <2>6. OwnFd' /\ WatchMatches' /\ ArmedInv'
    BY <2>1 DEF IInv, OwnFd, WatchMatches, ArmedInv
  <2>7. QueueInv'
    BY <2>1 DEF IInv, QueueInv, AtWork, InQueue
  <2>8. ASSUME NEW q \in Recs PROVE Fine(q)'
    <3>1. Fine(q)
      BY DEF IInv
    <3> QED
      BY <2>1, <3>1 DEF Fine, EventFine, HasEvent, Watched, BusyFine, Busy, InQueue, AtWork,
           PeerFine, UpperFine, Upper, BrowserFine, Browser, AnswerFine, AtRearm,
           HeardFine, Heard, Due, Readable
  <2> QED  BY <2>2, <2>3, <2>4, <2>5, <2>6, <2>7, <2>8 DEF IInv, TypeOK
<1>4. CASE /\ ~(rec[r].bytes < Cap) /\ ~InQueue(r) /\ ~AtWork(r) /\ r \in alloc
           /\ CleanupClient(r) /\ UNCHANGED fault
  <2>1. Cap \in Nat \ {0} /\ Fine(r) /\ ~HasEvent(r)
    BY <1>1, <1>2, Constants DEF IInv, CheckInv
  <2>2. ~Upper(r)
    BY <1>4, <2>1 DEF Fine, UpperFine
  <2>3. rec[r].ssl
    BY <1>4, <2>2 DEF Upper
  <2>4. ASSUME rec[r].peer # NULL PROVE ~Busy(rec[r].peer) /\ ~HasEvent(rec[r].peer)
    <3>1. PICK q \in Recs : q = rec[r].peer
      BY <2>4, Fields DEF IInv
    <3>2. Browser(r)
      BY <1>4, <2>3, <2>4 DEF Browser
    <3>3. ~HasEvent(q)
      BY <1>1, <1>2, <3>1, <3>2 DEF IInv, CheckInv
    <3>4. q \in alloc /\ ~rec[q].ssl
      BY <1>4, <2>3, <2>4, <3>1, Alone
    <3>5. ~Busy(q)
      BY <3>4 DEF IInv, Fine, BusyFine
    <3> QED  BY <3>1, <3>3, <3>5
  <2>5. \A q \in {r, rec[r].peer} \ {NULL} : ~Busy(q) /\ ~HasEvent(q)
    BY <1>4, <2>1, <2>4 DEF Busy
  <2>6. \A q \in {r, rec[r].peer} \ {NULL} :
          ~Busy(q) /\ \A e \in Events : <<q, e>> \notin batch'
    BY <1>1, <2>5 DEF HasEvent, Events
  <2>7. \A q \in alloc : HasEvent(q) => HasEvent(q)'
    BY <1>1 DEF HasEvent
  <2>8. CleanupLeaving(r, {}) /\ {} \in SUBSET (Recs \X Events) /\ r \in alloc
    BY <1>4 DEF CleanupClient
  <2>9. fault' \in {"none", "overfull"}
    BY <1>4 DEF IInv, TypeOK, ThreadTypes
  <2>10. batch' \subseteq batch /\ UNCHANGED <<handoff, wpc>>
    BY <1>1
  <2> QED  BY <1>1, <2>6, <2>7, <2>8, <2>9, <2>10, CleanupKept
<1>5. \/ UNCHANGED <<memory, sockets, epoll, lost>> /\ fault' \in {"none", "overfull"}
      \/ /\ ~(rec[r].bytes < Cap) /\ ~InQueue(r) /\ ~AtWork(r) /\ r \in alloc
         /\ CleanupClient(r) /\ UNCHANGED fault
  <2>1. fault \in {"none", "overfull"}
    BY DEF IInv, TypeOK, ThreadTypes
  <2> QED  BY <1>2, <2>1 DEF CheckSize
<1> QED  BY <1>3, <1>4, <1>5

(* The request goes to the workers, and the descriptor out of the epoll set. *)
LEMMA ReadRequestKeeps ==
  ASSUME IInv, NEW r \in Recs, ReadRequest(r)
  PROVE  IInv'
<1> DEFINE new == [rec[r] EXCEPT !.bytes = @ + Data(rec[r].fd, Stop(r)), !.done = TRUE]
<1>1. /\ Event(r, "in") /\ rec[r].state = "READ_REQUEST" /\ Handled(r, "in")
      /\ rec[r].bytes < Cap /\ Stop(r) # 0
      /\ Drop(rec[r].fd, Stop(r))
      /\ rec' = [rec EXCEPT ![r].bytes = @ + Data(rec[r].fd, Stop(r)), ![r].done = TRUE]
      /\ Unwatch({rec[r].fd})
      /\ pending' = Append(pending, r)
      /\ mpc' = "check" /\ cur' = r
      /\ UNCHANGED <<alloc, open, fin, full, current, wpc, lost, fault>>
  BY DEF ReadRequest, Reads, Complete
<1>2. /\ rec[r].ssl /\ rec[r].peer = NULL /\ r \in alloc /\ ~Busy(r)
      /\ (rec[r].pend \/ rec[r].stream => rec[r].old)
      /\ \A d \in Events : <<r, d>> \in batch => d = "in"
      /\ cur = NULL
  BY <1>1, EventOf
<1>3. PICK f \in Fds : f = rec[r].fd /\ f \in open /\ watch[f] = r
  BY <1>1, EventOf
<1>4. rec[r] \in Records /\ TypeOK
  BY Fields DEF IInv
<1>5. /\ alloc \subseteq Recs /\ pending \in Seq(Recs) /\ Len(pending) \in Nat
      /\ \A i \in 1..Len(pending) : pending[i] \in Recs
  BY <1>4, LenProperties, ElementOfSeq DEF TypeOK, MemoryTypes, ThreadTypes
<1>6. rec' = [rec EXCEPT ![r] = new] /\ rec'[r] = new /\ \A q \in Recs : q # r => rec'[q] = rec[q]
  BY <1>1, <1>4 DEF TypeOK, MemoryTypes
<1>7. Stop(r) \in 1..Len(input[f]) /\ rec[r].bytes + Data(f, Stop(r)) \in 0..Cap
  BY <1>1, <1>3, <1>4, StopIs
<1>8. new \in Records
  BY <1>3, <1>4, <1>7 DEF Records
<1>9. ~rec[r].want
  BY <1>1, <1>2 DEF IInv, Fine, AnswerFine
<1>10. /\ new.fd = f /\ new.ssl /\ new.peer = NULL /\ new.state = "READ_REQUEST"
       /\ new.pend = rec[r].pend /\ new.stream = rec[r].stream /\ new.old = rec[r].old
       /\ ~new.want
  BY <1>1, <1>2, <1>3, <1>4, <1>9 DEF Records
<1> HIDE DEF new
<1>11. /\ input' \in [Fds -> Seq(Chunks \cup {"more"})]
       /\ \A g \in Fds : Len(input'[g]) <= MaxInput
       /\ \A g \in Fds : g # f => input'[g] = input[g]
  <2>1. Stop(r) \in 0..Len(input[f])
    BY <1>7
  <2> QED  BY <1>1, <1>3, <1>4, <2>1, Dropped
<1>12. /\ watch' = [g \in Fds |-> IF g \in {f} THEN NULL ELSE watch[g]]
       /\ mask' = [g \in Fds |-> IF g \in {f} THEN {} ELSE mask[g]]
       /\ ready' = ready \ {f}
  BY <1>1, <1>3 DEF Unwatch
<1>13. batch' = batch \ {<<r, "in">>} /\ ~HasEvent(r)'
  BY <1>1, <1>2 DEF Handled, HasEvent, Events
<1>14. /\ pending' \in Seq(Recs) /\ Len(pending') = Len(pending) + 1
       /\ \A i \in 1..Len(pending) : pending'[i] = pending[i]
       /\ pending'[Len(pending) + 1] = r
  BY <1>1, <1>5, AppendProperties
<1>15. \A q \in Recs : InQueue(q)' <=> InQueue(q) \/ q = r
  <2> SUFFICES ASSUME NEW q \in Recs PROVE InQueue(q)' <=> InQueue(q) \/ q = r
    OBVIOUS
  <2>1. InQueue(q) => InQueue(q)'
    BY <1>5, <1>14 DEF InQueue
  <2>2. q = r => InQueue(q)'
    BY <1>5, <1>14 DEF InQueue
  <2>3. InQueue(q)' => InQueue(q) \/ q = r
    <3> SUFFICES ASSUME NEW i \in 1..Len(pending'), pending'[i] = q PROVE InQueue(q) \/ q = r
      BY DEF InQueue
    <3>1. i \in 1..Len(pending) \/ i = Len(pending) + 1
      BY <1>5, <1>14
    <3> QED  BY <1>14, <3>1 DEF InQueue
  <2> QED  BY <2>1, <2>2, <2>3
<1>16. \A q \in Recs : AtWork(q)' <=> AtWork(q)
  BY <1>1 DEF AtWork
<1>17. \A q \in Recs : AtRearm(q)' <=> AtRearm(q)
  BY <1>1 DEF AtRearm
<1>18. TypeOK'
  <2>1. MemoryTypes'
    BY <1>1, <1>4, <1>6, <1>8 DEF TypeOK, MemoryTypes
  <2>2. SocketTypes'
    <3>1. {} \in Masks
      BY DEF Masks
    <3> QED  BY <1>1, <1>4, <1>11, <1>12, <3>1 DEF TypeOK, SocketTypes
  <2>3. ThreadTypes'
    BY <1>1, <1>4, <1>13, <1>14 DEF TypeOK, ThreadTypes
  <2> QED  BY <2>1, <2>2, <2>3 DEF TypeOK
<1>19. \A q \in Recs \ {r} : Fine(q)'
  <2>1. \A q \in Recs \ {r} : SameRec(q)
    BY <1>1, <1>6, <1>13, <1>15, <1>16, <1>17 DEF SameRec, Busy
  <2>2. \A g \in Fds \ {f} : SameFd(g)
    BY <1>1, <1>11, <1>12 DEF SameFd, Due, Readable
  <2>3. \A q \in alloc \ {r} : HasEvent(q) => HasEvent(q)'
    BY <1>13 DEF HasEvent
  <2> QED  BY <1>2, <1>3, <1>18, <2>1, <2>2, <2>3, OthersApart
<1>20. Fine(r)'
  <2>1. /\ rec'[r] = new /\ r \in alloc' /\ f \in open' /\ watch'[f] = NULL /\ Busy(r)'
    BY <1>1, <1>2, <1>3, <1>6, <1>12, <1>15 DEF Busy
  <2>2. EventFine(r)'
    BY <1>13 DEF EventFine, HasEvent
  <2>3. BusyFine(r)' /\ PeerFine(r)' /\ UpperFine(r)' /\ BrowserFine(r)' /\ HeardFine(r)'
    BY <1>10, <2>1 DEF BusyFine, PeerFine, UpperFine, Upper, BrowserFine, Browser, HeardFine
  <2>4. AnswerFine(r)'
    BY <1>2, <1>10, <2>1 DEF AnswerFine
  <2> QED  BY <2>2, <2>3, <2>4 DEF Fine
<1>21. OwnFd'
  <2>1. \A q \in Recs : rec'[q].fd = rec[q].fd
    BY <1>3, <1>6, <1>10
  <2> QED  BY <1>1, <1>5, <2>1 DEF IInv, OwnFd
<1>22. WatchMatches'
  <2>1. \A q \in Recs : rec'[q].fd = rec[q].fd
    BY <1>3, <1>6, <1>10
  <2> QED  BY <1>1, <1>5, <1>12, <2>1 DEF IInv, WatchMatches
<1>23. ArmedInv'
  BY <1>12 DEF IInv, ArmedInv
<1>24. ThreadInv'
  BY <1>1, Constants DEF IInv, ThreadInv
<1>25. QueueInv'
  <2>1. ~InQueue(r) /\ ~AtWork(r)
    BY <1>2 DEF Busy
  <2>2. \A i, j \in 1..Len(pending') : pending'[i] = pending'[j] => i = j
    <3> SUFFICES ASSUME NEW i \in 1..Len(pending'), NEW j \in 1..Len(pending'),
                        pending'[i] = pending'[j]
                 PROVE  i = j
      OBVIOUS
    <3>1. /\ i \in 1..Len(pending) \/ i = Len(pending) + 1
          /\ j \in 1..Len(pending) \/ j = Len(pending) + 1
      BY <1>5, <1>14
    <3>2. \A k \in 1..Len(pending) : pending[k] # r
      BY <2>1 DEF InQueue
    <3>3. \A k, l \in 1..Len(pending) : pending[k] = pending[l] => k = l
      BY DEF IInv, QueueInv
    <3> QED  BY <1>14, <3>1, <3>2, <3>3
  <2>3. \A q \in Recs : AtWork(q)' => ~InQueue(q)'
    BY <1>15, <1>16, <2>1 DEF IInv, QueueInv
  <2>4. \A v, w \in Workers : current'[v] = current'[w] /\ current'[v] # NULL => v = w
    BY <1>1 DEF IInv, QueueInv
  <2> QED  BY <2>2, <2>3, <2>4 DEF QueueInv
<1>26. CheckInv'
  BY <1>1, <1>6, <1>10, <1>13 DEF CheckInv, Browser
<1>27. \A q \in Recs : Fine(q)'
  BY <1>19, <1>20
<1> QED  BY <1>18, <1>21, <1>22, <1>23, <1>24, <1>25, <1>26, <1>27 DEF IInv

(* One recv for an event of the upstream connection: what is behind it is    *)
(* noted as lost; and if the browser has no room, neither is heard of again. *)
LEMMA UpstreamKeeps ==
  ASSUME IInv, NEW r \in Recs, Upstream(r)
  PROVE  IInv'
<1>1. /\ Event(r, "in") /\ rec[r].state = "PROXYING" /\ Handled(r, "in")
      /\ UNCHANGED <<mpc, cur, handoff, wpc, fault>>
  BY DEF Upstream
<1>2. /\ Upper(r) /\ r \in alloc /\ ~Busy(r) /\ cur = NULL /\ mpc = "next"
      /\ \A d \in Events : <<r, d>> \in batch => d = "in"
      /\ ~rec[rec[r].peer].pend /\ rec[r].peer # NULL
  BY <1>1, EventOf
<1>3. PICK f \in Fds : f = rec[r].fd /\ f \in open /\ watch[f] = r
  BY <1>1, EventOf
<1>4. PICK b \in Recs : /\ b = rec[r].peer /\ b \in alloc /\ rec[b].peer = r /\ rec[b].ssl
                        /\ b # r
  <2>1. rec[r].peer \in alloc /\ rec[rec[r].peer].peer = r /\ rec[rec[r].peer].ssl
    BY <1>2, Alone DEF Upper
  <2>2. rec[r].peer # r
    BY <1>2, <2>1 DEF Upper
  <2> QED  BY <2>1, <2>2, Alone
<1>5. PICK g \in Fds : g = rec[b].fd /\ g \in open /\ g # f
  BY <1>2, <1>3, <1>4, Alone
<1>6. Browser(b) /\ TypeOK /\ Fine(r) /\ Fine(b)
  BY <1>4, Constants DEF Browser, IInv
<1>7. ~Busy(b) /\ ~HasEvent(b) /\ watch[g] = NULL /\ lost[g] = Events
  BY <1>5, <1>6, BrowserQuiet
<1>8. /\ ~rec[r].pend /\ ~rec[r].stream /\ ~rec[r].want /\ rec[r].bytes = 0
      /\ mask[f] = {"in"} /\ Watched(r)
  BY <1>2, <1>3, <1>6 DEF Fine, UpperFine
<1>9. batch' = batch \ {<<r, "in">>} /\ ~HasEvent(r)' /\ ~HasEvent(b)'
  BY <1>1, <1>2, <1>7 DEF Handled, HasEvent, Events
<1>10. alloc \subseteq Recs
  BY <1>6 DEF TypeOK, MemoryTypes
<1>11. \A q \in Recs : (Busy(q)' <=> Busy(q)) /\ (AtRearm(q)' <=> AtRearm(q))
  BY <1>1 DEF Busy, InQueue, AtWork, AtRearm, handoff
<1>12. \A q \in alloc \ {r, b} : /\ rec[q].fd \notin {f, g} /\ rec[q].peer \notin {r, b}
                                 /\ rec[q].peer # NULL => rec[q].peer \in alloc
                                 /\ HasEvent(q) => HasEvent(q)'
  <2> SUFFICES ASSUME NEW q \in alloc \ {r, b}
               PROVE  /\ rec[q].fd \notin {f, g} /\ rec[q].peer \notin {r, b}
                      /\ rec[q].peer # NULL => rec[q].peer \in alloc
                      /\ HasEvent(q) => HasEvent(q)'
    OBVIOUS
  <2>1. rec[q].fd # f /\ rec[q].fd # g
    BY <1>2, <1>3, <1>4, <1>5, Alone
  <2>2. rec[q].peer # r /\ rec[q].peer # b
    BY <1>2, <1>4, Alone
  <2>3. rec[q].peer # NULL => rec[q].peer \in alloc
    BY Alone
  <2>4. HasEvent(q) => HasEvent(q)'
    BY <1>9 DEF HasEvent
  <2> QED  BY <2>1, <2>2, <2>3, <2>4
<1>13. CASE CleanupClient(r)
  BY <1>1, <1>13, CleanupHandled
<1> DEFINE Pend(x) == [rec EXCEPT ![b].pend = x]
<1>14. ASSUME UNCHANGED <<alloc, open, fin, watch>>,
              \/ rec' = rec /\ UNCHANGED <<mask, ready, full>>
                 /\ ("in" \notin lost'[f] => input'[f] = <<>> /\ f \notin fin)
                 /\ \A h \in Fds : h # f => lost'[h] = lost[h]
              \/ /\ rec' = [rec EXCEPT ![b].pend = TRUE]
                 /\ mask' = [mask EXCEPT ![f] = {}] /\ ready' = ready \ {f}
                 /\ full' = full \cup {g}
                 /\ "in" \in lost'[f] /\ lost'[g] = Events
                 /\ \A h \in Fds \ {f, g} : lost'[h] = lost[h],
              input' \in [Fds -> Seq(Chunks \cup {"more"})],
              \A h \in Fds : Len(input'[h]) <= MaxInput,
              \A h \in Fds : h # f => input'[h] = input[h],
              lost' \in [Fds -> SUBSET Events]
       PROVE  IInv'
  <2>1. /\ \A q \in Recs \ {b} : rec'[q] = rec[q]
        /\ rec'[b] \in Records /\ rec'[b].fd = g /\ rec'[b].ssl = rec[b].ssl /\ rec'[b].peer = r
        /\ rec'[b].state = rec[b].state /\ rec'[b].want = rec[b].want
        /\ rec' \in [Recs -> Records]
    <3>1. rec[b] \in Records /\ rec \in [Recs -> Records]
      BY <1>6 DEF TypeOK, MemoryTypes
    <3>2. CASE rec' = rec
      BY <1>4, <1>5, <3>1, <3>2
    <3>3. CASE rec' = [rec EXCEPT ![b].pend = TRUE]
      <4>1. /\ rec'[b] = [rec[b] EXCEPT !.pend = TRUE]
            /\ \A q \in Recs \ {b} : rec'[q] = rec[q]
        BY <3>1, <3>3
      <4>2. [rec[b] EXCEPT !.pend = TRUE] \in Records
        BY <3>1 DEF Records
      <4>3. rec' \in [Recs -> Records]
        BY <3>1, <3>3, <4>2
      <4>4. /\ rec'[b].fd = rec[b].fd /\ rec'[b].ssl = rec[b].ssl /\ rec'[b].peer = rec[b].peer
            /\ rec'[b].state = rec[b].state /\ rec'[b].want = rec[b].want
        BY <3>1, <4>1 DEF Records
      <4> QED  BY <1>4, <1>5, <4>1, <4>2, <4>3, <4>4
    <3> QED  BY <1>14, <3>2, <3>3
  <2>2. /\ \A q \in Recs : rec'[q].fd = rec[q].fd /\ rec'[q].ssl = rec[q].ssl /\ rec'[q].peer = rec[q].peer
        /\ \A q \in Recs : rec[q].ssl \in BOOLEAN
    <3>1. \A q \in Recs : rec'[q].fd = rec[q].fd /\ rec'[q].ssl = rec[q].ssl /\ rec'[q].peer = rec[q].peer
      BY <1>4, <1>5, <2>1
    <3> QED  BY <1>6, <3>1, Fields
  <2>3. /\ mask' \in [Fds -> Masks] /\ ready' \subseteq open /\ full' \subseteq open
        /\ \A h \in Fds : h # f => mask'[h] = mask[h] /\ (h \in ready' <=> h \in ready)
        /\ \A h \in Fds : h \notin {f, g} => lost'[h] = lost[h] /\ (h \in full' <=> h \in full)
    <3>1. {} \in Masks
      BY DEF Masks
    <3>2. mask \in [Fds -> Masks] /\ ready \subseteq open /\ full \subseteq open
      BY <1>6 DEF TypeOK, SocketTypes
    <3>3. CASE mask' = mask /\ ready' = ready /\ full' = full
               /\ \A h \in Fds : h # f => lost'[h] = lost[h]
      BY <3>2, <3>3
    <3>4. CASE mask' = [mask EXCEPT ![f] = {}] /\ ready' = ready \ {f} /\ full' = full \cup {g}
               /\ \A h \in Fds \ {f, g} : lost'[h] = lost[h]
      BY <1>5, <3>1, <3>2, <3>4
    <3> QED  BY <1>14, <3>3, <3>4
  <2>4. TypeOK'
    <3>1. MemoryTypes'
      BY <1>6, <1>14, <2>1 DEF TypeOK, MemoryTypes
    <3>2. SocketTypes'
      BY <1>6, <1>14, <2>3 DEF TypeOK, SocketTypes
    <3>3. ThreadTypes'
      BY <1>1, <1>6, <1>9 DEF TypeOK, ThreadTypes, handoff
    <3> QED  BY <3>1, <3>2, <3>3 DEF TypeOK
  <2>5. \A q \in Recs \ {r, b} : Fine(q)'
    <3>1. \A q \in Recs \ {r, b} : SameRec(q)
      BY <1>9, <1>11, <1>14, <2>1 DEF SameRec
    <3>2. \A h \in Fds \ {f, g} : SameFd(h)
      BY <1>14, <2>3 DEF SameFd, Due, Readable
    <3>3. \A q \in alloc \ {r, b} :
            /\ rec[q].fd \notin {f, g}
            /\ rec[q].peer # NULL => /\ rec[q].peer \in alloc'
                                     /\ rec'[rec[q].peer] = rec[rec[q].peer]
            /\ HasEvent(q) => HasEvent(q)' \/ lost'[rec[q].fd] = Events
      BY <1>10, <1>12, <1>14, <2>1
    <3>4. {r, b} \subseteq Recs /\ {f, g} \subseteq Fds
      OBVIOUS
    <3> QED  BY <2>4, <3>1, <3>2, <3>3, <3>4, Others
  <2>6. Fine(b)'
    <3>1. b \in alloc' /\ g \in open' /\ ~Busy(b)' /\ watch'[g] = NULL /\ lost'[g] = Events
      BY <1>4, <1>5, <1>7, <1>11, <1>14
    <3>2. rec'[r].peer = b /\ ~rec'[r].ssl /\ r \in alloc' /\ r # NULL
      BY <1>2, <1>4, <1>14, <2>2, Constants DEF Upper
    <3>3. rec[b].state = "PROXYING" /\ (rec[b].want => rec[b].state = "SSL_HANDSHAKE")
      BY <1>4, <1>6, <3>2 DEF Fine, PeerFine, AnswerFine
    <3>4. EventFine(b)' /\ BusyFine(b)'
      BY <1>9, <3>1 DEF EventFine, HasEvent, BusyFine
    <3>5. PeerFine(b)'
      <4>1. rec'[r].ssl = ~rec'[b].ssl
        BY <1>4, <2>2, <3>2
      <4> QED  BY <2>1, <3>1, <3>2, <3>3, <4>1 DEF PeerFine
    <3>6. UpperFine(b)' /\ BrowserFine(b)' /\ AnswerFine(b)'
      BY <1>4, <2>1, <3>1, <3>2, <3>3 DEF UpperFine, Upper, BrowserFine, AnswerFine
    <3>7. HeardFine(b)'
      BY <2>1, <3>1 DEF HeardFine, Heard
    <3> QED  BY <3>4, <3>5, <3>6, <3>7 DEF Fine
  <2>7. Fine(r)'
    <3>1. /\ r \in alloc' /\ f \in open' /\ ~Busy(r)' /\ watch'[f] = r /\ rec'[r] = rec[r]
          /\ b \in alloc'
      BY <1>2, <1>3, <1>4, <1>11, <1>14, <2>1
    <3>2. EventFine(r)' /\ BusyFine(r)'
      BY <1>9, <3>1 DEF EventFine, HasEvent, BusyFine
    <3>3. PeerFine(r)'
      BY <1>1, <1>2, <1>3, <1>4, <2>1, <3>1, Constants DEF PeerFine, Upper
    <3>4. mask'[f] = IF rec'[b].pend THEN {} ELSE {"in"}
      <4>1. CASE rec' = rec /\ mask' = mask
        BY <1>2, <1>4, <1>8, <4>1
      <4>2. CASE rec' = [rec EXCEPT ![b].pend = TRUE] /\ mask' = [mask EXCEPT ![f] = {}]
        <5>1. rec'[b].pend
          BY <1>6, <4>2 DEF TypeOK, MemoryTypes, Records
        <5>2. mask'[f] = {}
          BY <1>6, <4>2 DEF TypeOK, SocketTypes
        <5> QED  BY <5>1, <5>2
      <4> QED  BY <1>14, <4>1, <4>2
    <3>5. Watched(r)' /\ <<r, "out">> \notin batch'
      BY <1>3, <1>9, <3>1 DEF Watched, HasEvent
    <3>6. UpperFine(r)'
      BY <1>2, <1>3, <1>4, <1>8, <1>9, <3>1, <3>4, <3>5 DEF UpperFine
    <3>7. BrowserFine(r)' /\ AnswerFine(r)'
      BY <1>2, <1>8, <3>1 DEF Upper, BrowserFine, Browser, AnswerFine
    <3>8. HeardFine(r)'
      <4> SUFFICES ASSUME NEW e \in Events \ lost'[f],
                          e = "in" \/ rec'[r].pend \/ rec'[r].stream \/ rec'[r].want
                   PROVE  e \in mask'[f] /\ (e \in Due(f)' => f \in ready')
        BY <1>3, <3>1 DEF HeardFine, Heard
      <4>1. e = "in"
        BY <1>8, <3>1
      <4>2. mask' = mask /\ input'[f] = <<>> /\ f \notin fin'
        BY <1>14, <4>1
      <4>3. e \in mask'[f] /\ e \notin Due(f)'
        BY <1>8, <4>1, <4>2 DEF Due, Readable
      <4> QED  BY <4>3
    <3> QED  BY <3>2, <3>3, <3>6, <3>7, <3>8 DEF Fine
  <2>8. OwnFd' /\ WatchMatches'
    BY <1>10, <1>14, <2>2 DEF IInv, OwnFd, WatchMatches
  <2>9. ArmedInv'
    <3>1. watch'[f] # NULL
      BY <1>3, <1>14, Constants
    <3> QED  BY <1>14, <2>3, <3>1 DEF IInv, ArmedInv
  <2>10. ThreadInv' /\ QueueInv' /\ CheckInv'
    BY <1>1, <1>2 DEF IInv, ThreadInv, QueueInv, AtWork, InQueue, CheckInv, handoff
  <2>11. \A q \in Recs : Fine(q)'
    BY <2>5, <2>6, <2>7
  <2> QED  BY <2>4, <2>8, <2>9, <2>10, <2>11 DEF IInv
<1>15. CASE Loses(f, {"in"}) /\ UNCHANGED <<memory, sockets, epoll>>
  <2>1. UNCHANGED <<rec, alloc, open, input, fin, full, watch, mask, ready>>
    BY <1>15 DEF memory, sockets, epoll
  <2>2. lost' = [lost EXCEPT ![f] = lost[f] \cup {"in"}]
    BY <1>15 DEF Loses
  <2>3. /\ lost' \in [Fds -> SUBSET Events] /\ "in" \in lost'[f]
        /\ \A h \in Fds : h # f => lost'[h] = lost[h]
    BY <1>6, <2>2 DEF TypeOK, SocketTypes, Events
  <2>4. /\ input' \in [Fds -> Seq(Chunks \cup {"more"})]
        /\ \A h \in Fds : Len(input'[h]) <= MaxInput
    BY <1>6, <2>1 DEF TypeOK, SocketTypes
  <2> QED  BY <1>14, <2>1, <2>3, <2>4
<1>16. ASSUME input[f] # <<>>, Drop(f, 1), UNCHANGED <<alloc, open, fin>>,
              \/ /\ WriteAll(g)
                 /\ IF Len(input[f]) > 1 \/ f \in fin THEN Loses(f, {"in"}) ELSE Finds(f, {"in"})
                 /\ UNCHANGED <<rec, epoll>>
              \/ /\ WriteWants(g)
                 /\ rec' = [rec EXCEPT ![b].pend = TRUE]
                 /\ mask' = [mask EXCEPT ![f] = {}]
                 /\ ready' = ready \ {f}
                 /\ lost' = [lost EXCEPT ![f] = {"in"}, ![g] = Events]
                 /\ UNCHANGED watch
       PROVE  IInv'
  <2>1. input[f] \in Seq(Chunks \cup {"more"}) /\ Len(input[f]) \in Nat /\ Len(input[f]) # 0
    BY <1>6, <1>16, LenProperties, EmptySeq DEF TypeOK, SocketTypes
  <2>2. 1 \in 0..Len(input[f])
    BY <2>1
  <2>3. /\ input' \in [Fds -> Seq(Chunks \cup {"more"})]
        /\ \A h \in Fds : Len(input'[h]) <= MaxInput
        /\ \A h \in Fds : h # f => input'[h] = input[h]
        /\ 1 = Len(input[f]) => input'[f] = <<>>
    BY <1>6, <1>16, <2>2, Dropped
  <2>4. lost \in [Fds -> SUBSET Events]
    BY <1>6 DEF TypeOK, SocketTypes
  <2>5. CASE /\ WriteAll(g)
             /\ IF Len(input[f]) > 1 \/ f \in fin THEN Loses(f, {"in"}) ELSE Finds(f, {"in"})
             /\ UNCHANGED <<rec, epoll>>
    <3>1. UNCHANGED <<rec, watch, mask, ready, full>>
      BY <2>5 DEF epoll, WriteAll
    <3>2. CASE Len(input[f]) > 1 \/ f \in fin
      <4>1. lost' = [lost EXCEPT ![f] = lost[f] \cup {"in"}]
        BY <2>5, <3>2 DEF Loses
      <4>2. /\ lost' \in [Fds -> SUBSET Events] /\ "in" \in lost'[f]
            /\ \A h \in Fds : h # f => lost'[h] = lost[h]
        BY <2>4, <4>1 DEF Events
      <4> QED  BY <1>14, <1>16, <2>3, <3>1, <4>2
    <3>3. CASE ~(Len(input[f]) > 1) /\ f \notin fin
      <4>1. lost' = [lost EXCEPT ![f] = lost[f] \ {"in"}]
        BY <2>5, <3>3 DEF Finds
      <4>2. /\ lost' \in [Fds -> SUBSET Events]
            /\ \A h \in Fds : h # f => lost'[h] = lost[h]
        BY <2>4, <4>1
      <4>3. input'[f] = <<>>
        <5>1. PICK k \in Nat : k = Len(input[f])
          BY <2>1
        <5>2. k # 0 /\ ~(k > 1)
          BY <2>1, <3>3, <5>1
        <5>3. k = 1
          BY <5>2
        <5> QED  BY <2>3, <5>1, <5>3
      <4> QED  BY <1>14, <1>16, <2>3, <3>1, <3>3, <4>2, <4>3
    <3> QED  BY <3>2, <3>3
  <2>6. CASE /\ WriteWants(g)
             /\ rec' = [rec EXCEPT ![b].pend = TRUE]
             /\ mask' = [mask EXCEPT ![f] = {}]
             /\ ready' = ready \ {f}
             /\ lost' = [lost EXCEPT ![f] = {"in"}, ![g] = Events]
             /\ UNCHANGED watch
    <3>1. /\ lost' \in [Fds -> SUBSET Events] /\ "in" \in lost'[f] /\ lost'[g] = Events
          /\ \A h \in Fds \ {f, g} : lost'[h] = lost[h]
      BY <1>5, <2>4, <2>6 DEF Events
    <3>2. full' = full \cup {g}
      BY <2>6 DEF WriteWants
    <3> QED  BY <1>14, <1>16, <2>3, <2>6, <3>1, <3>2
  <2> QED  BY <1>16, <2>5, <2>6
<1> QED  BY <1>3, <1>4, <1>5, <1>13, <1>15, <1>16 DEF Upstream

(* Both are closed, and what the batch still held is noted as lost.          *)
LEMMA UpstreamBreaksKeeps ==
  ASSUME IInv, NEW r \in Recs, UpstreamBreaks(r)
  PROVE  IInv'
<1>1. /\ Event(r, "in") /\ rec[r].state = "PROXYING" /\ batch' = {} /\ CleanupLeaving(r, batch)
      /\ UNCHANGED <<mpc, cur, handoff, wpc, fault>>
  BY DEF UpstreamBreaks
<1>2. /\ Upper(r) /\ r \in alloc /\ ~Busy(r) /\ cur = NULL /\ mpc = "next" /\ rec[r].peer # NULL
  BY <1>1, EventOf
<1>3. rec[r].peer \in alloc /\ rec[rec[r].peer].peer = r /\ rec[rec[r].peer].ssl
  BY <1>2, Alone DEF Upper
<1>4. ~Busy(rec[r].peer)
  <2>1. PICK b \in Recs : b = rec[r].peer
    BY <1>3, Alone
  <2>2. Browser(b)
    BY <1>3, <2>1, Constants DEF Browser
  <2> QED  BY <2>1, <2>2, BrowserQuiet
<1>5. \A q \in {r, rec[r].peer} \ {NULL} : ~Busy(q) /\ \A e \in Events : <<q, e>> \notin batch'
  BY <1>1, <1>2, <1>4
<1>6. \A q \in alloc \ {r, rec[r].peer} :
        HasEvent(q) => HasEvent(q)' \/ \E e \in Events : <<q, e>> \in batch
  BY DEF HasEvent, Events
<1>7. /\ batch \in SUBSET (Recs \X Events) /\ batch' \subseteq batch
      /\ fault' \in {"none", "overfull"} /\ mpc' = "next" /\ cur' = NULL
  BY <1>1, <1>2 DEF IInv, TypeOK, ThreadTypes
<1>8. UNCHANGED <<handoff, wpc>>
  BY <1>1
<1> QED  BY <1>1, <1>2, <1>5, <1>6, <1>7, <1>8, CleanupKept

(* What epoll reports is a record that is in its set, once, and of an        *)
(* upstream connection only bytes.                                           *)
LEMMA EpollWaitKeeps ==
  ASSUME IInv, EpollWait
  PROVE  IInv'
<1> DEFINE told == {f \in ready : Due(f) # {}}
           kind(f) == IF "in" \in Due(f) THEN "in" ELSE "out"
<1>1. /\ mpc = "next" /\ batch = {}
      /\ batch' = {<<watch[f], kind(f)>> : f \in told}
      /\ mask' = [f \in Fds |-> IF f \in told /\ "once" \in mask[f] THEN {} ELSE mask[f]]
      /\ ready' = {}
      /\ UNCHANGED <<rec, alloc, open, input, fin, full, watch, mpc, cur, pending, current, wpc, lost, fault>>
  BY DEF EpollWait, memory, sockets, handoff
<1>2. TypeOK /\ alloc \subseteq Recs /\ open \subseteq Fds /\ ready \subseteq open /\ told \subseteq Fds
  BY DEF IInv, TypeOK, MemoryTypes, SocketTypes
<1>3. \A f \in told : watch[f] \in alloc /\ rec[watch[f]].fd = f
  BY <1>2 DEF IInv, ArmedInv, WatchMatches
<1>4. \A f \in Fds : Due(f) \subseteq mask[f] \cap Events
  BY DEF Due
<1>5. \A q \in Recs, e \in Events : <<q, e>> \in batch' =>
        rec[q].fd \in told /\ watch[rec[q].fd] = q /\ q \in alloc /\ e = kind(rec[q].fd)
  <2> SUFFICES ASSUME NEW q \in Recs, NEW e \in Events, <<q, e>> \in batch'
               PROVE  rec[q].fd \in told /\ watch[rec[q].fd] = q /\ q \in alloc /\ e = kind(rec[q].fd)
    OBVIOUS
  <2>1. PICK f \in told : <<q, e>> = <<watch[f], kind(f)>>
    BY <1>1
  <2>2. q = watch[f] /\ e = kind(f)
    BY <2>1
  <2> HIDE DEF told, kind
  <2> QED  BY <1>3, <2>2
<1>6. \A f \in told : HasEvent(watch[f])'
  <2> SUFFICES ASSUME NEW f \in told PROVE HasEvent(watch[f])'
    OBVIOUS
  <2>1. PICK q : q = watch[f]
    OBVIOUS
  <2>2. <<q, kind(f)>> \in batch' /\ kind(f) \in {"in", "out"}
    BY <1>1, <2>1
  <2>3. <<q, "in">> \in batch' \/ <<q, "out">> \in batch'
    BY <2>2
  <2>4. watch'[f] = q
    BY <1>1, <2>1
  <2> QED  BY <1>1, <2>1, <2>3, <2>4 DEF HasEvent
<1>7. TypeOK'
  <2>1. batch' \subseteq Recs \X Events
    <3>1. \A f \in told : kind(f) \in Events
      BY DEF Events
    <3> HIDE DEF told, kind
    <3> QED  BY <1>1, <1>2, <1>3, <3>1
  <2>2. mask' \in [Fds -> Masks]
    BY <1>1, <1>2 DEF Masks, TypeOK, SocketTypes
  <2> HIDE DEF told, kind
  <2>3. MemoryTypes' /\ ThreadTypes'
    BY <1>1, <1>2, <2>1 DEF TypeOK, MemoryTypes, ThreadTypes
  <2>4. SocketTypes'
    BY <1>1, <1>2, <2>2 DEF TypeOK, SocketTypes
  <2> QED  BY <2>3, <2>4 DEF TypeOK
<1>8. \A f \in Fds : mask'[f] = IF f \in told /\ "once" \in mask[f] THEN {} ELSE mask[f]
  BY <1>1
<1>9. ASSUME NEW q \in Recs PROVE Fine(q)'
  <2>1. Fine(q) /\ ~HasEvent(q)
    BY <1>1 DEF IInv, HasEvent
  <2>2. HasEvent(q)' => rec[q].fd \in told /\ watch[rec[q].fd] = q /\ q \in alloc
    BY <1>5 DEF HasEvent, Events
  <2>3. EventFine(q)'
    <3>1. HasEvent(q)' => Watched(q)'
      BY <1>1, <1>2, <2>2 DEF Watched
    <3>2. ~(<<q, "in">> \in batch' /\ <<q, "out">> \in batch')
      <4>1. "in" # "out" /\ "in" \in Events /\ "out" \in Events
        BY DEF Events
      <4> HIDE DEF kind, told
      <4> QED  BY <1>5, <4>1
    <3> QED  BY <3>1, <3>2 DEF EventFine
  <2>4. (Busy(q)' <=> Busy(q)) /\ (AtRearm(q)' <=> AtRearm(q))
    BY <1>1 DEF Busy, InQueue, AtWork, AtRearm
  <2>5. BusyFine(q)' /\ PeerFine(q)' /\ BrowserFine(q)' /\ AnswerFine(q)'
    BY <1>1, <2>1, <2>4 DEF Fine, BusyFine, PeerFine, BrowserFine, Browser, AnswerFine
  <2>6. UpperFine(q)'
    <3> SUFFICES ASSUME Upper(q) PROVE UpperFine(q)'
      BY <1>1 DEF UpperFine, Upper
    <3>1. PICK f \in Fds : f = rec[q].fd
      BY Alone DEF Upper
    <3>2. /\ rec[q].peer # NULL /\ Watched(q)
          /\ ~rec[q].pend /\ ~rec[q].stream /\ ~rec[q].want /\ rec[q].bytes = 0
          /\ mask[f] = IF rec[rec[q].peer].pend THEN {} ELSE {"in"}
      BY <2>1, <3>1 DEF Fine, UpperFine
    <3>3. mask'[f] = mask[f]
      BY <1>8, <3>2
    <3>4. Due(f) \subseteq {"in"}
      BY <1>4, <3>2
    <3>5. <<q, "out">> \notin batch'
      <4>1. SUFFICES ASSUME <<q, "out">> \in batch' PROVE FALSE
        OBVIOUS
      <4>2. f \in told /\ "out" = kind(f)
        BY <1>5, <3>1, <4>1 DEF Events
      <4> QED  BY <3>4, <4>2
    <3>6. rec[rec[q].peer].pend => ~HasEvent(q)'
      <4>1. rec[rec[q].peer].pend => Due(f) = {}
        BY <1>4, <3>2
      <4> QED  BY <2>2, <3>1, <4>1
    <3>7. Watched(q)'
      BY <1>1, <3>2 DEF Watched
    <3> QED  BY <1>1, <3>1, <3>2, <3>3, <3>5, <3>6, <3>7 DEF UpperFine
  <2>7. HeardFine(q)'
    <3> SUFFICES ASSUME q \in alloc, ~Busy(q), ~HasEvent(q)' PROVE Heard(q)'
      BY <1>1, <2>4 DEF HeardFine
    <3>1. PICK f \in Fds : f = rec[q].fd
      BY Alone
    <3>2. Heard(q)
      BY <2>1 DEF Fine, HeardFine
    <3> SUFFICES ASSUME NEW e \in Events \ lost[f],
                        e = "in" \/ rec[q].pend \/ rec[q].stream \/ rec[q].want
                 PROVE  watch'[f] = q /\ e \in mask'[f] /\ (e \in Due(f)' => f \in ready')
      BY <1>1, <3>1 DEF Heard
    <3>3. watch[f] = q /\ e \in mask[f] /\ (e \in Due(f) => f \in ready)
      BY <3>1, <3>2 DEF Heard
    <3>4. f \notin told
      BY <1>1, <1>6, <3>3
    <3>5. e \notin Due(f)
      BY <3>3, <3>4
    <3>6. mask'[f] = mask[f]
      BY <1>8, <3>4
    <3>7. e \notin Due(f)'
      BY <1>1, <3>5, <3>6 DEF Due, Readable
    <3> QED  BY <1>1, <3>3, <3>6, <3>7
  <2> QED  BY <2>3, <2>5, <2>6, <2>7 DEF Fine
<1>10. OwnFd' /\ WatchMatches' /\ ArmedInv'
  BY <1>1, <1>8 DEF IInv, OwnFd, WatchMatches, ArmedInv
<1>11. ThreadInv' /\ QueueInv' /\ CheckInv'
  BY <1>1 DEF IInv, ThreadInv, QueueInv, AtWork, InQueue, CheckInv
<1> QED  BY <1>7, <1>9, <1>10, <1>11 DEF IInv

-----------------------------------------------------------------------------
(* The other ends. *)

(* Epoll notices what arrives at a descriptor that is armed for it.          *)
LEMMA NetworkKeeps ==
  ASSUME IInv, Network
  PROVE  IInv'
<1>1. PICK r \in alloc :
        \/ /\ rec[r].fd \notin fin /\ Len(input[rec[r].fd]) < MaxInput
           /\ \E chunk \in Sends(r) : input' = [input EXCEPT ![rec[r].fd] = Append(@, chunk)]
           /\ Noticed(rec[r].fd, "in") /\ UNCHANGED <<fin, full>>
        \/ /\ rec[r].fd \notin fin
           /\ fin' = fin \cup {rec[r].fd}
           /\ Noticed(rec[r].fd, "in") /\ UNCHANGED <<input, full>>
        \/ /\ rec[r].fd \in full
           /\ full' = full \ {rec[r].fd}
           /\ Noticed(rec[r].fd, "out") /\ UNCHANGED <<input, fin>>
  BY DEF Network
<1>2. UNCHANGED <<rec, alloc, open, watch, mask, batch, mpc, cur, pending, current, wpc, lost, fault>>
  BY DEF Network, memory, main, handoff
<1>3. PICK f \in Fds : f = rec[r].fd /\ f \in open /\ r \in Recs
  BY Alone
<1>4. TypeOK
  BY DEF IInv
<1>5. PICK e \in Events :
        /\ Noticed(f, e)
        /\ e = "in" \/ /\ UNCHANGED <<input, fin>>
                       /\ full' = full \ {f}
        /\ e = "out" \/ /\ \A g \in Fds : g # f => input'[g] = input[g]
                        /\ full' = full
                        /\ (fin' = fin \/ fin' = fin \cup {f})
        /\ input' \in [Fds -> Seq(Chunks \cup {"more"})]
        /\ \A g \in Fds : Len(input'[g]) <= MaxInput
  <2>1. /\ input \in [Fds -> Seq(Chunks \cup {"more"})]
        /\ \A g \in Fds : Len(input[g]) <= MaxInput
    BY <1>4 DEF TypeOK, SocketTypes
  <2>2. ASSUME Len(input[f]) < MaxInput, NEW chunk \in Sends(r),
               input' = [input EXCEPT ![f] = Append(input[f], chunk)]
        PROVE  /\ input' \in [Fds -> Seq(Chunks \cup {"more"})]
               /\ \A g \in Fds : Len(input'[g]) <= MaxInput
               /\ \A g \in Fds : g # f => input'[g] = input[g]
    <3>1. chunk \in Chunks \cup {"more"}
      BY <2>2 DEF Sends
    <3>2. /\ Append(input[f], chunk) \in Seq(Chunks \cup {"more"})
          /\ Len(Append(input[f], chunk)) = Len(input[f]) + 1 /\ Len(input[f]) \in Nat
      BY <2>1, <3>1, AppendProperties, LenProperties
    <3>3. Len(Append(input[f], chunk)) <= MaxInput
      BY <2>2, <3>2, Constants
    <3> QED  BY <2>1, <2>2, <3>2, <3>3
  <2>3. CASE /\ f \notin fin /\ Len(input[f]) < MaxInput
             /\ \E chunk \in Sends(r) : input' = [input EXCEPT ![f] = Append(@, chunk)]
             /\ Noticed(f, "in") /\ UNCHANGED <<fin, full>>
    BY <2>2, <2>3 DEF Events
  <2>4. CASE /\ f \notin fin
             /\ fin' = fin \cup {f}
             /\ Noticed(f, "in") /\ UNCHANGED <<input, full>>
    BY <2>1, <2>4 DEF Events
  <2>5. CASE /\ f \in full
             /\ full' = full \ {f}
             /\ Noticed(f, "out") /\ UNCHANGED <<input, fin>>
    BY <2>1, <2>5 DEF Events
  <2> QED  BY <1>1, <1>3, <2>3, <2>4, <2>5
<1>6. ready \subseteq ready' /\ ready' \subseteq ready \cup {f} /\ (e \in mask[f] => f \in ready')
      /\ (e \notin mask[f] => ready' = ready)
  BY <1>5 DEF Noticed
<1>7. ASSUME NEW g \in Fds, NEW d \in Due(g)' PROVE d \in Due(g) \/ g \in ready'
  <2>1. d \in mask[g] \cap Events /\ d \in {"in", "out"}
    BY <1>2, <1>7 DEF Due, Events
  <2>2. CASE g # f \/ d # e
    <3>1. d = "in" => (Readable(g)' <=> Readable(g))
      BY <1>5, <2>1, <2>2 DEF Readable, Events
    <3>2. d = "out" => (g \in full' <=> g \in full)
      BY <1>5, <2>1, <2>2 DEF Events
    <3> QED  BY <1>7, <2>1, <3>1, <3>2 DEF Due
  <2>3. CASE g = f /\ d = e
    BY <1>6, <2>1, <2>3
  <2> QED  BY <2>2, <2>3
<1>8. TypeOK'
  <2>1. MemoryTypes' /\ ThreadTypes'
    BY <1>2, <1>4 DEF TypeOK, MemoryTypes, ThreadTypes
  <2>2. SocketTypes'
    <3>1. fin' \subseteq open /\ full' \subseteq open /\ ready' \subseteq open
      BY <1>3, <1>4, <1>5, <1>6 DEF TypeOK, SocketTypes, Events
    <3> QED  BY <1>2, <1>4, <1>5, <3>1 DEF TypeOK, SocketTypes
  <2> QED  BY <2>1, <2>2 DEF TypeOK
<1>9. \A q \in Recs \ {} : Fine(q)'
  <2>1. \A q \in Recs \ {} : SameRec(q)
    BY <1>2 DEF SameRec, Busy, InQueue, AtWork, AtRearm
  <2>2. \A g \in Fds \ {} : SameFd(g)
    <3> SUFFICES ASSUME NEW g \in Fds PROVE SameFd(g)
      OBVIOUS
    <3>1. \A d \in Due(g)' : d \in Due(g) \/ g \in ready'
      BY <1>7
    <3> QED  BY <1>2, <1>6, <3>1 DEF SameFd
  <2>3. \A q \in alloc \ {} :
          /\ rec[q].fd \notin {}
          /\ rec[q].peer # NULL => rec[q].peer \in alloc' /\ rec'[rec[q].peer] = rec[rec[q].peer]
          /\ HasEvent(q) => HasEvent(q)' \/ lost'[rec[q].fd] = Events
    <3> SUFFICES ASSUME NEW q \in alloc
                 PROVE  /\ rec[q].peer # NULL => rec[q].peer \in alloc'
                        /\ HasEvent(q) => HasEvent(q)'
      BY <1>2
    <3>1. rec[q].peer # NULL => rec[q].peer \in alloc
      BY Alone
    <3> QED  BY <1>2, <3>1 DEF HasEvent
  <2>4. {} \subseteq Recs /\ {} \subseteq Fds
    OBVIOUS
  <2> QED  BY <1>8, <2>1, <2>2, <2>3, <2>4, Others
<1>10. OwnFd' /\ WatchMatches'
  BY <1>2 DEF IInv, OwnFd, WatchMatches
<1>11. ArmedInv'
  <2> SUFFICES ASSUME NEW g \in Fds, watch'[g] = NULL PROVE mask'[g] = {} /\ g \notin ready'
    BY DEF ArmedInv
  <2>1. mask[g] = {} /\ g \notin ready /\ watch[g] = NULL
    BY <1>2 DEF IInv, ArmedInv
  <2>2. g \notin ready'
    BY <1>6, <2>1
  <2> QED  BY <1>2, <2>1, <2>2
<1>12. ThreadInv' /\ QueueInv' /\ CheckInv'
  BY <1>2 DEF IInv, ThreadInv, QueueInv, AtWork, InQueue, CheckInv, Browser, HasEvent
<1> QED  BY <1>8, <1>9, <1>10, <1>11, <1>12 DEF IInv

(* A new connection has a record and a descriptor that nobody has.           *)
LEMMA AcceptKeeps ==
  ASSUME IInv, NEW f \in Fds, NEW r \in Recs, Accept(f, r)
  PROVE  IInv'
<1> DEFINE new == [NewRecord(f) EXCEPT !.ssl = TRUE, !.state = "SSL_HANDSHAKE"]
           m   == {"in", "once"}
<1>1. /\ mpc = "next" /\ f \notin open /\ r \notin alloc
      /\ open' = open \cup {f} /\ alloc' = alloc \cup {r}
      /\ rec' = [rec EXCEPT ![r] = new]
      /\ UNCHANGED <<input, fin, full, batch, mpc, cur, pending, current, wpc, lost, fault>>
      /\ Watch(f, r, m)
  BY DEF Accept, main, handoff
<1>2. TypeOK /\ alloc \subseteq Recs /\ open \subseteq Fds /\ r # NULL
  BY Constants DEF IInv, TypeOK, MemoryTypes, SocketTypes
<1>3. /\ new.fd = f /\ new.ssl /\ new.peer = NULL /\ new.state = "SSL_HANDSHAKE"
      /\ ~new.pend /\ ~new.stream /\ ~new.want
  BY DEF NewRecord
<1>4. new \in Records
  <2>1. NewRecord(f) \in Records
    BY RecordMade
  <2> QED  BY <2>1 DEF Records
<1>5. rec'[r] = new /\ \A q \in Recs : q # r => rec'[q] = rec[q]
  BY <1>1, <1>2 DEF TypeOK, MemoryTypes
<1>6. m \in Masks /\ "in" \in m
  BY DEF Masks
<1> HIDE DEF new, m
<1>7. /\ watch' \in [Fds -> Recs \cup {NULL}] /\ mask' \in [Fds -> Masks]
      /\ ready' \subseteq open' /\ watch'[f] = r
      /\ \A g \in Fds : g # f => /\ watch'[g] = watch[g] /\ mask'[g] = mask[g]
                                 /\ g \in ready' <=> g \in ready
  BY <1>1, <1>2, <1>6, WatchTyped
<1>8. Heard(r)'
  <2>1. rec'[r].fd = f /\ ~rec'[r].pend /\ ~rec'[r].stream /\ ~rec'[r].want
    BY <1>3, <1>5
  <2> QED  BY <1>1, <1>2, <1>6, <2>1, WatchHears
<1>9. TypeOK'
  <2>1. MemoryTypes'
    BY <1>1, <1>2, <1>4 DEF TypeOK, MemoryTypes
  <2>2. SocketTypes'
    BY <1>1, <1>2, <1>7 DEF TypeOK, SocketTypes
  <2>3. ThreadTypes'
    BY <1>1, <1>2 DEF TypeOK, ThreadTypes
  <2> QED  BY <2>1, <2>2, <2>3 DEF TypeOK
<1>10. ~HasEvent(r) /\ ~Busy(r)
  BY <1>1, Free
<1>11. \A q \in Recs : (Busy(q)' <=> Busy(q)) /\ (AtRearm(q)' <=> AtRearm(q)) /\ (HasEvent(q)' <=> HasEvent(q))
  BY <1>1 DEF Busy, InQueue, AtWork, AtRearm, HasEvent
<1>12. \A q \in Recs \ {r} : Fine(q)'
  <2>1. \A q \in Recs \ {r} : SameRec(q)
    BY <1>1, <1>5, <1>11 DEF SameRec
  <2>2. \A g \in Fds \ {f} : SameFd(g)
    BY <1>1, <1>7 DEF SameFd, Due, Readable
  <2>3. \A q \in alloc \ {r} : HasEvent(q) => HasEvent(q)'
    BY <1>2, <1>11
  <2> QED  BY <1>1, <1>9, <2>1, <2>2, <2>3, OthersApart
<1>13. Fine(r)'
  <2>1. r \in alloc' /\ f \in open' /\ ~HasEvent(r)' /\ ~Busy(r)'
    BY <1>1, <1>10, <1>11
  <2>2. EventFine(r)' /\ BusyFine(r)'
    BY <2>1 DEF EventFine, HasEvent, BusyFine
  <2>3. PeerFine(r)' /\ UpperFine(r)' /\ BrowserFine(r)' /\ AnswerFine(r)'
    BY <1>3, <1>5, <2>1 DEF PeerFine, UpperFine, Upper, BrowserFine, Browser, AnswerFine
  <2>4. HeardFine(r)'
    BY <1>8 DEF HeardFine
  <2> QED  BY <2>2, <2>3, <2>4 DEF Fine
<1>14. OwnFd'
  <2>1. \A q \in alloc : rec[q].fd # f
    BY <1>1, Alone
  <2> QED  BY <1>1, <1>2, <1>3, <1>5, <2>1 DEF IInv, OwnFd
<1>15. WatchMatches'
  <2> SUFFICES ASSUME NEW g \in Fds, watch'[g] # NULL
               PROVE  g \in open' /\ watch'[g] \in alloc' /\ rec'[watch'[g]].fd = g
    BY DEF WatchMatches
  <2>1. CASE g = f
    BY <1>1, <1>3, <1>5, <1>7, <2>1
  <2>2. CASE g # f
    <3>1. watch'[g] = watch[g] /\ g \in open /\ watch[g] \in alloc /\ rec[watch[g]].fd = g
      BY <1>7, <2>2 DEF IInv, WatchMatches
    <3> QED  BY <1>1, <1>2, <1>5, <3>1
  <2> QED  BY <2>1, <2>2
<1>16. ArmedInv'
  BY <1>2, <1>7 DEF IInv, ArmedInv
<1>17. ThreadInv' /\ QueueInv' /\ CheckInv'
  BY <1>1 DEF IInv, ThreadInv, QueueInv, AtWork, InQueue, CheckInv
<1>18. \A q \in Recs : Fine(q)'
  BY <1>12, <1>13
<1> QED  BY <1>9, <1>14, <1>15, <1>16, <1>17, <1>18 DEF IInv

-----------------------------------------------------------------------------
(* The workers. *)

(* Whom a worker that is not idle works for.                                 *)
LEMMA ClientOf ==
  ASSUME IInv, NEW w \in Workers, wpc[w] # "pop"
  PROVE  /\ current[w] \in Recs /\ current[w] \in alloc
         /\ rec[current[w]].fd \in Fds /\ rec[current[w]].fd \in open
         /\ watch[rec[current[w]].fd] = NULL
         /\ rec[current[w]].ssl /\ rec[current[w]].peer = NULL
         /\ rec[current[w]].state = "READ_REQUEST" /\ ~rec[current[w]].want
         /\ ~HasEvent(current[w]) /\ ~InQueue(current[w]) /\ Busy(current[w])
         /\ \A v \in Workers : current[v] = current[w] => v = w
         /\ rec[current[w]].pend \/ rec[current[w]].stream => rec[current[w]].old \/ wpc[w] = "rearm"
         /\ \A g \in Fds : watch[g] # current[w]
<1>1. PICK r \in Recs : r = current[w]
  BY DEF IInv, ThreadInv, TypeOK, ThreadTypes
<1>2. r # NULL /\ AtWork(r)
  BY <1>1, Constants DEF AtWork
<1>3. Fine(r) /\ Busy(r) /\ ~InQueue(r) /\ \A v \in Workers : current[v] = r => v = w
  BY <1>1, <1>2 DEF IInv, QueueInv, Busy
<1>4. /\ r \in alloc /\ watch[rec[r].fd] = NULL /\ rec[r].ssl /\ rec[r].peer = NULL
      /\ rec[r].state = "READ_REQUEST"
  BY <1>3 DEF Fine, BusyFine
<1>5. rec[r].fd \in Fds /\ rec[r].fd \in open
  BY <1>4, Alone
<1>6. ~HasEvent(r)
  BY <1>2, <1>3, <1>4 DEF Fine, EventFine, Watched
<1>7. ~rec[r].want /\ (rec[r].pend \/ rec[r].stream => rec[r].old \/ AtRearm(r))
  BY <1>3, <1>4 DEF Fine, AnswerFine
<1>8. AtRearm(r) => wpc[w] = "rearm"
  BY <1>3 DEF AtRearm
<1>9. \A g \in Fds : watch[g] # r
  BY <1>2, <1>4 DEF IInv, WatchMatches
<1> QED  BY <1>1, <1>3, <1>4, <1>5, <1>6, <1>7, <1>8, <1>9

(* A worker is done with its client, and idle.                               *)
LEMMA Returned ==
  ASSUME IInv, NEW w \in Workers, NEW from \in {"work", "rearm"}, Return(w, from),
         NEW c, c = current[w], mpc' = mpc, cur' = cur
  PROVE  /\ pending' \in Seq(Recs) /\ current' \in [Workers -> Recs \cup {NULL}]
         /\ wpc' \in [Workers -> {"pop", "work", "rearm"}]
         /\ wpc[w] = from
         /\ ThreadInv' /\ QueueInv'
         /\ \A q \in Recs : q # c => (Busy(q)' <=> Busy(q)) /\ (AtRearm(q)' <=> AtRearm(q))
         /\ ~Busy(c)' /\ ~AtRearm(c)'
<1>1. /\ wpc[w] = from /\ wpc' = [wpc EXCEPT ![w] = "pop"]
      /\ current' = [current EXCEPT ![w] = NULL] /\ pending' = pending
  BY DEF Return, WorkerGoto
<1>2. /\ pending \in Seq(Recs) /\ current \in [Workers -> Recs \cup {NULL}]
      /\ wpc \in [Workers -> {"pop", "work", "rearm"}]
  BY DEF IInv, TypeOK, ThreadTypes
<1>3. c \in Recs /\ ~InQueue(c) /\ \A v \in Workers : current[v] = c => v = w
  BY <1>1, ClientOf
<1>4. /\ current'[w] = NULL /\ wpc'[w] = "pop"
      /\ \A v \in Workers : v # w => current'[v] = current[v] /\ wpc'[v] = wpc[v]
  BY <1>1, <1>2
<1>5. \A q \in Recs : q # NULL
  BY Constants
<1>6. \A q \in Recs : InQueue(q)' <=> InQueue(q)
  BY <1>1 DEF InQueue
<1>7. \A q \in Recs : q # c => (AtWork(q)' <=> AtWork(q)) /\ (AtRearm(q)' <=> AtRearm(q))
  BY <1>4, <1>5 DEF AtWork, AtRearm
<1>8. ~AtWork(c)' /\ ~AtRearm(c)'
  BY <1>3, <1>4, <1>5 DEF AtWork, AtRearm
<1>9. ThreadInv'
  BY <1>4 DEF IInv, ThreadInv
<1>10. QueueInv'
  <2>1. \A i, j \in 1..Len(pending') : pending'[i] = pending'[j] => i = j
    BY <1>1 DEF IInv, QueueInv
  <2>2. \A q \in Recs : AtWork(q)' => ~InQueue(q)'
    BY <1>6, <1>7, <1>8 DEF IInv, QueueInv
  <2>3. \A u, v \in Workers : current'[u] = current'[v] /\ current'[u] # NULL => u = v
    BY <1>4 DEF IInv, QueueInv
  <2> QED  BY <2>1, <2>2, <2>3 DEF QueueInv
<1> QED
  BY <1>1, <1>2, <1>3, <1>4, <1>6, <1>7, <1>8, <1>9, <1>10 DEF Busy

(* The first of the queue goes to a worker.                                  *)
LEMMA StartKeeps ==
  ASSUME IInv, NEW w \in Workers, Start(w)
  PROVE  IInv'
<1>1. /\ wpc[w] = "pop" /\ wpc' = [wpc EXCEPT ![w] = "work"]
      /\ pending # <<>> /\ pending' = Tail(pending)
      /\ current' = [current EXCEPT ![w] = Head(pending)]
      /\ UNCHANGED <<rec, alloc, open, input, fin, full, watch, mask, ready, batch, mpc, cur, lost, fault>>
  BY DEF Start, WorkerGoto, memory, sockets, epoll, main
<1>2. /\ TypeOK /\ pending \in Seq(Recs) /\ current \in [Workers -> Recs \cup {NULL}]
      /\ wpc \in [Workers -> {"pop", "work", "rearm"}]
  BY DEF IInv, TypeOK, ThreadTypes
<1>3. PICK h : h = Head(pending)
  OBVIOUS
<1>4. /\ Len(pending) \in Nat /\ Len(pending) # 0 /\ h \in Recs /\ h = pending[1]
      /\ pending' \in Seq(Recs) /\ Len(pending') = Len(pending) - 1
      /\ \A i \in 1..Len(pending') : pending'[i] = pending[i + 1]
  BY <1>1, <1>2, <1>3, LenProperties, EmptySeq, HeadTailProperties
<1>5. h # NULL /\ current[w] = NULL
  BY <1>1, <1>4, Constants DEF IInv, ThreadInv
<1>6. /\ current'[w] = h /\ wpc'[w] = "work"
      /\ \A v \in Workers : v # w => current'[v] = current[v] /\ wpc'[v] = wpc[v]
      /\ current' \in [Workers -> Recs \cup {NULL}]
      /\ wpc' \in [Workers -> {"pop", "work", "rearm"}]
  BY <1>1, <1>2, <1>3, <1>4
<1>7. InQueue(h) /\ ~AtWork(h)
  <2>1. 1 \in 1..Len(pending)
    BY <1>4
  <2>2. InQueue(h)
    BY <1>4, <2>1 DEF InQueue
  <2> QED  BY <1>4, <2>2 DEF IInv, QueueInv
<1>8. \A q \in Recs : InQueue(q)' <=> InQueue(q) /\ q # h
  <2> SUFFICES ASSUME NEW q \in Recs PROVE InQueue(q)' <=> InQueue(q) /\ q # h
    OBVIOUS
  <2>1. ASSUME NEW i \in 1..Len(pending'), pending'[i] = q PROVE InQueue(q) /\ q # h
    <3>1. i + 1 \in 1..Len(pending) /\ i + 1 # 1 /\ 1 \in 1..Len(pending) /\ pending[i + 1] = q
      BY <1>4, <2>1
    <3>2. \A j, k \in 1..Len(pending) : pending[j] = pending[k] => j = k
      BY DEF IInv, QueueInv
    <3> QED  BY <1>4, <3>1, <3>2 DEF InQueue
  <2>2. ASSUME NEW i \in 1..Len(pending), pending[i] = q, q # h PROVE InQueue(q)'
    <3>1. i # 1
      BY <1>4, <2>2
    <3>2. i - 1 \in 1..Len(pending') /\ (i - 1) + 1 = i
      BY <1>4, <3>1
    <3>3. pending'[i - 1] = q
      BY <1>4, <2>2, <3>2
    <3> QED  BY <3>2, <3>3 DEF InQueue
  <2> QED  BY <2>1, <2>2 DEF InQueue
<1>9. \A q \in Recs : AtWork(q)' <=> AtWork(q) \/ q = h
  BY <1>5, <1>6, Constants DEF AtWork
<1>10. \A q \in Recs : (Busy(q)' <=> Busy(q)) /\ (AtRearm(q)' <=> AtRearm(q))
  <2>1. \A q \in Recs : Busy(q)' <=> Busy(q)
    BY <1>7, <1>8, <1>9 DEF Busy
  <2>2. \A q \in Recs : AtRearm(q)' <=> AtRearm(q)
    BY <1>1, <1>6 DEF AtRearm
  <2> QED  BY <2>1, <2>2
<1>11. TypeOK'
  <2>1. MemoryTypes' /\ SocketTypes'
    BY <1>1, <1>2 DEF TypeOK, MemoryTypes, SocketTypes
  <2>2. ThreadTypes'
    BY <1>1, <1>2, <1>4, <1>6 DEF TypeOK, ThreadTypes
  <2> QED  BY <2>1, <2>2 DEF TypeOK
<1>12. \A q \in Recs : Fine(q)'
  <2> SUFFICES ASSUME NEW q \in Recs PROVE Fine(q)'
    OBVIOUS
  <2>1. Fine(q)
    BY DEF IInv
  <2>2. (Busy(q)' <=> Busy(q)) /\ (AtRearm(q)' <=> AtRearm(q))
    BY <1>10
  <2>3. EventFine(q)' /\ BusyFine(q)' /\ PeerFine(q)'
    BY <1>1, <2>1, <2>2 DEF Fine, EventFine, HasEvent, Watched, BusyFine, PeerFine
  <2>4. UpperFine(q)' /\ BrowserFine(q)' /\ AnswerFine(q)'
    BY <1>1, <2>1, <2>2 DEF Fine, UpperFine, Upper, Watched, HasEvent, BrowserFine, Browser, AnswerFine
  <2>5. HeardFine(q)'
    BY <1>1, <2>1, <2>2 DEF Fine, HeardFine, Heard, HasEvent, Due, Readable
  <2> QED  BY <2>3, <2>4, <2>5 DEF Fine
<1>13. OwnFd' /\ WatchMatches' /\ ArmedInv' /\ CheckInv'
  BY <1>1 DEF IInv, OwnFd, WatchMatches, ArmedInv, CheckInv, HasEvent, Browser
<1>14. ThreadInv'
  BY <1>1, <1>5, <1>6 DEF IInv, ThreadInv
<1>15. QueueInv'
  <2>1. \A i, j \in 1..Len(pending') : pending'[i] = pending'[j] => i = j
    <3> SUFFICES ASSUME NEW i \in 1..Len(pending'), NEW j \in 1..Len(pending'), pending'[i] = pending'[j]
                 PROVE  i = j
      OBVIOUS
    <3>1. i + 1 \in 1..Len(pending) /\ j + 1 \in 1..Len(pending) /\ pending[i + 1] = pending[j + 1]
      BY <1>4
    <3>2. i + 1 = j + 1
      BY <3>1 DEF IInv, QueueInv
    <3> QED  BY <3>2
  <2>2. \A q \in Recs : AtWork(q)' => ~InQueue(q)'
    BY <1>8, <1>9 DEF IInv, QueueInv
  <2>3. \A u, v \in Workers : current'[u] = current'[v] /\ current'[u] # NULL => u = v
    BY <1>6, <1>7 DEF IInv, QueueInv, AtWork
  <2> QED  BY <2>1, <2>2, <2>3 DEF QueueInv
<1> QED  BY <1>11, <1>12, <1>13, <1>14, <1>15 DEF IInv

(* What is left of an answer stays with the record until it is rearmed.      *)
LEMMA AnswerKeeps ==
  ASSUME IInv, NEW w \in Workers, Answer(w)
  PROVE  IInv'
<1>1. PICK r : r = current[w]
  OBVIOUS
<1>2. PICK pend \in BOOLEAN, stream \in BOOLEAN :
        /\ Responds(r, pend)
        /\ rec' = [rec EXCEPT ![r].pend = pend, ![r].stream = stream]
  <2>1. wpc[w] # "pop"
    BY DEF Answer, WorkerGoto
  <2>2. rec[r].stream \in BOOLEAN
    BY <1>1, <2>1, ClientOf, Fields DEF IInv
  <2> QED  BY <1>1, <2>2 DEF Answer, Client
<1>3. /\ wpc[w] = "work" /\ wpc' = [wpc EXCEPT ![w] = "rearm"]
      /\ UNCHANGED <<alloc, open, input, fin, watch, mask, ready, batch, mpc, cur, pending, current, lost, fault>>
  BY DEF Answer, WorkerGoto, epoll, main, handoff
<1>4. /\ r \in Recs /\ r \in alloc /\ rec[r].ssl /\ rec[r].peer = NULL
      /\ rec[r].state = "READ_REQUEST" /\ ~rec[r].want
      /\ ~HasEvent(r) /\ Busy(r)
      /\ \A v \in Workers : current[v] = r => v = w
  BY <1>1, <1>3, ClientOf
<1>5. PICK f \in Fds : f = rec[r].fd /\ f \in open /\ watch[f] = NULL
  BY <1>1, <1>3, ClientOf
<1>6. TypeOK /\ rec[r] \in Records /\ alloc \subseteq Recs
  BY <1>4, Fields DEF IInv, TypeOK, MemoryTypes
<1> DEFINE new == [rec[r] EXCEPT !.pend = pend, !.stream = stream]
<1>7. rec' = [rec EXCEPT ![r] = new] /\ rec'[r] = new /\ \A q \in Recs : q # r => rec'[q] = rec[q]
  BY <1>2, <1>4, <1>6 DEF TypeOK, MemoryTypes
<1>8. new \in Records
  BY <1>6 DEF Records
<1>9. /\ new.fd = f /\ new.ssl /\ new.peer = NULL /\ new.state = "READ_REQUEST" /\ ~new.want
  BY <1>4, <1>5, <1>6 DEF Records
<1> HIDE DEF new
<1>10. full' \subseteq full \cup {f} /\ \A g \in Fds : g # f => (g \in full' <=> g \in full)
  BY <1>2, <1>5 DEF Responds
<1>11. /\ wpc' \in [Workers -> {"pop", "work", "rearm"}] /\ wpc'[w] = "rearm"
       /\ \A v \in Workers : v # w => wpc'[v] = wpc[v]
  BY <1>3, <1>6 DEF TypeOK, ThreadTypes
<1>12. \A q \in Recs : Busy(q)' <=> Busy(q)
  BY <1>3 DEF Busy, InQueue, AtWork
<1>13. AtRearm(r)' /\ \A q \in Recs : q # r => (AtRearm(q)' <=> AtRearm(q))
  <2>1. AtRearm(r)'
    BY <1>1, <1>3, <1>11 DEF AtRearm
  <2>2. \A q \in Recs : q # r => (AtRearm(q)' <=> AtRearm(q))
    BY <1>1, <1>3, <1>11 DEF AtRearm
  <2> QED  BY <2>1, <2>2
<1>14. TypeOK'
  <2>1. MemoryTypes'
    BY <1>3, <1>6, <1>7, <1>8 DEF TypeOK, MemoryTypes
  <2>2. SocketTypes'
    BY <1>3, <1>5, <1>6, <1>10 DEF TypeOK, SocketTypes
  <2>3. ThreadTypes'
    BY <1>3, <1>6, <1>11 DEF TypeOK, ThreadTypes
  <2> QED  BY <2>1, <2>2, <2>3 DEF TypeOK
<1>15. \A q \in Recs : HasEvent(q)' <=> HasEvent(q)
  BY <1>3 DEF HasEvent
<1>16. \A q \in Recs \ {r} : Fine(q)'
  <2>1. \A q \in Recs \ {r} : SameRec(q)
    BY <1>3, <1>7, <1>12, <1>13 DEF SameRec
  <2>2. \A g \in Fds \ {f} : SameFd(g)
    BY <1>3, <1>10 DEF SameFd, Due, Readable
  <2>3. \A q \in alloc \ {r} : HasEvent(q) => HasEvent(q)'
    BY <1>6, <1>15
  <2> QED  BY <1>4, <1>5, <1>14, <2>1, <2>2, <2>3, OthersApart
<1>17. Fine(r)'
  <2>1. /\ rec'[r] = new /\ r \in alloc' /\ f \in open' /\ watch'[f] = NULL
        /\ Busy(r)' /\ ~HasEvent(r)'
    BY <1>3, <1>4, <1>5, <1>7, <1>12, <1>15
  <2>2. EventFine(r)' /\ BusyFine(r)' /\ PeerFine(r)'
    BY <1>9, <2>1 DEF EventFine, HasEvent, BusyFine, PeerFine
  <2>3. UpperFine(r)' /\ BrowserFine(r)' /\ AnswerFine(r)' /\ HeardFine(r)'
    BY <1>9, <1>13, <2>1 DEF UpperFine, Upper, BrowserFine, Browser, AnswerFine, HeardFine
  <2> QED  BY <2>2, <2>3 DEF Fine
<1>18. \A q \in Recs : rec'[q].fd = rec[q].fd /\ (Browser(q)' <=> Browser(q)) /\ rec'[q].peer = rec[q].peer
  BY <1>3, <1>4, <1>5, <1>7, <1>9 DEF Browser
<1>19. OwnFd' /\ WatchMatches' /\ ArmedInv'
  BY <1>3, <1>6, <1>18 DEF IInv, OwnFd, WatchMatches, ArmedInv
<1>20. ThreadInv'
  BY <1>3, <1>11 DEF IInv, ThreadInv
<1>21. QueueInv'
  BY <1>3 DEF IInv, QueueInv, AtWork, InQueue
<1>22. CheckInv'
  <2> SUFFICES ASSUME mpc = "check" PROVE ~HasEvent(cur)' /\ (Browser(cur)' => ~HasEvent(rec[cur].peer)')
    BY <1>3, <1>18 DEF CheckInv, IInv, TypeOK, ThreadTypes, ThreadInv
  <2>1. cur \in Recs /\ ~HasEvent(cur) /\ (Browser(cur) => ~HasEvent(rec[cur].peer))
    BY DEF IInv, CheckInv, TypeOK, ThreadTypes, ThreadInv
  <2> QED  BY <1>3, <1>18, <2>1 DEF HasEvent
<1>23. \A q \in Recs : Fine(q)'
  BY <1>16, <1>17
<1> QED  BY <1>14, <1>19, <1>20, <1>21, <1>22, <1>23 DEF IInv

(* What is said of the record that main is about to check stays true while   *)
(* main is told of nothing, unless a worker gives the record a peer.         *)
LEMMA CheckKept ==
  ASSUME IInv, UNCHANGED <<batch, mpc, cur>>,
         \A q \in Recs : Browser(q)' => /\ rec'[q].peer \in Recs
                                        /\ \/ Browser(q) /\ rec'[q].peer = rec[q].peer
                                           \/ ~HasEvent(rec'[q].peer)
  PROVE  CheckInv'
<1> SUFFICES ASSUME mpc = "check"
             PROVE  ~HasEvent(cur)' /\ (Browser(cur)' => ~HasEvent(rec[cur].peer)')
  BY DEF CheckInv
<1>1. PICK c \in Recs : c = cur
  BY DEF IInv, ThreadInv, TypeOK, ThreadTypes
<1>2. ~HasEvent(c) /\ (Browser(c) => ~HasEvent(rec[c].peer))
  BY <1>1 DEF IInv, CheckInv
<1>3. ~HasEvent(cur)'
  BY <1>1, <1>2 DEF HasEvent
<1>4. ASSUME Browser(c)' PROVE <<rec'[c].peer, "in">> \notin batch /\ <<rec'[c].peer, "out">> \notin batch
  BY <1>2, <1>4 DEF HasEvent
<1> QED  BY <1>1, <1>3, <1>4 DEF HasEvent

(* A worker is done with a connection that is freed, or kept as it was.      *)
LEMMA ForgetsKeeps ==
  ASSUME IInv, NEW w \in Workers, Forgets(w)
  PROVE  IInv'
<1>1. PICK r : r = current[w]
  OBVIOUS
<1>2. PICK f : f = rec[r].fd
  OBVIOUS
<1>3. /\ Return(w, "work") /\ lost' = [lost EXCEPT ![f] = lost[f] \cup Events]
      /\ \/ UNCHANGED <<memory, input, fin, full>>
         \/ /\ alloc' = alloc \ {r}
            /\ rec' = [rec EXCEPT ![r] = NewRecord(NULL)]
            /\ Drop(f, Len(input[f]))
            /\ fin' = fin \ {f} /\ full' = full \ {f}
      /\ UNCHANGED <<open, watch, mask, ready, batch, mpc, cur, fault>>
  BY <1>1, <1>2 DEF Forgets, Client, Loses, epoll, main
<1>4. wpc[w] = "work"
  BY <1>3 DEF Return, WorkerGoto
<1>5. /\ r \in Recs /\ r \in alloc /\ rec[r].ssl /\ rec[r].peer = NULL
      /\ rec[r].state = "READ_REQUEST" /\ ~rec[r].want
      /\ ~HasEvent(r) /\ \A g \in Fds : watch[g] # r
      /\ (rec[r].pend \/ rec[r].stream => rec[r].old)
      /\ f \in Fds /\ f \in open /\ watch[f] = NULL
  BY <1>1, <1>2, <1>4, ClientOf
<1>6. TypeOK /\ alloc \subseteq Recs
  BY DEF IInv, TypeOK, MemoryTypes
<1>7. /\ pending' \in Seq(Recs) /\ current' \in [Workers -> Recs \cup {NULL}]
      /\ wpc' \in [Workers -> {"pop", "work", "rearm"}]
      /\ ThreadInv' /\ QueueInv'
      /\ \A q \in Recs : q # r => (Busy(q)' <=> Busy(q)) /\ (AtRearm(q)' <=> AtRearm(q))
      /\ ~Busy(r)' /\ ~AtRearm(r)'
  BY <1>1, <1>3, Returned
<1>8. /\ lost' \in [Fds -> SUBSET Events] /\ lost'[f] = Events
      /\ \A g \in Fds : g # f => lost'[g] = lost[g]
  <2>1. lost \in [Fds -> SUBSET Events]
    BY <1>6 DEF TypeOK, SocketTypes
  <2>2. lost[f] \cup Events = Events
    BY <1>5, <2>1
  <2> QED  BY <1>3, <1>5, <2>1, <2>2
<1>9. /\ input' \in [Fds -> Seq(Chunks \cup {"more"})]
      /\ \A g \in Fds : Len(input'[g]) <= MaxInput
      /\ \A g \in Fds : g # f => input'[g] = input[g]
      /\ fin' \subseteq fin /\ full' \subseteq full
      /\ \A g \in Fds : g # f => (g \in fin' <=> g \in fin) /\ (g \in full' <=> g \in full)
  <2>1. CASE UNCHANGED <<memory, input, fin, full>>
    BY <1>6, <2>1 DEF TypeOK, SocketTypes
  <2>2. CASE Drop(f, Len(input[f])) /\ fin' = fin \ {f} /\ full' = full \ {f}
    <3>1. Len(input[f]) \in 0..Len(input[f])
      BY <1>5, <1>6, LenProperties DEF TypeOK, SocketTypes
    <3> QED  BY <1>5, <1>6, <2>2, <3>1, Dropped
  <2> QED  BY <1>3, <2>1, <2>2
<1>10. /\ rec' \in [Recs -> Records] /\ alloc' \subseteq alloc
       /\ \A q \in Recs : q # r => rec'[q] = rec[q] /\ (q \in alloc' <=> q \in alloc)
       /\ r \in alloc' => rec'[r] = rec[r]
  <2>1. CASE UNCHANGED <<memory, input, fin, full>>
    BY <1>6, <2>1 DEF TypeOK, MemoryTypes, memory
  <2>2. CASE alloc' = alloc \ {r} /\ rec' = [rec EXCEPT ![r] = NewRecord(NULL)]
    BY <1>5, <1>6, <2>2, RecordMade DEF TypeOK, MemoryTypes
  <2> QED  BY <1>3, <2>1, <2>2
<1>11. TypeOK'
  <2>1. MemoryTypes'
    BY <1>6, <1>10 DEF MemoryTypes
  <2>2. SocketTypes'
    BY <1>3, <1>6, <1>8, <1>9 DEF TypeOK, SocketTypes
  <2>3. ThreadTypes'
    BY <1>3, <1>6, <1>7 DEF TypeOK, ThreadTypes
  <2> QED  BY <2>1, <2>2, <2>3 DEF TypeOK
<1>12. \A q \in Recs : HasEvent(q)' <=> HasEvent(q)
  BY <1>3 DEF HasEvent
<1>13. \A q \in Recs \ {r} : Fine(q)'
  <2>1. \A q \in Recs \ {r} : SameRec(q)
    BY <1>3, <1>7, <1>10 DEF SameRec
  <2>2. \A g \in Fds \ {f} : SameFd(g)
    BY <1>3, <1>8, <1>9 DEF SameFd, Due, Readable
  <2>3. \A q \in alloc \ {r} : HasEvent(q) => HasEvent(q)'
    BY <1>6, <1>12
  <2> QED  BY <1>2, <1>5, <1>11, <2>1, <2>2, <2>3, OthersApart
<1>14. Fine(r)'
  <2>1. ~HasEvent(r)' /\ ~Busy(r)'
    BY <1>5, <1>7, <1>12
  <2>2. CASE r \notin alloc'
    BY <1>5, <2>1, <2>2, Freed
  <2>3. CASE r \in alloc'
    <3>1. rec'[r] = rec[r] /\ f \in open' /\ lost'[f] = Events
      BY <1>3, <1>5, <1>8, <1>10, <2>3
    <3>2. EventFine(r)' /\ BusyFine(r)' /\ PeerFine(r)'
      BY <1>2, <1>5, <2>1, <3>1 DEF EventFine, HasEvent, BusyFine, PeerFine
    <3>3. UpperFine(r)' /\ BrowserFine(r)' /\ AnswerFine(r)' /\ HeardFine(r)'
      BY <1>2, <1>5, <2>1, <3>1 DEF UpperFine, Upper, BrowserFine, Browser, AnswerFine, HeardFine, Heard
    <3> QED  BY <3>2, <3>3 DEF Fine
  <2> QED  BY <2>2, <2>3
<1>15. \A q \in alloc' : rec'[q] = rec[q] /\ q \in Recs
  BY <1>6, <1>10
<1>16. OwnFd'
  BY <1>10, <1>15 DEF IInv, OwnFd
<1>17. WatchMatches'
  <2> SUFFICES ASSUME NEW g \in Fds, watch[g] # NULL
               PROVE  g \in open /\ watch[g] \in alloc' /\ rec'[watch[g]].fd = g
    BY <1>3 DEF WatchMatches
  <2>1. g \in open /\ watch[g] \in alloc /\ rec[watch[g]].fd = g /\ watch[g] # r
    BY <1>5 DEF IInv, WatchMatches
  <2> QED  BY <1>6, <1>10, <2>1
<1>18. ArmedInv'
  BY <1>3 DEF IInv, ArmedInv
<1>19. CheckInv'
  <2>1. ASSUME NEW q \in Recs, Browser(q)'
        PROVE  rec'[q].peer \in Recs /\ Browser(q) /\ rec'[q].peer = rec[q].peer
    <3>1. q \in alloc' /\ rec'[q] = rec[q] /\ q \in alloc
      BY <1>10, <1>15, <2>1 DEF Browser
    <3> QED  BY <1>6, <2>1, <3>1, Fields DEF Browser
  <2> QED  BY <1>3, <2>1, CheckKept
<1>20. \A q \in Recs : Fine(q)'
  BY <1>13, <1>14
<1> QED  BY <1>7, <1>11, <1>16, <1>17, <1>18, <1>19, <1>20 DEF IInv

(* Back into the epoll set, or closed.                                       *)
LEMMA RearmKeeps ==
  ASSUME IInv, NEW w \in Workers, Rearm(w)
  PROVE  IInv'
<1>1. PICK r : r = current[w]
  OBVIOUS
<1>2. PICK f : f = rec[r].fd
  OBVIOUS
<1>3. PICK left \in BOOLEAN : left = (rec[r].pend \/ rec[r].stream \/ rec[r].want)
  OBVIOUS
<1> DEFINE m   == {"in", "once"} \cup (IF left THEN {"out"} ELSE {})
           new == [rec[r] EXCEPT !.bytes = IF left THEN @ ELSE 0, !.done = left, !.old = left]
<1>4. /\ Return(w, "rearm")
      /\ \/ /\ rec' = [rec EXCEPT ![r].bytes = IF left THEN @ ELSE 0,
                                  ![r].done = left, ![r].old = left]
            /\ UNCHANGED <<alloc, sockets>>
            /\ Watch(f, r, m) /\ Finds(f, Events)
         \/ /\ alloc' = alloc \ {r} /\ CloseFds({f})
            /\ lost' = [lost EXCEPT ![f] = {}]
            /\ (rec' = rec \/ rec' = [rec EXCEPT ![r] = NewRecord(NULL)])
            /\ UNCHANGED <<watch, mask, ready>>
      /\ UNCHANGED <<batch, mpc, cur, fault>>
  BY <1>1, <1>2, <1>3 DEF Rearm, Client, main, epoll
<1>5. wpc[w] = "rearm"
  BY <1>4 DEF Return, WorkerGoto
<1>6. /\ r \in Recs /\ r \in alloc /\ rec[r].ssl /\ rec[r].peer = NULL
      /\ rec[r].state = "READ_REQUEST" /\ ~rec[r].want
      /\ ~HasEvent(r) /\ \A g \in Fds : watch[g] # r
      /\ f \in Fds /\ f \in open /\ watch[f] = NULL
  BY <1>1, <1>2, <1>5, ClientOf
<1>7. TypeOK /\ alloc \subseteq Recs /\ open \subseteq Fds
  BY DEF IInv, TypeOK, MemoryTypes, SocketTypes
<1>8. /\ pending' \in Seq(Recs) /\ current' \in [Workers -> Recs \cup {NULL}]
      /\ wpc' \in [Workers -> {"pop", "work", "rearm"}]
      /\ ThreadInv' /\ QueueInv'
      /\ \A q \in Recs : q # r => (Busy(q)' <=> Busy(q)) /\ (AtRearm(q)' <=> AtRearm(q))
      /\ ~Busy(r)' /\ ~AtRearm(r)'
  BY <1>1, <1>4, Returned
<1>9. \A q \in Recs : HasEvent(q)' <=> HasEvent(q)
  BY <1>4 DEF HasEvent
<1>10. ASSUME rec' = [rec EXCEPT ![r].bytes = IF left THEN @ ELSE 0,
                                 ![r].done = left, ![r].old = left],
              UNCHANGED <<alloc, sockets>>, Watch(f, r, m), Finds(f, Events)
       PROVE  IInv'
  <2>1. UNCHANGED <<alloc, open, input, fin, full>>
    BY <1>10 DEF sockets
  <2>2. rec[r] \in Records
    BY <1>6, <1>7, Fields
  <2>3. rec' = [rec EXCEPT ![r] = new] /\ rec'[r] = new /\ \A q \in Recs : q # r => rec'[q] = rec[q]
    BY <1>6, <1>7, <1>10 DEF TypeOK, MemoryTypes
  <2>4. new \in Records
    <3>1. CASE left
      BY <2>2, <3>1 DEF Records
    <3>2. CASE ~left
      <4>1. 0 \in 0..Cap
        BY Constants
      <4> QED  BY <2>2, <3>2, <4>1 DEF Records
    <3> QED  BY <3>1, <3>2
  <2>5. /\ new.fd = f /\ new.ssl /\ new.peer = NULL /\ new.state = "READ_REQUEST" /\ ~new.want
        /\ new.pend = rec[r].pend /\ new.stream = rec[r].stream /\ new.old = left
    BY <1>2, <1>6, <2>2 DEF Records
  <2>6. m \in Masks /\ "in" \in m /\ (left => "out" \in m)
    BY DEF Masks
  <2> HIDE DEF new, m
  <2>7. /\ watch' \in [Fds -> Recs \cup {NULL}] /\ mask' \in [Fds -> Masks]
        /\ ready' \subseteq open' /\ watch'[f] = r
        /\ \A g \in Fds : g # f => /\ watch'[g] = watch[g] /\ mask'[g] = mask[g]
                                   /\ g \in ready' <=> g \in ready
    BY <1>6, <1>7, <1>10, <2>1, <2>6, WatchTyped
  <2>8. Heard(r)'
    <3>1. rec'[r].fd = f /\ (rec'[r].pend \/ rec'[r].stream \/ rec'[r].want => "out" \in m)
      BY <1>3, <2>3, <2>5, <2>6
    <3> QED  BY <1>6, <1>7, <1>10, <2>6, <3>1, WatchHears
  <2>9. /\ lost' \in [Fds -> SUBSET Events]
        /\ \A g \in Fds : g # f => lost'[g] = lost[g]
    BY <1>6, <1>7, <1>10 DEF Finds, TypeOK, SocketTypes
  <2>10. TypeOK'
    <3>1. MemoryTypes'
      BY <1>7, <2>1, <2>3, <2>4 DEF TypeOK, MemoryTypes
    <3>2. SocketTypes'
      BY <1>7, <2>1, <2>7, <2>9 DEF TypeOK, SocketTypes
    <3>3. ThreadTypes'
      BY <1>4, <1>7, <1>8 DEF TypeOK, ThreadTypes
    <3> QED  BY <3>1, <3>2, <3>3 DEF TypeOK
  <2>11. \A q \in Recs \ {r} : Fine(q)'
    <3>1. \A q \in Recs \ {r} : SameRec(q)
      BY <1>4, <1>8, <2>1, <2>3 DEF SameRec
    <3>2. \A g \in Fds \ {f} : SameFd(g)
      BY <2>1, <2>7, <2>9 DEF SameFd, Due, Readable
    <3>3. \A q \in alloc \ {r} : HasEvent(q) => HasEvent(q)'
      BY <1>7, <1>9
    <3> QED  BY <1>2, <1>6, <2>10, <3>1, <3>2, <3>3, OthersApart
  <2>12. Fine(r)'
    <3>1. rec'[r] = new /\ r \in alloc' /\ f \in open' /\ ~Busy(r)' /\ ~HasEvent(r)'
      BY <1>6, <1>8, <1>9, <2>1, <2>3
    <3>2. EventFine(r)' /\ BusyFine(r)' /\ PeerFine(r)'
      BY <2>5, <3>1 DEF EventFine, HasEvent, BusyFine, PeerFine
    <3>3. UpperFine(r)' /\ BrowserFine(r)' /\ AnswerFine(r)'
      BY <1>3, <2>5, <3>1 DEF UpperFine, Upper, BrowserFine, Browser, AnswerFine
    <3>4. HeardFine(r)'
      BY <2>8 DEF HeardFine
    <3> QED  BY <3>2, <3>3, <3>4 DEF Fine
  <2>13. \A q \in Recs : rec'[q].fd = rec[q].fd
    BY <1>2, <2>3, <2>5
  <2>14. OwnFd'
    BY <1>7, <2>1, <2>13 DEF IInv, OwnFd
  <2>15. WatchMatches'
    <3> SUFFICES ASSUME NEW g \in Fds, watch'[g] # NULL
                 PROVE  g \in open' /\ watch'[g] \in alloc' /\ rec'[watch'[g]].fd = g
      BY DEF WatchMatches
    <3>1. CASE g = f
      BY <1>2, <1>6, <2>1, <2>7, <2>13, <3>1
    <3>2. CASE g # f
      <4>1. watch'[g] = watch[g] /\ g \in open /\ watch[g] \in alloc /\ rec[watch[g]].fd = g
        BY <2>7, <3>2 DEF IInv, WatchMatches
      <4> QED  BY <1>7, <2>1, <2>13, <4>1
    <3> QED  BY <3>1, <3>2
  <2>16. ArmedInv'
    <3>1. r # NULL
      BY <1>6, Constants
    <3> QED  BY <2>7, <3>1 DEF IInv, ArmedInv
  <2>17. CheckInv'
    <3>1. ASSUME NEW q \in Recs, Browser(q)'
          PROVE  rec'[q].peer \in Recs /\ Browser(q) /\ rec'[q].peer = rec[q].peer
      <4>1. q # r
        BY <2>3, <2>5, <3>1 DEF Browser
      <4>2. rec'[q] = rec[q] /\ q \in alloc
        BY <2>1, <2>3, <3>1, <4>1 DEF Browser
      <4> QED  BY <1>7, <3>1, <4>2, Fields DEF Browser
    <3> QED  BY <1>4, <3>1, CheckKept
  <2>18. \A q \in Recs : Fine(q)'
    BY <2>11, <2>12
  <2> QED  BY <1>8, <2>10, <2>14, <2>15, <2>16, <2>17, <2>18 DEF IInv
<1>11. ASSUME alloc' = alloc \ {r}, CloseFds({f}), lost' = [lost EXCEPT ![f] = {}],
              rec' = rec \/ rec' = [rec EXCEPT ![r] = NewRecord(NULL)],
              UNCHANGED <<watch, mask, ready>>
       PROVE  IInv'
  <2>1. /\ open' = open \ {f} /\ fin' = fin \ {f} /\ full' = full \ {f}
        /\ input' = [g \in Fds |-> IF g \in {f} THEN <<>> ELSE input[g]]
    BY <1>11 DEF CloseFds
  <2>2. rec' \in [Recs -> Records] /\ \A q \in Recs : q # r => rec'[q] = rec[q]
    BY <1>6, <1>7, <1>11, RecordMade DEF TypeOK, MemoryTypes
  <2>3. f \notin ready
    BY <1>6 DEF IInv, ArmedInv
  <2>4. TypeOK'
    <3>1. MemoryTypes'
      BY <1>7, <1>11, <2>2 DEF TypeOK, MemoryTypes
    <3>2. input' \in [Fds -> Seq(Chunks \cup {"more"})] /\ \A g \in Fds : Len(input'[g]) <= MaxInput
      <4>1. <<>> \in Seq(Chunks \cup {"more"}) /\ Len(<<>>) = 0 /\ 0 <= MaxInput
        BY Constants
      <4> QED  BY <1>7, <2>1, <4>1 DEF TypeOK, SocketTypes
    <3>3. lost' \in [Fds -> SUBSET Events]
      BY <1>7, <1>11 DEF TypeOK, SocketTypes
    <3>4. SocketTypes'
      BY <1>7, <1>11, <2>1, <2>3, <3>2, <3>3 DEF TypeOK, SocketTypes
    <3>5. ThreadTypes'
      BY <1>4, <1>7, <1>8 DEF TypeOK, ThreadTypes
    <3> QED  BY <3>1, <3>4, <3>5 DEF TypeOK
  <2>5. \A q \in Recs \ {r} : Fine(q)'
    <3>1. \A q \in Recs \ {r} : SameRec(q)
      BY <1>4, <1>8, <1>11, <2>2 DEF SameRec
    <3>2. \A g \in Fds \ {f} : SameFd(g)
      <4>1. \A g \in Fds \ {f} : lost'[g] = lost[g]
        BY <1>7, <1>11 DEF TypeOK, SocketTypes
      <4> QED  BY <1>11, <2>1, <4>1 DEF SameFd, Due, Readable
    <3>3. \A q \in alloc \ {r} : HasEvent(q) => HasEvent(q)'
      BY <1>7, <1>9
    <3> QED  BY <1>2, <1>6, <2>4, <3>1, <3>2, <3>3, OthersApart
  <2>6. Fine(r)'
    <3>1. r \notin alloc' /\ ~HasEvent(r)' /\ ~Busy(r)'
      BY <1>6, <1>8, <1>9, <1>11
    <3> QED  BY <1>6, <3>1, Freed
  <2>7. OwnFd'
    BY <1>7, <1>11, <2>2 DEF IInv, OwnFd
  <2>8. WatchMatches'
    <3> SUFFICES ASSUME NEW g \in Fds, watch[g] # NULL
                 PROVE  g \in open' /\ watch[g] \in alloc' /\ rec'[watch[g]].fd = g
      BY <1>11 DEF WatchMatches
    <3>1. g \in open /\ watch[g] \in alloc /\ rec[watch[g]].fd = g /\ watch[g] # r /\ g # f
      BY <1>6 DEF IInv, WatchMatches
    <3> QED  BY <1>7, <1>11, <2>1, <2>2, <3>1
  <2>9. ArmedInv'
    BY <1>11 DEF IInv, ArmedInv
  <2>10. CheckInv'
    <3>1. ASSUME NEW q \in Recs, Browser(q)'
          PROVE  rec'[q].peer \in Recs /\ Browser(q) /\ rec'[q].peer = rec[q].peer
      <4>1. rec'[q] = rec[q] /\ q \in alloc
        BY <1>11, <2>2, <3>1 DEF Browser
      <4> QED  BY <1>7, <3>1, <4>1, Fields DEF Browser
    <3> QED  BY <1>4, <3>1, CheckKept
  <2>11. \A q \in Recs : Fine(q)'
    BY <2>5, <2>6
  <2> QED  BY <1>8, <2>4, <2>7, <2>8, <2>9, <2>10, <2>11 DEF IInv
<1> QED  BY <1>4, <1>10, <1>11

(* The client gets a peer, and is not armed for anything from now on.        *)
LEMMA ProxiedKeeps ==
  ASSUME IInv, NEW w \in Workers, NEW u \in Fds, NEW q \in Recs, Proxied(w, u, q)
  PROVE  IInv'
<1>1. PICK r : r = current[w]
  OBVIOUS
<1>2. PICK f : f = rec[r].fd
  OBVIOUS
<1> DEFINE m    == {"in"}
           mine == [rec[r] EXCEPT !.state = "PROXYING", !.peer = q]
           its  == [NewRecord(u) EXCEPT !.state = "PROXYING", !.peer = r]
<1>3. /\ Return(w, "work") /\ ~rec[r].old
      /\ u \notin open /\ q \notin alloc
      /\ open' = open \cup {u} /\ alloc' = alloc \cup {q}
      /\ rec' = [rec EXCEPT ![r].state = "PROXYING", ![r].peer = q, ![q] = its]
      /\ Watch(u, q, m)
      /\ lost' = [lost EXCEPT ![f] = lost[f] \cup Events]
      /\ UNCHANGED <<input, fin, full, batch, mpc, cur, fault>>
  BY <1>1, <1>2 DEF Proxied, Client, Loses, main
<1>4. wpc[w] = "work"
  BY <1>3 DEF Return, WorkerGoto
<1>5. /\ r \in Recs /\ r \in alloc /\ rec[r].ssl /\ rec[r].peer = NULL
      /\ ~rec[r].want /\ ~rec[r].pend /\ ~rec[r].stream
      /\ ~HasEvent(r) /\ \A g \in Fds : watch[g] # r
      /\ f \in Fds /\ f \in open /\ watch[f] = NULL
  BY <1>1, <1>2, <1>3, <1>4, ClientOf
<1>6. TypeOK /\ alloc \subseteq Recs /\ open \subseteq Fds /\ q # r /\ u # f /\ q # NULL /\ r # NULL
  BY <1>3, <1>5, Constants DEF IInv, TypeOK, MemoryTypes, SocketTypes
<1>7. rec[r] \in Records /\ mine \in Records /\ its \in Records
  <2>1. rec[r] \in Records
    BY <1>5, <1>6, Fields
  <2>2. mine \in Records
    BY <2>1 DEF Records
  <2>3. NewRecord(u) \in Records
    BY RecordMade
  <2> QED  BY <1>5, <2>1, <2>2, <2>3 DEF Records
<1>8. /\ mine.fd = f /\ mine.ssl = TRUE /\ mine.peer = q /\ mine.state = "PROXYING"
      /\ ~mine.pend /\ ~mine.want
  BY <1>2, <1>5, <1>7 DEF Records
<1>9. /\ its.fd = u /\ its.ssl = FALSE /\ its.peer = r /\ its.state = "PROXYING"
      /\ ~its.pend /\ ~its.stream /\ ~its.want /\ its.bytes = 0
  BY DEF NewRecord
<1>10. /\ rec'[r] = mine /\ rec'[q] = its
       /\ \A p \in Recs : p # r /\ p # q => rec'[p] = rec[p]
       /\ rec' \in [Recs -> Records]
  <2>1. rec \in [Recs -> Records]
    BY <1>6 DEF TypeOK, MemoryTypes
  <2>2. rec' = [[rec EXCEPT ![r] = mine] EXCEPT ![q] = its]
    BY <1>3, <1>5, <1>6, <2>1
  <2> HIDE DEF mine, its
  <2> QED  BY <1>5, <1>6, <1>7, <2>1, <2>2
<1>11. m \in Masks /\ "in" \in m
  BY DEF Masks
<1> HIDE DEF mine, its
<1>12. /\ watch' \in [Fds -> Recs \cup {NULL}] /\ mask' \in [Fds -> Masks]
       /\ ready' \subseteq open' /\ watch'[u] = q /\ mask'[u] = {"in"}
       /\ \A g \in Fds : g # u => /\ watch'[g] = watch[g] /\ mask'[g] = mask[g]
                                  /\ g \in ready' <=> g \in ready
  <2>1. mask'[u] = m
    BY <1>3, <1>6, <1>11, WatchTyped
  <2>2. mask'[u] = {"in"}
    BY <2>1
  <2> HIDE DEF m
  <2> QED  BY <1>3, <1>6, <1>11, <2>2, WatchTyped
<1>13. Heard(q)'
  <2>1. rec'[q].fd = u /\ ~rec'[q].pend /\ ~rec'[q].stream /\ ~rec'[q].want
    BY <1>9, <1>10
  <2> HIDE DEF m
  <2> QED  BY <1>3, <1>6, <1>11, <2>1, WatchHears
<1>14. /\ pending' \in Seq(Recs) /\ current' \in [Workers -> Recs \cup {NULL}]
       /\ wpc' \in [Workers -> {"pop", "work", "rearm"}]
       /\ ThreadInv' /\ QueueInv'
       /\ \A p \in Recs : p # r => (Busy(p)' <=> Busy(p)) /\ (AtRearm(p)' <=> AtRearm(p))
       /\ ~Busy(r)' /\ ~AtRearm(r)'
  BY <1>1, <1>3, Returned
<1>15. /\ lost' \in [Fds -> SUBSET Events] /\ lost'[f] = Events
       /\ \A g \in Fds : g # f => lost'[g] = lost[g]
  <2>1. lost \in [Fds -> SUBSET Events]
    BY <1>6 DEF TypeOK, SocketTypes
  <2>2. lost[f] \cup Events = Events
    BY <1>5, <2>1
  <2> QED  BY <1>3, <1>5, <2>1, <2>2
<1>16. TypeOK'
  <2>1. MemoryTypes'
    BY <1>3, <1>6, <1>10 DEF MemoryTypes
  <2>2. SocketTypes'
    BY <1>3, <1>6, <1>12, <1>15 DEF TypeOK, SocketTypes
  <2>3. ThreadTypes'
    BY <1>3, <1>6, <1>14 DEF TypeOK, ThreadTypes
  <2> QED  BY <2>1, <2>2, <2>3 DEF TypeOK
<1>17. \A p \in Recs : HasEvent(p)' <=> HasEvent(p)
  BY <1>3 DEF HasEvent
<1>18. ~HasEvent(q) /\ ~Busy(q)
  BY <1>3, Free
<1>19. \A p \in Recs \ {r, q} : Fine(p)'
  <2>1. \A p \in Recs \ {r, q} : SameRec(p)
    BY <1>3, <1>10, <1>14 DEF SameRec
  <2>2. \A g \in Fds \ {f, u} : SameFd(g)
    BY <1>3, <1>12, <1>15 DEF SameFd, Due, Readable
  <2>3. ASSUME NEW p \in alloc \ {r, q}
        PROVE  /\ rec[p].fd \notin {f, u}
               /\ rec[p].peer # NULL => /\ rec[p].peer \in alloc'
                                        /\ rec'[rec[p].peer] = rec[rec[p].peer]
               /\ HasEvent(p) => HasEvent(p)' \/ lost'[rec[p].fd] = Events
    <3>1. rec[p].fd # f /\ rec[p].fd # u
      BY <1>2, <1>3, <1>5, Alone
    <3>2. p # NULL
      BY <1>6, Constants
    <3>3. rec[p].peer # NULL => rec[p].peer \in alloc /\ rec[p].peer # r /\ rec[p].peer # q
      BY <1>3, <1>5, <3>2, Alone
    <3> QED  BY <1>3, <1>6, <1>10, <1>17, <3>1, <3>3
  <2>4. {r, q} \subseteq Recs /\ {f, u} \subseteq Fds
    BY <1>5
  <2> QED  BY <1>16, <2>1, <2>2, <2>3, <2>4, Others
<1>20. r \in alloc' /\ q \in alloc' /\ f \in open' /\ u \in open' /\ watch'[f] = NULL
  BY <1>3, <1>5, <1>6, <1>12
<1>21. Fine(r)'
  <2>1. ~HasEvent(r)' /\ ~Busy(r)'
    BY <1>5, <1>14, <1>17
  <2>2. EventFine(r)' /\ BusyFine(r)'
    BY <2>1 DEF EventFine, HasEvent, BusyFine
  <2>3. PeerFine(r)'
    BY <1>6, <1>8, <1>9, <1>10, <1>20 DEF PeerFine
  <2>4. UpperFine(r)' /\ BrowserFine(r)' /\ AnswerFine(r)' /\ HeardFine(r)'
    BY <1>6, <1>8, <1>10, <1>15, <1>20
    DEF UpperFine, Upper, BrowserFine, AnswerFine, HeardFine, Heard
  <2> QED  BY <2>2, <2>3, <2>4 DEF Fine
<1>22. Fine(q)'
  <2>1. ~HasEvent(q)' /\ ~Busy(q)'
    BY <1>6, <1>14, <1>17, <1>18
  <2>2. EventFine(q)' /\ BusyFine(q)'
    BY <2>1 DEF EventFine, HasEvent, BusyFine
  <2>3. PeerFine(q)'
    BY <1>6, <1>8, <1>9, <1>10, <1>20 DEF PeerFine
  <2>4. UpperFine(q)'
    <3>1. Watched(q)'
      BY <1>9, <1>10, <1>12 DEF Watched
    <3>2. <<q, "out">> \notin batch'
      BY <2>1 DEF HasEvent
    <3> QED  BY <1>6, <1>8, <1>9, <1>10, <1>12, <3>1, <3>2 DEF UpperFine
  <2>5. BrowserFine(q)' /\ AnswerFine(q)'
    BY <1>9, <1>10 DEF BrowserFine, Browser, AnswerFine
  <2>6. HeardFine(q)'
    BY <1>13 DEF HeardFine
  <2> QED  BY <2>2, <2>3, <2>4, <2>5, <2>6 DEF Fine
<1>23. \A p \in Recs : p # q => rec'[p].fd = rec[p].fd
  BY <1>2, <1>8, <1>10
<1>24. OwnFd'
  <2>1. \A p \in alloc : rec[p].fd # u
    BY <1>3, Alone
  <2> QED  BY <1>3, <1>6, <1>9, <1>10, <1>23, <2>1 DEF IInv, OwnFd
<1>25. WatchMatches'
  <2> SUFFICES ASSUME NEW g \in Fds, watch'[g] # NULL
               PROVE  g \in open' /\ watch'[g] \in alloc' /\ rec'[watch'[g]].fd = g
    BY DEF WatchMatches
  <2>1. CASE g = u
    BY <1>9, <1>10, <1>12, <1>20, <2>1
  <2>2. CASE g # u
    <3>1. watch'[g] = watch[g] /\ g \in open /\ watch[g] \in alloc /\ rec[watch[g]].fd = g
      BY <1>12, <2>2 DEF IInv, WatchMatches
    <3> QED  BY <1>3, <1>6, <1>23, <3>1
  <2> QED  BY <2>1, <2>2
<1>26. ArmedInv'
  BY <1>6, <1>12 DEF IInv, ArmedInv
<1>27. CheckInv'
  <2>1. ASSUME NEW p \in Recs, Browser(p)'
        PROVE  /\ rec'[p].peer \in Recs
               /\ \/ Browser(p) /\ rec'[p].peer = rec[p].peer
                  \/ ~HasEvent(rec'[p].peer)
    <3>1. CASE p = r
      BY <1>8, <1>10, <1>18, <3>1
    <3>2. CASE p # r
      <4>1. p # q
        BY <1>9, <1>10, <2>1 DEF Browser
      <4>2. rec'[p] = rec[p] /\ p \in alloc
        BY <1>3, <1>10, <2>1, <3>2, <4>1 DEF Browser
      <4> QED  BY <1>6, <2>1, <4>2, Fields DEF Browser
    <3> QED  BY <3>1, <3>2
  <2> QED  BY <1>3, <2>1, CheckKept
<1>28. \A p \in Recs : Fine(p)'
  BY <1>19, <1>21, <1>22
<1> QED  BY <1>14, <1>16, <1>24, <1>25, <1>26, <1>27, <1>28 DEF IInv

-----------------------------------------------------------------------------
(* The theorems. *)

(* The server starts with nothing open.                                      *)
LEMMA InitInv == Init => IInv
<1> SUFFICES ASSUME Init PROVE IInv
  OBVIOUS
<1>1. TypeOK
  <2>1. MemoryTypes
    BY RecordMade DEF Init, MemoryTypes
  <2>2. SocketTypes
    <3>1. <<>> \in Seq(Chunks \cup {"more"}) /\ Len(<<>>) = 0 /\ 0 <= MaxInput
      BY Constants
    <3>2. {} \in Masks
      BY DEF Masks
    <3> QED  BY <3>1, <3>2 DEF Init, SocketTypes
  <2>3. ThreadTypes
    BY DEF Init, ThreadTypes
  <2> QED  BY <2>1, <2>2, <2>3 DEF TypeOK
<1>2. \A r \in Recs : r \notin alloc /\ ~HasEvent(r) /\ ~Busy(r)
  <2>1. \A r \in Recs : r # NULL /\ ~InQueue(r)
    BY Constants DEF Init, InQueue
  <2> QED  BY <2>1 DEF Init, HasEvent, Busy, AtWork
<1>3. \A r \in Recs : Fine(r)
  BY <1>2 DEF Fine, EventFine, HasEvent, BusyFine, PeerFine, UpperFine, Upper,
       BrowserFine, Browser, AnswerFine, HeardFine
<1>4. OwnFd /\ WatchMatches /\ ArmedInv /\ ThreadInv /\ CheckInv
  BY DEF Init, OwnFd, WatchMatches, ArmedInv, ThreadInv, CheckInv
<1>5. QueueInv
  BY <1>2 DEF Init, QueueInv, Busy
<1> QED  BY <1>1, <1>3, <1>4, <1>5 DEF IInv

(* The inductive invariant holds: types, who has which record, what epoll    *)
(* was told of it, and what of it nobody will hear of.                       *)
THEOREM Invariance == Spec => []IInv
<1>1. IInv /\ [Next]_vars => IInv'
  <2> SUFFICES ASSUME IInv, [Next]_vars PROVE IInv'
    OBVIOUS
  <2>1. CASE UNCHANGED vars
    <3>1. UNCHANGED <<rec, alloc, open, input, fin, full, watch, mask, ready, batch, mpc, cur,
                      pending, current, wpc, lost, fault>>
      BY <2>1 DEF vars, memory, sockets, epoll, main, handoff
    <3>2. TypeOK' /\ ThreadInv' /\ OwnFd' /\ WatchMatches' /\ ArmedInv' /\ QueueInv' /\ CheckInv'
      BY <3>1 DEF IInv, TypeOK, MemoryTypes, SocketTypes, ThreadTypes, ThreadInv, OwnFd,
           WatchMatches, ArmedInv, QueueInv, AtWork, InQueue, CheckInv, HasEvent, Browser
    <3>3. ASSUME NEW q \in Recs PROVE Fine(q)'
      <4>1. Fine(q)
        BY DEF IInv
      <4> QED
        BY <3>1, <4>1 DEF Fine, EventFine, HasEvent, Watched, BusyFine, Busy, InQueue, AtWork,
             PeerFine, UpperFine, Upper, BrowserFine, Browser, AnswerFine, AtRearm,
             HeardFine, Heard, Due, Readable
    <3> QED  BY <3>2, <3>3 DEF IInv
  <2>2. CASE Network
    BY <2>2, NetworkKeeps
  <2>3. ASSUME NEW f \in Fds, NEW r \in Recs, Accept(f, r) PROVE IInv'
    BY <2>3, AcceptKeeps
  <2>4. CASE EpollWait
    BY <2>4, EpollWaitKeeps
  <2>5. CASE CheckSize
    BY <2>5, CheckSizeKeeps
  <2>6. ASSUME NEW r \in Recs, Handshake(r) \/ ReadRequest(r) \/ ReadMore(r) PROVE IInv'
    BY <2>6, HandshakeKeeps, ReadRequestKeeps, ReadMoreKeeps
  <2>7. ASSUME NEW r \in Recs, Upstream(r) \/ UpstreamBreaks(r) PROVE IInv'
    BY <2>7, UpstreamKeeps, UpstreamBreaksKeeps
  <2>8. ASSUME NEW r \in Recs, FlushWaits(r) \/ FlushDone(r) PROVE IInv'
    BY <2>8, FlushWaitsKeeps, FlushDoneKeeps
  <2>9. ASSUME NEW r \in Recs, ReadFails(r) \/ FlushFails(r) PROVE IInv'
    BY <2>9, FailsKeep
  <2>10. ASSUME NEW w \in Workers, WorkerStep(w) PROVE IInv'
    BY <2>10, StartKeeps, ForgetsKeeps, AnswerKeeps, RearmKeeps, ProxiedKeeps DEF WorkerStep
  <2> QED  BY <2>1, <2>2, <2>3, <2>4, <2>5, <2>6, <2>7, <2>8, <2>9, <2>10 DEF Next, MainStep
<1> QED  BY InitInv, <1>1, PTL DEF Spec

(* https/server.c:208-236: cleanup_client frees both records of a proxied    *)
(* connection; yet neither main, nor the queue, nor a worker works with a    *)
(* freed one, and what epoll has to say of a descriptor is the record of the *)
(* connection that has it now.                                               *)
THEOREM TableRight == Spec => []Consistent
<1>1. IInv => Consistent
  <2> SUFFICES ASSUME IInv PROVE Consistent
    OBVIOUS
  <2>1. TypeOK /\ WatchMatches
    BY DEF IInv
  <2>2. PeersAgree
    <3> SUFFICES ASSUME NEW r \in alloc, rec[r].peer # NULL
                 PROVE  /\ rec[r].peer \in alloc /\ rec[rec[r].peer].peer = r
                        /\ rec[rec[r].peer].ssl = ~rec[r].ssl
                        /\ {rec[r].fd, rec[rec[r].peer].fd} \subseteq open
      BY DEF PeersAgree
    <3> QED  BY Alone
  <2>3. RecordsLive
    <3>1. ASSUME NEW x \in batch PROVE x[1] \in alloc
      <4>1. PICK r \in Recs, e \in Events : x = <<r, e>>
        BY <2>1 DEF TypeOK, ThreadTypes
      <4>2. HasEvent(r)
        BY <4>1 DEF HasEvent, Events
      <4> QED  BY <4>1, <4>2, Free
    <3>2. ASSUME NEW i \in 1..Len(pending) PROVE pending[i] \in alloc
      <4>1. pending[i] \in Recs
        BY <2>1, ElementOfSeq DEF TypeOK, ThreadTypes
      <4>2. Busy(pending[i])
        BY DEF Busy, InQueue
      <4> QED  BY <4>1, <4>2, Free
    <3>3. ASSUME NEW w \in Workers, current[w] # NULL PROVE current[w] \in alloc
      <4>1. current[w] \in Recs
        BY <2>1, <3>3 DEF TypeOK, ThreadTypes
      <4>2. Busy(current[w])
        BY DEF Busy, AtWork
      <4> QED  BY <4>1, <4>2, Free
    <3> QED  BY <3>1, <3>2, <3>3 DEF RecordsLive
  <2> QED  BY <2>1, <2>2, <2>3 DEF Consistent
<1> QED  BY Invariance, <1>1, PTL

(* https/server.c:495-497 takes the descriptor out of the epoll set before   *)
(* the request is pushed: no event for it comes while it is queued or with a *)
(* worker, and it is with one worker only.                                   *)
THEOREM OneOwnerEach == Spec => []OneOwner
<1>1. IInv => OneOwner
  <2> SUFFICES ASSUME IInv, NEW r \in Recs
               PROVE  /\ InQueue(r) \/ AtWork(r) =>
                           /\ watch[rec[r].fd] = NULL
                           /\ \A e \in Events : <<r, e>> \notin batch
                      /\ \A v, w \in Workers : current[v] = r /\ current[w] = r => v = w
    BY DEF OneOwner
  <2>1. Fine(r) /\ r # NULL
    BY Constants DEF IInv
  <2>2. Busy(r) => watch[rec[r].fd] = NULL /\ ~HasEvent(r)
    BY <2>1 DEF Fine, BusyFine, EventFine, Watched
  <2>3. \A v, w \in Workers : current[v] = r /\ current[w] = r => v = w
    BY <2>1 DEF IInv, QueueInv
  <2> QED  BY <2>2, <2>3 DEF Busy, HasEvent, Events
<1> QED  BY Invariance, <1>1, PTL

(* https/request_handler.c:503: only the upstream connection is put into the *)
(* epoll set.  So no event comes for a browser while it is proxied; and main *)
(* never finds bytes that wait for one.                                      *)
THEOREM OneWay == Spec => []ProxiedOneWay
<1>1. IInv => ProxiedOneWay
  <2> SUFFICES ASSUME IInv, NEW r \in alloc, rec[r].peer # NULL, rec[r].ssl
               PROVE  /\ watch[rec[r].fd] = NULL
                      /\ \A e \in Events : <<r, e>> \notin batch
                      /\ rec[r].pend => /\ mask[rec[rec[r].peer].fd] = {}
                                        /\ \A e \in Events : <<rec[r].peer, e>> \notin batch
    BY DEF ProxiedOneWay
  <2>1. r \in Recs /\ Browser(r)
    BY Alone DEF Browser
  <2>2. watch[rec[r].fd] = NULL /\ ~HasEvent(r)
    BY <2>1, BrowserQuiet
  <2>3. PICK q \in Recs : q = rec[r].peer /\ q \in alloc /\ rec[q].peer = r /\ ~rec[q].ssl
    <3>1. rec[r].peer \in alloc /\ rec[rec[r].peer].peer = r /\ ~rec[rec[r].peer].ssl
      BY Alone
    <3> QED  BY <3>1, Alone
  <2>4. rec[r].pend => mask[rec[q].fd] = {} /\ ~HasEvent(q)
    BY <2>3 DEF IInv, Fine, UpperFine, Upper
  <2> QED  BY <2>2, <2>3, <2>4 DEF HasEvent, Events
<1> QED  BY Invariance, <1>1, PTL

(* Wherever the server arms a descriptor at all, it hears what it armed it   *)
(* for: an event that it never hears of is one that it did not ask for, and  *)
(* the places in https/server.c and https/request_handler.c where it does    *)
(* not ask are those that note it in lost.                                   *)
THEOREM AllHeard == Spec => []EveryoneHeard
<1>1. IInv => EveryoneHeard
  <2> SUFFICES ASSUME IInv, NEW r \in Recs, AtRest(r) PROVE Heard(r)
    BY DEF EveryoneHeard, Heard
  <2>1. r \in alloc /\ ~Busy(r) /\ ~HasEvent(r)
    BY DEF AtRest, Busy, HasEvent, Events
  <2> QED  BY <2>1 DEF IInv, Fine, HeardFine
<1> QED  BY Invariance, <1>1, PTL

(* https/server.c:495-497 and the end of handle_work use the queue as        *)
(* TaskFifo asks: no record is handed over that is queued or with a worker.  *)
THEOREM QueueUsedAsAsked == Spec => UsesFifo
<1>1. Init => Fifo!Init
  BY DEF Init, Fifo!Init
<1>2. IInv /\ [Next]_vars => [Fifo!Next]_(Fifo!vars)
  <2> SUFFICES ASSUME IInv, [Next]_vars PROVE [Fifo!Next]_(Fifo!vars)
    OBVIOUS
  <2>1. ASSUME UNCHANGED handoff PROVE [Fifo!Next]_(Fifo!vars)
    BY <2>1 DEF handoff, Fifo!vars
  <2>2. ASSUME NEW r \in Recs, ReadRequest(r) PROVE [Fifo!Next]_(Fifo!vars)
    <3>1. Event(r, "in") /\ pending' = Append(pending, r) /\ UNCHANGED current
      BY <2>2 DEF ReadRequest, Reads
    <3>2. ~Busy(r)
      BY <3>1, EventOf
    <3>3. Fifo!Idle(r)
      BY <3>2 DEF Busy, InQueue, AtWork, Fifo!Idle
    <3>4. Fifo!Submit(r)
      BY <3>1, <3>3 DEF Fifo!Submit
    <3> QED  BY <3>4 DEF Fifo!Next
  <2>3. ASSUME NEW w \in Workers, Start(w) PROVE [Fifo!Next]_(Fifo!vars)
    <3>1. current[w] = NULL
      BY <2>3 DEF Start, WorkerGoto, IInv, ThreadInv
    <3>2. Fifo!Start(w)
      BY <2>3, <3>1 DEF Start, Fifo!Start
    <3> QED  BY <3>2 DEF Fifo!Next
  <2>4. ASSUME NEW w \in Workers, NEW from \in {"work", "rearm"}, Return(w, from)
        PROVE  [Fifo!Next]_(Fifo!vars)
    <3>1. current[w] # NULL
      BY <2>4 DEF Return, WorkerGoto, IInv, ThreadInv
    <3>2. Fifo!Finish(w)
      BY <2>4, <3>1 DEF Return, Fifo!Finish
    <3> QED  BY <3>2 DEF Fifo!Next
  <2>5. ASSUME NEW w \in Workers, WorkerStep(w) PROVE [Fifo!Next]_(Fifo!vars)
    <3>1. CASE Start(w)
      BY <2>3, <3>1
    <3>2. CASE Forgets(w) \/ Rearm(w) \/ \E u \in Fds, q \in Recs : Proxied(w, u, q)
      BY <2>4, <3>2 DEF Forgets, Rearm, Proxied
    <3>3. CASE Answer(w)
      BY <2>1, <3>3 DEF Answer
    <3> QED  BY <2>5, <3>1, <3>2, <3>3 DEF WorkerStep
  <2>6. ASSUME NEW r \in Recs,
               \/ Handshake(r) \/ ReadMore(r) \/ ReadFails(r)
               \/ Upstream(r) \/ UpstreamBreaks(r)
               \/ FlushWaits(r) \/ FlushFails(r) \/ FlushDone(r)
        PROVE  [Fifo!Next]_(Fifo!vars)
    <3>1. UNCHANGED handoff
      BY <2>6 DEF Handshake, ReadMore, ReadFails, Upstream, UpstreamBreaks, FlushWaits, FlushFails, FlushDone
    <3> QED  BY <2>1, <3>1
  <2>7. CASE Network \/ (\E f \in Fds, r \in Recs : Accept(f, r)) \/ EpollWait \/ CheckSize
    BY <2>1, <2>7 DEF Network, Accept, EpollWait, CheckSize
  <2>8. CASE UNCHANGED vars
    BY <2>1, <2>8 DEF vars
  <2> QED  BY <2>2, <2>5, <2>6, <2>7, <2>8 DEF Next, MainStep
<1> QED  BY Invariance, <1>1, <1>2, PTL DEF Spec, UsesFifo, Fifo!Spec

=============================================================================
