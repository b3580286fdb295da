-------------------------- MODULE RadioServerProofs --------------------------
(***************************************************************************)
(* Proofs about RadioServer, for any number of senders, slots, descriptors *)
(* and chunks.  Two arguments run through them.  The first is about the    *)
(* ring: slot c % Slots holds chunk c until the broadcaster has come round *)
(* to it again, so that remainders have to be reasoned about.  The second  *)
(* is about the lists: the node of a connection that has been closed stays *)
(* on its list for one step, under a number that a new connection may have *)
(* by then, so that everything is said of the live nodes only.             *)
(***************************************************************************)
EXTENDS RadioServer, SequenceTheorems, FiniteSetTheorems, TLAPS

-----------------------------------------------------------------------------
(* Remainders.  The prover knows % only as far as its definition goes. *)

(* r is what division by n leaves of a. *)
Rem(n, a, r) == r \in 0..n - 1 /\ \E q \in Int : a = n * q + r

(* There is one remainder only. *)
LEMMA OneRemainder ==
  ASSUME NEW n \in Nat \ {0}, NEW a \in Int, NEW r, NEW t, Rem(n, a, r), Rem(n, a, t)
  PROVE  r = t
<1>1. PICK q \in Int : a = n * q + r
  BY DEF Rem
<1>2. PICK p \in Int : a = n * p + t
  BY DEF Rem
<1>3. r \in 0..n - 1 /\ t \in 0..n - 1
  BY DEF Rem
<1>4. n * (q - p) = t - r
  BY <1>1, <1>2, <1>3
<1>5. CASE q - p >= 1
  <2>1. n * (q - p) >= n
    BY <1>5
  <2> QED  BY <2>1, <1>3, <1>4
<1>6. CASE q - p <= -1
  <2>1. n * (q - p) <= -n
    BY <1>6
  <2> QED  BY <2>1, <1>3, <1>4
<1> QED  BY <1>3, <1>4, <1>5, <1>6

(* % gives it. *)
LEMMA Remainder ==
  ASSUME NEW n \in Nat \ {0}, NEW a \in Int
  PROVE  /\ Rem(n, a, a % n) /\ a % n \in 0..n - 1
<1>1. a % n \in 0..n - 1 /\ a = n * (a \div n) + (a % n) /\ a \div n \in Int
  OBVIOUS
<1>2. Rem(n, a, a % n)
  BY <1>1 DEF Rem
<1> QED  BY <1>1, <1>2

(* What is left is what % says. *)
LEMMA RemainderIs ==
  ASSUME NEW n \in Nat \ {0}, NEW a \in Int, NEW r, Rem(n, a, r)
  PROVE  a % n = r
BY Remainder, OneRemainder

(* Numbers with the same remainder are whole rounds apart. *)
LEMMA SameRemainder ==
  ASSUME NEW n \in Nat \ {0}, NEW a \in Int, NEW b \in Int, a % n = b % n
  PROVE  (a - b) % n = 0
<1>1. PICK t : Rem(n, a, t) /\ Rem(n, b, t)
  BY Remainder
<1>2. PICK k \in Int : a = n * k + t
  BY <1>1 DEF Rem
<1>3. PICK l \in Int : b = n * l + t
  BY <1>1 DEF Rem
<1>4. PICK m \in Int : m = k - l
  OBVIOUS
<1>5. a - b = n * m + 0
  BY <1>1, <1>2, <1>3, <1>4 DEF Rem
<1>6. \E q \in Int : a - b = n * q + 0
  <2> WITNESS m \in Int
  <2> QED  BY <1>5
<1>7. 0 \in 0..n - 1 /\ a - b \in Int
  OBVIOUS
<1>8. Rem(n, a - b, 0)
  BY <1>6, <1>7, Zenon DEF Rem
<1> QED  BY <1>7, <1>8, RemainderIs

(* Numbers less than a round apart have different remainders. *)
LEMMA OtherRemainder ==
  ASSUME NEW n \in Nat \ {0}, NEW a \in Int, NEW b \in Int, b < a, a < b + n
  PROVE  a % n # b % n
<1> SUFFICES ASSUME a % n = b % n PROVE FALSE
  OBVIOUS
<1>1. (a - b) % n = 0
  BY SameRemainder
<1>2. a - b = n * 0 + (a - b) /\ a - b \in 0..n - 1
  OBVIOUS
<1>3. Rem(n, a - b, a - b)
  BY <1>2 DEF Rem
<1> QED  BY <1>1, <1>3, RemainderIs

(* Counting on round the ring is counting on. *)
LEMMA NextRemainder ==
  ASSUME NEW n \in Nat \ {0}, NEW a \in Int
  PROVE  ((a % n) + 1) % n = (a + 1) % n
<1>1. PICK t : t = a % n
  OBVIOUS
<1>2. PICK k \in Int : a = n * k + t /\ t \in 0..n - 1
  BY <1>1, Remainder DEF Rem
<1>3. CASE t = n - 1
  <2>1. PICK l \in Int : l = k + 1
    OBVIOUS
  <2>2. n = n * 1 + 0 /\ 0 \in 0..n - 1
    OBVIOUS
  <2>3. a + 1 = n * l + 0
    BY <1>2, <1>3, <2>1
  <2>4. Rem(n, n, 0) /\ Rem(n, a + 1, 0)
    BY <2>2, <2>3 DEF Rem
  <2> QED  BY <1>1, <1>2, <1>3, <2>4, RemainderIs
<1>4. CASE t # n - 1
  <2>1. t + 1 = n * 0 + (t + 1) /\ t + 1 \in 0..n - 1
    BY <1>2, <1>4
  <2>2. a + 1 = n * k + (t + 1)
    BY <1>2
  <2>3. Rem(n, t + 1, t + 1)
    <3>1. \E q \in Int : t + 1 = n * q + (t + 1)
      <4> WITNESS 0 \in Int
      <4> QED  BY <2>1
    <3> QED  BY <2>1, <3>1 DEF Rem
  <2>4. Rem(n, a + 1, t + 1)
    <3>1. \E q \in Int : a + 1 = n * q + (t + 1)
      <4> WITNESS k \in Int
      <4> QED  BY <2>2
    <3> QED  BY <2>1, <3>1 DEF Rem
  <2> QED  BY <1>1, <1>2, <2>3, <2>4, RemainderIs
<1> QED  BY <1>3, <1>4

-----------------------------------------------------------------------------
(* Lists. *)

(* Main puts a node at the head.                                             *)
LEMMA Pushed ==
  ASSUME NEW S, NEW q \in Seq(S), NEW x \in S
  PROVE  /\ <<x>> \o q \in Seq(S)
         /\ DOMAIN (<<x>> \o q) = 1..Len(q) + 1
         /\ (<<x>> \o q)[1] = x
         /\ \A i \in 1..Len(q) : (<<x>> \o q)[i + 1] = q[i]
<1>1. /\ <<x>> \in Seq(S) /\ Len(<<x>>) = 1 /\ <<x>>[1] = x /\ Len(q) \in Nat
  BY LenProperties
<1>2. /\ <<x>> \o q \in Seq(S) /\ Len(<<x>> \o q) = 1 + Len(q)
      /\ \A i \in 1..(1 + Len(q)) : (<<x>> \o q)[i] = IF i <= 1 THEN <<x>>[i] ELSE q[i - 1]
  BY <1>1, ConcatProperties
<1>3. DOMAIN (<<x>> \o q) = 1..Len(q) + 1
  BY <1>1, <1>2, LenProperties
<1>4. \A i \in 1..Len(q) : i + 1 \in 1..(1 + Len(q)) /\ ~(i + 1 <= 1) /\ i + 1 - 1 = i
  BY <1>1
<1> QED  BY <1>1, <1>2, <1>3, <1>4

(* A sender takes one out. *)
LEMMA Removed ==
  ASSUME NEW S, NEW q \in Seq(S), NEW k \in DOMAIN q
  PROVE  /\ Without(q, k) \in Seq(S)
         /\ DOMAIN Without(q, k) = 1..Len(q) - 1
         /\ \A i \in 1..k - 1 : Without(q, k)[i] = q[i]
         /\ \A i \in k..Len(q) - 1 : Without(q, k)[i] = q[i + 1]
<1>1. Len(q) \in Nat /\ k \in 1..Len(q) /\ \A i \in 1..Len(q) : q[i] \in S
  BY LenProperties, ElementOfSeq
<1> DEFINE a == SubSeq(q, 1, k - 1)
           b == SubSeq(q, k + 1, Len(q))
<1>2. a \in Seq(S) /\ Len(a) = k - 1 /\ \A i \in 1..k - 1 : a[i] = q[i]
  BY <1>1, SubSeqProperties
<1>3. b \in Seq(S) /\ Len(b) = Len(q) - k /\ \A i \in 1..Len(q) - k : b[i] = q[k + i]
  <2>1. \A i \in (k + 1)..Len(q) : q[i] \in S
    BY <1>1
  <2>2. \A i \in 1..Len(q) - k : i \in 1..(Len(q) - (k + 1) + 1) /\ k + 1 + i - 1 = k + i
    BY <1>1
  <2> QED  BY <1>1, <2>1, <2>2, SubSeqProperties
<1> HIDE DEF a, b
<1>4. /\ a \o b \in Seq(S) /\ Len(a \o b) = Len(a) + Len(b)
      /\ \A i \in 1..(Len(a) + Len(b)) : (a \o b)[i] = IF i <= Len(a) THEN a[i] ELSE b[i - Len(a)]
  BY <1>2, <1>3, ConcatProperties
<1>5. DOMAIN (a \o b) = 1..Len(q) - 1
  BY <1>1, <1>2, <1>3, <1>4, LenProperties, SMTT(30)
<1>6. \A i \in 1..k - 1 : (a \o b)[i] = q[i]
  BY <1>1, <1>2, <1>3, <1>4, SMTT(30)
<1>7. \A i \in k..Len(q) - 1 : (a \o b)[i] = q[i + 1]
  <2>1. ASSUME NEW i \in k..Len(q) - 1
        PROVE  i \in 1..(Len(a) + Len(b)) /\ ~(i <= Len(a)) /\ i - Len(a) = i - k + 1
               /\ i - k + 1 \in 1..Len(q) - k /\ k + (i - k + 1) = i + 1
    BY <1>1, <1>2, <1>3
  <2> QED  BY <1>3, <1>4, <2>1, SMTT(30)
<1> QED  BY <1>4, <1>5, <1>6, <1>7 DEF Without, a, b

-----------------------------------------------------------------------------
(* The invariant. *)

OnList(s) == spc[s] \in {"visit", "payload", "trailer", "close", "unlink"}

(* Who holds g_buffer_mutex, and who sleeps.                                 *)
BufferLockInv ==
  /\ bmutex = Broadcaster <=> bpc \in {"advance", "copy", "copied", "unlock"}
  /\ \A s \in Senders : bmutex = s <=> spc[s] = "test"
  /\ \A s \in Senders : s \in waiting <=> spc[s] = "wait"

(* Who holds the mutex of a list.                                            *)
ListLockInv ==
  \A s \in Senders : /\ lmutex[s] = s <=> OnList(s)
                     /\ lmutex[s] = Main <=> mpc = "insert" /\ turn = s

(* What main has in hand.                                                    *)
HandInv ==
  /\ mfd = NULL <=> mpc = "epoll"
  /\ \A f \in Fds : conn[f] = "main" <=> mfd = f

(* The slot of a chunk. *)
Place(c) == c % Slots

(* The ring holds the last chunks, each in its slot.  While one is being     *)
(* stored, its slot is nobody's.                                             *)
RingInv ==
  /\ bpc \in {"lock", "advance"} => written < LastChunk
  /\ widx = Place(written)
  /\ \A c \in Chunks :
       /\ c <= written /\ written < c + Slots
       /\ c = written => bpc \notin {"copy", "copied"}
       => slot[Place(c)] = c /\ size[Place(c)] = c

(* What a sender has sampled is a chunk, with the slot that was its slot; it *)
(* cannot have sampled the one that is being stored.                         *)
SampleInv ==
  \A s \in Senders :
    /\ csize[s] <= written
    /\ bpc \in {"copy", "copied"} => csize[s] < written
    /\ last[s] # -1 => last[s] = Place(csize[s])
    /\ Walking(s) \/ spc[s] = "wait" => last[s] # -1

(* A node, unless its connection has just been closed.                       *)
Live(s, i) == i \in DOMAIN list[s] /\ ~(spc[s] = "unlink" /\ i = curr[s])

(* The live nodes are the listed connections, one node for each.             *)
ListInv ==
  /\ \A s \in Senders : \A i \in Nat : Live(s, i) => conn[list[s][i]] = "listed"
  /\ \A s, t \in Senders : \A i, j \in Nat :
       Live(s, i) /\ Live(t, j) /\ list[s][i] = list[t][j] => s = t /\ i = j
  /\ \A f \in Fds : conn[f] = "listed" =>
       \E s \in Senders, i \in Nat : Live(s, i) /\ list[s][i] = f
  /\ \A s \in Senders : OnList(s) /\ spc[s] # "visit" => curr[s] \in DOMAIN list[s]
  /\ \A s \in Senders : ~OnList(s) => curr[s] = 1

(* A node that the sender has still to come to, with the chunk sampled.      *)
Ahead(s, i) ==
  \/ spc[s] \in {"list", "visit"} /\ i >= curr[s]
  \/ spc[s] \in {"payload", "trailer", "close", "unlink"} /\ i > curr[s]

(* What a listener has heard is no newer than what its sender has sampled,   *)
(* and older if the sender has still to come to it.                          *)
HeardInv ==
  /\ \A f \in Fds : conn[f] # "listed" => heard[f] = -1
  /\ \A s \in Senders : \A i \in Nat : Live(s, i) =>
       /\ heard[list[s][i]] <= csize[s]
       /\ last[s] = -1 => heard[list[s][i]] = -1
       /\ Ahead(s, i) => heard[list[s][i]] < csize[s]

IInv == /\ TypeOK /\ BufferLockInv /\ ListLockInv /\ HandInv
        /\ RingInv /\ SampleInv /\ SleepersAreCurrent
        /\ ListInv /\ HeardInv

(* The constants, as the steps need them. *)
LEMMA Constants ==
  /\ Slots \in Nat \ {0} /\ NumSenders \in Nat \ {0} /\ LastChunk \in Nat
  /\ 0 \in 0..Slots - 1 /\ 0 \in Senders
  /\ NULL \notin Senders /\ NULL # Main /\ NULL # Broadcaster /\ NULL \notin Fds
  /\ Main \notin Senders /\ Broadcaster \notin Senders
BY RadioAssumption DEF Senders

(* Successive chunks go to successive slots, and a slot is used again a      *)
(* round later.                                                              *)
LEMMA RingPlaces ==
  /\ Place(0) = 0
  /\ \A c \in Nat : Place(c) \in 0..Slots - 1 /\ (Place(c) + 1) % Slots = Place(c + 1)
  /\ \A c, d \in Nat : c < d /\ d < c + Slots => Place(c) # Place(d)
  /\ \A c, d \in Nat : Place(c) = Place(d) => (d - c) % Slots = 0
<1>1. 0 = Slots * 0 + 0 /\ 0 \in 0..Slots - 1
  BY Constants
<1>2. \E q \in Int : 0 = Slots * q + 0
  <2> WITNESS 0 \in Int
  <2> QED  BY <1>1
<1>3. Rem(Slots, 0, 0)
  BY <1>1, <1>2, Zenon DEF Rem
<1>4. Place(0) = 0
  BY <1>3, Constants, RemainderIs DEF Place
<1>5. Slots \in Nat \ {0} /\ \A c \in Nat : c \in Int
  BY Constants
<1>6. ASSUME NEW c \in Nat PROVE Place(c) \in 0..Slots - 1 /\ (Place(c) + 1) % Slots = Place(c + 1)
  BY <1>5, Remainder, NextRemainder, Zenon DEF Place
<1>7. ASSUME NEW c \in Nat, NEW d \in Nat, c < d, d < c + Slots PROVE Place(c) # Place(d)
  BY <1>5, <1>7, OtherRemainder, Zenon DEF Place
<1>8. ASSUME NEW c \in Nat, NEW d \in Nat, Place(c) = Place(d) PROVE (d - c) % Slots = 0
  BY <1>5, <1>8, SameRemainder, Zenon DEF Place
<1> QED  BY <1>4, <1>6, <1>7, <1>8

(* At the start every thread is at the top of its loop, and every list empty. *)
LEMMA InitInv == Init => IInv
<1> SUFFICES ASSUME Init PROVE IInv
  OBVIOUS
<1>1. <<>> \in Seq(Fds) /\ DOMAIN <<>> = {}
  BY EmptySeq
<1>2. RingTypes /\ MainTypes
  BY Constants DEF Init, RingTypes, MainTypes, Chunks, BroadcastPc, MainPc
<1>3. SenderTypes
  BY <1>1, Constants DEF Init, SenderTypes, Chunks, SenderPc
<1>4. BufferLockInv /\ ListLockInv /\ HandInv
  BY Constants DEF Init, BufferLockInv, ListLockInv, HandInv, OnList
<1>5. SampleInv /\ SleepersAreCurrent
  BY Constants DEF Init, SampleInv, SleepersAreCurrent, Walking
<1>6. RingInv
  <2>1. ASSUME NEW c \in Chunks, c <= written PROVE slot[Place(c)] = c /\ size[Place(c)] = c
    <3>1. c = 0
      BY <2>1, Constants DEF Init, Chunks
    <3> QED  BY <3>1, Constants, RingPlaces DEF Init
  <2> QED  BY <2>1, Constants, RingPlaces DEF Init, RingInv
<1>7. ListInv /\ HeardInv
  BY <1>1 DEF Init, ListInv, HeardInv, Live, OnList
<1> QED  BY <1>2, <1>3, <1>4, <1>5, <1>6, <1>7 DEF IInv, TypeOK

(* The node that a sender is at, and its connection.                         *)
LEMMA VisitedNode ==
  ASSUME IInv, NEW s \in Senders, OnList(s), spc[s] # "visit" \/ ~AtEnd(s)
  PROVE  /\ curr[s] \in DOMAIN list[s] /\ Visiting(s) \in Fds
         /\ spc[s] # "unlink" => Live(s, curr[s]) /\ conn[Visiting(s)] = "listed"
<1>1. list[s] \in Seq(Fds) /\ curr[s] \in Nat \ {0}
  BY DEF IInv, TypeOK, SenderTypes
<1>2. Len(list[s]) \in Nat /\ DOMAIN list[s] = 1..Len(list[s])
  BY <1>1, LenProperties
<1>3. curr[s] \in DOMAIN list[s]
  BY <1>1, <1>2 DEF IInv, ListInv, AtEnd
<1>4. Visiting(s) \in Fds
  BY <1>1, <1>2, <1>3, ElementOfSeq DEF Visiting
<1> QED  BY <1>1, <1>3, <1>4 DEF IInv, ListInv, Live, Visiting

(* The broadcaster's next slot is a slot.                                    *)
LEMMA NextSlot ==
  ASSUME RingTypes
  PROVE  (widx + 1) % Slots \in 0..Slots - 1
<1>1. Slots \in Nat \ {0} /\ widx \in 0..Slots - 1
  BY Constants DEF RingTypes
<1>2. widx + 1 \in Int
  BY <1>1
<1> QED  BY <1>1, <1>2, Remainder, Zenon

-----------------------------------------------------------------------------
(* The types of the ring.                                                    *)
LEMMA RingTyped ==
  ASSUME IInv, [Next]_vars
  PROVE  RingTypes'
<1> USE Constants DEF IInv, TypeOK, RingTypes, BroadcastPc
<1> USE DEF ring, producer, sampled, mainvars, stream, sync, walk, outside
<1>1. CASE BroadcastStep
  <2>1. CASE ReadChunk \/ LockBuffer \/ UnlockBuffer \/ CopyBegins \/ CopyEnds \/ Broadcast
    BY <2>1 DEF ReadChunk, LockBuffer, UnlockBuffer, CopyBegins, CopyEnds, Broadcast, BroadcastGoto
  <2>2. CASE Advance
    <3>1. (widx + 1) % Slots \in 0..Slots - 1
      BY NextSlot
    <3> QED  BY <2>2, <3>1, SMTT(30) DEF Advance, BroadcastGoto, Chunks, RingInv
  <2> QED  BY <1>1, <2>1, <2>2 DEF BroadcastStep
<1>2. ASSUME NEW s \in Senders, SenderStep(s) \/ SpuriousWakeup(s) PROVE RingTypes'
  BY <1>2 DEF SenderStep, SpuriousWakeup, SenderLock, SenderWait, Sample, SenderLockList, SendHeader,
      SendPayload, SendTrailer, CloseListener, Unlink, SenderUnlockList
<1>3. ASSUME NEW f \in Fds, Accept(f) \/ HangUp(f) \/ Request(f) PROVE RingTypes'
  BY <1>3 DEF Accept, HangUp, Request
<1>4. CASE MainStep
  BY <1>4 DEF MainStep, Respond, RespondFails, MainLockList, Insert
<1>5. CASE UNCHANGED vars
  BY <1>5 DEF vars
<1> QED  BY <1>1, <1>2, <1>3, <1>4, <1>5 DEF Next

(* The types of what the senders keep.                                       *)
LEMMA SenderTyped ==
  ASSUME IInv, [Next]_vars
  PROVE  SenderTypes'
<1> USE Constants DEF IInv, TypeOK, SenderTypes, SenderPc
<1> USE DEF ring, producer, sampled, mainvars, stream, sync, walk, outside
<1>1. CASE BroadcastStep
  BY <1>1 DEF BroadcastStep, ReadChunk, LockBuffer, Advance, UnlockBuffer, CopyBegins, CopyEnds, Broadcast
<1>2. ASSUME NEW s \in Senders, SenderStep(s) \/ SpuriousWakeup(s) PROVE SenderTypes'
  <2>1. CASE SenderLock(s) \/ SenderWait(s) \/ SpuriousWakeup(s)
    BY <2>1 DEF SenderLock, SenderWait, SpuriousWakeup, SenderGoto
  <2>2. CASE Sample(s)
    BY <2>2, SMTT(30) DEF Sample, SenderGoto, RingTypes
  <2>3. CASE SenderLockList(s)
    BY <2>3 DEF SenderLockList, SenderGoto
  <2>4. ASSUME spc' \in [Senders -> SenderPc], curr' \in [Senders -> Nat \ {0}],
               lmutex' \in [Senders -> Senders \cup {Main, NULL}],
               UNCHANGED <<last, csize, list>>
        PROVE  SenderTypes'
    BY <2>4
  <2>11. Advances(s) => curr' \in [Senders -> Nat \ {0}]
    BY DEF Advances
  <2>12. \A from, to : SenderGoto(s, from, to) /\ to \in SenderPc => spc' \in [Senders -> SenderPc]
    BY DEF SenderGoto
  <2>6. CASE SendHeader(s)
    BY <2>4, <2>6, <2>11, <2>12 DEF SendHeader
  <2>7. CASE SendPayload(s)
    BY <2>4, <2>7, <2>11, <2>12 DEF SendPayload
  <2>8. CASE SendTrailer(s)
    BY <2>4, <2>8, <2>11, <2>12 DEF SendTrailer
  <2>9. CASE CloseListener(s)
    BY <2>4, <2>9 DEF CloseListener, SenderGoto
  <2>10. CASE SenderUnlockList(s)
    BY <2>4, <2>10 DEF SenderUnlockList, SenderGoto
  <2>5. CASE Unlink(s)
    <3>1. Without(list[s], curr[s]) \in Seq(Fds)
      BY <2>5, Removed DEF Unlink, SenderGoto, ListInv, OnList
    <3> QED  BY <2>5, <3>1 DEF Unlink, SenderGoto
  <2> QED  BY <1>2, <2>1, <2>2, <2>3, <2>5, <2>6, <2>7, <2>8, <2>9, <2>10 DEF SenderStep
<1>3. ASSUME NEW f \in Fds, Accept(f) \/ HangUp(f) \/ Request(f) PROVE SenderTypes'
  BY <1>3 DEF Accept, HangUp, Request
<1>4. CASE MainStep
  <2>1. CASE Respond \/ RespondFails \/ MainLockList
    BY <2>1 DEF Respond, RespondFails, MainLockList, MainTypes
  <2>2. CASE Insert
    <3>1. mfd \in Fds
      BY <2>2 DEF Insert, HandInv, MainTypes
    <3>2. <<mfd>> \o list[turn] \in Seq(Fds)
      BY <3>1, Pushed DEF MainTypes
    <3> QED  BY <2>2, <3>2 DEF Insert, MainTypes
  <2> QED  BY <1>4, <2>1, <2>2 DEF MainStep
<1>5. CASE UNCHANGED vars
  BY <1>5 DEF vars
<1> QED  BY <1>1, <1>2, <1>3, <1>4, <1>5 DEF Next

(* The types of what main keeps, and of the connections.                     *)
LEMMA MainTyped ==
  ASSUME IInv, [Next]_vars
  PROVE  MainTypes'
<1> USE Constants DEF IInv, TypeOK, MainTypes, MainPc
<1> USE DEF ring, producer, sampled, mainvars, stream, sync, walk, outside
<1>1. CASE BroadcastStep
  BY <1>1 DEF BroadcastStep, ReadChunk, LockBuffer, Advance, UnlockBuffer, CopyBegins, CopyEnds, Broadcast
<1>2. ASSUME NEW s \in Senders, SenderStep(s) \/ SpuriousWakeup(s) PROVE MainTypes'
  BY <1>2 DEF SenderStep, SpuriousWakeup, SenderLock, SenderWait, Sample, SenderLockList, SendHeader,
      SendPayload, SendTrailer, CloseListener, Closed, Unlink, SenderUnlockList, SenderTypes
<1>3. ASSUME NEW f \in Fds, Accept(f) \/ HangUp(f) \/ Request(f) PROVE MainTypes'
  BY <1>3 DEF Accept, HangUp, Request
<1>4. CASE MainStep
  <2>1. CASE Respond \/ RespondFails \/ MainLockList
    BY <2>1 DEF Respond, RespondFails, MainLockList
  <2>2. CASE Insert
    <3>1. (turn + 1) % NumSenders \in Senders
      BY Remainder DEF Senders
    <3> QED  BY <2>2, <3>1 DEF Insert
  <2> QED  BY <1>4, <2>1, <2>2 DEF MainStep
<1>5. CASE UNCHANGED vars
  BY <1>5 DEF vars
<1> QED  BY <1>1, <1>2, <1>3, <1>4, <1>5 DEF Next

-----------------------------------------------------------------------------
(* g_buffer_mutex has the holder that its guards say, and the sleepers are   *)
(* those who wait.                                                           *)
LEMMA BufferLocked ==
  ASSUME IInv, [Next]_vars
  PROVE  BufferLockInv'
<1> USE Constants DEF IInv, TypeOK, BufferLockInv
<1> USE DEF ring, producer, sampled, mainvars, stream, sync, walk, outside
<1>1. CASE BroadcastStep
  <2>1. CASE ReadChunk \/ LockBuffer \/ UnlockBuffer \/ Advance \/ CopyBegins \/ CopyEnds
    BY <2>1 DEF ReadChunk, LockBuffer, UnlockBuffer, Advance, CopyBegins, CopyEnds, BroadcastGoto
  <2>2. CASE Broadcast
    BY <2>2 DEF Broadcast, BroadcastGoto, SenderTypes, RingTypes
  <2> QED  BY <1>1, <2>1, <2>2 DEF BroadcastStep
<1>2. ASSUME NEW s \in Senders, SenderStep(s) \/ SpuriousWakeup(s) PROVE BufferLockInv'
  <2> USE DEF SenderTypes, SenderGoto
  <2>1. CASE SenderLock(s)
    BY <2>1 DEF SenderLock
  <2>2. CASE SenderWait(s) \/ SpuriousWakeup(s)
    BY <2>2, ZenonT(30) DEF SenderWait, SpuriousWakeup
  <2>3. CASE Sample(s)
    BY <2>3 DEF Sample
  <2>4. CASE SenderLockList(s) \/ SenderUnlockList(s) \/ CloseListener(s) \/ Unlink(s)
    BY <2>4, SMTT(30) DEF SenderLockList, SenderUnlockList, CloseListener, Unlink
  <2>5. CASE SendHeader(s) \/ SendPayload(s) \/ SendTrailer(s)
    BY <2>5, SMTT(30) DEF SendHeader, SendPayload, SendTrailer
  <2> QED  BY <1>2, <2>1, <2>2, <2>3, <2>4, <2>5 DEF SenderStep
<1>3. ASSUME NEW f \in Fds, Accept(f) \/ HangUp(f) \/ Request(f) PROVE BufferLockInv'
  BY <1>3 DEF Accept, HangUp, Request
<1>4. CASE MainStep
  BY <1>4 DEF MainStep, Respond, RespondFails, MainLockList, Insert
<1>5. CASE UNCHANGED vars
  BY <1>5 DEF vars
<1> QED  BY <1>1, <1>2, <1>3, <1>4, <1>5 DEF Next

(* So has the mutex of a list.                                               *)
LEMMA ListLocked ==
  ASSUME IInv, [Next]_vars
  PROVE  ListLockInv'
<1> USE Constants DEF IInv, TypeOK, ListLockInv, OnList
<1> USE DEF ring, producer, sampled, mainvars, stream, sync, walk, outside
<1>1. CASE BroadcastStep
  <2>1. CASE ReadChunk \/ LockBuffer \/ UnlockBuffer \/ Advance \/ CopyBegins \/ CopyEnds
    BY <2>1 DEF ReadChunk, LockBuffer, UnlockBuffer, Advance, CopyBegins, CopyEnds, BroadcastGoto
  <2>2. CASE Broadcast
    BY <2>2 DEF Broadcast, BroadcastGoto, SenderTypes, BufferLockInv
  <2> QED  BY <1>1, <2>1, <2>2 DEF BroadcastStep
<1>2. ASSUME NEW s \in Senders, SenderStep(s) \/ SpuriousWakeup(s) PROVE ListLockInv'
  <2> USE DEF SenderTypes, SenderGoto
  <2>1. CASE SenderLock(s)
    BY <2>1, ZenonT(30) DEF SenderLock
  <2>2. CASE SenderWait(s)
    BY <2>2 DEF SenderWait
  <2>7. CASE SpuriousWakeup(s)
    BY <2>7 DEF SpuriousWakeup
  <2>6. CASE Sample(s)
    BY <2>6 DEF Sample
  <2>3. CASE SenderLockList(s)
    BY <2>3 DEF SenderLockList
  <2>8. CASE SenderUnlockList(s)
    BY <2>8 DEF SenderUnlockList
  <2>4. CASE CloseListener(s)
    BY <2>4 DEF CloseListener
  <2>9. CASE Unlink(s)
    BY <2>9 DEF Unlink
  <2>5. CASE SendHeader(s) \/ SendPayload(s) \/ SendTrailer(s)
    BY <2>5 DEF SendHeader, SendPayload, SendTrailer
  <2> QED  BY <1>2, <2>1, <2>2, <2>3, <2>4, <2>5, <2>6, <2>7, <2>8, <2>9 DEF SenderStep
<1>3. ASSUME NEW f \in Fds, Accept(f) \/ HangUp(f) \/ Request(f) PROVE ListLockInv'
  BY <1>3 DEF Accept, HangUp, Request
<1>4. CASE MainStep
  BY <1>4 DEF MainStep, Respond, RespondFails, MainLockList, Insert, SenderTypes, MainTypes
<1>5. CASE UNCHANGED vars
  BY <1>5 DEF vars
<1> QED  BY <1>1, <1>2, <1>3, <1>4, <1>5 DEF Next

(* A connection is with main as long as main has its number.                 *)
LEMMA InHand ==
  ASSUME IInv, [Next]_vars
  PROVE  HandInv'
<1> USE Constants DEF IInv, TypeOK, HandInv
<1> USE DEF ring, producer, sampled, mainvars, stream, sync, walk, outside
<1>1. CASE BroadcastStep
  BY <1>1 DEF BroadcastStep, ReadChunk, LockBuffer, Advance, UnlockBuffer, CopyBegins, CopyEnds, Broadcast
<1>2. ASSUME NEW s \in Senders, SenderStep(s) \/ SpuriousWakeup(s) PROVE HandInv'
  <2>1. CASE CloseListener(s)
    BY <2>1, VisitedNode DEF CloseListener, Closed, SenderGoto, MainTypes, OnList
  <2>2. CASE UNCHANGED <<mpc, mfd, conn>>
    BY <2>2
  <2> QED  BY <1>2, <2>1, <2>2 DEF SenderStep, SpuriousWakeup, SenderLock, SenderWait, Sample,
        SenderLockList, SendHeader, SendPayload, SendTrailer, Unlink, SenderUnlockList
<1>3. ASSUME NEW f \in Fds, Accept(f) \/ HangUp(f) \/ Request(f) PROVE HandInv'
  BY <1>3 DEF Accept, HangUp, Request, MainTypes
<1>4. CASE MainStep
  BY <1>4 DEF MainStep, Respond, RespondFails, MainLockList, Insert, MainTypes
<1>5. CASE UNCHANGED vars
  BY <1>5 DEF vars
<1> QED  BY <1>1, <1>2, <1>3, <1>4, <1>5 DEF Next

-----------------------------------------------------------------------------
(* memcpy touches one slot, which no other chunk that still counts has.      *)
LEMMA Stored ==
  ASSUME RingTypes, RingInv, bpc \in {"copy", "copied"}, UNCHANGED <<written, widx>>,
         NEW x, slot' = [slot EXCEPT ![widx] = x],
         \/ bpc' = "copied" /\ size' = size
         \/ bpc' = "unlock" /\ size' = [size EXCEPT ![widx] = x] /\ x = written
  PROVE  RingInv'
<1>1. written \in Nat /\ widx = Place(written) /\ widx \in 0..Slots - 1
  BY Constants DEF RingTypes, Chunks, RingInv
<1>2. /\ \A i \in 0..Slots - 1 : i # widx => slot'[i] = slot[i] /\ size'[i] = size[i]
      /\ bpc' = "unlock" => slot'[widx] = written /\ size'[widx] = written
  BY <1>1 DEF RingTypes
<1>3. ASSUME NEW c \in Chunks, c < written, written < c + Slots
      PROVE  slot'[Place(c)] = c /\ size'[Place(c)] = c
  <2>3. c \in Nat
    BY <1>3, Constants DEF Chunks
  <2>1. c \in Nat /\ Place(c) \in 0..Slots - 1 /\ Place(c) # widx
    BY <1>1, <1>3, <2>3, RingPlaces, Zenon
  <2>2. slot[Place(c)] = c /\ size[Place(c)] = c
    BY <1>1, <1>3, <2>1 DEF RingInv
  <2> QED  BY <1>2, <2>1, <2>2
<1>4. ASSUME NEW c \in Chunks, c <= written, c # written PROVE c < written
  BY <1>1, <1>4, Constants DEF Chunks
<1> QED  BY <1>1, <1>2, <1>3, <1>4 DEF RingInv

(* Each slot is stored into under the mutex, when its last chunk is a whole  *)
(* round old.                                                                *)
LEMMA RingKept ==
  ASSUME IInv, [Next]_vars
  PROVE  RingInv'
<1> USE Constants DEF IInv, TypeOK, RingTypes, RingInv
<1> USE DEF ring, producer, sampled, mainvars, stream, sync, walk, outside
<1>6. ASSUME UNCHANGED producer PROVE RingInv'
  BY <1>6
<1>1. CASE BroadcastStep
  <2>1. CASE ReadChunk \/ LockBuffer \/ UnlockBuffer \/ Broadcast
    BY <2>1 DEF ReadChunk, LockBuffer, UnlockBuffer, Broadcast, BroadcastGoto
  <2>2. CASE Advance
    <3>1. written' = written + 1 /\ widx' = (widx + 1) % Slots /\ written \in Nat
          /\ bpc = "advance" /\ bpc' = "copy" /\ UNCHANGED <<slot, size>>
      BY <2>2 DEF Advance, BroadcastGoto, Chunks
    <3>2. widx' = Place(written')
      BY <3>1, RingPlaces
    <3>3. ASSUME NEW c \in Chunks, c <= written', written' < c + Slots, c # written'
          PROVE  slot[Place(c)] = c /\ size[Place(c)] = c
      BY <3>1, <3>3, SMTT(30) DEF Chunks
    <3> QED  BY <3>1, <3>2, <3>3
  <2>4. CASE CopyBegins \/ CopyEnds
    BY <2>4, Stored DEF CopyBegins, CopyEnds, BroadcastGoto
  <2> QED  BY <1>1, <2>1, <2>2, <2>4 DEF BroadcastStep
<1> HIDE DEF RingInv
<1>2. ASSUME NEW s \in Senders, SenderStep(s) \/ SpuriousWakeup(s) PROVE RingInv'
  BY <1>2, <1>6 DEF SenderStep, SpuriousWakeup, SenderLock, SenderWait, Sample, SenderLockList, SendHeader,
      SendPayload, SendTrailer, CloseListener, Unlink, SenderUnlockList
<1>3. ASSUME NEW f \in Fds, Accept(f) \/ HangUp(f) \/ Request(f) PROVE RingInv'
  BY <1>3, <1>6 DEF Accept, HangUp, Request
<1>4. CASE MainStep
  BY <1>4, <1>6 DEF MainStep, Respond, RespondFails, MainLockList, Insert
<1>5. CASE UNCHANGED vars
  BY <1>5, <1>6 DEF vars
<1> QED  BY <1>1, <1>2, <1>3, <1>4, <1>5 DEF Next

(* What the senders have sampled stays what was in the slot.                 *)
LEMMA SampleKept ==
  ASSUME IInv, [Next]_vars
  PROVE  SampleInv'
<1> USE Constants DEF IInv, TypeOK
<1> USE DEF ring, producer, sampled, mainvars, stream, sync, walk, outside
<1>1. written \in Nat /\ \A s \in Senders : csize[s] \in Nat
  BY DEF RingTypes, SenderTypes, Chunks
<1>2. ASSUME UNCHANGED <<sampled, written>>,
             bpc' \in {"copy", "copied"} => bpc \in {"copy", "copied"},
             NEW s \in Senders,
             Walking(s)' \/ spc'[s] = "wait" => Walking(s) \/ spc[s] = "wait" \/ last[s] # -1,
             \A t \in Senders \ {s} : spc'[t] = spc[t]
      PROVE  SampleInv'
  BY <1>2 DEF SampleInv, Walking
<1>3. CASE BroadcastStep
  <2>1. CASE Advance
    BY <1>1, <2>1 DEF Advance, BroadcastGoto, SampleInv, Walking
  <2>2. CASE Broadcast
    BY <2>2 DEF Broadcast, BroadcastGoto, SampleInv, Walking, SenderTypes, BufferLockInv
  <2>3. CASE ReadChunk \/ LockBuffer \/ UnlockBuffer \/ CopyBegins \/ CopyEnds
    BY <2>3 DEF ReadChunk, LockBuffer, UnlockBuffer, CopyBegins, CopyEnds, BroadcastGoto,
       SampleInv, Walking
  <2> QED  BY <1>3, <2>1, <2>2, <2>3 DEF BroadcastStep
<1>4. ASSUME NEW s \in Senders, SenderStep(s) \/ SpuriousWakeup(s) PROVE SampleInv'
  <2>1. ASSUME NEW from, NEW to, SenderGoto(s, from, to),
               to \notin {"list", "visit", "payload", "trailer", "close", "unlink"},
               to = "wait" => last[s] # -1, UNCHANGED <<sampled, written, bpc>>
        PROVE  SampleInv'
    BY <1>2, <2>1 DEF SenderGoto, Walking, SenderTypes
  <2>2. ASSUME NEW from, NEW to, SenderGoto(s, from, to),
               from \in {"list", "visit", "payload", "trailer", "close", "unlink"},
               UNCHANGED <<sampled, written, bpc>>
        PROVE  SampleInv'
    BY <1>2, <2>2 DEF SenderGoto, Walking, SenderTypes
  <2>3. CASE SenderLock(s) \/ SpuriousWakeup(s)
    BY <2>1, <2>3 DEF SenderLock, SpuriousWakeup
  <2>4. CASE SenderWait(s)
    BY <2>1, <2>4 DEF SenderWait, RingTypes
  <2>5. CASE Sample(s)
    <3>1. /\ last' = [last EXCEPT ![s] = widx] /\ csize' = [csize EXCEPT ![s] = size[widx]]
          /\ spc' = [spc EXCEPT ![s] = "list"] /\ bmutex = s
          /\ UNCHANGED <<written, bpc>>
      BY <2>5 DEF Sample, SenderGoto, BufferLockInv
    <3>2. bpc \notin {"copy", "copied"}
      BY <3>1 DEF BufferLockInv
    <3>3. size[widx] = written /\ widx = Place(written) /\ widx # -1
      BY <1>1, <3>2 DEF RingInv, RingTypes
    <3> QED  BY <1>1, <3>1, <3>2, <3>3 DEF SampleInv, Walking, SenderTypes
  <2>6. CASE SenderLockList(s) \/ SendPayload(s) \/ SendTrailer(s) \/ CloseListener(s) \/ Unlink(s)
    BY <2>2, <2>6 DEF SenderLockList, SendPayload, SendTrailer, CloseListener, Unlink
  <2>7. CASE SenderUnlockList(s)
    BY <2>2, <2>7 DEF SenderUnlockList
  <2>8. CASE SendHeader(s)
    BY <1>2, <2>2, <2>8 DEF SendHeader, Walking
  <2> QED  BY <1>4, <2>3, <2>4, <2>5, <2>6, <2>7, <2>8 DEF SenderStep
<1>5. ASSUME UNCHANGED <<sampled, written, bpc, spc>> PROVE SampleInv'
  BY <1>5 DEF SampleInv, Walking
<1>6. ASSUME NEW f \in Fds, Accept(f) \/ HangUp(f) \/ Request(f) PROVE SampleInv'
  BY <1>5, <1>6 DEF Accept, HangUp, Request
<1>7. CASE MainStep
  BY <1>5, <1>7 DEF MainStep, Respond, RespondFails, MainLockList, Insert
<1>8. CASE UNCHANGED vars
  BY <1>5, <1>8 DEF vars
<1> QED  BY <1>3, <1>4, <1>6, <1>7, <1>8 DEF Next

(* A sender goes to sleep on the newest chunk, or whole rounds behind it,    *)
(* and every broadcast wakes it up.                                          *)
LEMMA SleepersKept ==
  ASSUME IInv, [Next]_vars
  PROVE  SleepersAreCurrent'
<1> USE Constants DEF IInv, TypeOK
<1> USE DEF ring, producer, sampled, mainvars, stream, sync, walk, outside
<1>1. ASSUME UNCHANGED <<written, csize>>, waiting' \subseteq waiting,
             bpc' \in {"read", "lock", "advance"} => bpc \in {"read", "lock", "advance"}
      PROVE  SleepersAreCurrent'
  BY <1>1 DEF SleepersAreCurrent
<1>2. CASE BroadcastStep
  <2>1. CASE Broadcast
    BY <2>1 DEF Broadcast, SleepersAreCurrent
  <2>2. CASE Advance
    BY <2>2 DEF Advance, BroadcastGoto, SleepersAreCurrent
  <2>3. CASE ReadChunk \/ LockBuffer \/ UnlockBuffer \/ CopyBegins \/ CopyEnds
    BY <1>1, <2>3 DEF ReadChunk, LockBuffer, UnlockBuffer, CopyBegins, CopyEnds, BroadcastGoto
  <2> QED  BY <1>2, <2>1, <2>2, <2>3 DEF BroadcastStep
<1>3. ASSUME NEW s \in Senders, SenderStep(s) \/ SpuriousWakeup(s) PROVE SleepersAreCurrent'
  <2>1. CASE SenderWait(s)
    <3>1. Place(csize[s]) = Place(written) /\ csize[s] \in Nat /\ written \in Nat
      BY <2>1 DEF SenderWait, SampleInv, RingInv, RingTypes, SenderTypes, Chunks
    <3>2. (written - csize[s]) % Slots = 0
      BY <3>1, RingPlaces, Zenon
    <3> QED  BY <2>1, <3>2 DEF SenderWait, SleepersAreCurrent
  <2>2. CASE Sample(s)
    <3>1. s \notin waiting
      BY <2>2 DEF Sample, SenderGoto, BufferLockInv
    <3> QED  BY <2>2, <3>1 DEF Sample, SleepersAreCurrent, SenderTypes
  <2>3. CASE UNCHANGED <<written, csize, bpc>> /\ waiting' \subseteq waiting
    BY <1>1, <2>3
  <2> QED  BY <1>3, <2>1, <2>2, <2>3 DEF SenderStep, SpuriousWakeup, SenderLock, SenderLockList,
        SendHeader, SendPayload, SendTrailer, CloseListener, Unlink, SenderUnlockList
<1>4. ASSUME NEW f \in Fds, Accept(f) \/ HangUp(f) \/ Request(f) PROVE SleepersAreCurrent'
  BY <1>1, <1>4 DEF Accept, HangUp, Request
<1>5. CASE MainStep
  BY <1>1, <1>5 DEF MainStep, Respond, RespondFails, MainLockList, Insert
<1>6. CASE UNCHANGED vars
  BY <1>1, <1>6 DEF vars
<1> QED  BY <1>2, <1>3, <1>4, <1>5, <1>6 DEF Next

-----------------------------------------------------------------------------
(* Where a sender is in its list.                                            *)
CurrInv ==
  \A s \in Senders : /\ OnList(s) /\ spc[s] # "visit" => curr[s] \in DOMAIN list[s]
                     /\ ~OnList(s) => curr[s] = 1

(* As long as no node comes or goes and no connection is closed, the nodes   *)
(* stay what they are.                                                       *)
LEMMA SameNodes ==
  ASSUME IInv, UNCHANGED list, CurrInv',
         \A f \in Fds : conn'[f] = "listed" <=> conn[f] = "listed",
         \A s \in Senders : (spc'[s] = "unlink" <=> spc[s] = "unlink")
                             /\ (spc[s] = "unlink" => curr'[s] = curr[s])
  PROVE  ListInv' /\ \A s \in Senders, i \in Nat : Live(s, i)' <=> Live(s, i)
<1>1. \A s \in Senders, i \in Nat : Live(s, i)' <=> Live(s, i)
  BY DEF Live
<1>2. \A s \in Senders, i \in Nat : Live(s, i) => list[s][i] \in Fds
  <2>1. ASSUME NEW s \in Senders, NEW i \in DOMAIN list[s] PROVE list[s][i] \in Fds
    <3>1. list[s] \in Seq(Fds)
      BY DEF IInv, TypeOK, SenderTypes
    <3> QED  BY <3>1, ElementOfSeq, LenProperties
  <2> QED  BY <2>1 DEF Live
<1>3. ListInv'
  BY <1>1, <1>2 DEF IInv, ListInv, CurrInv, OnList
<1> QED  BY <1>1, <1>3

(* close: the node of the connection is no longer a live one.                *)
LEMMA ClosedNode ==
  ASSUME IInv, NEW s \in Senders, CloseListener(s)
  PROVE  /\ ListInv'
         /\ Visiting(s) \in Fds /\ Live(s, curr[s]) /\ conn[Visiting(s)] = "listed"
         /\ \A t \in Senders, i \in Nat :
              Live(t, i)' <=> Live(t, i) /\ ~(t = s /\ i = curr[s])
         /\ \A t \in Senders, i \in Nat : Live(t, i)' => list[t][i] # Visiting(s)
<1> USE DEF IInv, TypeOK, walk
<1>1. /\ spc[s] = "close" /\ spc' = [spc EXCEPT ![s] = "unlink"]
      /\ conn' = [conn EXCEPT ![Visiting(s)] = "closed"]
      /\ UNCHANGED <<list, curr>>
  BY DEF CloseListener, SenderGoto, Closed
<1>2. /\ Visiting(s) \in Fds /\ Live(s, curr[s]) /\ conn[Visiting(s)] = "listed"
      /\ curr[s] \in Nat /\ list[s][curr[s]] = Visiting(s) /\ curr[s] \in DOMAIN list[s]
  BY <1>1, VisitedNode DEF OnList, SenderTypes, Visiting
<1>3. \A t \in Senders, i \in Nat :
         Live(t, i)' <=> Live(t, i) /\ ~(t = s /\ i = curr[s])
  BY <1>1 DEF Live, SenderTypes
<1>4. \A t \in Senders, i \in Nat : Live(t, i)' => list[t][i] # Visiting(s)
  BY <1>2, <1>3 DEF ListInv
<1>5. \A t \in Senders, i \in Nat : Live(t, i)' => conn'[list[t][i]] = "listed"
  BY <1>1, <1>3, <1>4 DEF ListInv, MainTypes
<1>6. \A f \in Fds : conn'[f] = "listed" => \E t \in Senders, i \in Nat : Live(t, i)' /\ list[t][i] = f
  <2>1. ASSUME NEW f \in Fds, conn'[f] = "listed"
        PROVE  \E t \in Senders, i \in Nat : Live(t, i)' /\ list[t][i] = f
    <3>1. f # Visiting(s) /\ conn[f] = "listed"
      BY <1>1, <2>1 DEF MainTypes
    <3>2. PICK t \in Senders, i \in Nat : Live(t, i) /\ list[t][i] = f
      BY <3>1 DEF ListInv
    <3> QED  BY <1>2, <1>3, <3>1, <3>2
  <2> QED  BY <2>1
<1>7. CurrInv'
  BY <1>1, <1>2 DEF ListInv, CurrInv, OnList, SenderTypes
<1>8. ListInv'
  BY <1>1, <1>3, <1>5, <1>6, <1>7 DEF ListInv, CurrInv
<1> QED  BY <1>2, <1>3, <1>4, <1>8

(* The dead node is taken out, and those behind it move up.                  *)
LEMMA UnlinkedNode ==
  ASSUME IInv, NEW s \in Senders, Unlink(s)
  PROVE  /\ ListInv'
         /\ \A t \in Senders \ {s}, i \in Nat : (Live(t, i)' <=> Live(t, i)) /\ list'[t] = list[t]
         /\ \A i \in Nat : Live(s, i)' =>
              \E k \in Nat : /\ Live(s, k) /\ list'[s][i] = list[s][k]
                             /\ i >= curr[s] => k > curr[s]
<1> USE DEF IInv, TypeOK
<1> DEFINE c == curr[s]
           q == list[s]
<1>1. /\ spc[s] = "unlink" /\ spc' = [spc EXCEPT ![s] = "visit"]
      /\ list' = [list EXCEPT ![s] = Without(q, c)]
      /\ UNCHANGED <<conn, curr>>
  BY DEF Unlink, SenderGoto, outside
<1>2. q \in Seq(Fds) /\ c \in DOMAIN q /\ c \in Nat \ {0} /\ Len(q) \in Nat /\ DOMAIN q = 1..Len(q)
  BY <1>1, VisitedNode, LenProperties DEF OnList, SenderTypes
<1>3. /\ DOMAIN Without(q, c) = 1..Len(q) - 1
      /\ \A i \in 1..c - 1 : Without(q, c)[i] = q[i]
      /\ \A i \in c..Len(q) - 1 : Without(q, c)[i] = q[i + 1]
  BY <1>2, Removed
<1>4. \A i \in Nat : Live(s, i) <=> i \in DOMAIN q /\ i # c
  BY <1>1 DEF Live
<1>5. list'[s] = Without(q, c) /\ \A i \in Nat : Live(s, i)' <=> i \in 1..Len(q) - 1
  BY <1>1, <1>3 DEF Live, SenderTypes
<1>6. \A t \in Senders \ {s}, i \in Nat : (Live(t, i)' <=> Live(t, i)) /\ list'[t] = list[t]
  BY <1>1 DEF Live, SenderTypes
<1> HIDE DEF c, q
<1> DEFINE Was(i) == IF i < c THEN i ELSE i + 1
<1>7. \A i \in Nat : Live(s, i)' => Was(i) \in Nat /\ Live(s, Was(i)) /\ list'[s][i] = q[Was(i)]
  <2>1. ASSUME NEW i \in Nat, Live(s, i)', i < c
        PROVE  Was(i) = i /\ Live(s, i) /\ list'[s][i] = q[i]
    <3>1. i \in 1..c - 1 /\ i \in DOMAIN q /\ i # c
      BY <1>2, <1>5, <2>1
    <3> QED  BY <1>3, <1>4, <1>5, <2>1, <3>1
  <2>2. ASSUME NEW i \in Nat, Live(s, i)', ~(i < c)
        PROVE  Was(i) = i + 1 /\ Live(s, i + 1) /\ list'[s][i] = q[i + 1] /\ i + 1 \in Nat
    <3>1. i \in c..Len(q) - 1 /\ i + 1 \in DOMAIN q /\ i + 1 # c /\ i + 1 \in Nat
      BY <1>2, <1>5, <2>2
    <3> QED  BY <1>3, <1>4, <1>5, <2>2, <3>1
  <2> HIDE DEF Was
  <2> QED  BY <2>1, <2>2
<1>8. \A k \in Nat : Live(s, k) => \E i \in Nat : Live(s, i)' /\ Was(i) = k
  <2>1. ASSUME NEW k \in Nat, Live(s, k), k < c PROVE k \in Nat /\ Live(s, k)' /\ Was(k) = k
    BY <1>2, <1>4, <1>5, <2>1
  <2>2. ASSUME NEW k \in Nat, Live(s, k), ~(k < c)
        PROVE  k - 1 \in Nat /\ Live(s, k - 1)' /\ Was(k - 1) = k
    BY <1>2, <1>4, <1>5, <2>2
  <2> HIDE DEF Was
  <2> QED  BY <2>1, <2>2
<1>9. /\ \A i, j \in Nat : Was(i) = Was(j) => i = j
      /\ \A i \in Nat : i >= c => Was(i) > c
  BY <1>2
<1> HIDE DEF Was
<1>10. \A i \in Nat : Live(s, i)' => conn'[list'[s][i]] = "listed"
  BY <1>1, <1>7 DEF ListInv, q
<1>11. \A t \in Senders \ {s} : \A i \in Nat : Live(t, i)' => conn'[list'[t][i]] = "listed"
  BY <1>1, <1>6 DEF ListInv
<1>12. \A i, j \in Nat : Live(s, i)' /\ Live(s, j)' /\ list'[s][i] = list'[s][j] => i = j
  BY <1>7, <1>9 DEF ListInv, q
<1>13. \A t \in Senders \ {s} : \A i, j \in Nat :
         Live(s, i)' /\ Live(t, j)' => list'[s][i] # list'[t][j]
  BY <1>6, <1>7 DEF ListInv, q
<1>14. \A t, u \in Senders \ {s} : \A i, j \in Nat :
         Live(t, i)' /\ Live(u, j)' /\ list'[t][i] = list'[u][j] => t = u /\ i = j
  BY <1>6 DEF ListInv
<1>15. ASSUME NEW f \in Fds, conn'[f] = "listed"
       PROVE  \E t \in Senders, i \in Nat : Live(t, i)' /\ list'[t][i] = f
  <2>1. PICK t \in Senders, k \in Nat : Live(t, k) /\ list[t][k] = f
    BY <1>1, <1>15 DEF ListInv
  <2>2. CASE t = s
    <3>1. PICK i \in Nat : Live(s, i)' /\ Was(i) = k
      BY <1>8, <2>1, <2>2
    <3> QED  BY <1>7, <2>1, <2>2, <3>1 DEF q
  <2>3. CASE t # s
    BY <1>6, <2>1, <2>3
  <2> QED  BY <2>2, <2>3
<1>16. CurrInv'
  BY <1>1 DEF ListInv, CurrInv, OnList, SenderTypes
<1>17. \A t \in Senders : \A i \in Nat : Live(t, i)' => conn'[list'[t][i]] = "listed"
  BY <1>10, <1>11
<1>18. \A t, u \in Senders : \A i, j \in Nat :
         Live(t, i)' /\ Live(u, j)' /\ list'[t][i] = list'[u][j] => t = u /\ i = j
  BY <1>12, <1>13, <1>14
<1>19. ListInv'
  BY <1>15, <1>16, <1>17, <1>18 DEF ListInv, CurrInv
<1> QED  BY <1>6, <1>7, <1>9, <1>19 DEF c, q

(* The new node is the head; the others move down by one.  The list's owner  *)
(* is not on it.                                                             *)
LEMMA InsertedNode ==
  ASSUME IInv, NEW s \in Senders, s = turn, Insert
  PROVE  /\ ListInv' /\ ~OnList(s)
         /\ mfd \in Fds /\ conn[mfd] = "main"
         /\ \A t \in Senders \ {s}, i \in Nat : (Live(t, i)' <=> Live(t, i)) /\ list'[t] = list[t]
         /\ \A i \in Nat : Live(s, i)' =>
              \/ list'[s][i] = mfd
              \/ \E k \in Nat : k >= 1 /\ Live(s, k) /\ list'[s][i] = list[s][k]
<1> USE DEF IInv, TypeOK
<1> DEFINE q == list[s]
<1>1. /\ mpc = "insert" /\ list' = [list EXCEPT ![s] = <<mfd>> \o q]
      /\ conn' = [conn EXCEPT ![mfd] = "listed"]
      /\ UNCHANGED <<spc, curr>>
  BY DEF Insert
<1>2. s \in Senders /\ mfd \in Fds /\ conn[mfd] = "main" /\ q \in Seq(Fds)
      /\ conn'[mfd] = "listed" /\ \A f \in Fds : f # mfd => conn'[f] = conn[f]
  BY <1>1 DEF MainTypes, HandInv, SenderTypes
<1>3. ~OnList(s)
  BY <1>1, <1>2, Constants DEF ListLockInv
<1>4. /\ DOMAIN (<<mfd>> \o q) = 1..Len(q) + 1 /\ (<<mfd>> \o q)[1] = mfd
      /\ \A i \in 1..Len(q) : (<<mfd>> \o q)[i + 1] = q[i]
      /\ Len(q) \in Nat /\ DOMAIN q = 1..Len(q)
  BY <1>2, Pushed, LenProperties
<1>5. \A i \in Nat : Live(s, i) <=> i \in 1..Len(q)
  BY <1>3, <1>4 DEF Live, OnList
<1>6. list'[s] = <<mfd>> \o q /\ \A i \in Nat : Live(s, i)' <=> i \in 1..Len(q) + 1
  BY <1>1, <1>2, <1>3, <1>4 DEF Live, OnList, SenderTypes
<1>7. \A t \in Senders \ {s}, i \in Nat : (Live(t, i)' <=> Live(t, i)) /\ list'[t] = list[t]
  BY <1>1 DEF Live, SenderTypes
<1> HIDE DEF q
<1>8. ASSUME NEW i \in Nat, Live(s, i)', i # 1
      PROVE  i - 1 \in Nat /\ i - 1 >= 1 /\ Live(s, i - 1) /\ list'[s][i] = list[s][i - 1]
  <2>1. i - 1 \in 1..Len(q) /\ i - 1 \in Nat /\ i - 1 >= 1 /\ (i - 1) + 1 = i
    BY <1>4, <1>6, <1>8
  <2>2. (<<mfd>> \o q)[(i - 1) + 1] = q[i - 1]
    BY <1>4, <2>1, Zenon
  <2> QED  BY <1>5, <1>6, <2>1, <2>2 DEF q
<1>9. list'[s][1] = mfd /\ Live(s, 1)'
  BY <1>4, <1>6
<1>10. ASSUME NEW i \in Nat, Live(s, i)
       PROVE  i + 1 \in Nat /\ Live(s, i + 1)' /\ list'[s][i + 1] = list[s][i]
  <2>1. i \in 1..Len(q) /\ i + 1 \in 1..Len(q) + 1 /\ i + 1 \in Nat
    BY <1>4, <1>5, <1>10
  <2> QED  BY <1>4, <1>6, <2>1, Zenon DEF q
<1>11. \A t \in Senders, i \in Nat : Live(t, i) => list[t][i] # mfd /\ conn'[list[t][i]] = "listed"
  <2>1. ASSUME NEW t \in Senders, NEW i \in Nat, Live(t, i) PROVE conn[list[t][i]] = "listed" /\ list[t][i] \in Fds
    <3>1. list[t] \in Seq(Fds) /\ i \in DOMAIN list[t]
      BY <2>1 DEF SenderTypes, Live
    <3> QED  BY <2>1, <3>1, ElementOfSeq, LenProperties DEF ListInv
  <2> QED  BY <1>2, <2>1
<1>12. \A t \in Senders : \A i \in Nat : Live(t, i)' => conn'[list'[t][i]] = "listed"
  <2>1. ASSUME NEW i \in Nat, Live(s, i)' PROVE conn'[list'[s][i]] = "listed"
    <3>1. CASE i = 1
      BY <1>2, <1>9, <3>1
    <3>2. CASE i # 1
      BY <1>2, <1>8, <1>11, <2>1, <3>2
    <3> QED  BY <3>1, <3>2
  <2>2. ASSUME NEW t \in Senders \ {s}, NEW i \in Nat, Live(t, i)' PROVE conn'[list'[t][i]] = "listed"
    BY <1>7, <1>11, <2>2
  <2> QED  BY <2>1, <2>2
<1>13. \A t \in Senders \ {s} : \A i, j \in Nat :
         Live(s, i)' /\ Live(t, j)' => list'[s][i] # list'[t][j]
  <2>1. ASSUME NEW t \in Senders \ {s}, NEW i \in Nat, NEW j \in Nat, Live(s, i)', Live(t, j)'
        PROVE  list'[s][i] # list'[t][j]
    <3>1. Live(t, j) /\ list'[t][j] = list[t][j]
      BY <1>7, <2>1
    <3>2. CASE i = 1
      BY <1>9, <1>11, <2>1, <3>1, <3>2
    <3>3. CASE i # 1
      BY <1>2, <1>8, <2>1, <3>1, <3>3 DEF ListInv
    <3> QED  BY <3>2, <3>3
  <2> QED  BY <2>1
<1>14. \A i, j \in Nat : Live(s, i)' /\ Live(s, j)' /\ list'[s][i] = list'[s][j] => i = j
  <2>1. ASSUME NEW i \in Nat, NEW j \in Nat, Live(s, i)', Live(s, j)', list'[s][i] = list'[s][j]
        PROVE  i = j
    <3>1. CASE i = 1 /\ j # 1
      BY <1>2, <1>8, <1>9, <1>11, <2>1, <3>1
    <3>2. CASE i # 1 /\ j = 1
      BY <1>2, <1>8, <1>9, <1>11, <2>1, <3>2
    <3>3. CASE i # 1 /\ j # 1
      <4>1. i - 1 = j - 1
        BY <1>2, <1>8, <2>1, <3>3 DEF ListInv
      <4> QED  BY <4>1
    <3> QED  BY <3>1, <3>2, <3>3
  <2> QED  BY <2>1
<1>15. \A t, u \in Senders \ {s} : \A i, j \in Nat :
         Live(t, i)' /\ Live(u, j)' /\ list'[t][i] = list'[u][j] => t = u /\ i = j
  BY <1>7 DEF ListInv
<1>16. \A t, u \in Senders : \A i, j \in Nat :
         Live(t, i)' /\ Live(u, j)' /\ list'[t][i] = list'[u][j] => t = u /\ i = j
  <2>1. ASSUME NEW t \in Senders, NEW u \in Senders, NEW i \in Nat, NEW j \in Nat,
               Live(t, i)', Live(u, j)', list'[t][i] = list'[u][j]
        PROVE  t = u /\ i = j
    <3>1. CASE t = s /\ u = s
      BY <1>14, <2>1, <3>1
    <3>2. CASE t = s /\ u # s
      BY <1>13, <2>1, <3>2
    <3>3. CASE t # s /\ u = s
      BY <1>13, <2>1, <3>3
    <3>4. CASE t # s /\ u # s
      BY <1>15, <2>1, <3>4
    <3> QED  BY <3>1, <3>2, <3>3, <3>4
  <2> QED  BY <2>1
<1>17. ASSUME NEW f \in Fds, conn'[f] = "listed"
       PROVE  \E t \in Senders, i \in Nat : Live(t, i)' /\ list'[t][i] = f
  <2>1. CASE f = mfd
    <3>1. 1 \in Nat
      OBVIOUS
    <3> QED  BY <1>2, <1>9, <2>1, <3>1, Zenon
  <2>2. CASE f # mfd
    <3>1. PICK t \in Senders, k \in Nat : Live(t, k) /\ list[t][k] = f
      BY <1>2, <1>17, <2>2 DEF ListInv
    <3>2. CASE t = s
      <4>1. k + 1 \in Nat /\ Live(s, k + 1)' /\ list'[s][k + 1] = f
        BY <1>10, <3>1, <3>2
      <4> QED  BY <1>2, <4>1, Zenon
    <3>3. CASE t # s
      BY <1>7, <3>1, <3>3
    <3> QED  BY <3>2, <3>3
  <2> QED  BY <2>1, <2>2
<1>18. CurrInv'
  <2>1. ASSUME NEW t \in Senders PROVE (OnList(t) /\ spc[t] # "visit" => curr[t] \in DOMAIN list'[t]) /\ (~OnList(t) => curr[t] = 1)
    BY <1>3, <1>7, <2>1 DEF ListInv
  <2> QED  BY <1>1, <2>1 DEF CurrInv, OnList
<1>19. ListInv'
  BY <1>12, <1>16, <1>17, <1>18 DEF ListInv, CurrInv
<1>20. \A i \in Nat : Live(s, i)' =>
         \/ list'[s][i] = mfd
         \/ \E k \in Nat : k >= 1 /\ Live(s, k) /\ list'[s][i] = list[s][k]
  BY <1>8, <1>9
<1> QED  BY <1>2, <1>3, <1>7, <1>19, <1>20

(* Where a sender is: no step takes it off its list unseen.                  *)
LEMMA CurrKept ==
  ASSUME IInv, NEW s \in Senders, UNCHANGED list,
         SenderStep(s) \/ SpuriousWakeup(s)
  PROVE  CurrInv'
<1> USE DEF IInv, TypeOK
<1> USE DEF walk, OnList
<1>1. CurrInv /\ \A t \in Senders : curr[t] \in Nat \ {0} /\ (~OnList(t) => curr[t] = 1)
  BY DEF CurrInv, ListInv, SenderTypes
<1>2. ASSUME UNCHANGED list, spc' = [spc EXCEPT ![s] = spc'[s]], curr' = [curr EXCEPT ![s] = curr'[s]],
             OnList(s)' /\ spc'[s] # "visit" => curr'[s] \in DOMAIN list[s],
             ~OnList(s)' => curr'[s] = 1
      PROVE  CurrInv'
  BY <1>1, <1>2 DEF CurrInv, SenderTypes
<1>3. ~AtEnd(s) /\ spc[s] = "visit" => curr[s] \in DOMAIN list[s]
  BY VisitedNode
<1>4. CASE SenderLock(s) \/ SenderWait(s) \/ SpuriousWakeup(s) \/ Sample(s) \/ SenderLockList(s)
  BY <1>1, <1>2, <1>4 DEF SenderLock, SenderWait, SpuriousWakeup, Sample, SenderLockList, SenderGoto, SenderTypes
<1>5. CASE SendHeader(s)
  BY <1>1, <1>2, <1>3, <1>5 DEF SendHeader, SenderGoto, Advances, SenderTypes
<1>6. CASE SendPayload(s)
  BY <1>1, <1>2, <1>6 DEF SendPayload, SenderGoto, Advances, SenderTypes, CurrInv
<1>7. CASE SendTrailer(s)
  BY <1>1, <1>2, <1>7 DEF SendTrailer, SenderGoto, Advances, SenderTypes, CurrInv
<1>8. CASE CloseListener(s)
  BY <1>1, <1>2, <1>8 DEF CloseListener, SenderGoto, SenderTypes, CurrInv
<1>9. CASE Unlink(s)
  BY <1>1, <1>2, <1>9 DEF Unlink, SenderGoto, SenderTypes
<1>10. CASE SenderUnlockList(s)
  BY <1>1, <1>2, <1>10 DEF SenderUnlockList, SenderGoto, SenderTypes
<1> QED  BY <1>4, <1>5, <1>6, <1>7, <1>8, <1>9, <1>10 DEF SenderStep

(* Only close, unlink and insert touch the nodes.                            *)
LEMMA QuietStep ==
  ASSUME IInv, [Next]_vars, \A s \in Senders : ~CloseListener(s) /\ ~Unlink(s), ~Insert
  PROVE  /\ ListInv' /\ \A s \in Senders, i \in Nat : Live(s, i)' <=> Live(s, i)
         /\ UNCHANGED list /\ \A f \in Fds : conn'[f] = "listed" <=> conn[f] = "listed"
<1> USE DEF IInv, TypeOK
<1> USE DEF ring, producer, sampled, mainvars, stream, sync, walk, outside
<1>1. ASSUME UNCHANGED <<spc, curr, list>>,
             \A f \in Fds : conn'[f] = "listed" <=> conn[f] = "listed"
      PROVE  ListInv' /\ \A s \in Senders, i \in Nat : Live(s, i)' <=> Live(s, i)
  <2>1. CurrInv'
    BY <1>1 DEF CurrInv, ListInv, OnList
  <2> QED  BY <1>1, <2>1, SameNodes
<1>2. CASE BroadcastStep
  <2>1. CASE Broadcast
    <3>1. \A s \in Senders : spc'[s] = spc[s] \/ (spc[s] = "wait" /\ spc'[s] = "relock")
      BY <2>1 DEF Broadcast, BufferLockInv
    <3>2. CurrInv' /\ UNCHANGED <<list, conn, curr>>
      BY <2>1, <3>1 DEF Broadcast, CurrInv, ListInv, OnList
    <3>3. \A s \in Senders : spc'[s] = "unlink" <=> spc[s] = "unlink"
      BY <3>1
    <3> QED  BY <3>2, <3>3, SameNodes
  <2>2. CASE ReadChunk \/ LockBuffer \/ Advance \/ UnlockBuffer \/ CopyBegins \/ CopyEnds
    BY <1>1, <2>2 DEF ReadChunk, LockBuffer, Advance, UnlockBuffer, CopyBegins, CopyEnds
  <2> QED  BY <1>2, <2>1, <2>2 DEF BroadcastStep
<1>3. ASSUME NEW s \in Senders, SenderStep(s) \/ SpuriousWakeup(s)
      PROVE  /\ ListInv' /\ \A t \in Senders, i \in Nat : Live(t, i)' <=> Live(t, i)
             /\ UNCHANGED <<list, conn>>
  <2>1. UNCHANGED <<list, conn>>
    BY <1>3 DEF SenderStep, SpuriousWakeup, SenderLock, SenderWait, Sample, SenderLockList, SendHeader,
      SendPayload, SendTrailer, SenderUnlockList
  <2>2. CurrInv'
    BY <1>3, <2>1, CurrKept
  <2>3. ASSUME NEW from, NEW to, SenderGoto(s, from, to), from # "unlink", to # "unlink"
        PROVE  \A t \in Senders : (spc'[t] = "unlink" <=> spc[t] = "unlink")
                                  /\ (spc[t] = "unlink" => t # s)
    BY <2>3 DEF SenderGoto, SenderTypes
  <2>4. \A t \in Senders \ {s} : curr'[t] = curr[t]
    BY <1>3 DEF SenderStep, SpuriousWakeup, SenderLock, SenderWait, Sample, SenderLockList, SendHeader,
      SendPayload, SendTrailer, SenderUnlockList, Advances, SenderTypes
  <2>5. \A t \in Senders : (spc'[t] = "unlink" <=> spc[t] = "unlink")
                           /\ (spc[t] = "unlink" => t # s)
    <3>1. CASE SenderLock(s) \/ SenderWait(s) \/ SpuriousWakeup(s) \/ Sample(s)
      BY <2>3, <3>1 DEF SenderLock, SenderWait, SpuriousWakeup, Sample
    <3>2. CASE SenderLockList(s) \/ SenderUnlockList(s)
      BY <2>3, <3>2 DEF SenderLockList, SenderUnlockList
    <3>3. CASE SendHeader(s)
      BY <2>3, <3>3 DEF SendHeader
    <3>4. CASE SendPayload(s)
      BY <2>3, <3>4 DEF SendPayload
    <3>5. CASE SendTrailer(s)
      BY <2>3, <3>5 DEF SendTrailer
    <3> QED  BY <1>3, <3>1, <3>2, <3>3, <3>4, <3>5 DEF SenderStep
  <2> QED  BY <2>1, <2>2, <2>4, <2>5, SameNodes
<1>4. ASSUME NEW f \in Fds, Accept(f) \/ HangUp(f) \/ Request(f)
      PROVE  UNCHANGED <<spc, curr, list>> /\ \A g \in Fds : conn'[g] = "listed" <=> conn[g] = "listed"
  BY <1>4 DEF Accept, HangUp, Request, MainTypes
<1>5. CASE MainStep
  <2>1. CASE RespondFails
    <3>1. mfd \in Fds /\ conn[mfd] = "main"
      BY <2>1 DEF RespondFails, HandInv, MainTypes
    <3> QED  BY <1>1, <2>1, <3>1 DEF RespondFails, MainTypes
  <2>2. CASE Respond \/ MainLockList
    BY <1>1, <2>2 DEF Respond, MainLockList
  <2> QED  BY <1>5, <2>1, <2>2 DEF MainStep
<1>6. CASE UNCHANGED vars
  BY <1>1, <1>6 DEF vars
<1>7. UNCHANGED list /\ \A f \in Fds : conn'[f] = "listed" <=> conn[f] = "listed"
  <2>1. CASE MainStep
    <3>1. CASE RespondFails
      <4>1. mfd \in Fds /\ conn[mfd] = "main"
        BY <3>1 DEF RespondFails, HandInv, MainTypes
      <4> QED  BY <3>1, <4>1 DEF RespondFails, MainTypes
    <3>2. CASE Respond \/ MainLockList
      BY <3>2 DEF Respond, MainLockList
    <3> QED  BY <2>1, <3>1, <3>2 DEF MainStep
  <2>2. CASE BroadcastStep
    BY <2>2 DEF BroadcastStep, ReadChunk, LockBuffer, Advance, UnlockBuffer, CopyBegins, CopyEnds, Broadcast
  <2>3. CASE UNCHANGED vars
    BY <2>3 DEF vars
  <2> QED  BY <1>3, <1>4, <2>1, <2>2, <2>3 DEF Next
<1> QED  BY <1>1, <1>2, <1>3, <1>4, <1>5, <1>6, <1>7 DEF Next

(* The nodes and the listed connections stay in step.                        *)
LEMMA ListKept ==
  ASSUME IInv, [Next]_vars
  PROVE  ListInv'
<1>1. CASE \E s \in Senders : CloseListener(s) \/ Unlink(s)
  BY <1>1, ClosedNode, UnlinkedNode
<1>2. CASE Insert
  BY <1>2, InsertedNode DEF IInv, TypeOK, MainTypes
<1> QED  BY <1>1, <1>2, QuietStep

-----------------------------------------------------------------------------
(* What a listener has heard, when no header is sent, nothing is sampled and *)
(* no node comes or goes: no sender comes to a node twice.                   *)
LEMMA NothingHeard ==
  ASSUME IInv, UNCHANGED <<list, heard, sampled>>,
         \A f \in Fds : conn'[f] = "listed" <=> conn[f] = "listed",
         \A s \in Senders, i \in Nat : Live(s, i)' <=> Live(s, i),
         \A s \in Senders, i \in Nat : Ahead(s, i)' => Ahead(s, i)
  PROVE  HeardInv'
BY DEF IInv, HeardInv, sampled

(* The sender comes to its nodes in turn. *)
LEMMA AheadKept ==
  ASSUME IInv, NEW s \in Senders, SenderStep(s) \/ SpuriousWakeup(s), ~Sample(s), ~Unlink(s)
  PROVE  \A t \in Senders, i \in Nat : Ahead(t, i)' => Ahead(t, i)
<1> USE DEF IInv, TypeOK, SenderTypes, Ahead
<1> USE DEF ring, producer, sampled, mainvars, stream, sync, walk, outside
<1>1. CASE SenderLock(s) \/ SenderWait(s) \/ SpuriousWakeup(s)
  BY <1>1 DEF SenderLock, SenderWait, SpuriousWakeup, SenderGoto
<1>2. CASE SenderLockList(s)
  BY <1>2 DEF SenderLockList, SenderGoto
<1>8. ASSUME \A t \in Senders \ {s} : spc'[t] = spc[t] /\ curr'[t] = curr[t],
             curr[s] \in Nat, spc[s] \in {"visit", "payload", "trailer"},
             \/ spc'[s] = "visit" /\ curr'[s] = curr[s] + 1
             \/ spc'[s] \in {"payload", "trailer", "close"} /\ curr'[s] = curr[s]
      PROVE  \A t \in Senders, i \in Nat : Ahead(t, i)' => Ahead(t, i)
  BY <1>8
<1>3. CASE SendHeader(s)
  <2>1. /\ \A t \in Senders \ {s} : spc'[t] = spc[t] /\ curr'[t] = curr[t]
        /\ curr[s] \in Nat /\ spc[s] = "visit"
        /\ \/ spc'[s] = "visit" /\ curr'[s] = curr[s] + 1
           \/ spc'[s] \in {"payload", "close"} /\ curr'[s] = curr[s]
    BY <1>3 DEF SendHeader, SenderGoto, Advances
  <2> QED  BY <1>8, <2>1
<1>4. CASE SendPayload(s)
  <2>1. /\ \A t \in Senders \ {s} : spc'[t] = spc[t] /\ curr'[t] = curr[t]
        /\ curr[s] \in Nat /\ spc[s] = "payload"
        /\ \/ spc'[s] = "visit" /\ curr'[s] = curr[s] + 1
           \/ spc'[s] \in {"trailer", "close"} /\ curr'[s] = curr[s]
    BY <1>4 DEF SendPayload, SenderGoto, Advances
  <2> QED  BY <1>8, <2>1
<1>5. CASE SendTrailer(s)
  <2>1. /\ \A t \in Senders \ {s} : spc'[t] = spc[t] /\ curr'[t] = curr[t]
        /\ curr[s] \in Nat /\ spc[s] = "trailer"
        /\ \/ spc'[s] = "visit" /\ curr'[s] = curr[s] + 1
           \/ spc'[s] = "close" /\ curr'[s] = curr[s]
    BY <1>5 DEF SendTrailer, SenderGoto, Advances
  <2> QED  BY <1>8, <2>1
<1>6. CASE CloseListener(s)
  BY <1>6 DEF CloseListener, SenderGoto
<1>7. CASE SenderUnlockList(s)
  BY <1>7 DEF SenderUnlockList, SenderGoto
<1> QED  BY <1>1, <1>2, <1>3, <1>4, <1>5, <1>6, <1>7 DEF SenderStep

(* A sender samples only a chunk that is newer than the one it has.          *)
LEMMA SampledNewer ==
  ASSUME IInv, NEW s \in Senders, Sample(s)
  PROVE  /\ csize' = [csize EXCEPT ![s] = written] /\ last' = [last EXCEPT ![s] = widx]
         /\ widx # -1 /\ csize[s] \in Nat /\ written \in Nat
         /\ last[s] # -1 => csize[s] < written
<1> USE DEF IInv, TypeOK
<1>1. spc[s] = "test" /\ last[s] # widx /\ csize' = [csize EXCEPT ![s] = size[widx]]
      /\ last' = [last EXCEPT ![s] = widx]
  BY DEF Sample, SenderGoto
<1>2. written \in Nat /\ csize[s] \in Nat /\ written \in Chunks
  BY DEF RingTypes, SenderTypes, Chunks
<1>3. bpc \notin {"copy", "copied"}
  BY <1>1, Constants DEF BufferLockInv
<1>4. size[widx] = written /\ widx = Place(written) /\ widx # -1
  BY <1>2, <1>3, Constants DEF RingInv, RingTypes
<1>5. last[s] # -1 => csize[s] < written
  BY <1>1, <1>2, <1>4 DEF SampleInv
<1> QED  BY <1>1, <1>2, <1>4, <1>5

(* What the listeners have heard stays behind what their senders hold.       *)
LEMMA HeardKept ==
  ASSUME IInv, [Next]_vars
  PROVE  HeardInv'
<1> USE DEF IInv, TypeOK
<1> USE DEF ring, producer, sampled, mainvars, stream, sync, walk, outside
<1>1. \A s \in Senders : csize[s] \in Nat /\ curr[s] \in Nat
  BY DEF SenderTypes, Chunks
<1>2. \A s \in Senders, i \in Nat : Live(s, i) => list[s][i] \in Fds /\ heard[list[s][i]] \in Int
  <2>1. ASSUME NEW s \in Senders, NEW i \in DOMAIN list[s] PROVE list[s][i] \in Fds
    <3>1. list[s] \in Seq(Fds)
      BY DEF SenderTypes
    <3> QED  BY <3>1, ElementOfSeq, LenProperties
  <2> QED  BY <2>1 DEF Live, MainTypes, Chunks
<1>3. ASSUME NEW s \in Senders, CloseListener(s) PROVE HeardInv'
  <2>1. /\ heard' = [heard EXCEPT ![Visiting(s)] = -1] /\ UNCHANGED <<list, csize, last>>
        /\ conn' = [conn EXCEPT ![Visiting(s)] = "closed"]
    BY <1>3 DEF CloseListener, Closed
  <2>2. \A t \in Senders, i \in Nat : Ahead(t, i)' => Ahead(t, i)
    <3>1. SenderStep(s) /\ ~Sample(s) /\ ~Unlink(s)
      BY <1>3 DEF SenderStep, CloseListener, Sample, Unlink, SenderGoto
    <3> QED  BY <3>1, AheadKept
  <2>3. \A t \in Senders, i \in Nat : Live(t, i)' =>
          Live(t, i) /\ list[t][i] # Visiting(s) /\ heard'[list[t][i]] = heard[list[t][i]]
    BY <1>2, <1>3, <2>1, ClosedNode DEF MainTypes
  <2>4. \A f \in Fds : conn'[f] # "listed" => heard'[f] = -1
    BY <2>1 DEF HeardInv, MainTypes
  <2> QED  BY <2>1, <2>2, <2>3, <2>4 DEF HeardInv
<1>4. ASSUME NEW s \in Senders, Unlink(s) PROVE HeardInv'
  <2>1. UNCHANGED <<conn, heard, csize, last, curr>> /\ spc[s] = "unlink"
        /\ spc'[s] = "visit" /\ \A t \in Senders \ {s} : spc'[t] = spc[t]
    BY <1>4 DEF Unlink, SenderGoto, SenderTypes
  <2>2. \A t \in Senders \ {s}, i \in Nat : Ahead(t, i)' <=> Ahead(t, i)
    BY <2>1 DEF Ahead
  <2>3. ASSUME NEW t \in Senders \ {s}, NEW i \in Nat, Live(t, i)'
        PROVE  /\ heard[list'[t][i]] <= csize[t]
               /\ last[t] = -1 => heard[list'[t][i]] = -1
               /\ Ahead(t, i)' => heard[list'[t][i]] < csize[t]
    BY <1>4, <2>2, <2>3, UnlinkedNode DEF HeardInv
  <2>4. ASSUME NEW i \in Nat, Live(s, i)'
        PROVE  /\ heard[list'[s][i]] <= csize[s]
               /\ last[s] = -1 => heard[list'[s][i]] = -1
               /\ Ahead(s, i)' => heard[list'[s][i]] < csize[s]
    <3>1. PICK k \in Nat : /\ Live(s, k) /\ list'[s][i] = list[s][k]
                           /\ i >= curr[s] => k > curr[s]
      BY <1>4, <2>4, UnlinkedNode
    <3>2. Ahead(s, i)' => Ahead(s, k)
      BY <2>1, <3>1 DEF Ahead
    <3> QED  BY <3>1, <3>2 DEF HeardInv
  <2> QED  BY <2>1, <2>3, <2>4 DEF HeardInv
<1>5. CASE Insert
  <2>1. UNCHANGED <<spc, heard, csize, last, curr>> /\ turn \in Senders
        /\ conn' = [conn EXCEPT ![mfd] = "listed"]
    BY <1>5 DEF Insert, MainTypes
  <2>2. \A t \in Senders, i \in Nat : Ahead(t, i)' <=> Ahead(t, i)
    BY <2>1 DEF Ahead
  <2>3. heard[mfd] = -1
    BY <1>5, <2>1, InsertedNode DEF HeardInv
  <2>4. PICK s \in Senders : s = turn
    BY <2>1
  <2>5. ASSUME NEW t \in Senders \ {s}, NEW i \in Nat, Live(t, i)'
        PROVE  /\ heard[list'[t][i]] <= csize[t]
               /\ last[t] = -1 => heard[list'[t][i]] = -1
               /\ Ahead(t, i)' => heard[list'[t][i]] < csize[t]
    BY <1>5, <2>2, <2>4, <2>5, InsertedNode DEF HeardInv
  <2>6. ASSUME NEW i \in Nat, Live(s, i)'
        PROVE  /\ heard[list'[s][i]] <= csize[s]
               /\ last[s] = -1 => heard[list'[s][i]] = -1
               /\ Ahead(s, i)' => heard[list'[s][i]] < csize[s]
    <3>1. CASE list'[s][i] = mfd
      BY <1>1, <2>3, <3>1
    <3>2. CASE list'[s][i] # mfd
      <4>1. PICK k \in Nat : k >= 1 /\ Live(s, k) /\ list'[s][i] = list[s][k]
        BY <1>5, <2>4, <2>6, <3>2, InsertedNode
      <4>2. ~OnList(s) /\ curr[s] = 1
        BY <1>5, <2>4, InsertedNode DEF ListInv
      <4>3. Ahead(s, i)' => Ahead(s, k)
        BY <2>1, <4>1, <4>2 DEF Ahead, OnList
      <4> QED  BY <4>1, <4>3 DEF HeardInv
    <3> QED  BY <3>1, <3>2
  <2>7. \A f \in Fds : conn'[f] # "listed" => heard[f] = -1
    BY <2>1 DEF HeardInv, MainTypes
  <2> QED  BY <2>1, <2>5, <2>6, <2>7 DEF HeardInv
<1> DEFINE Quiet == /\ \A s \in Senders, i \in Nat : Live(s, i)' <=> Live(s, i)
                    /\ UNCHANGED list
                    /\ \A f \in Fds : conn'[f] = "listed" <=> conn[f] = "listed"
<1>6. CASE (\A s \in Senders : ~CloseListener(s) /\ ~Unlink(s)) /\ ~Insert
  <2>1. Quiet
    BY <1>6, QuietStep
  <2> HIDE DEF Quiet
  <2>2. ASSUME UNCHANGED <<heard, csize, last>>, \A s \in Senders, i \in Nat : Ahead(s, i)' => Ahead(s, i)
        PROVE  HeardInv'
    BY <2>1, <2>2, NothingHeard DEF Quiet
  <2>3. ASSUME UNCHANGED <<spc, curr>> PROVE \A s \in Senders, i \in Nat : Ahead(s, i)' => Ahead(s, i)
    BY <2>3 DEF Ahead
  <2>4. CASE BroadcastStep
    <3>1. CASE Broadcast
      <4>1. \A s \in Senders : spc'[s] = spc[s] \/ (spc[s] = "wait" /\ spc'[s] = "relock")
        BY <3>1 DEF Broadcast, BufferLockInv
      <4>2. \A s \in Senders, i \in Nat : Ahead(s, i)' => Ahead(s, i)
        BY <3>1, <4>1 DEF Ahead, Broadcast
      <4> QED  BY <2>2, <3>1, <4>2 DEF Broadcast
    <3>2. CASE ReadChunk \/ LockBuffer \/ Advance \/ UnlockBuffer \/ CopyBegins \/ CopyEnds
      BY <2>2, <2>3, <3>2 DEF ReadChunk, LockBuffer, Advance, UnlockBuffer, CopyBegins, CopyEnds
    <3> QED  BY <2>4, <3>1, <3>2 DEF BroadcastStep
  <2>5. ASSUME NEW s \in Senders, Sample(s) PROVE HeardInv'
    <3>1. /\ csize' = [csize EXCEPT ![s] = written] /\ last' = [last EXCEPT ![s] = widx]
          /\ widx # -1 /\ csize[s] \in Nat /\ written \in Nat
          /\ last[s] # -1 => csize[s] < written
      BY <2>5, SampledNewer
    <3>2. UNCHANGED <<heard, curr>> /\ \A t \in Senders \ {s} : spc'[t] = spc[t]
      BY <2>5 DEF Sample, SenderGoto, SenderTypes
    <3>3. \A t \in Senders \ {s}, i \in Nat : Ahead(t, i)' <=> Ahead(t, i)
      BY <3>2 DEF Ahead
    <3>4. \A i \in Nat : Live(s, i) => heard[list[s][i]] < written
      BY <1>2, <3>1 DEF HeardInv
    <3>5. \A i \in Nat : Live(s, i) => heard[list[s][i]] <= written
      BY <1>2, <3>1, <3>4
    <3>6. csize'[s] = written /\ last'[s] # -1 /\ \A t \in Senders \ {s} : csize'[t] = csize[t] /\ last'[t] = last[t]
      BY <3>1 DEF SenderTypes
    <3> HIDE DEF IInv
    <3>7. ASSUME NEW t \in Senders, NEW i \in Nat, Live(t, i)
          PROVE  /\ heard[list[t][i]] <= csize'[t]
                 /\ last'[t] = -1 => heard[list[t][i]] = -1
                 /\ Ahead(t, i)' => heard[list[t][i]] < csize'[t]
      BY <3>3, <3>4, <3>5, <3>6, <3>7 DEF IInv, HeardInv
    <3>8. \A f \in Fds : conn'[f] # "listed" => heard[f] = -1
      BY <2>1 DEF Quiet, IInv, HeardInv
    <3> QED  BY <2>1, <3>2, <3>7, <3>8 DEF HeardInv, Quiet
  <2>6. ASSUME NEW s \in Senders, SendHeader(s), heard' # heard PROVE HeardInv'
    <3>1. /\ spc[s] = "visit" /\ ~AtEnd(s) /\ spc' = [spc EXCEPT ![s] = "payload"]
          /\ heard' = [heard EXCEPT ![Visiting(s)] = csize[s]] /\ UNCHANGED <<curr, csize, last>>
      BY <2>6 DEF SendHeader, SenderGoto
    <3>2. Visiting(s) \in Fds /\ Live(s, curr[s]) /\ conn[Visiting(s)] = "listed" /\ curr[s] \in Nat
          /\ Visiting(s) = list[s][curr[s]]
      BY <1>1, <3>1, VisitedNode DEF OnList, Visiting
    <3>3. last[s] # -1
      BY <3>1 DEF SampleInv, Walking
    <3>4. ASSUME NEW t \in Senders, NEW i \in Nat, Live(t, i)
          PROVE  /\ heard'[list[t][i]] <= csize[t]
                 /\ last[t] = -1 => heard'[list[t][i]] = -1
                 /\ Ahead(t, i)' => heard'[list[t][i]] < csize[t]
      <4>1. CASE t = s /\ i = curr[s]
        <5>1. heard'[list[t][i]] = csize[s] /\ ~Ahead(t, i)'
          BY <1>1, <3>1, <3>2, <4>1 DEF MainTypes, SenderTypes, Ahead
        <5> QED  BY <1>1, <3>3, <4>1, <5>1
      <4>2. CASE ~(t = s /\ i = curr[s])
        <5>1. list[t][i] # Visiting(s)
          BY <3>2, <3>4, <4>2 DEF ListInv
        <5>2. heard'[list[t][i]] = heard[list[t][i]]
          BY <1>2, <3>1, <3>4, <5>1 DEF MainTypes
        <5>3. Ahead(t, i)' => Ahead(t, i)
          BY <1>1, <3>1 DEF Ahead, SenderTypes
        <5> QED  BY <3>4, <5>2, <5>3 DEF HeardInv
      <4> QED  BY <4>1, <4>2
    <3>5. \A f \in Fds : conn'[f] # "listed" => heard'[f] = -1
      BY <2>1, <3>1, <3>2 DEF Quiet, HeardInv, MainTypes
    <3> QED  BY <2>1, <3>1, <3>4, <3>5 DEF HeardInv, Quiet
  <2>7. ASSUME NEW s \in Senders, SenderStep(s) \/ SpuriousWakeup(s), ~Sample(s), ~(SendHeader(s) /\ heard' # heard)
        PROVE  HeardInv'
    <3>1. UNCHANGED <<heard, csize, last>> /\ ~Unlink(s)
      BY <1>6, <2>7 DEF SenderStep, SpuriousWakeup, SenderLock, SenderWait, SenderLockList, SendHeader,
        SendPayload, SendTrailer, SenderUnlockList
    <3> QED  BY <2>2, <2>7, <3>1, AheadKept
  <2>8. ASSUME NEW f \in Fds, Accept(f) \/ HangUp(f) \/ Request(f) PROVE HeardInv'
    BY <2>2, <2>3, <2>8 DEF Accept, HangUp, Request
  <2>9. CASE MainStep
    BY <1>6, <2>2, <2>3, <2>9 DEF MainStep, Respond, RespondFails, MainLockList
  <2>10. CASE UNCHANGED vars
    BY <2>2, <2>3, <2>10 DEF vars
  <2>11. ASSUME NEW s \in Senders, SenderStep(s) \/ SpuriousWakeup(s) PROVE HeardInv'
    BY <2>5, <2>6, <2>7, <2>11
  <2> QED  BY <2>4, <2>8, <2>9, <2>10, <2>11 DEF Next
<1> QED  BY <1>3, <1>4, <1>5, <1>6

-----------------------------------------------------------------------------
(* The theorems. *)

(* IInv holds in every reachable state.                                      *)
THEOREM Invariance == Spec => []IInv
<1>1. IInv /\ [Next]_vars => IInv'
  BY RingTyped, SenderTyped, MainTyped, BufferLocked, ListLocked, InHand, RingKept, SampleKept,
     SleepersKept, ListKept, HeardKept DEF IInv, TypeOK
<1> QED  BY InitInv, <1>1, PTL DEF Spec

(* Until the broadcaster has come round to it again, a sender's slot holds   *)
(* the chunk it announces, whole, although it is read without the mutex.     *)
THEOREM SlotHolds == Spec => []SlotHoldsAnnouncedChunk
<1>1. IInv => SlotHoldsAnnouncedChunk
  <2> SUFFICES ASSUME IInv, NEW s \in Senders, Walking(s), written < csize[s] + Slots
               PROVE  slot[last[s]] = csize[s]
    BY DEF SlotHoldsAnnouncedChunk
  <2>1. csize[s] \in Chunks /\ csize[s] <= written /\ last[s] = Place(csize[s])
        /\ (bpc \in {"copy", "copied"} => csize[s] # written)
    BY DEF IInv, TypeOK, SenderTypes, RingTypes, SampleInv, Chunks
  <2> QED  BY <2>1 DEF IInv, RingInv
<1> QED  BY Invariance, <1>1, PTL

(* No listener is announced a chunk that it has been announced before, or an *)
(* earlier one.                                                              *)
THEOREM NeverReplayed == Spec => []NeverReplays
<1>1. IInv => NeverReplays
  <2> SUFFICES ASSUME IInv, NEW s \in Senders, spc[s] = "visit", NEW i \in curr[s]..Len(list[s])
               PROVE  heard[list[s][i]] < csize[s]
    BY DEF NeverReplays
  <2>1. curr[s] \in Nat \ {0} /\ list[s] \in Seq(Fds)
    BY DEF IInv, TypeOK, SenderTypes
  <2>2. Len(list[s]) \in Nat /\ DOMAIN list[s] = 1..Len(list[s])
    BY <2>1, LenProperties
  <2>3. i \in Nat /\ i >= curr[s] /\ i \in DOMAIN list[s]
    BY <2>1, <2>2
  <2>4. Live(s, i) /\ Ahead(s, i)
    BY <2>3 DEF Live, Ahead
  <2> QED  BY <2>3, <2>4 DEF IInv, HeardInv
<1> QED  BY Invariance, <1>1, PTL

(* A sender that sleeps while no chunk is on its way to it has sampled the   *)
(* newest one, or is whole rounds behind.                                    *)
THEOREM SleepersCurrent == Spec => []SleepersAreCurrent
<1>1. IInv => SleepersAreCurrent
  BY DEF IInv
<1> QED  BY Invariance, <1>1, PTL

(* Every open descriptor has exactly one keeper: epoll, main, or one node of *)
(* one list.                                                                 *)
THEOREM OneKeeperEach == Spec => []Consistent
<1>1. IInv => Consistent
  <2> SUFFICES ASSUME IInv, NEW f \in Fds
               PROVE  Cardinality(Places(f) \ Unlinking) = IF conn[f] = "listed" THEN 1 ELSE 0
    BY DEF Consistent, OneKeeper, IInv, HandInv
  <2> DEFINE P == Places(f) \ Unlinking
  <2>1. \A s \in Senders : list[s] \in Seq(Fds) /\ \A i \in DOMAIN list[s] : i \in Nat
    <3>1. ASSUME NEW s \in Senders PROVE list[s] \in Seq(Fds) /\ \A i \in DOMAIN list[s] : i \in Nat
      <4>1. list[s] \in Seq(Fds)
        BY DEF IInv, TypeOK, SenderTypes
      <4> QED  BY <4>1, LenProperties
    <3> QED  BY <3>1
  <2>2. \A p \in P : \E s \in Senders, i \in Nat : p = <<s, i>> /\ Live(s, i) /\ list[s][i] = f
    BY <2>1 DEF Places, Unlinking, Live
  <2>3. \A s \in Senders, i \in Nat : Live(s, i) /\ list[s][i] = f => <<s, i>> \in P
    BY DEF Places, Unlinking, Live
  <2> HIDE DEF P
  <2>4. CASE conn[f] = "listed"
    <3>1. PICK s \in Senders, i \in Nat : Live(s, i) /\ list[s][i] = f
      BY <2>4 DEF IInv, ListInv
    <3>2. <<s, i>> \in P
      BY <2>3, <3>1
    <3>3. \A p \in P : p = <<s, i>>
      BY <2>2, <3>1 DEF IInv, ListInv
    <3>4. P = {<<s, i>>}
      BY <3>2, <3>3
    <3> QED  BY <2>4, <3>4, FS_Singleton DEF P
  <2>5. CASE conn[f] # "listed"
    <3>1. P = {}
      BY <2>2, <2>5 DEF IInv, ListInv
    <3> QED  BY <2>5, <3>1, FS_EmptySet DEF P
  <2> QED  BY <2>4, <2>5
<1> QED  BY Invariance, <1>1, PTL

=============================================================================
