----------------------------- MODULE BridgeProofs -----------------------------
(***************************************************************************)
(* Proofs about Bridge, for any number of descriptors and sessions and any *)
(* length of what is sent.  The difficulty is that closing a pair leaves   *)
(* its Session and its entries of sessions[] behind, while the numbers of  *)
(* the descriptors are given out again.  So an entry says less than it     *)
(* seems to: only that the Session is allocated and has the number, not    *)
(* that the open descriptor of that number is the Session's.               *)
(*                                                                         *)
(* At the end, the frames: however many and however long they are, and     *)
(* wherever the recvs end.                                                 *)
(***************************************************************************)
EXTENDS MCBridge, SequenceTheorems, Induction

(* Every descriptor has an input; a closed one belongs to nobody and has     *)
(* nothing to read.                                                          *)
ClosedInv ==
  /\ input \in [Fds -> Seq(Chunks)]
  /\ \A f \in Fds \ open : owner[f] = NULL /\ input[f] = <<>>

(* An entry of sessions[] leads to an allocated Session that has the number. *)
EntryInv ==
  \A f \in Fds : sessions[f] # NULL => sessions[f] \in alloc /\ f \in Pair(sessions[f])

(* A Session has a target exactly once it is established, and then two       *)
(* different numbers.                                                        *)
RecordInv ==
  \A s \in Sessions :
    /\ session[s].state = "HANDSHAKE" => session[s].target = NULL
    /\ session[s].state = "ESTABLISHED" =>
         /\ session[s].client # NULL /\ session[s].target # NULL
         /\ session[s].client # session[s].target

(* Only a client that has been answered has sent frames.                     *)
RequestInv ==
  \A f \in open : owner[f] # NULL /\ session[owner[f]].state = "HANDSHAKE"
                    => \A i \in 1..Len(input[f]) : input[f][i] # "data"

(* Only targets are edge-triggered. *)
EdgeInv == \A f \in edge \cup crowded : IsTarget(f)

(* A recv leaves nothing of what a target has that is not crowded.           *)
CrowdedInv ==
  \A f \in open \ crowded : IsTarget(f) =>
    Len(input[f]) <= Cap /\ (f \in fin => input[f] = <<>>)

(* A Session without a target is that of its client.                         *)
HandshakeInv ==
  \A f \in Fds : sessions[f] # NULL /\ session[sessions[f]].state = "HANDSHAKE"
                   => f \in open /\ owner[f] = sessions[f]

(* An event still to be handled is that of a descriptor that still has       *)
(* something to read, or was opened since; or its pair was closed since, and *)
(* the numbers of that are not open, or were opened since.                   *)
BatchInv ==
  \A f \in batch \cap Fds :
    IF f \in open /\ owner[f] # NULL
      THEN f \in fresh \/ Readable(f)
      ELSE sessions[f] # NULL /\ Pair(sessions[f]) \cap open \subseteq fresh

IInv == /\ TypeOK
        /\ ClosedInv /\ EntryInv /\ RecordInv /\ PairsAgree
        /\ RequestInv /\ HandshakeInv /\ BatchInv
        /\ EdgeInv /\ CrowdedInv /\ NoEdgeLost

(* Where an event has closed a stranger's connection, less is left, and the  *)
(* model stops.                                                              *)
BaseInv == TypeOK /\ ClosedInv /\ EntryInv /\ RecordInv /\ NoEdgeLost
Inv     == BaseInv /\ (fault # "stranger" => IInv)

-----------------------------------------------------------------------------
(* One recv takes the beginning of what is there, and leaves the rest.       *)
LEMMA Recv ==
  ASSUME NEW f, input[f] \in Seq(Chunks)
  PROVE  /\ Received(f) \in Seq(Chunks) /\ Left(f) \in Seq(Chunks)
         /\ Len(Left(f)) <= Len(input[f])
         /\ \A i \in DOMAIN Received(f) :
              i \in DOMAIN input[f] /\ Received(f)[i] = input[f][i]
         /\ \A i \in 1..Len(Left(f)) : \E k \in 1..Len(input[f]) : Left(f)[i] = input[f][k]
         /\ Len(input[f]) <= Cap => Left(f) = <<>>
<1> DEFINE taken == Least(Cap, Len(input[f]))
<1>1. Len(input[f]) \in Nat /\ DOMAIN input[f] = 1..Len(input[f])
  BY LenProperties
<1>2. taken \in Nat /\ taken <= Len(input[f])
  BY <1>1, BridgeAssumption DEF Least
<1> HIDE DEF taken
<1>3. /\ SubSeq(input[f], 1, taken) \in Seq(Chunks)
      /\ Len(SubSeq(input[f], 1, taken)) = taken
      /\ \A i \in 1..taken : SubSeq(input[f], 1, taken)[i] = input[f][i]
  <2>1. \A i \in 1..taken : input[f][i] \in Chunks
    BY <1>1, <1>2, ElementOfSeq
  <2> QED  BY <1>2, <2>1, SubSeqProperties
<1>4. /\ SubSeq(input[f], taken + 1, Len(input[f])) \in Seq(Chunks)
      /\ Len(SubSeq(input[f], taken + 1, Len(input[f]))) = Len(input[f]) - taken
      /\ \A i \in 1..(Len(input[f]) - taken) :
           SubSeq(input[f], taken + 1, Len(input[f]))[i] = input[f][taken + i]
  <2>1. \A i \in (taken + 1)..Len(input[f]) : input[f][i] \in Chunks
    BY <1>1, <1>2, ElementOfSeq
  <2>2. \A i \in 1..(Len(input[f]) - (taken + 1) + 1) : i <= Len(input[f]) - taken /\ taken + 1 + i - 1 = taken + i
    BY <1>1, <1>2
  <2> QED  BY <1>1, <1>2, <2>1, <2>2, SubSeqProperties
<1>5. /\ Received(f) \in Seq(Chunks) /\ Len(Received(f)) = taken
      /\ DOMAIN Received(f) = 1..taken
      /\ \A i \in 1..taken : Received(f)[i] = input[f][i]
  BY <1>3, LenProperties DEF Received, taken
<1>6. /\ Left(f) \in Seq(Chunks) /\ Len(Left(f)) = Len(input[f]) - taken
      /\ \A i \in 1..(Len(input[f]) - taken) : Left(f)[i] = input[f][taken + i]
  BY <1>4 DEF Left, taken
<1>7. \A i \in 1..Len(Left(f)) : taken + i \in 1..Len(input[f])
  BY <1>1, <1>2, <1>6
<1>8. ASSUME Len(input[f]) <= Cap PROVE Left(f) = <<>>
  <2>1. taken = Len(input[f])
    BY <1>1, <1>8, BridgeAssumption DEF taken, Least
  <2>2. Len(Left(f)) = 0
    BY <1>1, <1>6, <2>1
  <2> QED  BY <1>6, <2>2, EmptySeq
<1> QED  BY <1>1, <1>2, <1>5, <1>6, <1>7, <1>8

(* With nothing open and no Session every part holds.                        *)
LEMMA InitInv == Init => IInv
<1> SUFFICES ASSUME Init PROVE IInv
  OBVIOUS
<1>1. <<>> \in Seq(Chunks) /\ Len(<<>>) = 0
  BY EmptySeq
<1>2. TypeOK
  <2>1. /\ sessions \in [Fds -> Sessions \cup {NULL}] /\ owner \in [Fds -> Sessions \cup {NULL}]
        /\ session \in [Sessions -> [client : Fds \cup {NULL}, target : Fds \cup {NULL},
                                     state : {"HANDSHAKE", "ESTABLISHED"}]]
    BY DEF Init, NewSession
  <2>2. \A f \in Fds : input[f] \in Seq(Chunks) /\ Len(input[f]) <= MaxInput
    BY <1>1, BridgeAssumption DEF Init
  <2> QED  BY <2>1, <2>2 DEF Init, TypeOK
<1>3. ClosedInv /\ EntryInv /\ RecordInv
  BY <1>1 DEF Init, ClosedInv, EntryInv, RecordInv, NewSession
<1>4. /\ PairsAgree /\ RequestInv /\ HandshakeInv /\ BatchInv
      /\ EdgeInv /\ CrowdedInv /\ NoEdgeLost
  BY DEF Init, PairsAgree, RequestInv, HandshakeInv, BatchInv, EdgeInv, CrowdedInv, NoEdgeLost
<1> QED  BY <1>2, <1>3, <1>4 DEF IInv

(* The owner of an open descriptor is the Session that its number leads to.  *)
LEMMA OwnerAgrees ==
  ASSUME IInv, NEW f \in open, owner[f] # NULL
  PROVE  f \in Fds /\ owner[f] \in Sessions /\ Agrees(f, owner[f])
BY DEF IInv, TypeOK, PairsAgree

(* What the table and the owners say of each other stays where only inputs,   *)
(* ends and edges change.                                                    *)
LEMMA SameTable ==
  ASSUME IInv, UNCHANGED <<table, open, owner>>
  PROVE  /\ EntryInv' /\ RecordInv' /\ PairsAgree' /\ HandshakeInv'
         /\ \A f \in Fds : IsTarget(f)' <=> IsTarget(f)
BY DEF IInv, table, EntryInv, RecordInv, PairsAgree, Agrees, Pair, IsTarget, HandshakeInv

(* An event keeps its reason as long as what its descriptor has to read is   *)
(* not read.                                                                 *)
LEMMA SameBatch ==
  ASSUME IInv, UNCHANGED <<table, open, owner>>, batch' \subseteq batch,
         \A f \in batch' \cap Fds : Readable(f) => Readable(f)',
         batch' \cap Fds = {} \/ fresh \cap open \subseteq fresh'
  PROVE  BatchInv'
<1>1. ASSUME NEW f \in batch' \cap Fds
      PROVE  IF f \in open' /\ owner'[f] # NULL
             THEN f \in fresh' \/ Readable(f)'
             ELSE sessions'[f] # NULL /\ Pair(sessions[f])' \cap open' \subseteq fresh'
  BY <1>1 DEF IInv, BatchInv, table, Pair
<1> QED  BY <1>1 DEF BatchInv, Pair

(* What the others of a batch have left, when some descriptors are closed    *)
(* and others are opened.                                                    *)
LEMMA Handled ==
  ASSUME NEW e, Done(e)
  PROVE  /\ e \in batch /\ batch' = batch \ {e} /\ fresh' \subseteq fresh \cup open'
         /\ batch' # {} => fresh \cap open' \subseteq fresh' /\ open' \ open \subseteq fresh'
BY DEF Done

(* Chunks and ends arrive; one for a target comes with an edge.              *)
LEMMA WorldInv ==
  ASSUME IInv, World
  PROVE  IInv'
<1> USE DEF IInv
<1>1. CASE Connect
  BY <1>1, SameTable
  DEF Connect, table, sockets, TypeOK, ClosedInv, RequestInv, EdgeInv, CrowdedInv, NoEdgeLost,
      Readable, IsTarget, BatchInv, Pair
<1>2. ASSUME NEW f \in Fds, NEW chunk \in Chunks, f \in open, Arrive(f, chunk),
             owner[f] # NULL,
             session[owner[f]].state = "HANDSHAKE" => chunk # "data"
      PROVE  IInv'
  <2>1. /\ Append(input[f], chunk) \in Seq(Chunks)
        /\ Len(Append(input[f], chunk)) = Len(input[f]) + 1
        /\ \A i \in 1..Len(input[f]) : Append(input[f], chunk)[i] = input[f][i]
        /\ Append(input[f], chunk)[Len(input[f]) + 1] = chunk
        /\ Len(input[f]) \in Nat
    BY AppendProperties, LenProperties DEF ClosedInv
  <2>2. /\ input' = [input EXCEPT ![f] = Append(input[f], chunk)]
        /\ edge' = (IF IsTarget(f) THEN edge \cup {f} ELSE edge)
        /\ crowded' = (IF IsTarget(f) /\ Len(input[f]) >= Cap THEN crowded \cup {f} ELSE crowded)
        /\ Len(input[f]) < MaxInput /\ f \notin fin
        /\ UNCHANGED <<table, batch, backlog, open, owner, fin, fresh, fault>>
    BY <1>2 DEF Arrive
  <2>3. TypeOK' /\ ClosedInv'
    BY <1>2, <2>1, <2>2, BridgeAssumption DEF TypeOK, ClosedInv, table
  <2>4. RequestInv'
    <3>1. ASSUME NEW g \in open, owner[g] # NULL, session[owner[g]].state = "HANDSHAKE",
                 NEW i \in 1..Len(input'[g])
          PROVE  input'[g][i] # "data"
      <4>1. CASE g = f
        BY <1>2, <2>1, <2>2, <3>1, <4>1 DEF ClosedInv, RequestInv
      <4>2. CASE g # f
        BY <1>2, <2>2, <3>1, <4>2 DEF ClosedInv, RequestInv, TypeOK
      <4> QED  BY <4>1, <4>2
    <3> QED  BY <2>2, <3>1 DEF RequestInv, table
  <2>5. EdgeInv' /\ NoEdgeLost'
    BY <1>2, <2>2, SameTable DEF EdgeInv, NoEdgeLost, Readable, IsTarget, ClosedInv, TypeOK, table
  <2>6. CrowdedInv'
    <3>1. ASSUME NEW g \in open \ crowded', IsTarget(g)
          PROVE  Len(input'[g]) <= Cap /\ (g \in fin => input'[g] = <<>>)
      <4>1. CASE g = f
        BY <1>2, <2>1, <2>2, <3>1, <4>1, BridgeAssumption DEF ClosedInv
      <4>2. CASE g # f
        BY <1>2, <2>2, <3>1, <4>2 DEF CrowdedInv, ClosedInv, TypeOK
      <4> QED  BY <4>1, <4>2
    <3> QED  BY <2>2, <3>1, SameTable DEF CrowdedInv, TypeOK
  <2>7. BatchInv'
    <3>1. ASSUME NEW g \in Fds, Readable(g) PROVE Readable(g)'
      <4>1. CASE g = f
        <5>1. input'[f] # <<>>
          BY <2>1, <2>2, EmptySeq DEF ClosedInv
        <5> QED  BY <4>1, <5>1 DEF Readable
      <4>2. CASE g # f
        BY <2>2, <3>1, <4>2 DEF Readable, ClosedInv
      <4> QED  BY <4>1, <4>2
    <3> QED  BY <2>2, <3>1, SameBatch
  <2> QED  BY <2>2, <2>3, <2>4, <2>5, <2>6, <2>7, SameTable
<1>3. ASSUME NEW f \in Fds, HangUp(f)
      PROVE  IInv'
  <2>1. f \in open
    BY <1>3 DEF HangUp, IsClient, IsTarget
  <2>2. TypeOK' /\ ClosedInv' /\ RequestInv'
    BY <1>3, <2>1 DEF HangUp, TypeOK, ClosedInv, RequestInv, table
  <2>3. EdgeInv' /\ CrowdedInv' /\ NoEdgeLost'
    BY <1>3, <2>1, SameTable
    DEF HangUp, TypeOK, EdgeInv, CrowdedInv, NoEdgeLost, Readable, IsTarget, table
  <2>4. BatchInv'
    BY <1>3, SameBatch DEF HangUp, Readable
  <2> QED  BY <1>3, <2>2, <2>3, <2>4, SameTable DEF HangUp
<1>4. ASSUME NEW f \in Fds, NEW chunk \in Chunks, ClientSends(f, chunk) PROVE IInv'
  BY <1>2, <1>4 DEF ClientSends, IsClient
<1>5. ASSUME NEW f \in Fds, TargetSends(f) PROVE IInv'
  <2>1. session[owner[f]].state # "HANDSHAKE" /\ f \in open /\ owner[f] # NULL
    BY <1>5, OwnerAgrees, BridgeAssumption DEF TargetSends, IsTarget, RecordInv
  <2> QED  BY <1>2, <1>5, <2>1, BridgeAssumption DEF TargetSends
<1> QED  BY <1>1, <1>3, <1>4, <1>5 DEF World

(* epoll_wait turns edges into events.                                       *)
LEMMA EpollInv ==
  ASSUME IInv, EpollWait \/ AcceptFails
  PROVE  IInv'
<1> USE DEF IInv
<1>1. CASE EpollWait
  <2>1. TypeOK'
    BY <1>1 DEF EpollWait, Ready, IsClient, TypeOK, table
  <2>2. NoEdgeLost'
    BY <1>1 DEF EpollWait, Ready, NoEdgeLost, Readable, IsTarget, TypeOK, table
  <2>3. ClosedInv' /\ RequestInv'
    BY <1>1 DEF EpollWait, ClosedInv, RequestInv, table
  <2>4. EdgeInv'
    BY <1>1, SameTable DEF EpollWait, EdgeInv, TypeOK
  <2>5. CrowdedInv'
    BY <1>1, SameTable DEF EpollWait, CrowdedInv, TypeOK
  <2>6. BatchInv'
    BY <1>1, BridgeAssumption
    DEF EpollWait, Ready, EdgeInv, BatchInv, Readable, IsTarget, IsClient
  <2> QED
    BY <1>1, <2>1, <2>2, <2>3, <2>4, <2>5, <2>6, SameTable DEF EpollWait
<1>2. CASE AcceptFails
  <2>1. /\ batch' = batch \ {Listener} /\ fresh' \in SUBSET Fds
        /\ batch' \cap Fds = {} \/ fresh \cap open \subseteq fresh'
        /\ UNCHANGED <<table, backlog, open, owner, input, fin, edge, crowded, fault>>
    BY <1>2 DEF AcceptFails, Done, sockets, TypeOK
  <2>2. TypeOK' /\ ClosedInv' /\ RequestInv'
    BY <2>1 DEF TypeOK, ClosedInv, RequestInv, table
  <2>3. EdgeInv' /\ CrowdedInv' /\ NoEdgeLost'
    BY <2>1, SameTable, BridgeAssumption
    DEF EdgeInv, CrowdedInv, NoEdgeLost, Readable, IsTarget, TypeOK, table
  <2>4. BatchInv'
    BY <2>1, SameBatch DEF Readable
  <2> QED  BY <2>1, <2>2, <2>3, <2>4, SameTable
<1> QED  BY <1>1, <1>2

(* sessions[f] = s: the other entries' Sessions stay allocated, with the     *)
(* records that are given for them.                                          *)
LEMMA Entered ==
  ASSUME IInv, NEW f \in Fds, NEW s \in Sessions, NEW records, Enter(f, s, records)
  PROVE  /\ sessions' \in [Fds -> Sessions \cup {NULL}] /\ sessions'[f] = s
         /\ \A g \in Fds \ {f} : sessions'[g] = sessions[g]
         /\ alloc' \subseteq alloc \cup {s} /\ s \in alloc'
         /\ \A g \in Fds : sessions'[g] # NULL => sessions'[g] \in alloc'
         /\ \A x \in alloc' : session'[x] = records[x]
         /\ \A x \in Sessions \ alloc' : session'[x] = NewSession(NULL)
         /\ DOMAIN session' = Sessions /\ session' = [x \in Sessions |-> session'[x]]
BY DEF Enter, IInv, TypeOK, EntryInv

(* accept: a new Session for a number that nobody has, although an entry of  *)
(* an old pair may still be there.                                           *)
LEMMA AcceptInv ==
  ASSUME IInv, Accept
  PROVE  IInv'
<1> USE DEF IInv
<1>1. PICK f \in Fds \ open, s \in Sessions \ alloc :
        /\ Enter(f, s, [session EXCEPT ![s] = NewSession(f)])
        /\ open' = open \cup {f} /\ owner' = [owner EXCEPT ![f] = s]
  BY DEF Accept
<1>2. /\ batch' = batch \ {Listener} /\ fresh' \subseteq fresh \cup open'
      /\ batch' # {} => fresh \cap open' \subseteq fresh' /\ open' \ open \subseteq fresh'
      /\ UNCHANGED <<input, fin, edge, crowded, fault>> /\ backlog' = FALSE
  BY Handled DEF Accept
<1>3. /\ sessions' \in [Fds -> Sessions \cup {NULL}] /\ sessions'[f] = s
      /\ \A g \in Fds \ {f} : sessions'[g] = sessions[g]
      /\ alloc' \subseteq alloc \cup {s} /\ s \in alloc'
      /\ \A g \in Fds : sessions'[g] # NULL => sessions'[g] \in alloc'
      /\ \A x \in alloc' \ {s} : session'[x] = session[x]
      /\ session'[s] = NewSession(f)
      /\ \A x \in Sessions \ alloc' : session'[x] = NewSession(NULL)
      /\ session' = [x \in Sessions |-> session'[x]]
  <2> DEFINE records == [session EXCEPT ![s] = NewSession(f)]
  <2>1. records[s] = NewSession(f) /\ \A x \in Sessions \ {s} : records[x] = session[x]
    BY DEF TypeOK
  <2>2. Enter(f, s, records)
    BY <1>1
  <2> HIDE DEF records
  <2> QED  BY <2>1, <2>2, Entered DEF TypeOK
<1>4. \A x \in Sessions : session'[x] \in [client : Fds \cup {NULL}, target : Fds \cup {NULL},
                                          state : {"HANDSHAKE", "ESTABLISHED"}]
  BY <1>3 DEF TypeOK, NewSession
<1>5. TypeOK'
  BY <1>1, <1>2, <1>3, <1>4 DEF TypeOK
<1>6. ClosedInv'
  BY <1>1, <1>2 DEF ClosedInv, TypeOK
<1>7. RecordInv'
  BY <1>3 DEF RecordInv, NewSession, TypeOK
<1>8. /\ \A g \in Fds \ {f} : sessions[g] # NULL
           => sessions[g] # s /\ session'[sessions[g]] = session[sessions[g]]
      /\ \A g \in open : /\ g # f /\ owner'[g] = owner[g]
                         /\ owner[g] # NULL => /\ owner[g] \in alloc' \ {s}
                                               /\ session'[owner[g]] = session[owner[g]]
  BY <1>1, <1>3, OwnerAgrees, ZenonT(30) DEF EntryInv, Agrees, TypeOK
<1>9. EntryInv'
  BY <1>3, <1>8, BridgeAssumption DEF EntryInv, Pair, NewSession, TypeOK
<1>10. PairsAgree'
  <2>1. ASSUME NEW g \in open, NEW x \in Sessions, owner[g] = x
        PROVE  Agrees(g, x)'
    BY <1>1, <1>3, <1>8, <2>1, BridgeAssumption DEF PairsAgree, Agrees, Pair, TypeOK
  <2>2. Agrees(f, s)'
    BY <1>1, <1>3, BridgeAssumption DEF Agrees, Pair, NewSession, TypeOK
  <2>3. owner'[f] = s /\ \A g \in open : owner'[g] = owner[g]
    BY <1>1 DEF TypeOK
  <2> QED  BY <1>1, <2>1, <2>2, <2>3 DEF PairsAgree
<1>11. \A g \in Fds : IsTarget(g)' <=> IsTarget(g)
  BY <1>1, <1>3, <1>8, BridgeAssumption DEF IsTarget, NewSession, TypeOK
<1>12. RequestInv' /\ EdgeInv' /\ CrowdedInv' /\ NoEdgeLost'
  <2>1. input[f] = <<>> /\ Len(<<>>) = 0
    BY <1>1, EmptySeq DEF ClosedInv
  <2>2. RequestInv'
    BY <1>1, <1>2, <1>8, <2>1 DEF RequestInv
  <2>3. EdgeInv'
    BY <1>2, <1>11 DEF EdgeInv, TypeOK
  <2>4. ~IsTarget(f)
    BY <1>1 DEF IsTarget
  <2>5. NoEdgeLost'
    BY <1>1, <1>2, <1>11, <2>4, BridgeAssumption DEF NoEdgeLost, Readable, TypeOK
  <2>6. CrowdedInv'
    BY <1>1, <1>2, <1>11, <2>4 DEF CrowdedInv, TypeOK
  <2> QED  BY <2>2, <2>3, <2>5, <2>6
<1>13. HandshakeInv'
  <2>1. ASSUME NEW g \in Fds, sessions'[g] # NULL, session'[sessions'[g]].state = "HANDSHAKE"
        PROVE  g \in open' /\ owner'[g] = sessions'[g]
    <3>1. CASE g = f
      BY <1>1, <1>3, <3>1 DEF TypeOK
    <3>2. CASE g # f
      BY <1>1, <1>3, <1>8, <2>1, <3>2 DEF HandshakeInv, TypeOK
    <3> QED  BY <3>1, <3>2
  <2> QED  BY <2>1 DEF HandshakeInv
<1>14. BatchInv'
  <2>1. ASSUME NEW g \in batch' \cap Fds
        PROVE  IF g \in open' /\ owner'[g] # NULL
               THEN g \in fresh' \/ Readable(g)'
               ELSE sessions'[g] # NULL /\ Pair(sessions[g])' \cap open' \subseteq fresh'
    <3>1. g \in batch /\ fresh \cap open' \subseteq fresh' /\ f \in fresh'
      BY <1>1, <1>2, <2>1
    <3>2. CASE g = f
      BY <1>1, <3>1, <3>2, BridgeAssumption DEF TypeOK
    <3>3. CASE g # f /\ g \in open /\ owner[g] # NULL
      BY <1>1, <1>2, <3>1, <3>3 DEF BatchInv, Readable, TypeOK
    <3>4. CASE g # f /\ ~(g \in open /\ owner[g] # NULL)
      <4>1. /\ sessions[g] # NULL /\ Pair(sessions[g]) \cap open \subseteq fresh
            /\ sessions'[g] = sessions[g] /\ Pair(sessions[g])' = Pair(sessions[g])
        BY <1>3, <1>8, <2>1, <3>1, <3>4 DEF BatchInv, Pair
      <4>2. ~(g \in open' /\ owner'[g] # NULL)
        BY <1>1, <3>4 DEF TypeOK
      <4> QED  BY <1>1, <3>1, <4>1, <4>2
    <3> QED  BY <3>2, <3>3, <3>4
  <2> QED
    BY <2>1 DEF BatchInv, Pair
<1> QED  BY <1>5, <1>6, <1>7, <1>9, <1>10, <1>12, <1>13, <1>14

(* The Session that main finds for a descriptor is allocated; the owner of   *)
(* an open descriptor is what is found.                                      *)
LEMMA FoundSession ==
  ASSUME IInv, NEW f \in Fds, NEW s \in Found(f)
  PROVE  /\ s \in Sessions /\ s \in alloc /\ s # NULL
         /\ \A g \in open : owner[g] = s => g \in Pair(s)
         /\ f \in open /\ owner[f] # NULL => s = owner[f]
         /\ sessions[f] # NULL => s = sessions[f]
<1>1. \E g \in Fds : sessions[g] = s /\ s # NULL
  <2>1. CASE sessions[f] # NULL
    BY <2>1 DEF Found
  <2>2. CASE sessions[f] = NULL
    BY <2>2 DEF Found
  <2> QED  BY <2>1, <2>2
<1>2. s \in Sessions /\ s \in alloc
  BY <1>1 DEF IInv, TypeOK, EntryInv
<1>3. \A g \in open : owner[g] = s => g \in Pair(s)
  BY <1>2, OwnerAgrees, BridgeAssumption DEF Agrees
<1>4. f \in open /\ owner[f] # NULL => s = owner[f]
  BY OwnerAgrees, BridgeAssumption DEF Agrees, Found
<1> QED  BY <1>1, <1>2, <1>3, <1>4 DEF Found

(* A request is always that of the Session's own client, which is open, and  *)
(* no other entry leads to the Session.                                      *)
LEMMA RequestOwn ==
  ASSUME IInv, NEW f \in Fds, NEW s \in Found(f),
         f = session[s].client, session[s].state = "HANDSHAKE"
  PROVE  /\ s \in Sessions /\ s \in alloc /\ s # NULL /\ f # NULL
         /\ Pair(s) = {f} /\ session[s].target = NULL
         /\ f \in open /\ owner[f] = s /\ sessions[f] = s
         /\ \A g \in Fds : sessions[g] = s => g = f
         /\ \A g \in open : owner[g] = s => g = f
<1>1. /\ s \in Sessions /\ s \in alloc /\ s # NULL /\ f # NULL
      /\ session[s].target = NULL /\ Pair(s) = {f}
  BY FoundSession, BridgeAssumption DEF IInv, RecordInv, Pair
<1>2. \A g \in Fds : sessions[g] = s => g = f
  BY <1>1 DEF IInv, EntryInv
<1>3. sessions[f] = s
  <2>1. CASE sessions[f] # NULL
    BY <2>1 DEF Found
  <2>2. CASE sessions[f] = NULL
    <3>1. PICK k \in Fds : sessions[k] = s
      BY <2>2 DEF Found
    <3> QED  BY <1>2, <3>1
  <2> QED  BY <2>1, <2>2
<1>4. f \in open /\ owner[f] = s
  BY <1>1, <1>3 DEF IInv, HandshakeInv
<1>5. \A g \in open : owner[g] = s => g = f
  BY <1>1, FoundSession
<1> QED  BY <1>1, <1>2, <1>3, <1>4, <1>5

(* f is closed, and the descriptors T are opened for nobody.                 *)
Replaced(f, T) ==
  /\ open' = (open \ {f}) \cup T
  /\ owner' = [g \in Fds |-> IF g = f THEN NULL ELSE owner[g]]
  /\ input' = [g \in Fds |-> IF g = f THEN <<>> ELSE input[g]]
  /\ fin' = fin \ {f} /\ edge' = edge \ {f} /\ crowded' = crowded \ {f}

(* close(fd), free(s), sessions[fd] = NULL for a request that comes to       *)
(* nothing: a Session without a target has one entry, so that none is left   *)
(* to point to it.  T is the descriptor of a target that refused, or         *)
(* nothing.                                                                  *)
LEMMA GiveUpInv ==
  ASSUME IInv, NEW f \in Fds, NEW s \in Found(f),
         f = session[s].client, session[s].state = "HANDSHAKE", GiveUp(f, s),
         Done(f), UNCHANGED backlog, fault' \in {"none", "stranger", "sigpipe"},
         NEW T \in SUBSET (Fds \ open), Replaced(f, T)
  PROVE  IInv'
<1> USE DEF IInv, Replaced
<1>1. /\ s \in Sessions /\ s \in alloc
      /\ Pair(s) = {f} /\ session[s].target = NULL /\ f # NULL
      /\ f \in open /\ owner[f] = s
      /\ \A g \in Fds : sessions[g] = s => g = f
      /\ \A g \in open : owner[g] = s => g = f
      /\ batch' = batch \ {f} /\ fresh' \subseteq fresh \cup open'
      /\ batch' # {} => fresh \cap open' \subseteq fresh' /\ open' \ open \subseteq fresh'
  BY RequestOwn, Handled
<1>2. /\ sessions' = [sessions EXCEPT ![f] = NULL]
      /\ alloc' = alloc \ {s}
      /\ session' = [session EXCEPT ![s] = NewSession(NULL)]
  BY DEF GiveUp
<1>3. \A g \in Fds \ {f} : sessions[g] # s
  BY <1>1
<1>4. /\ \A g \in Fds \ {f} : sessions'[g] = sessions[g]
      /\ \A x \in Sessions \ {s} : session'[x] = session[x]
      /\ session'[s] = NewSession(NULL)
  BY <1>1, <1>2 DEF TypeOK
<1>5. TypeOK'
  <2>1. NewSession(NULL) \in [client : Fds \cup {NULL}, target : Fds \cup {NULL},
                              state : {"HANDSHAKE", "ESTABLISHED"}]
    BY DEF NewSession
  <2>2. <<>> \in Seq(Chunks) /\ Len(<<>>) = 0
    BY EmptySeq
  <2>3. /\ sessions' \in [Fds -> Sessions \cup {NULL}] /\ alloc' \in SUBSET Sessions
        /\ session' \in [Sessions -> [client : Fds \cup {NULL}, target : Fds \cup {NULL},
                                      state : {"HANDSHAKE", "ESTABLISHED"}]]
    BY <1>2, <2>1 DEF TypeOK
  <2>4. \A g \in Fds : input'[g] \in Seq(Chunks) /\ Len(input'[g]) <= MaxInput
    BY <2>2, BridgeAssumption DEF TypeOK
  <2> QED  BY <1>1, <2>3, <2>4 DEF TypeOK
<1>6. ClosedInv'
  BY EmptySeq DEF ClosedInv
<1>7. EntryInv'
  <2>1. ASSUME NEW g \in Fds, NEW x \in Sessions, sessions'[g] = x
        PROVE  x \in alloc' /\ g \in Pair(x)'
    <3>1. g # f /\ sessions[g] = x /\ x # s
      BY <1>2, <1>3, <1>4, <2>1, BridgeAssumption DEF TypeOK
    <3> QED  BY <1>2, <1>4, <2>1, <3>1, BridgeAssumption DEF EntryInv, Pair
  <2> QED  BY <1>5, <2>1 DEF EntryInv, TypeOK, Pair
<1>8. RecordInv'
  BY <1>4 DEF RecordInv, NewSession
<1>9. \A g \in open' : owner'[g] # NULL
        => /\ g \in open /\ g # f /\ owner'[g] = owner[g]
           /\ owner[g] \in Sessions \ {s} /\ session'[owner[g]] = session[owner[g]]
  BY <1>1, <1>4 DEF ClosedInv, TypeOK
<1>10. PairsAgree'
  <2>1. ASSUME NEW g \in open', NEW x \in Sessions, owner'[g] = x
        PROVE  Agrees(g, x)'
    <3>1. /\ g \in open /\ g # f /\ owner[g] = x /\ x # s /\ session'[x] = session[x]
      BY <1>9, <2>1, BridgeAssumption
    <3>2. Agrees(g, x)
      BY <3>1, BridgeAssumption DEF PairsAgree, Agrees
    <3>3. sessions'[g] = x /\ x \in alloc' /\ Pair(x)' = Pair(x)
      BY <1>2, <1>4, <3>1, <3>2 DEF Pair, TypeOK, Agrees
    <3>4. ASSUME session[x].state = "ESTABLISHED", NEW h \in Pair(x)
          PROVE  h \in open' /\ owner'[h] = x
      <4>1. h \in open /\ owner[h] = x
        BY <3>2, <3>4 DEF Agrees
      <4>2. h # f
        BY <1>1, <3>1, <4>1
      <4> QED  BY <4>1, <4>2 DEF TypeOK
    <3> QED  BY <3>1, <3>2, <3>3, <3>4 DEF Agrees
  <2> QED  BY <2>1 DEF PairsAgree
<1>11. RequestInv'
  <2>1. ASSUME NEW g \in open', owner'[g] # NULL, session'[owner'[g]].state = "HANDSHAKE",
               NEW i \in 1..Len(input'[g])
        PROVE  input'[g][i] # "data"
    <3>1. /\ g \in open /\ g # f /\ owner'[g] = owner[g]
          /\ session'[owner[g]] = session[owner[g]] /\ input'[g] = input[g]
      BY <1>9, <2>1 DEF TypeOK
    <3> QED  BY <2>1, <3>1 DEF RequestInv
  <2> QED  BY <2>1 DEF RequestInv
<1>12. \A g \in open' : IsTarget(g)' <=> IsTarget(g) /\ g # f
  BY <1>1, <1>9, BridgeAssumption DEF IsTarget, ClosedInv, TypeOK
<1>13. EdgeInv'
  BY <1>12 DEF EdgeInv, IsTarget, TypeOK
<1>14. NoEdgeLost' /\ CrowdedInv'
  <2>1. ASSUME NEW g \in open', IsTarget(g)'
        PROVE  g \in open /\ g # f /\ IsTarget(g) /\ input'[g] = input[g]
    BY <1>9, <1>12, <2>1 DEF IsTarget, TypeOK
  <2> QED  BY <1>1, <2>1 DEF NoEdgeLost, CrowdedInv, Readable, TypeOK
<1>15. HandshakeInv'
  <2>1. ASSUME NEW g \in Fds, sessions'[g] # NULL, session'[sessions'[g]].state = "HANDSHAKE"
        PROVE  g \in open' /\ owner'[g] = sessions'[g]
    <3>1. g # f /\ sessions'[g] = sessions[g] /\ sessions[g] \in Sessions \ {s}
      BY <1>2, <1>3, <1>4, <2>1 DEF TypeOK
    <3>2. g \in open /\ owner[g] = sessions[g]
      BY <1>4, <2>1, <3>1 DEF HandshakeInv
    <3> QED  BY <3>1, <3>2 DEF TypeOK
  <2> QED  BY <2>1 DEF HandshakeInv
<1>16. BatchInv'
  <2>1. ASSUME NEW g \in batch' \cap Fds
        PROVE  IF g \in open' /\ owner'[g] # NULL
               THEN g \in fresh' \/ Readable(g)'
               ELSE sessions'[g] # NULL /\ Pair(sessions[g])' \cap open' \subseteq fresh'
    <3>1. /\ g \in batch /\ g # f
          /\ fresh \cap open' \subseteq fresh' /\ open' \ open \subseteq fresh'
      BY <1>1, <2>1
    <3>2. CASE g \in open /\ owner[g] # NULL
      <4>1. g \in open' /\ owner'[g] = owner[g] /\ (Readable(g) => Readable(g)')
        BY <3>1, <3>2 DEF Readable, TypeOK
      <4> QED  BY <2>1, <3>1, <3>2, <4>1 DEF BatchInv
    <3>3. CASE ~(g \in open /\ owner[g] # NULL)
      <4>1. sessions[g] # NULL /\ Pair(sessions[g]) \cap open \subseteq fresh
        BY <2>1, <3>1, <3>3 DEF BatchInv
      <4>2. sessions'[g] = sessions[g] /\ Pair(sessions[g])' = Pair(sessions[g])
        BY <1>3, <1>4, <2>1, <3>1, <4>1 DEF Pair, TypeOK
      <4>3. ~(g \in open' /\ owner'[g] # NULL)
        BY <1>9, <3>3
      <4> QED  BY <3>1, <4>1, <4>2, <4>3
    <3> QED  BY <3>2, <3>3
  <2> QED
    BY <2>1 DEF BatchInv, Pair
<1> QED  BY <1>5, <1>6, <1>7, <1>8, <1>10, <1>11, <1>13, <1>14, <1>15, <1>16

(* handle_handshake: the Session gets its target, a number that nobody has,  *)
(* and the entry of that number is overwritten.                              *)
LEMMA EstablishInv ==
  ASSUME IInv, NEW f \in Fds, NEW s \in Found(f),
         f = session[s].client, session[s].state = "HANDSHAKE",
         NEW t \in Fds \ open,
         Enter(t, s, [session EXCEPT ![s].target = t, ![s].state = "ESTABLISHED"]),
         open' = open \cup {t}, owner' = [owner EXCEPT ![t] = s],
         input' = [input EXCEPT ![f] = Left(f)],
         UNCHANGED <<fin, edge, crowded, backlog>>, Done(f),
         fault' \in {"none", "stranger", "sigpipe"}
  PROVE  IInv'
<1> USE DEF IInv
<1>1. /\ s \in Sessions /\ s \in alloc /\ f \in Fds /\ f # t /\ f # NULL /\ t # NULL
      /\ Pair(s) = {f} /\ session[s].target = NULL /\ owner[f] = s /\ sessions[f] = s
      /\ f \in open
      /\ \A g \in Fds : sessions[g] = s => g = f
      /\ \A g \in open : owner[g] = s => g = f
      /\ batch' = batch \ {f} /\ fresh' \subseteq fresh \cup open'
      /\ batch' # {} => fresh \cap open' \subseteq fresh' /\ open' \ open \subseteq fresh'
  BY RequestOwn, Handled, BridgeAssumption DEF TypeOK
<1> DEFINE made == [client |-> f, target |-> t, state |-> "ESTABLISHED"]
<1>2. /\ sessions' \in [Fds -> Sessions \cup {NULL}] /\ sessions'[t] = s
      /\ \A g \in Fds \ {t} : sessions'[g] = sessions[g]
      /\ alloc' \subseteq alloc /\ s \in alloc'
      /\ \A g \in Fds : sessions'[g] # NULL => sessions'[g] \in alloc'
      /\ \A x \in alloc' \ {s} : session'[x] = session[x]
      /\ session'[s] = made
      /\ \A x \in Sessions \ alloc' : session'[x] = NewSession(NULL)
      /\ session' = [x \in Sessions |-> session'[x]]
  <2> DEFINE records == [session EXCEPT ![s].target = t, ![s].state = "ESTABLISHED"]
  <2>1. records[s] = made /\ \A x \in Sessions \ {s} : records[x] = session[x]
    <3>1. /\ s \in Sessions /\ f = session[s].client
          /\ session \in [Sessions -> [client : Fds \cup {NULL}, target : Fds \cup {NULL},
                                       state : {"HANDSHAKE", "ESTABLISHED"}]]
      BY <1>1 DEF TypeOK
    <3> QED  BY <3>1, ZenonT(30)
  <2>2. Enter(t, s, records)
    OBVIOUS
  <2> HIDE DEF records, made
  <2>3. /\ sessions' \in [Fds -> Sessions \cup {NULL}] /\ sessions'[t] = s
        /\ \A g \in Fds \ {t} : sessions'[g] = sessions[g]
        /\ alloc' \subseteq alloc \cup {s} /\ s \in alloc'
        /\ \A g \in Fds : sessions'[g] # NULL => sessions'[g] \in alloc'
        /\ \A x \in alloc' : session'[x] = records[x]
        /\ \A x \in Sessions \ alloc' : session'[x] = NewSession(NULL)
        /\ session' = [x \in Sessions |-> session'[x]]
    BY <1>1, <2>2, Entered
  <2> QED  BY <1>1, <2>1, <2>3 DEF TypeOK
<1>3. TypeOK' /\ ClosedInv'
  <2>1. \A x \in Sessions : session'[x] \in [client : Fds \cup {NULL}, target : Fds \cup {NULL},
                                            state : {"HANDSHAKE", "ESTABLISHED"}]
    BY <1>1, <1>2 DEF TypeOK, NewSession
  <2>2. Left(f) \in Seq(Chunks) /\ Len(Left(f)) <= MaxInput
    <3>1. Len(Left(f)) <= Len(input[f]) /\ Len(input[f]) <= MaxInput /\ Left(f) \in Seq(Chunks)
      BY <1>1, Recv DEF ClosedInv, TypeOK
    <3>2. Len(Left(f)) \in Nat /\ Len(input[f]) \in Nat
      BY <1>1, <3>1, LenProperties DEF ClosedInv
    <3> QED  BY <3>1, <3>2, BridgeAssumption
  <2>3. \A g \in Fds : input'[g] \in Seq(Chunks) /\ Len(input'[g]) <= MaxInput
    BY <1>1, <2>2 DEF ClosedInv, TypeOK
  <2>4. TypeOK'
    <3>1. session' \in [Sessions -> [client : Fds \cup {NULL}, target : Fds \cup {NULL},
                                     state : {"HANDSHAKE", "ESTABLISHED"}]]
      BY <1>2, <2>1
    <3>2. /\ alloc' \in SUBSET Sessions /\ batch' \in SUBSET (Fds \cup {Listener})
          /\ open' \in SUBSET Fds /\ owner' \in [Fds -> Sessions \cup {NULL}]
          /\ fin' \in SUBSET open' /\ edge' \in SUBSET open' /\ crowded' \in SUBSET open'
          /\ fresh' \in SUBSET Fds /\ backlog' \in BOOLEAN
      BY <1>1, <1>2 DEF TypeOK
    <3> QED  BY <1>2, <2>3, <3>1, <3>2 DEF TypeOK
  <2> QED  BY <1>1, <2>2, <2>4 DEF ClosedInv, TypeOK
<1>4. RecordInv'
  <2>1. \A x \in Sessions : x = s \/ session'[x] = session[x] \/ session'[x] = NewSession(NULL)
    BY <1>2
  <2> QED  BY <1>1, <1>2, <2>1 DEF RecordInv, NewSession
<1>5. EntryInv'
  <2>1. ASSUME NEW g \in Fds, NEW x \in Sessions, sessions'[g] = x
        PROVE  x \in alloc' /\ g \in Pair(x)'
    <3>1. CASE x = s
      BY <1>1, <1>2, <2>1, <3>1, BridgeAssumption DEF Pair
    <3>2. CASE x # s
      BY <1>2, <2>1, <3>2, BridgeAssumption DEF EntryInv, Pair
    <3> QED  BY <3>1, <3>2
  <2> QED  BY <1>2, <2>1 DEF EntryInv, Pair
<1>6. \A g \in open : owner[g] # NULL => g # t /\ owner[g] \in alloc'
  BY <1>1, <1>2, OwnerAgrees, BridgeAssumption DEF Agrees
<1>7. /\ owner'[t] = s /\ \A g \in open : owner'[g] = owner[g]
      /\ \A g \in open : owner[g] # NULL /\ g # f
           => owner[g] # s /\ session'[owner[g]] = session[owner[g]]
  BY <1>1, <1>2, <1>6 DEF TypeOK
<1>8. PairsAgree'
  <2>1. Agrees(f, s)' /\ Agrees(t, s)'
    BY <1>1, <1>2, <1>7, BridgeAssumption DEF Agrees, Pair
  <2>2. ASSUME NEW g \in open, NEW x \in Sessions, owner[g] = x, g # f
        PROVE  Agrees(g, x)'
    <3>1. Agrees(g, x) /\ g \in Fds /\ g # t /\ x \in alloc' \ {s} /\ session'[x] = session[x]
      BY <1>1, <1>2, <1>6, <1>7, <2>2, OwnerAgrees, BridgeAssumption
    <3> QED  BY <1>2, <1>7, <3>1 DEF Agrees, Pair
  <2> QED  BY <1>1, <1>7, <2>1, <2>2, BridgeAssumption DEF PairsAgree
<1>9. RequestInv'
  BY <1>2, <1>7 DEF RequestInv, TypeOK
<1>10. \A g \in Fds : IsTarget(g)' <=> IsTarget(g) \/ g = t
  <2>1. IsTarget(t)' /\ ~IsTarget(f) /\ ~IsTarget(f)'
    BY <1>1, <1>2, <1>7, BridgeAssumption DEF IsTarget
  <2>2. ASSUME NEW g \in open \ {f} PROVE IsTarget(g)' <=> IsTarget(g)
    BY <1>7 DEF IsTarget
  <2>3. ASSUME NEW g \in Fds \ open, g # t PROVE ~IsTarget(g) /\ ~IsTarget(g)'
    BY <2>3 DEF IsTarget
  <2> QED  BY <2>1, <2>2, <2>3
<1>11. EdgeInv'
  BY <1>10 DEF EdgeInv, TypeOK
<1>12. NoEdgeLost'
  <2>1. ~IsTarget(f)
    BY <1>1 DEF IsTarget
  <2>2. input'[t] = <<>> /\ t \notin fin
    BY <1>1 DEF ClosedInv, TypeOK
  <2>3. \A g \in Fds \ {f} : input'[g] = input[g]
    BY DEF ClosedInv
  <2> QED  BY <1>1, <1>10, <2>1, <2>2, <2>3 DEF NoEdgeLost, Readable, IsTarget, TypeOK
<1>13. CrowdedInv'
  <2>1. ~IsTarget(f) /\ Len(<<>>) = 0
    BY <1>1, EmptySeq DEF IsTarget
  <2>2. input'[t] = <<>>
    BY <1>1 DEF ClosedInv, TypeOK
  <2>3. \A g \in Fds \ {f} : input'[g] = input[g]
    BY DEF ClosedInv
  <2> QED  BY <1>1, <1>10, <2>1, <2>2, <2>3, BridgeAssumption DEF CrowdedInv, TypeOK
<1>14. HandshakeInv'
  <2>1. ASSUME NEW g \in Fds, sessions'[g] # NULL, session'[sessions'[g]].state = "HANDSHAKE"
        PROVE  g \in open' /\ owner'[g] = sessions'[g]
    <3>1. g # t /\ g # f /\ sessions'[g] = sessions[g] /\ sessions[g] \in alloc' \ {s}
      BY <1>1, <1>2, <2>1 DEF TypeOK
    <3>2. g \in open /\ owner[g] = sessions[g]
      BY <1>2, <2>1, <3>1 DEF HandshakeInv
    <3> QED  BY <1>7, <3>1, <3>2
  <2> QED  BY <2>1 DEF HandshakeInv
<1>15. BatchInv'
  <2>1. ASSUME NEW g \in batch' \cap Fds
        PROVE  IF g \in open' /\ owner'[g] # NULL
               THEN g \in fresh' \/ Readable(g)'
               ELSE sessions'[g] # NULL /\ Pair(sessions[g])' \cap open' \subseteq fresh'
    <3>1. /\ g \in batch /\ g # f
          /\ fresh \cap open' \subseteq fresh' /\ t \in fresh'
      BY <1>1, <2>1
    <3>2. CASE g = t
      BY <1>1, <1>7, <3>1, <3>2, BridgeAssumption
    <3>3. CASE g # t /\ g \in open /\ owner[g] # NULL
      <4>1. g \in open' /\ owner'[g] = owner[g] /\ (Readable(g) => Readable(g)')
        BY <1>7, <3>1, <3>3 DEF Readable, ClosedInv
      <4> QED  BY <2>1, <3>1, <3>3, <4>1 DEF BatchInv
    <3>4. CASE g # t /\ ~(g \in open /\ owner[g] # NULL)
      <4>1. sessions[g] # NULL /\ Pair(sessions[g]) \cap open \subseteq fresh
        BY <2>1, <3>1, <3>4 DEF BatchInv
      <4>2. /\ sessions'[g] = sessions[g] /\ sessions[g] \in alloc' \ {s}
            /\ Pair(sessions[g])' = Pair(sessions[g])
        BY <1>1, <1>2, <2>1, <3>1, <3>4, <4>1 DEF Pair
      <4>3. ~(g \in open' /\ owner'[g] # NULL)
        BY <1>7, <3>4
      <4> QED  BY <3>1, <4>1, <4>2, <4>3
    <3> QED  BY <3>2, <3>3, <3>4
  <2> QED
    BY <2>1 DEF BatchInv, Pair
<1> QED  BY <1>3, <1>4, <1>5, <1>8, <1>9, <1>11, <1>12, <1>13, <1>14, <1>15

(* forward_*, at the end, whoever has the numbers that are closed.           *)
LEMMA ClosePairBase ==
  ASSUME IInv, NEW f \in Fds, NEW s \in Found(f), f \in Pair(s),
         ClosePair(s), UNCHANGED backlog, fault' \in {"none", "stranger", "sigpipe"}, Done(f)
  PROVE  BaseInv'
<1> USE DEF IInv
<1> DEFINE gone == Pair(s) \cap open
<1>1. /\ open' = open \ gone /\ UNCHANGED table
      /\ owner' = [g \in Fds |-> IF g \in gone THEN NULL ELSE owner[g]]
      /\ input' = [g \in Fds |-> IF g \in gone THEN <<>> ELSE input[g]]
      /\ fin' = fin \ gone /\ edge' = edge \ gone /\ crowded' = crowded \ gone
      /\ batch' = batch \ {f} /\ fresh' \subseteq fresh \cup open'
  BY Handled DEF ClosePair, CloseFds
<1>2. f \in open => f \in gone
  OBVIOUS
<1> HIDE DEF gone
<1>3. <<>> \in Seq(Chunks) /\ Len(<<>>) = 0
  BY EmptySeq
<1>4. TypeOK'
  BY <1>1, <1>3, BridgeAssumption DEF TypeOK, table
<1>5. ClosedInv'
  BY <1>1, <1>3 DEF ClosedInv
<1>6. EntryInv' /\ RecordInv'
  BY <1>1 DEF EntryInv, RecordInv, Pair, table
<1>7. NoEdgeLost'
  <2>1. ASSUME NEW g \in open', IsTarget(g)', Readable(g)'
        PROVE  g \in (edge \cup batch \cup crowded)'
    <3>1. g \in open /\ g \notin gone /\ g \in Fds /\ g # f
      BY <1>1, <1>2 DEF TypeOK
    <3>2. IsTarget(g) /\ Readable(g)
      BY <1>1, <2>1, <3>1 DEF IsTarget, Readable, table
    <3> QED  BY <1>1, <3>1, <3>2 DEF NoEdgeLost
  <2> QED  BY <2>1 DEF NoEdgeLost
<1> QED  BY <1>4, <1>5, <1>6, <1>7 DEF BaseInv

(* A Session that is not misled closes no other's descriptor.                *)
LEMMA ClosePairInv ==
  ASSUME IInv, NEW f \in Fds, NEW s \in Found(f), ~Misled(f, s), f \in Pair(s),
         session[s].state = "ESTABLISHED",
         ClosePair(s), UNCHANGED <<backlog, fault>>, Done(f)
  PROVE  IInv'
<1> USE DEF IInv
<1> DEFINE gone == Pair(s) \cap open
<1>1. /\ open' = open \ gone /\ UNCHANGED table
      /\ owner' = [g \in Fds |-> IF g \in gone THEN NULL ELSE owner[g]]
      /\ input' = [g \in Fds |-> IF g \in gone THEN <<>> ELSE input[g]]
      /\ fin' = fin \ gone /\ edge' = edge \ gone /\ crowded' = crowded \ gone
      /\ batch' = batch \ {f}
      /\ batch' # {} => fresh \cap open' \subseteq fresh'
  BY Handled DEF ClosePair, CloseFds
<1>2. /\ s \in Sessions /\ s # NULL
      /\ \A g \in open : g \in gone <=> owner[g] = s
      /\ gone \subseteq open /\ Pair(s) \cap open' = {}
  BY <1>1, FoundSession, BridgeAssumption DEF TypeOK, Misled, Strangers
<1> HIDE DEF gone
<1>3. TypeOK' /\ ClosedInv' /\ EntryInv' /\ RecordInv' /\ NoEdgeLost'
  <2>1. fault' \in {"none", "stranger", "sigpipe"}
    BY DEF TypeOK
  <2> QED  BY <2>1, ClosePairBase DEF BaseInv
<1>4. \A g \in open' : /\ g \in open /\ owner'[g] = owner[g] /\ owner[g] # s
                       /\ input'[g] = input[g]
  BY <1>1, <1>2 DEF TypeOK
<1>5. PairsAgree'
  <2>1. ASSUME NEW g \in open', NEW x \in Sessions, owner'[g] = x
        PROVE  Agrees(g, x)'
    <3>1. Agrees(g, x) /\ x # s
      BY <1>4, <2>1, BridgeAssumption DEF PairsAgree
    <3>2. ASSUME session[x].state = "ESTABLISHED", NEW h \in Pair(x)
          PROVE  h \in open' /\ owner'[h] = x
      BY <1>1, <1>2, <3>1, <3>2 DEF Agrees, TypeOK
    <3> QED  BY <1>1, <3>1, <3>2 DEF Agrees, Pair, table
  <2> QED  BY <2>1 DEF PairsAgree
<1>6. RequestInv'
  BY <1>1, <1>4 DEF RequestInv, table
<1>7. \A g \in Fds \ gone : IsTarget(g)' <=> IsTarget(g)
  BY <1>1 DEF IsTarget, table
<1>8. EdgeInv' /\ CrowdedInv'
  BY <1>1, <1>4, <1>7 DEF EdgeInv, CrowdedInv, TypeOK
<1>9. HandshakeInv'
  <2>1. ASSUME NEW g \in Fds, sessions[g] # NULL, session[sessions[g]].state = "HANDSHAKE"
        PROVE  g \in open' /\ owner'[g] = sessions[g]
    <3>1. g \in open /\ owner[g] = sessions[g]
      BY <2>1 DEF HandshakeInv
    <3>2. g \notin gone
      BY <1>2, <2>1, <3>1
    <3> QED  BY <1>1, <3>1, <3>2
  <2> QED  BY <1>1, <2>1 DEF HandshakeInv, table
<1>10. BatchInv'
  <2>1. ASSUME NEW g \in batch' \cap Fds
        PROVE  IF g \in open' /\ owner'[g] # NULL
               THEN g \in fresh' \/ Readable(g)'
               ELSE sessions[g] # NULL /\ Pair(sessions[g]) \cap open' \subseteq fresh'
    <3>1. g \in batch /\ fresh \cap open' \subseteq fresh' /\ open' \subseteq open
      BY <1>1, <2>1
    <3>2. CASE g \in open' /\ owner'[g] # NULL
      BY <1>1, <1>4, <3>1, <3>2 DEF BatchInv, Readable, TypeOK
    <3>3. CASE g \in gone
      <4>1. owner[g] = s
        BY <1>2, <3>3
      <4>2. sessions[g] = s
        BY <1>2, <3>3, <4>1 DEF PairsAgree, Agrees
      <4>3. g \notin open'
        BY <1>1, <3>3
      <4> QED  BY <1>2, <4>2, <4>3
    <3>4. CASE g \notin gone /\ ~(g \in open' /\ owner'[g] # NULL)
      BY <1>1, <3>1, <3>4 DEF BatchInv
    <3> QED  BY <3>2, <3>3, <3>4
  <2> QED  BY <1>1, <2>1 DEF BatchInv, Pair, table
<1> QED  BY <1>3, <1>5, <1>6, <1>8, <1>9, <1>10

(* forward_*, with bytes: of a target that is not crowded nothing is left.   *)
LEMMA ForwardInv ==
  ASSUME IInv, NEW f \in Fds, NEW s \in Found(f),
         input[f] # <<>>, Forward(f, s), UNCHANGED backlog, Done(f),
         fault' \in {"none", "stranger", "sigpipe"}
  PROVE  IInv'
<1> USE DEF IInv
<1>1. /\ input' = [input EXCEPT ![f] = Left(f)]
      /\ UNCHANGED <<table, open, owner, fin, edge, crowded>>
      /\ batch' = batch \ {f} /\ fresh' \subseteq fresh \cup open'
      /\ batch' # {} => fresh \cap open' \subseteq fresh'
  BY Handled DEF Forward
<1>2. f \in open
  BY DEF ClosedInv
<1>3. /\ Left(f) \in Seq(Chunks) /\ Len(Left(f)) <= MaxInput
      /\ Len(input[f]) <= Cap => Left(f) = <<>>
      /\ \A i \in 1..Len(Left(f)) : \E k \in 1..Len(input[f]) : Left(f)[i] = input[f][k]
  <2>1. /\ Len(Left(f)) <= Len(input[f]) /\ Len(input[f]) <= MaxInput /\ Left(f) \in Seq(Chunks)
        /\ \A i \in 1..Len(Left(f)) : \E k \in 1..Len(input[f]) : Left(f)[i] = input[f][k]
        /\ Len(input[f]) <= Cap => Left(f) = <<>>
    BY Recv DEF ClosedInv, TypeOK
  <2>2. Len(Left(f)) \in Nat /\ Len(input[f]) \in Nat
    BY <2>1, LenProperties DEF ClosedInv
  <2>3. Len(Left(f)) <= MaxInput
    BY <2>1, <2>2, BridgeAssumption
  <2> QED  BY <2>1, <2>3
<1>4. \A g \in Fds \ {f} : input'[g] = input[g]
  BY <1>1 DEF ClosedInv
<1>5. input'[f] = Left(f)
  BY <1>1 DEF ClosedInv
<1>6. TypeOK'
  BY <1>1, <1>2, <1>3, <1>4, <1>5 DEF TypeOK, table
<1>7. ClosedInv'
  BY <1>1, <1>2, <1>3 DEF ClosedInv
<1>8. RequestInv'
  <2>1. ASSUME NEW g \in open, owner[g] # NULL, session[owner[g]].state = "HANDSHAKE",
               NEW i \in 1..Len(input'[g])
        PROVE  input'[g][i] # "data"
    <3>1. CASE g = f
      <4>1. PICK k \in 1..Len(input[f]) : Left(f)[i] = input[f][k]
        BY <1>3, <1>5, <2>1, <3>1
      <4> QED  BY <1>5, <2>1, <3>1, <4>1 DEF RequestInv
    <3>2. CASE g # f
      <4>1. input'[g] = input[g]
        BY <1>4, <3>2 DEF TypeOK
      <4> QED  BY <2>1, <4>1 DEF RequestInv
    <3> QED  BY <3>1, <3>2
  <2> QED  BY <1>1, <2>1 DEF RequestInv, table
<1>9. EdgeInv'
  BY <1>1, SameTable DEF EdgeInv, TypeOK
<1>10. IsTarget(f) /\ f \notin crowded => Left(f) = <<>> /\ f \notin fin
  BY <1>2, <1>3 DEF CrowdedInv
<1>11. CrowdedInv'
  <2>1. Len(<<>>) = 0
    BY EmptySeq
  <2> QED  BY <1>1, <1>4, <1>5, <1>10, <2>1, BridgeAssumption, SameTable DEF CrowdedInv, TypeOK
<1>12. NoEdgeLost'
  BY <1>1, <1>4, <1>5, <1>10, SameTable DEF NoEdgeLost, Readable, TypeOK
<1>13. BatchInv'
  <2>1. \A g \in batch' \cap Fds : Readable(g) => Readable(g)'
    BY <1>1, <1>4 DEF Readable
  <2> QED  BY <1>1, <2>1, SameBatch
<1> QED  BY <1>1, <1>6, <1>7, <1>8, <1>9, <1>11, <1>12, <1>13, SameTable

(* An event that finds nothing to do for its descriptor.                     *)
LEMMA SkipInv ==
  ASSUME IInv, NEW f \in Fds, ~IsTarget(f), UNCHANGED <<table, sockets, backlog>>,
         fault' \in {"none", "stranger", "sigpipe"}, Done(f)
  PROVE  IInv'
<1> USE DEF IInv
<1>1. /\ batch' = batch \ {f} /\ fresh' \subseteq fresh \cup open'
      /\ batch' # {} => fresh \cap open' \subseteq fresh'
  BY Handled
<1>2. TypeOK'
  BY <1>1 DEF TypeOK, table, sockets
<1>3. ClosedInv' /\ RequestInv'
  BY DEF ClosedInv, RequestInv, table, sockets
<1>4. EdgeInv' /\ CrowdedInv'
  BY SameTable DEF EdgeInv, CrowdedInv, sockets, TypeOK
<1>5. NoEdgeLost'
  BY <1>1, SameTable DEF NoEdgeLost, Readable, sockets, TypeOK
<1>6. BatchInv'
  BY <1>1, SameBatch DEF Readable, sockets
<1> QED  BY <1>2, <1>3, <1>4, <1>5, <1>6, SameTable DEF sockets

(* handle_handshake, whatever has been read of the request.                  *)
LEMMA RequestKeeps ==
  ASSUME IInv, NEW f \in Fds, NEW s \in Found(f),
         f = session[s].client, session[s].state = "HANDSHAKE", Request(f, s),
         Done(f), UNCHANGED backlog, fault' \in {"none", "stranger", "sigpipe"}
  PROVE  IInv'
<1> USE DEF IInv
<1>1. f \in open /\ owner[f] = s /\ session[s].target = NULL /\ ~IsTarget(f)
  BY RequestOwn DEF IsTarget
<1>2. CASE CloseFds({f}) /\ GiveUp(f, s)
  <2>1. Replaced(f, {}) /\ {} \in SUBSET (Fds \ open)
    BY <1>2 DEF CloseFds, Replaced, TypeOK
  <2> QED  BY <1>2, <2>1, GiveUpInv
<1>3. CASE UNCHANGED <<table, sockets>>
  BY <1>1, <1>3, SkipInv
<1>4. ASSUME NEW t \in Fds \ open,
             Enter(t, s, [session EXCEPT ![s].target = t, ![s].state = "ESTABLISHED"]),
             open' = open \cup {t}, owner' = [owner EXCEPT ![t] = s],
             input' = [input EXCEPT ![f] = Left(f)], UNCHANGED <<fin, edge, crowded>>
      PROVE  IInv'
  BY <1>4, EstablishInv
<1>5. ASSUME NEW t \in Fds \ open, open' = (open \ {f}) \cup {t},
             owner' = [owner EXCEPT ![f] = NULL], input' = [input EXCEPT ![f] = <<>>],
             fin' = fin \ {f}, UNCHANGED <<edge, crowded>>, GiveUp(f, s)
      PROVE  IInv'
  <2>1. edge' = edge \ {f} /\ crowded' = crowded \ {f}
    BY <1>1, <1>5 DEF EdgeInv
  <2>2. owner' = [g \in Fds |-> IF g = f THEN NULL ELSE owner[g]]
    BY <1>5 DEF TypeOK
  <2>3. input' = [g \in Fds |-> IF g = f THEN <<>> ELSE input[g]]
    BY <1>5 DEF ClosedInv
  <2>4. Replaced(f, {t}) /\ {t} \in SUBSET (Fds \ open)
    BY <1>5, <2>1, <2>2, <2>3 DEF Replaced
  <2> QED  BY <1>5, <2>4, GiveUpInv
<1>6. {f} \cap open = {f}
  BY <1>1
<1> QED  BY <1>2, <1>3, <1>4, <1>5, <1>6 DEF Request, Handshake

(* Whom forward_* is called for.                                             *)
LEMMA ForwardPair ==
  ASSUME IInv, NEW f \in Fds, NEW s \in Found(f),
         \/ f = session[s].client /\ session[s].state = "ESTABLISHED"
         \/ f = session[s].target
  PROVE  f \in Pair(s) /\ session[s].state = "ESTABLISHED"
BY FoundSession, BridgeAssumption DEF IInv, RecordInv, Pair, TypeOK

(* One event of main.  If it is one that closes a stranger's connection,     *)
(* fault says so.                                                            *)
LEMMA EventInv ==
  ASSUME IInv, NEW f \in Fds, Event(f)
  PROVE  BaseInv' /\ (fault' # "stranger" => IInv')
<1>1. /\ Done(f) /\ UNCHANGED backlog /\ fault \in {"none", "stranger", "sigpipe"}
      /\ IInv' => BaseInv'
  BY DEF Event, IInv, BaseInv, TypeOK
<1>2. CASE Found(f) = {} /\ UNCHANGED <<table, sockets, fault>>
  <2>1. ~IsTarget(f)
    BY <1>2, OwnerAgrees DEF IsTarget, Found, Agrees
  <2> QED  BY <1>1, <1>2, <2>1, SkipInv
<1>3. ASSUME NEW s \in Found(f), fault' = IF Misled(f, s) THEN "stranger" ELSE fault,
             f = session[s].client, session[s].state = "HANDSHAKE", Request(f, s)
      PROVE  IInv'
  BY <1>1, <1>3, RequestKeeps
<1>4. ASSUME NEW s \in Found(f), fault' = IF Misled(f, s) THEN "stranger" ELSE fault,
             \/ f = session[s].client /\ session[s].state = "ESTABLISHED"
             \/ f = session[s].target,
             Forward(f, s)
      PROVE  BaseInv' /\ (fault' # "stranger" => IInv')
  <2>1. /\ f \in Pair(s) /\ session[s].state = "ESTABLISHED"
        /\ fault' \in {"none", "stranger", "sigpipe"}
    BY <1>1, <1>4, ForwardPair
  <2>2. CASE input[f] = <<>>
    <3>1. ClosePair(s)
      BY <1>4, <2>2 DEF Forward
    <3>2. BaseInv'
      BY <1>1, <2>1, <3>1, ClosePairBase
    <3>3. ASSUME fault' # "stranger" PROVE IInv'
      BY <1>1, <1>4, <2>1, <3>1, <3>3, ClosePairInv
    <3> QED  BY <3>2, <3>3
  <2>3. CASE input[f] # <<>>
    BY <1>1, <1>4, <2>1, <2>3, ForwardInv
  <2> QED  BY <2>2, <2>3
<1> QED  BY <1>1, <1>2, <1>3, <1>4 DEF Event

(* Every step keeps the invariant.                                           *)
LEMMA StepInv == Inv /\ [Next]_vars => Inv'
<1> SUFFICES ASSUME Inv, [Next]_vars PROVE Inv'
  OBVIOUS
<1>1. IInv => BaseInv
  BY DEF IInv, BaseInv
<1>2. IInv' => BaseInv'
  BY DEF IInv, BaseInv
<1>3. CASE UNCHANGED vars
  <2>1. UNCHANGED <<table, batch, backlog, sockets, fresh, fault>>
    BY <1>3 DEF vars
  <2>2. BaseInv'
    BY <2>1 DEF Inv, BaseInv, TypeOK, ClosedInv, EntryInv, RecordInv, NoEdgeLost, Pair,
                IsTarget, Readable, table, sockets
  <2>3. ASSUME IInv PROVE IInv'
    BY <2>1, <2>3
    DEF IInv, TypeOK, ClosedInv, EntryInv, RecordInv, PairsAgree, Agrees, RequestInv,
        HandshakeInv, BatchInv, EdgeInv, CrowdedInv, NoEdgeLost, Pair, IsTarget, Readable,
        table, sockets
  <2> QED  BY <2>1, <2>2, <2>3 DEF Inv
<1>4. CASE Next
  <2>1. IInv
    BY <1>4 DEF Next, Inv
  <2>2. CASE World
    BY <1>2, <2>1, <2>2, WorldInv DEF Inv
  <2>3. CASE EpollWait \/ AcceptFails
    BY <1>2, <2>1, <2>3, EpollInv DEF Inv
  <2>4. CASE Accept
    BY <1>2, <2>1, <2>4, AcceptInv DEF Inv
  <2>5. ASSUME NEW f \in Fds, Event(f) PROVE Inv'
    BY <2>1, <2>5, EventInv DEF Inv
  <2>6. ASSUME NEW f \in Fds, SigPipe(f) PROVE Inv'
    <3>1. UNCHANGED <<table, batch, backlog, sockets, fresh>> /\ fault' = "sigpipe"
      BY <2>6 DEF SigPipe
    <3>2. IInv'
      BY <2>1, <3>1
      DEF IInv, TypeOK, ClosedInv, EntryInv, RecordInv, PairsAgree, Agrees, RequestInv,
          HandshakeInv, BatchInv, EdgeInv, CrowdedInv, NoEdgeLost, Pair, IsTarget, Readable,
          table, sockets
    <3> QED  BY <1>2, <3>2 DEF Inv
  <2> QED  BY <1>4, <2>2, <2>3, <2>4, <2>5, <2>6 DEF Next, Main
<1> QED  BY <1>3, <1>4

(* The invariant holds in every state, whatever the numbers of descriptors,  *)
(* sessions and chunks.                                                      *)
THEOREM Invariance == Spec => []Inv
<1>1. Init => Inv
  BY InitInv DEF Inv, IInv, BaseInv
<1> QED  BY <1>1, StepInv, PTL DEF Spec

(* The table is right: no entry leads to freed memory, and, until an event   *)
(* closes a stranger's connection, the two connections of an established     *)
(* pair are open together and nobody else's (bridge.c:561, 581, 607).        *)
THEOREM TableRight == Spec => []Consistent
<1>1. Inv => Consistent
  BY DEF Inv, BaseInv, IInv, EntryInv, NoDanglingEntry, Consistent
<1> QED  BY <1>1, Invariance, PTL

(* What a target has to tell has an event to come, unless it was sent more   *)
(* at once than one recv takes, or bytes and the end (bridge.c:456, 595).    *)
THEOREM EdgesKept == Spec => []NoEdgeLost
<1>1. Inv => NoEdgeLost
  BY DEF Inv, BaseInv
<1> QED  BY <1>1, Invariance, PTL

-----------------------------------------------------------------------------
(* Why a descriptor may be closed in a step: for a cause of its own, or      *)
(* because an event was left over from the one that had its number, or the   *)
(* other of the pair.                                                        *)
Why(f) ==
  \/ Cause(f)
  \/ f \in fresh
  \/ owner[f] # NULL /\ Pair(owner[f]) \cap fresh # {}

(* A request that is answered or refused is complete: its end is among what  *)
(* has been read, and no frame is.                                           *)
LEMMA RequestCause ==
  ASSUME IInv, NEW f \in batch \cap Fds, NEW s \in Found(f),
         f = session[s].client, session[s].state = "HANDSHAKE", Request(f, s),
         NEW g \in open \ open'
  PROVE  Why(g)
<1> USE DEF IInv
<1>1. g = f
  BY DEF Request, Handshake, CloseFds, sockets, Enter
<1>2. f \in open /\ s \in Sessions /\ s = owner[f] /\ s # NULL
  BY RequestOwn
<1>3. CASE input[f] = <<>>
  BY <1>1, <1>2, <1>3 DEF BatchInv, Readable, Why, Cause
<1>4. CASE \E i \in DOMAIN Received(f) : Received(f)[i] # "part"
  <2>1. PICK i \in DOMAIN Received(f) : Received(f)[i] # "part"
    BY <1>4
  <2>2. /\ input[f] \in Seq(Chunks) /\ DOMAIN input[f] = 1..Len(input[f])
        /\ i \in DOMAIN input[f] /\ input[f][i] # "part"
    <3>1. input[f] \in Seq(Chunks)
      BY DEF ClosedInv
    <3> QED  BY <2>1, <3>1, Recv, LenProperties
  <2>3. input[f][i] \in Chunks /\ input[f][i] # "data"
    BY <1>1, <1>2, <2>2, ElementOfSeq DEF RequestInv
  <2>4. input[f][i] \in {"hello", "nokey"}
    BY <2>2, <2>3, BridgeAssumption
  <2> QED  BY <1>1, <2>2, <2>4 DEF Why, Cause
<1>5. CASE UNCHANGED sockets
  BY <1>5 DEF sockets
<1> QED  BY <1>1, <1>3, <1>4, <1>5 DEF Request

(* A pair is closed when one of its two ends is, or its numbers were given   *)
(* out again since.                                                          *)
LEMMA ForwardCause ==
  ASSUME IInv, NEW f \in batch \cap Fds, NEW s \in Found(f), f \in Pair(s),
         session[s].state = "ESTABLISHED", Forward(f, s),
         NEW g \in open \ open'
  PROVE  Why(g)
<1> USE DEF IInv
<1>1. input[f] = <<>> /\ g \in Pair(s) \cap open
  BY DEF Forward, ClosePair, CloseFds
<1>2. s \in Sessions /\ s # NULL
  BY FoundSession
<1>3. CASE f \in open /\ owner[f] # NULL
  <2>1. s = owner[f] /\ owner[g] = s
    BY <1>1, <1>2, <1>3, FoundSession DEF PairsAgree, Agrees
  <2>2. f \in fin \/ f \in fresh
    BY <1>1, <1>3 DEF BatchInv, Readable
  <2> QED  BY <1>2, <2>1, <2>2 DEF Why, Cause
<1>4. CASE ~(f \in open /\ owner[f] # NULL)
  <2>1. sessions[f] # NULL /\ Pair(sessions[f]) \cap open \subseteq fresh
    BY <1>4 DEF BatchInv
  <2>2. sessions[f] = s
    BY <2>1, FoundSession
  <2> QED  BY <1>1, <2>1, <2>2 DEF Why
<1> QED  BY <1>3, <1>4

(* An event left over from a closed pair (bridge.c:381-384, 461-463) closes  *)
(* nothing that was there when epoll_wait returned it: each descriptor is    *)
(* closed for its own end, for that of its pair, with its own complete       *)
(* request, or it, or its pair's other one, is as new as that.               *)
THEOREM ClosedWithCause == Spec => ClosedForCause
<1>1. ASSUME Inv, [Next]_vars, NEW g \in open \ open'
      PROVE  Why(g)
  <2>1. PICK f \in Fds : Event(f)
    BY <1>1 DEF Next, World, Main, Connect, ClientSends, TargetSends, Arrive, HangUp, EpollWait,
                Accept, AcceptFails, SigPipe, vars, sockets
  <2>2. IInv /\ f \in batch \cap Fds
    <3>1. Next
      BY <1>1 DEF vars, sockets
    <3> QED  BY <1>1, <2>1, <3>1 DEF Inv, Next, Event
  <2>3. ASSUME NEW s \in Found(f), f = session[s].client, session[s].state = "HANDSHAKE",
               Request(f, s)
        PROVE  Why(g)
    BY <1>1, <2>2, <2>3, RequestCause
  <2>4. ASSUME NEW s \in Found(f), Forward(f, s),
               \/ f = session[s].client /\ session[s].state = "ESTABLISHED"
               \/ f = session[s].target
        PROVE  Why(g)
    BY <1>1, <2>2, <2>4, ForwardPair, ForwardCause
  <2>5. CASE UNCHANGED sockets
    BY <1>1, <2>5 DEF sockets
  <2> QED  BY <2>1, <2>3, <2>4, <2>5 DEF Event
<1>2. Inv /\ [Next]_vars =>
        [ \A f \in open \ open' : Why(f) ]_vars
  BY <1>1
<1> QED  BY <1>2, Invariance, PTL DEF Spec, ClosedForCause, Why

-----------------------------------------------------------------------------
(* The frames: what the loop passes on of any sequence of them.  By          *)
(* induction over its rounds, and over the recvs.                            *)

(* What a browser can send: the first bit of the eight bytes of a length     *)
(* has to be zero.                                                           *)
SomeFrames ==
  {Frame(length, masked) : length \in {n \in Nat : 2 * n < SizeMod}, masked \in BOOLEAN}

(* A frame has at least a header, and the loop counts its bytes as they are. *)
LEMMA Sizes ==
  ASSUME NEW frame \in SomeFrames
  PROVE  /\ SizeOf(frame) \in Nat /\ SizeOf(frame) >= 2
         /\ TotalFrameSize(frame) = SizeOf(frame)
         /\ HeaderLen(frame) \in 2..SizeOf(frame)
<1>1. PICK length \in Nat, masked \in BOOLEAN :
        frame = Frame(length, masked) /\ 2 * length < SizeMod
  BY DEF SomeFrames
<1>2. /\ frame.code = Code(length) /\ frame.masked = masked /\ frame.length = length
  BY <1>1 DEF Frame
<1>3. Code(length) \in Nat
  BY DEF Code
<1> DEFINE size == HeaderLen(frame) + (IF frame.masked THEN 4 ELSE 0) + frame.length
<1>4. size = SizeOf(frame) /\ size \in Nat /\ size >= 2 /\ HeaderLen(frame) \in 2..size
  BY <1>2, <1>3 DEF SizeOf, ExtraBytes, HeaderLen
<1>5. size <= length + 14
  BY <1>2 DEF HeaderLen
<1>6. TotalFrameSize(frame) = size % SizeMod
  BY DEF TotalFrameSize
<1> HIDE DEF size
<1>7. size < SizeMod
  BY <1>1, <1>4, <1>5, FramesAssumption
<1>8. size % SizeMod = size
  BY <1>4, <1>7, FramesAssumption
<1> QED
  BY <1>4, <1>6, <1>8

(* EndOf is what its recursion says.                                         *)
LEMMA Ends ==
  ASSUME NEW frames \in Seq(SomeFrames)
  PROVE  /\ EndOf(frames) \in [0..Len(frames) -> Nat]
         /\ EndOf(frames)[0] = 0
         /\ \A i \in 1..Len(frames) :
              EndOf(frames)[i] = EndOf(frames)[i - 1] + SizeOf(frames[i])
<1> DEFINE k == Len(frames)
           Def(g) == [i \in 0..k |-> IF i = 0 THEN 0 ELSE g[i - 1] + SizeOf(frames[i])]
           step == [x \in (1..k) \X Nat |-> x[2] + SizeOf(frames[x[1]])]
<1>1. k \in Nat /\ \A i \in 1..k : frames[i] \in SomeFrames
  BY LenProperties, ElementOfSeq
<1>2. step \in [(1..k) \X Nat -> Nat]
  BY <1>1, Sizes
<1>3. PICK g : Computes(g, k, Nat, 0, step)
  <2>1. k \in Nat /\ 0 \in Nat /\ step \in Steps(k, Nat)
    BY <1>1, <1>2 DEF Steps
  <2> HIDE DEF step, k
  <2> QED  BY <2>1, Recursion
<1>4. \A i \in 1..k : g[i] = g[i - 1] + SizeOf(frames[i])
  <2> SUFFICES ASSUME NEW i \in 1..k PROVE g[i] = g[i - 1] + SizeOf(frames[i])
    OBVIOUS
  <2> HIDE DEF k
  <2>1. i - 1 \in 0..k
    BY <1>1
  <2>2. g[i - 1] \in Nat
    BY <1>3, <2>1 DEF Computes
  <2>3. <<i, g[i - 1]>> \in (1..k) \X Nat
    BY <2>2
  <2> QED  BY <1>3, <2>3 DEF Computes
<1>5. g = Def(g)
  <2> HIDE DEF step, k
  <2> QED  BY <1>1, <1>3, <1>4 DEF Computes
<1>6. EndOf(frames) = CHOOSE f : f = Def(f)
  BY DEF EndOf
<1>7. EndOf(frames) = Def(EndOf(frames))
  <2> HIDE DEF Def
  <2> QED  BY <1>5, <1>6
<1> DEFINE e == EndOf(frames)
<1>8. /\ DOMAIN e = 0..k /\ e[0] = 0
      /\ \A i \in 1..k : e[i] = e[i - 1] + SizeOf(frames[i])
  <2> HIDE DEF e, k
  <2> QED  BY <1>1, <1>7 DEF e
<1>9. \A i \in 0..k : e[i] \in Nat
  <2> HIDE DEF e, k
  <2>1. e[0] \in Nat
    BY <1>8
  <2>2. ASSUME NEW i \in 1..k, e[i - 1] \in Nat PROVE e[i] \in Nat
    <3>1. frames[i] \in SomeFrames
      BY <1>1
    <3>2. SizeOf(frames[i]) \in Nat
      BY <3>1, Sizes
    <3> QED  BY <1>8, <2>2, <3>2
  <2> QED  BY <1>1, <2>1, <2>2, Values
<1>10. e = [i \in 0..k |-> e[i]]
  BY <1>7
<1> QED
  BY <1>8, <1>9, <1>10

(* What the loop of forward_client_to_target knows after each frame.         *)
States == [processed : Nat, passed : Nat, on : BOOLEAN]

(* One round of it.                                                          *)
Round(frames, n, i, before) ==
  IF /\ before.on /\ n - before.processed >= 2
     /\ n - before.processed >= HeaderLen(frames[i])
     /\ n - before.processed >= TotalFrameSize(frames[i])
  THEN [processed |-> before.processed + TotalFrameSize(frames[i]), passed |-> i, on |-> TRUE]
  ELSE [before EXCEPT !.on = FALSE]

(* A round keeps the shape of what is known.                                 *)
LEMMA RoundMade ==
  ASSUME NEW frames \in Seq(SomeFrames), NEW n \in Int, NEW i \in 1..Len(frames),
         NEW before \in States
  PROVE  Round(frames, n, i, before) \in States
<1>1. frames[i] \in SomeFrames
  BY ElementOfSeq
<1>2. TotalFrameSize(frames[i]) \in Nat /\ i \in Nat
  BY <1>1, Sizes, LenProperties
<1>3. [before EXCEPT !.on = FALSE] \in States
  BY DEF States
<1>4. before.processed + TotalFrameSize(frames[i]) \in Nat
  BY <1>2 DEF States
<1>5. [processed |-> before.processed + TotalFrameSize(frames[i]),
       passed |-> i, on |-> TRUE] \in States
  BY <1>2, <1>4 DEF States
<1> QED  BY <1>3, <1>5 DEF Round

(* The loop is what its rounds come to.                                      *)
LEMMA Rounds ==
  ASSUME NEW frames \in Seq(SomeFrames), NEW n \in Int
  PROVE  \E loop \in [0..Len(frames) -> States] :
           /\ loop[0] = [processed |-> 0, passed |-> 0, on |-> TRUE]
           /\ \A i \in 1..Len(frames) : loop[i] = Round(frames, n, i, loop[i - 1])
           /\ Loop(frames, n) = loop[Len(frames)]
<1> DEFINE k == Len(frames)
           none == [processed |-> 0, passed |-> 0, on |-> TRUE]
           Def(g) ==
             [i \in 0..k |->
                IF i = 0 THEN none
                ELSE LET before == g[i - 1]
                         remaining == n - before.processed
                     IN IF /\ before.on /\ remaining >= 2
                           /\ remaining >= HeaderLen(frames[i])
                           /\ remaining >= TotalFrameSize(frames[i])
                        THEN [processed |-> before.processed + TotalFrameSize(frames[i]),
                              passed |-> i, on |-> TRUE]
                        ELSE [before EXCEPT !.on = FALSE]]
           step == [x \in (1..k) \X States |-> Round(frames, n, x[1], x[2])]
<1>1. k \in Nat
  BY LenProperties
<1>2. step \in Steps(k, States)
  BY RoundMade DEF Steps
<1>3. none \in States
  BY DEF States
<1>4. PICK g : Computes(g, k, States, none, step)
  <2> HIDE DEF none, step, k
  <2> QED  BY <1>1, <1>2, <1>3, Recursion
<1>5. ASSUME NEW i \in 1..k PROVE g[i] = Round(frames, n, i, g[i - 1])
  <2> HIDE DEF k
  <2>1. i - 1 \in 0..k
    BY <1>1
  <2>2. g[i - 1] \in States
    BY <1>4, <2>1 DEF Computes
  <2>3. <<i, g[i - 1]>> \in (1..k) \X States
    BY <2>2
  <2> QED  BY <1>4, <2>3 DEF Computes
<1>6. g = Def(g)
  <2>1. \A i \in 1..k : g[i] = Def(g)[i]
    <3> HIDE DEF k
    <3> QED  BY <1>5, <1>1, SMTT(30) DEF Round
  <2>2. g[0] = Def(g)[0]
    <3> HIDE DEF k, none
    <3> QED  BY <1>4, <1>1 DEF Computes
  <2>3. DOMAIN g = 0..k /\ g = [i \in DOMAIN g |-> g[i]]
    <3> HIDE DEF k
    <3> QED  BY <1>4 DEF Computes
  <2>4. Def(g) = [i \in 0..k |-> Def(g)[i]] /\ \A i \in 0..k : i = 0 \/ i \in 1..k
    <3> HIDE DEF k, none
    <3> QED  BY <1>1
  <2> HIDE DEF k, Def
  <2> QED  BY <2>1, <2>2, <2>3, <2>4
<1> DEFINE loop == CHOOSE f : f = Def(f)
<1>7. Loop(frames, n) = loop[k]
  BY DEF Loop
<1>8. loop = Def(loop)
  <2> HIDE DEF Def
  <2> QED  BY <1>6
<1>9. /\ loop[0] = none
      /\ \A i \in 1..k : loop[i] = Round(frames, n, i, loop[i - 1])
  <2>1. DOMAIN loop = 0..k /\ loop[0] = Def(loop)[0] /\ \A i \in 1..k : loop[i] = Def(loop)[i]
    <3> HIDE DEF loop, k, none
    <3> QED  BY <1>8
  <2>2. Def(loop)[0] = none
    <3> HIDE DEF loop, k, none
    <3> QED  BY <1>1
  <2>3. \A i \in 1..k : Def(loop)[i] = Round(frames, n, i, loop[i - 1])
    <3> HIDE DEF loop, k, none
    <3> QED  BY <1>1 DEF Round
  <2> HIDE DEF loop, k, none, Def
  <2> QED  BY <2>1, <2>2, <2>3
<1>10. \A i \in 0..k : loop[i] \in States
  <2> HIDE DEF loop, k, none
  <2>1. \A i \in 1..k : loop[i - 1] \in States => loop[i] \in States
    BY <1>9, RoundMade DEF k
  <2> QED  BY <1>1, <1>3, <1>9, <2>1, Values
<1>11. loop = [i \in 0..k |-> loop[i]]
  <2> HIDE DEF loop, k, none
  <2> QED  BY <1>8
<1> HIDE DEF loop, none, Def
<1> QED
  <2>1. loop \in [0..k -> States]
    BY <1>10, <1>11
  <2> QED  BY <1>7, <1>9, <2>1 DEF none

(* The frames end one behind the other.                                      *)
LEMMA EndsAscend ==
  ASSUME NEW frames \in Seq(SomeFrames)
  PROVE  \A i \in 0..Len(frames) : \A j \in 0..i : EndOf(frames)[j] <= EndOf(frames)[i]
<1> DEFINE k == Len(frames)
           end == EndOf(frames)
           S == {i \in 0..k : \A j \in 0..i : end[j] <= end[i]}
<1>1. /\ k \in Nat /\ end \in [0..k -> Nat]
      /\ \A i \in 1..k : end[i] = end[i - 1] + SizeOf(frames[i])
  BY Ends, LenProperties
<1>2. \A i \in 1..k : SizeOf(frames[i]) \in Nat
  BY Sizes, ElementOfSeq
<1> HIDE DEF k, end
<1>3. 0 \in S
  BY <1>1
<1>4. ASSUME NEW i \in 1..k, i - 1 \in S PROVE i \in S
  <2>1. end[i - 1] <= end[i] /\ end[i] <= end[i]
    BY <1>1, <1>2
  <2>2. ASSUME NEW j \in 0..i PROVE end[j] <= end[i]
    <3>1. CASE j = i
      BY <2>1, <3>1
    <3>2. CASE j # i
      <4>1. j \in 0..(i - 1) /\ j \in 0..k /\ i - 1 \in 0..k /\ i \in 0..k
        BY <1>1, <3>2
      <4>2. end[j] <= end[i - 1]
        BY <1>4, <4>1
      <4> QED  BY <1>1, <2>1, <4>1, <4>2
    <3> QED  BY <3>1, <3>2
  <2> QED  BY <1>1, <2>2
<1> HIDE DEF S
<1>5. 0..k \subseteq S
  BY <1>1, <1>3, <1>4, UpTo
<1> QED  BY <1>5 DEF S, k, end

(* The loop is at the end of the last frame that it has passed on, and has   *)
(* stopped only at one that is not there as a whole.                         *)
Right(end, n, i, state) ==
  /\ state.processed = end[state.passed] /\ end[state.passed] <= n
  /\ state.passed <= i
  /\ IF state.on THEN state.passed = i ELSE state.passed < i /\ end[state.passed + 1] > n

(* Of n bytes that begin with frames, of any number and of any lengths, and  *)
(* that are cut anywhere, the loop passes on those frames that are there as  *)
(* a whole, and no other.                                                    *)
LEMMA LoopPasses ==
  ASSUME NEW frames \in Seq(SomeFrames), NEW n \in Nat
  PROVE  /\ Loop(frames, n).passed \in 0..Len(frames)
         /\ Loop(frames, n).processed = EndOf(frames)[Loop(frames, n).passed]
         /\ \A i \in 0..Len(frames) : Loop(frames, n).passed >= i <=> EndOf(frames)[i] <= n
<1> DEFINE k == Len(frames)
           end == EndOf(frames)
<1>1. /\ k \in Nat /\ end \in [0..k -> Nat] /\ end[0] = 0
      /\ \A i \in 1..k : end[i] = end[i - 1] + SizeOf(frames[i])
      /\ \A i \in 0..k : \A j \in 0..i : end[j] <= end[i]
  BY Ends, EndsAscend, LenProperties
<1>2. PICK loop \in [0..k -> States] :
           /\ loop[0] = [processed |-> 0, passed |-> 0, on |-> TRUE]
           /\ \A i \in 1..k : loop[i] = Round(frames, n, i, loop[i - 1])
           /\ Loop(frames, n) = loop[k]
  <2>1. n \in Int
    OBVIOUS
  <2> QED  BY <2>1, Rounds
<1>3. \A i \in 1..k : /\ SizeOf(frames[i]) \in Nat /\ SizeOf(frames[i]) >= 2
                      /\ TotalFrameSize(frames[i]) = SizeOf(frames[i])
                      /\ HeaderLen(frames[i]) \in 2..SizeOf(frames[i])
  BY Sizes, ElementOfSeq
<1> HIDE DEF k, end
<1> DEFINE S == {i \in 0..k : Right(end, n, i, loop[i])}
<1>4. 0 \in S
  BY <1>1, <1>2 DEF Right
<1>5. ASSUME NEW i \in 1..k, i - 1 \in S PROVE i \in S
  <2> DEFINE before == loop[i - 1]
  <2>1. /\ i - 1 \in 0..k /\ i \in 0..k /\ before \in States
        /\ Right(end, n, i - 1, before) /\ loop[i] = Round(frames, n, i, before)
    BY <1>1, <1>2, <1>5
  <2>2. /\ before.processed \in Nat /\ before.passed \in Nat /\ before.on \in BOOLEAN
        /\ SizeOf(frames[i]) \in Nat /\ end[i] = end[i - 1] + SizeOf(frames[i])
    BY <2>1, <1>1, <1>3 DEF States
  <2> HIDE DEF before
  <2>3. CASE before.on /\ end[i] <= n
    <3>1. before.passed = i - 1 /\ before.processed = end[i - 1]
      BY <2>1, <2>3 DEF Right
    <3>2. n - before.processed >= SizeOf(frames[i])
      BY <1>1, <2>1, <2>2, <2>3, <3>1
    <3>3. loop[i] = [processed |-> before.processed + TotalFrameSize(frames[i]),
                     passed |-> i, on |-> TRUE]
      BY <1>3, <2>1, <2>2, <2>3, <3>2 DEF Round
    <3> QED  BY <1>3, <2>1, <2>2, <2>3, <3>1, <3>3 DEF Right
  <2>4. CASE before.on /\ ~(end[i] <= n)
    <3>1. before.passed = i - 1 /\ before.processed = end[i - 1] /\ end[i - 1] <= n
      BY <2>1, <2>4 DEF Right
    <3>2. ~(n - before.processed >= TotalFrameSize(frames[i]))
      BY <1>1, <1>3, <2>1, <2>2, <2>4, <3>1, SMTT(30)
    <3>3. loop[i] = [before EXCEPT !.on = FALSE]
      BY <2>1, <3>2 DEF Round
    <3>4. /\ loop[i].processed = before.processed /\ loop[i].passed = i - 1
          /\ loop[i].on = FALSE
      BY <3>1, <3>3, <2>1 DEF States
    <3>5. (i - 1) + 1 = i /\ end[i] > n /\ i - 1 < i
      BY <1>1, <2>1, <2>4
    <3>6. Right(end, n, i, loop[i])
      BY <2>1, <3>1, <3>4, <3>5 DEF Right
    <3> QED  BY <2>1, <3>6
  <2>5. CASE ~before.on
    <3>1. loop[i] = [before EXCEPT !.on = FALSE]
      BY <2>1, <2>5 DEF Round
    <3>2. /\ loop[i].processed = before.processed /\ loop[i].passed = before.passed
          /\ loop[i].on = FALSE
      BY <3>1, <2>1 DEF States
    <3>3. before.passed < i - 1 /\ end[before.passed + 1] > n
      BY <2>1, <2>5 DEF Right
    <3>4. before.passed < i /\ before.passed <= i
      BY <2>2, <3>3
    <3>5. Right(end, n, i, loop[i])
      BY <2>1, <3>2, <3>3, <3>4 DEF Right
    <3> QED  BY <2>1, <3>5
  <2> QED  BY <2>2, <2>3, <2>4, <2>5
<1> HIDE DEF S
<1>6. k \in S
  <2>1. 0..k \subseteq S
    BY <1>1, <1>4, <1>5, UpTo
  <2> QED  BY <1>1, <2>1
<1>7. loop[k] \in States /\ Right(end, n, k, loop[k])
  BY <1>1, <1>2, <1>6 DEF S
<1> DEFINE p == loop[k].passed
<1>8. /\ p \in 0..k /\ end[p] <= n /\ loop[k].processed = end[p]
      /\ p < k => end[p + 1] > n
  BY <1>7 DEF Right, States
<1>9. ASSUME NEW i \in 0..k PROVE p >= i <=> end[i] <= n
  <2> HIDE DEF p
  <2>1. CASE i <= p
    <3>1. end[i] <= end[p]
      BY <1>1, <1>8, <2>1
    <3> QED  BY <1>1, <1>8, <2>1, <3>1
  <2>2. CASE ~(i <= p)
    <3>1. p + 1 \in 0..i /\ p + 1 \in 0..k /\ p < k
      BY <1>1, <1>8, <2>2
    <3>2. end[p + 1] <= end[i] /\ end[p + 1] > n
      BY <1>1, <1>8, <3>1
    <3> QED  BY <1>1, <1>8, <2>2, <3>1, <3>2
  <2> QED  BY <2>1, <2>2
<1> QED  BY <1>2, <1>8, <1>9 DEF k, end

(* The frames from one on end as much later as that one begins.              *)
LEMMA Rest ==
  ASSUME NEW frames \in Seq(SomeFrames), NEW p \in 0..Len(frames)
  PROVE  LET rest == SubSeq(frames, p + 1, Len(frames))
         IN /\ rest \in Seq(SomeFrames) /\ Len(rest) = Len(frames) - p
            /\ \A i \in 0..(Len(frames) - p) :
                 EndOf(rest)[i] = EndOf(frames)[p + i] - EndOf(frames)[p]
<1> DEFINE k == Len(frames)
           rest == SubSeq(frames, p + 1, k)
           end == EndOf(frames)
           after == EndOf(rest)
           S == {i \in 0..(k - p) : after[i] = end[p + i] - end[p]}
<1>1. k \in Nat /\ \A i \in 1..k : frames[i] \in SomeFrames
  BY LenProperties, ElementOfSeq
<1>2. /\ rest \in Seq(SomeFrames) /\ Len(rest) = k - p
      /\ \A i \in 1..(k - p) : rest[i] = frames[p + i]
  <2>1. \A i \in (p + 1)..k : frames[i] \in SomeFrames
    BY <1>1
  <2>2. p + 1 \in Int /\ k \in Int /\ k - (p + 1) + 1 = k - p
    BY <1>1
  <2>3. \A i \in 1..(k - p) : p + 1 + i - 1 = p + i
    BY <1>1
  <2> HIDE DEF k
  <2>4. /\ rest \in Seq(SomeFrames)
        /\ Len(rest) = IF p + 1 <= k THEN k - (p + 1) + 1 ELSE 0
        /\ \A i \in 1..(k - (p + 1) + 1) : rest[i] = frames[p + 1 + i - 1]
    BY <2>1, <2>2, SubSeqProperties
  <2>5. p <= k /\ p \in Nat
    BY DEF k
  <2> HIDE DEF rest
  <2> QED  BY <1>1, <2>2, <2>3, <2>4, <2>5
<1>3. /\ end \in [0..k -> Nat] /\ \A i \in 1..k : end[i] = end[i - 1] + SizeOf(frames[i])
  BY Ends
<1>4. /\ after[0] = 0 /\ after \in [0..(k - p) -> Nat]
      /\ \A i \in 1..(k - p) : after[i] = after[i - 1] + SizeOf(rest[i])
  <2> HIDE DEF rest, k
  <2> QED  BY <1>2, Ends
<1>5. \A i \in 1..k : SizeOf(frames[i]) \in Nat
  BY <1>1, Sizes
<1>6. p \in 0..k
  OBVIOUS
<1> HIDE DEF k, rest, end, after
<1>7. 0 \in S
  BY <1>1, <1>3, <1>4, <1>6
<1>8. ASSUME NEW i \in 1..(k - p), i - 1 \in S PROVE i \in S
  <2>1. p + i \in 1..k /\ (p + i) - 1 = p + (i - 1) /\ p + (i - 1) \in 0..k
    BY <1>1, <1>6
  <2>2. end[p + i] = end[p + (i - 1)] + SizeOf(frames[p + i])
    BY <1>3, <2>1
  <2>3. after[i] = after[i - 1] + SizeOf(frames[p + i])
    BY <1>2, <1>4
  <2>4. after[i - 1] = end[p + (i - 1)] - end[p]
    BY <1>8
  <2>5. end[p] \in Nat /\ end[p + (i - 1)] \in Nat /\ SizeOf(frames[p + i]) \in Nat
    BY <1>3, <1>5, <1>6, <2>1
  <2> QED  BY <2>2, <2>3, <2>4, <2>5, <1>1, <1>6
<1> HIDE DEF S
<1>9. 0..(k - p) \subseteq S
  <2>1. k - p \in Nat
    BY <1>1, <1>6
  <2> QED  BY <1>7, <1>8, <2>1, UpTo
<1> QED  BY <1>2, <1>9 DEF S, k, rest, end, after

(* What is known after each recv.                                            *)
Counts == [received : Nat, passed : Nat, inStep : BOOLEAN]

LEMMA RecvMade ==
  ASSUME NEW frames \in Seq(SomeFrames), NEW before \in Counts, NEW cut \in Nat
  PROVE  RecvNext(frames, before, cut) \in Counts
<1> DEFINE n == cut - before.received
           rest == SubSeq(frames, before.passed + 1, Len(frames))
           loop == Loop(rest, n)
<1>1. /\ before.received \in Nat /\ before.passed \in Nat /\ before.inStep \in BOOLEAN
      /\ before = [received |-> before.received, passed |-> before.passed,
                   inStep |-> before.inStep]
  BY DEF Counts
<1>2. n \in Int
  BY <1>1
<1>3. rest \in Seq(SomeFrames)
  <2>1. before.passed + 1 \in Int /\ Len(frames) \in Int
    BY <1>1, LenProperties
  <2>2. \A i \in (before.passed + 1)..Len(frames) : frames[i] \in SomeFrames
    <3>1. Len(frames) \in Nat
      BY LenProperties
    <3> QED  BY <1>1, <3>1, ElementOfSeq
  <2> QED  BY <2>1, <2>2, SubSeqProperties
<1>4. loop \in States
  <2> HIDE DEF rest, n
  <2>1. PICK g \in [0..Len(rest) -> States] : loop = g[Len(rest)]
    BY <1>2, <1>3, Rounds
  <2>2. Len(rest) \in 0..Len(rest)
    BY <1>3, LenProperties
  <2> QED  BY <2>1, <2>2
<1>5. before.passed + loop.passed \in Nat
  BY <1>1, <1>4 DEF States
<1>6. RecvNext(frames, before, cut)
        = IF before.inStep
          THEN [received |-> cut, passed |-> before.passed + loop.passed,
                inStep |-> loop.processed = n]
          ELSE [before EXCEPT !.received = cut]
  BY DEF RecvNext
<1>7. (loop.processed = n) \in BOOLEAN
  OBVIOUS
<1> HIDE DEF n, rest, loop
<1>8. [received |-> cut, passed |-> before.passed + loop.passed,
       inStep |-> loop.processed = n] \in Counts
  BY <1>5, <1>7, ZenonT(30) DEF Counts
<1>9. [before EXCEPT !.received = cut] \in Counts
  BY DEF Counts
<1> QED  BY <1>6, <1>8, <1>9

(* Stream is what its recvs come to.                                         *)
LEMMA Streams ==
  ASSUME NEW frames \in Seq(SomeFrames), NEW cuts \in Seq(Nat)
  PROVE  /\ Stream(frames, cuts)[0] = Begun
         /\ \A j \in 1..Len(cuts) :
              Stream(frames, cuts)[j] = RecvNext(frames, Stream(frames, cuts)[j - 1], cuts[j])
<1> DEFINE m == Len(cuts)
           Def(g) == [j \in 0..m |-> IF j = 0 THEN Begun
                                     ELSE RecvNext(frames, g[j - 1], cuts[j])]
           step == [x \in (1..m) \X Counts |-> RecvNext(frames, x[2], cuts[x[1]])]
<1>1. m \in Nat /\ \A j \in 1..m : cuts[j] \in Nat
  BY LenProperties, ElementOfSeq
<1>2. step \in Steps(m, Counts)
  BY <1>1, RecvMade DEF Steps
<1>3. Begun \in Counts
  BY DEF Begun, Counts
<1>4. PICK g : Computes(g, m, Counts, Begun, step)
  <2> HIDE DEF m, step
  <2> QED  BY <1>1, <1>2, <1>3, Recursion
<1>5. ASSUME NEW j \in 1..m PROVE g[j] = RecvNext(frames, g[j - 1], cuts[j])
  <2> HIDE DEF m
  <2>1. j - 1 \in 0..m
    BY <1>1
  <2>2. g[j - 1] \in Counts
    BY <1>4, <2>1 DEF Computes
  <2>3. <<j, g[j - 1]>> \in (1..m) \X Counts
    BY <2>2
  <2> QED  BY <1>4, <2>3 DEF Computes
<1>6. g = Def(g)
  <2> HIDE DEF m, step
  <2> QED  BY <1>1, <1>4, <1>5 DEF Computes
<1>7. Stream(frames, cuts) = CHOOSE f : f = Def(f)
  BY DEF Stream
<1>8. Stream(frames, cuts) = Def(Stream(frames, cuts))
  <2> HIDE DEF Def
  <2> QED  BY <1>6, <1>7
<1> DEFINE state == Stream(frames, cuts)
<1>9. state[0] = Begun /\ \A j \in 1..m : state[j] = RecvNext(frames, state[j - 1], cuts[j])
  <2> HIDE DEF state, m
  <2> QED  BY <1>1, <1>8 DEF state
<1> QED  BY <1>9

(* One recv after the frames up to p, of which all was passed on.            *)
LEMMA InStep ==
  ASSUME NEW frames \in Seq(SomeFrames), NEW before \in Counts, NEW cut \in Nat,
         before.inStep, before.passed \in 0..Len(frames),
         before.received = EndOf(frames)[before.passed], before.received <= cut
  PROVE  LET now == RecvNext(frames, before, cut)
         IN /\ now.received = cut /\ now.passed \in 0..Len(frames)
            /\ \A i \in 0..Len(frames) : now.passed >= i <=> EndOf(frames)[i] <= cut
            /\ now.inStep <=> EndOf(frames)[now.passed] = cut
<1> DEFINE k == Len(frames)
           end == EndOf(frames)
           p == before.passed
           n == cut - before.received
           rest == SubSeq(frames, p + 1, k)
           loop == Loop(rest, n)
           now == RecvNext(frames, before, cut)
<1>1. /\ k \in Nat /\ end \in [0..k -> Nat] /\ p \in 0..k
      /\ \A i \in 0..k : \A j \in 0..i : end[j] <= end[i]
  BY Ends, EndsAscend, LenProperties
<1>2. n \in Nat /\ n = cut - end[p] /\ end[p] <= cut
  BY <1>1 DEF Counts
<1>3. /\ rest \in Seq(SomeFrames) /\ Len(rest) = k - p
      /\ \A i \in 0..(k - p) : EndOf(rest)[i] = end[p + i] - end[p]
  BY Rest
<1>4. /\ loop.passed \in 0..(k - p)
      /\ loop.processed = end[p + loop.passed] - end[p]
      /\ \A i \in 0..(k - p) : loop.passed >= i <=> end[p + i] - end[p] <= n
  <2> HIDE DEF rest, n, k, end, p
  <2>1. /\ loop.passed \in 0..Len(rest)
        /\ loop.processed = EndOf(rest)[loop.passed]
        /\ \A i \in 0..Len(rest) : loop.passed >= i <=> EndOf(rest)[i] <= n
    BY <1>2, <1>3, LoopPasses
  <2> HIDE DEF loop
  <2> QED  BY <1>3, <2>1
<1>5. now = [received |-> cut, passed |-> p + loop.passed, inStep |-> loop.processed = n]
  BY DEF RecvNext
<1> HIDE DEF rest, n, k, end, p, loop, now
<1>6. now.received = cut /\ now.passed = p + loop.passed
  BY <1>5
<1>7. now.inStep <=> loop.processed = n
  <2> DEFINE all == loop.processed = n
  <2>1. now = [received |-> cut, passed |-> p + loop.passed, inStep |-> all]
    BY <1>5
  <2> HIDE DEF all
  <2>2. now.inStep = all
    BY <2>1
  <2> QED  BY <2>2 DEF all
<1>8. now.passed \in 0..k
  BY <1>1, <1>4, <1>6, SMTT(30)
<1>9. ASSUME NEW i \in 0..k PROVE now.passed >= i <=> end[i] <= cut
  <2>1. CASE i >= p
    <3>1. i - p \in 0..(k - p) /\ p + (i - p) = i
      BY <1>1, <2>1
    <3>2. loop.passed >= i - p <=> end[i] - end[p] <= n
      BY <1>4, <3>1
    <3>3. end[i] \in Nat /\ end[p] \in Nat
      BY <1>1
    <3> QED  BY <1>1, <1>2, <1>4, <1>6, <3>2, <3>3, SMTT(30)
  <2>2. CASE i < p
    <3>1. end[i] <= end[p] /\ end[i] \in Nat /\ end[p] \in Nat
      BY <1>1, <2>2
    <3> QED  BY <1>1, <1>2, <1>4, <1>6, <2>2, <3>1, SMTT(30)
  <2> QED  BY <1>1, <2>1, <2>2
<1>10. now.inStep <=> end[now.passed] = cut
  <2>1. end[now.passed] \in Nat /\ end[p] \in Nat
    BY <1>1, <1>8
  <2>2. loop.processed = n <=> end[now.passed] = cut
    BY <1>2, <1>4, <1>6, <2>1
  <2> QED  BY <1>7, <2>2
<1> QED  BY <1>6, <1>8, <1>9, <1>10 DEF now, k, end

(* The recvs follow each other.                                              *)
Ascending(cuts) == \A j \in 2..Len(cuts) : cuts[j - 1] <= cuts[j]

(* forward_client_to_target: of frames of any number and of any lengths that *)
(* the standard allows, received in any number of recvs that end anywhere,   *)
(* exactly those that have come as a whole are passed on, up to and with the *)
(* first recv that ends inside a frame.                                      *)
THEOREM WholeFramesPassed ==
  \A frames \in Seq(SomeFrames) : \A cuts \in Seq(Nat) :
    Ascending(cuts) => StreamWhole(frames, cuts)
<1> SUFFICES ASSUME NEW frames \in Seq(SomeFrames), NEW cuts \in Seq(Nat), Ascending(cuts)
             PROVE  StreamWhole(frames, cuts)
  OBVIOUS
<1> DEFINE k == Len(frames)
           end == EndOf(frames)
           m == Len(cuts)
           state == Stream(frames, cuts)
           Upto(j) == \A l \in 1..j : AtEnd(frames, cuts[l])
           Here(j) == IF j = 0 THEN 0 ELSE cuts[j]
           Good(j) == /\ state[j] \in Counts /\ state[j].inStep
                      /\ state[j].received = Here(j) /\ state[j].passed \in 0..k
                      /\ end[state[j].passed] = Here(j)
           S == {j \in 0..m : Upto(j) => Good(j)}
<1>1. /\ k \in Nat /\ end \in [0..k -> Nat] /\ end[0] = 0
      /\ \A i \in 0..k : \A j \in 0..i : end[j] <= end[i]
      /\ m \in Nat /\ \A j \in 1..m : cuts[j] \in Nat
  BY Ends, EndsAscend, LenProperties, ElementOfSeq
<1>2. state[0] = Begun /\ \A j \in 1..m : state[j] = RecvNext(frames, state[j - 1], cuts[j])
  BY Streams
<1>3. \A j \in 1..m : AtEnd(frames, cuts[j]) => \E i \in 0..k : end[i] = cuts[j]
  BY DEF AtEnd
<1> HIDE DEF k, end, m, state
<1>4. 0 \in S
  <2>1. Begun.received = 0 /\ Begun.passed = 0
    BY DEF Begun
  <2>2. Begun.inStep = TRUE
    BY DEF Begun
  <2>3. Begun \in Counts
    BY DEF Begun, Counts
  <2>4. Good(0)
    BY <1>1, <1>2, <2>1, <2>2, <2>3
  <2> HIDE DEF Good, Upto
  <2> QED  BY <1>1, <2>4
<1>5. ASSUME NEW j \in 1..m, Good(j - 1)
      PROVE  /\ state[j] \in Counts /\ state[j].received = cuts[j]
             /\ state[j].passed \in 0..k
             /\ \A i \in 0..k : state[j].passed >= i <=> end[i] <= cuts[j]
             /\ state[j].inStep <=> end[state[j].passed] = cuts[j]
  <2>1. cuts[j] \in Nat /\ state[j - 1].received <= cuts[j]
    <3>1. CASE j = 1
      BY <1>1, <1>5, <3>1
    <3>2. CASE j # 1
      BY <1>1, <1>5, <3>2 DEF Ascending, m
    <3> QED  BY <3>1, <3>2
  <2>2. state[j - 1].received = end[state[j - 1].passed]
    BY <1>5
  <2>3. state[j] = RecvNext(frames, state[j - 1], cuts[j])
    BY <1>2
  <2>4. state[j] \in Counts
    BY <1>5, <2>1, <2>3, RecvMade
  <2> QED  BY <1>5, <2>1, <2>2, <2>3, <2>4, InStep, SMTT(30) DEF k, end
<1>6. ASSUME NEW j \in 1..m, j - 1 \in S PROVE j \in S
  <2> SUFFICES ASSUME Upto(j) PROVE Good(j)
    BY <1>1
  <2>1. Good(j - 1)
    <3>1. Upto(j - 1)
      BY <1>1
    <3> HIDE DEF Upto, Good
    <3> QED  BY <1>6, <3>1
  <2>2. PICK i \in 0..k : end[i] = cuts[j]
    BY <1>1, <1>3
  <2>3. /\ state[j] \in Counts /\ state[j].received = cuts[j]
        /\ state[j].passed \in 0..k
        /\ \A h \in 0..k : state[j].passed >= h <=> end[h] <= cuts[j]
        /\ state[j].inStep <=> end[state[j].passed] = cuts[j]
    <3> HIDE DEF Good
    <3> QED  BY <1>5, <2>1
  <2>4. end[state[j].passed] = cuts[j]
    <3> DEFINE q == state[j].passed
    <3>1. q \in 0..k /\ q >= i /\ end[q] <= cuts[j]
      <4>1. cuts[j] \in Nat
        BY <1>1
      <4> HIDE DEF Upto, Good
      <4>2. q \in 0..k
        BY <2>3
      <4> QED  BY <1>1, <2>2, <2>3, <4>1, <4>2, SMTT(30)
    <3>2. end[i] <= end[q] /\ end[q] \in Nat
      <4> HIDE DEF q, Upto, Good
      <4> QED  BY <1>1, <3>1
    <3> HIDE DEF Upto, Good
    <3> QED  BY <1>1, <2>2, <3>1, <3>2
  <2> QED  BY <2>3, <2>4
<1> HIDE DEF S
<1>7. 0..m \subseteq S
  BY <1>1, <1>4, <1>6, UpTo
<1>8. ASSUME NEW j \in 1..m, Upto(j - 1)
      PROVE  \A i \in 0..k : state[j].passed >= i <=> end[i] <= cuts[j]
  <2>1. j - 1 \in S
    BY <1>1, <1>7
  <2> HIDE DEF Upto, Good
  <2> QED  BY <1>5, <1>8, <2>1 DEF S
<1> QED  BY <1>8 DEF StreamWhole, k, end, m, state

(* The most that the two bytes behind a code of 126 can say.                 *)
LongestShort == 65535

(* forward_target_to_client: a frame says how long it is, as the standard    *)
(* has it, as long as its length fits the two bytes after the code.          *)
LEMMA TargetFrames ==
  ASSUME NEW n \in Nat, n <= LongestShort
  PROVE  /\ TargetFrame(n) = Frame(n, FALSE)
         /\ SizeOf(TargetFrame(n)) \in Nat
         /\ SizeOf(TargetFrame(n)) <= n + 4
<1>1. CASE n <= 125
  <2>1. Code(n) = n /\ ExtraBytes(n) = 0
    BY <1>1 DEF Code, ExtraBytes
  <2>2. TargetFrame(n) = [code |-> n, masked |-> FALSE, length |-> n]
    BY <1>1 DEF TargetFrame
  <2>3. TargetFrame(n) = Frame(n, FALSE)
    BY <2>1, <2>2 DEF Frame
  <2>4. SizeOf(TargetFrame(n)) \in Nat /\ SizeOf(TargetFrame(n)) <= n + 4
    BY <2>1, <2>2 DEF SizeOf
  <2> QED  BY <2>3, <2>4
<1>2. CASE ~(n <= 125)
  <2>1. Code(n) = 126
    BY <1>2 DEF Code, LongestShort
  <2>2. ExtraBytes(126) = 2
    BY DEF ExtraBytes
  <2>3. TargetFrame(n) = [code |-> 126, masked |-> FALSE, length |-> n]
    BY <1>2 DEF TargetFrame, LongestShort
  <2>4. TargetFrame(n) = Frame(n, FALSE)
    BY <2>1, <2>3 DEF Frame
  <2>5. SizeOf(TargetFrame(n)) \in Nat /\ SizeOf(TargetFrame(n)) <= n + 4
    BY <2>2, <2>3 DEF SizeOf
  <2> QED  BY <2>4, <2>5
<1> QED  BY <1>1, <1>2

(* The bounded check is a part of that.                                      *)
LEMMA FramesRightAlways == FramesRight
<1>1. ASSUME NEW k \in 1..3, NEW lengths \in [1..k -> Lengths], NEW masked \in BOOLEAN
      PROVE  LET frames == [i \in 1..k |-> Frame(lengths[i], masked)]
             IN \A cuts \in Recvs(frames) : StreamWhole(frames, cuts)
  <2> DEFINE frames == [i \in 1..k |-> Frame(lengths[i], masked)]
             end == EndOf(frames)
  <2>1. \A j \in 1..k : lengths[j] \in Nat /\ 2 * lengths[j] < SizeMod
    BY FramesAssumption DEF Lengths
  <2>2. \A j \in 1..k : Frame(lengths[j], masked) \in SomeFrames
    BY <2>1 DEF SomeFrames
  <2>3. frames \in Seq(SomeFrames) /\ Len(frames) = k
    <3>1. frames \in [1..k -> SomeFrames] /\ k \in Nat
      BY <2>2
    <3> HIDE DEF frames
    <3> QED  BY <3>1, SeqDef, LenProperties
  <2> HIDE DEF frames
  <2>4. /\ end \in [0..k -> Nat] /\ end[0] = 0
        /\ \A j \in 1..k : end[j] = end[j - 1] + SizeOf(frames[j])
    BY <2>3, Ends
  <2>5. \A j \in 1..k : SizeOf(frames[j]) \in Nat /\ SizeOf(frames[j]) >= 2
    BY <2>3, Sizes, ElementOfSeq
  <2>6. \A j \in 1..k : end[j] \in Nat /\ end[j] >= 2
    <3> SUFFICES ASSUME NEW j \in 1..k PROVE end[j] \in Nat /\ end[j] >= 2
      OBVIOUS
    <3>1. end[j - 1] \in Nat /\ end[j] = end[j - 1] + SizeOf(frames[j])
      BY <2>4
    <3> QED  BY <3>1, <2>5
  <2>7. ASSUME NEW n \in Cuts(frames) PROVE n \in Nat
    <3>1. n \in {end[i] + d : i \in 0..k, d \in 0..5} \cup {end[i] - 1 : i \in 1..k}
      BY <2>3, <2>7 DEF Cuts
    <3> HIDE DEF end
    <3> QED  BY <2>4, <2>6, <3>1, SMTT(30)
  <2>8. ASSUME NEW cuts \in Recvs(frames) PROVE StreamWhole(frames, cuts)
    <3>1. PICK m \in 1..2 : cuts \in [1..m -> Cuts(frames)]
      BY <2>8 DEF Recvs
    <3>2. cuts \in Seq(Nat) /\ Len(cuts) = m
      <4>1. cuts \in [1..m -> Nat] /\ m \in Nat
        BY <2>7, <3>1
      <4> QED  BY <4>1, SeqDef, LenProperties
    <3>3. \A j \in 1..m : cuts[j] \in Nat
      BY <2>7, <3>1
    <3>4. \A j \in 1..m : cuts[j] \in ((IF j = 1 THEN 0 ELSE cuts[j - 1]) + 1)
                                      ..((IF j = 1 THEN 0 ELSE cuts[j - 1]) + BUFFER_SIZE)
      BY <2>8, <3>2 DEF Recvs
    <3>5. Ascending(cuts)
      <4>1. ASSUME NEW j \in 2..m PROVE cuts[j - 1] <= cuts[j]
        <5>1. j \in 1..m /\ j - 1 \in 1..m /\ j # 1
          BY <3>1
        <5>2. cuts[j] \in (cuts[j - 1] + 1)..(cuts[j - 1] + BUFFER_SIZE)
          BY <3>4, <5>1
        <5> QED  BY <3>3, <5>1, <5>2 DEF BUFFER_SIZE
      <4> QED  BY <3>2, <4>1 DEF Ascending
    <3> QED  BY <2>3, <3>2, <3>5, WholeFramesPassed
  <2> QED  BY <2>8 DEF frames
<1>2. ASSUME NEW n \in Nat, n <= BUFFER_SIZE - 10
      PROVE  TargetWhole(n)
  <2>1. BUFFER_SIZE \in Nat
    BY DEF BUFFER_SIZE
  <2>2. n <= LongestShort
    BY <1>2 DEF BUFFER_SIZE, LongestShort
  <2>3. TargetFrame(n) = Frame(n, FALSE)
    BY <2>2, TargetFrames
  <2>4. SizeOf(TargetFrame(n)) \in Nat /\ SizeOf(TargetFrame(n)) <= n + 4
    BY <2>2, TargetFrames
  <2>5. SizeOf(TargetFrame(n)) <= BUFFER_SIZE
    BY <1>2, <2>1, <2>4
  <2> QED  BY <2>3, <2>5 DEF TargetWhole
<1>3. \A n \in 1..(BUFFER_SIZE - 10) : n \in Nat /\ n <= BUFFER_SIZE - 10
  <2>1. BUFFER_SIZE \in Nat
    BY DEF BUFFER_SIZE
  <2> QED  BY <2>1
<1>4. \A n \in 1..(BUFFER_SIZE - 10) : TargetWhole(n)
  BY <1>2, <1>3
<1> QED  BY <1>1, <1>4 DEF FramesRight

(* The frames, recvs and lengths that TLC looks at (bridge.c:392-490) are    *)
(* among those, and every answer fits the buffer.                            *)
THEOREM FramesAlwaysIntact == Spec => []FramesIntact
BY FramesRightAlways, PTL DEF FramesIntact

=============================================================================
