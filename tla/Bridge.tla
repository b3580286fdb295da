------------------------------- MODULE Bridge --------------------------------
(***************************************************************************)
(* The WebSocket bridge (bridge.c:250-628): one thread that pairs every    *)
(* browser connection with a connection to the chat server and passes the  *)
(* bytes on.  sessions[] finds the Session of a descriptor by its number.  *)
(*                                                                         *)
(* forward_* close both descriptors of a pair and leave the Session and    *)
(* its entries in sessions[] as they are, so that a later event of the     *)
(* same batch still finds them.  As long as the numbers have not been      *)
(* given out again this does nothing; where they have, the event closes    *)
(* connections that are somebody else's.  The model takes that step and    *)
(* stops behind it: fault says why.  It also stops where SIGPIPE, which    *)
(* the program does not ignore, ends it.                                   *)
(*                                                                         *)
(* A client sends chunks: "part" of a request, its end ("hello", or        *)
(* "nokey" without a Sec-WebSocket-Key), and "data" once it is answered;   *)
(* the chat server sends "data".  One recv returns at most Cap of them.    *)
(***************************************************************************)
EXTENDS Naturals, Sequences, FiniteSets

CONSTANTS Fds,      \* the descriptors accept and socket can return
          Sessions, \* the addresses malloc can return: it does not fail
          Listener, \* listen_fd
          Chunks,   \* bound: what is sent
          Cap,      \* chunks that one recv returns
          MaxInput, \* bound: chunks that wait in a socket
          NULL      \* the null pointer, no descriptor (-1)

ASSUME BridgeAssumption ==
  /\ Chunks \subseteq {"part", "hello", "nokey", "data"} /\ "data" \in Chunks
  /\ Cap \in Nat \ {0} /\ MaxInput \in Nat
  /\ Cardinality(Sessions) > Cardinality(Fds)
  /\ Listener \notin Fds /\ NULL \notin Fds \cup Sessions \cup {Listener}

VARIABLES
  \* the program
  sessions, \* the Session of each descriptor, or NULL
  session,  \* the Session records
  alloc,    \* those that are allocated
  batch,    \* the descriptors of the events still to be handled
  \* the kernel
  backlog,  \* whether a connection waits to be accepted
  open,     \* the open descriptors
  owner,    \* auxiliary: the Session a descriptor was opened for, NULL if that
            \* was given up
  input,    \* what each socket has received
  fin,      \* the sockets whose other end has closed
  edge,     \* the edge-triggered descriptors that epoll has an event for
  crowded,  \* auxiliary: the targets that were sent more than one recv returns
            \* before it was read, or bytes and the end
  fresh,    \* auxiliary: what was opened since the last epoll_wait, as long as
            \* events of that are left
  fault     \* why the model stopped

table   == <<sessions, session, alloc>>
sockets == <<open, owner, input, fin, edge, crowded>>
vars    == <<table, batch, backlog, sockets, fresh, fault>>

TypeOK ==
  /\ sessions \in [Fds -> Sessions \cup {NULL}]
  /\ session \in [Sessions -> [client : Fds \cup {NULL}, target : Fds \cup {NULL},
                               state : {"HANDSHAKE", "ESTABLISHED"}]]
  /\ alloc \in SUBSET Sessions
  /\ batch \in SUBSET (Fds \cup {Listener})
  /\ backlog \in BOOLEAN
  /\ open \in SUBSET Fds
  /\ owner \in [Fds -> Sessions \cup {NULL}]
  /\ \A f \in Fds : input[f] \in Seq(Chunks) /\ Len(input[f]) <= MaxInput
  /\ fin \in SUBSET open /\ edge \in SUBSET open /\ crowded \in SUBSET open
  /\ fresh \in SUBSET Fds
  /\ fault \in {"none", "stranger", "sigpipe"}

NewSession(f) == [client |-> f, target |-> NULL, state |-> "HANDSHAKE"]

Init ==
  /\ sessions = [f \in Fds |-> NULL]
  /\ session = [s \in Sessions |-> NewSession(NULL)]
  /\ alloc = {} /\ batch = {} /\ backlog = FALSE
  /\ open = {} /\ owner = [f \in Fds |-> NULL]
  /\ input = [f \in Fds |-> <<>>] /\ fin = {} /\ edge = {} /\ crowded = {}
  /\ fresh = {}
  /\ fault = "none"

-----------------------------------------------------------------------------
(* Descriptors. *)

Readable(f) == input[f] # <<>> \/ f \in fin
IsClient(f) == f \in open /\ owner[f] # NULL /\ session[owner[f]].client = f
IsTarget(f) == f \in open /\ owner[f] # NULL /\ session[owner[f]].target = f

(* What one recv returns, and what it leaves. *)
Least(m, n) == IF m < n THEN m ELSE n
Received(f) == SubSeq(input[f], 1, Least(Cap, Len(input[f])))
Left(f)     == SubSeq(input[f], Least(Cap, Len(input[f])) + 1, Len(input[f]))

CloseFds(S) ==
  /\ open' = open \ S
  /\ owner' = [f \in Fds |-> IF f \in S THEN NULL ELSE owner[f]]
  /\ input' = [f \in Fds |-> IF f \in S THEN <<>> ELSE input[f]]
  /\ fin' = fin \ S /\ edge' = edge \ S /\ crowded' = crowded \ S

(* The numbers that a Session has for its descriptors, and which of them are *)
(* somebody else's by now.                                                   *)
Pair(s)      == {session[s].client, session[s].target} \ {NULL}
Strangers(s) == {f \in Pair(s) \cap open : owner[f] # s}

(* sessions[f] = s, with the records that go with it.  Bound: a Session that *)
(* no entry points to any more is leaked, and here its address is used again.*)
Enter(f, s, records) ==
  /\ sessions' = [sessions EXCEPT ![f] = s]
  /\ alloc' = {x \in alloc \cup {s} : \E g \in Fds : sessions'[g] = x}
  /\ session' = [x \in Sessions |-> IF x \in alloc' THEN records[x] ELSE NewSession(NULL)]

-----------------------------------------------------------------------------
(* Clients and the chat server. *)

Connect == ~backlog /\ backlog' = TRUE /\ UNCHANGED <<table, batch, sockets, fresh, fault>>

Arrive(f, chunk) ==
  /\ f \notin fin /\ Len(input[f]) < MaxInput
  /\ input' = [input EXCEPT ![f] = Append(@, chunk)]
  /\ edge' = IF IsTarget(f) THEN edge \cup {f} ELSE edge
  /\ crowded' = IF IsTarget(f) /\ Len(input[f]) >= Cap THEN crowded \cup {f} ELSE crowded
  /\ UNCHANGED <<table, batch, backlog, open, owner, fin, fresh, fault>>

(* A client waits for the answer to its request before it sends frames. *)
ClientSends(f, chunk) ==
  /\ IsClient(f)
  /\ (chunk = "data") <=> session[owner[f]].state = "ESTABLISHED"
  /\ \A i \in 1..Len(input[f]) : input[f][i] \in {"part", "data"}
  /\ Arrive(f, chunk)

TargetSends(f) == IsTarget(f) /\ Arrive(f, "data")

HangUp(f) ==
  /\ IsClient(f) \/ IsTarget(f)
  /\ f \notin fin
  /\ fin' = fin \cup {f}
  /\ edge' = IF IsTarget(f) THEN edge \cup {f} ELSE edge
  /\ crowded' = IF IsTarget(f) /\ input[f] # <<>> THEN crowded \cup {f} ELSE crowded
  /\ UNCHANGED <<table, batch, backlog, open, owner, input, fresh, fault>>

-----------------------------------------------------------------------------
(* main *)

(* Clients and the listening socket are level-triggered, targets are         *)
(* edge-triggered; an event is returned only if there is still something to  *)
(* read.                                                                     *)
Ready ==      {f \in Fds : IsClient(f) /\ Readable(f)}
         \cup {f \in edge : Readable(f)}
         \cup (IF backlog THEN {Listener} ELSE {})

EpollWait ==
  /\ batch = {} /\ Ready # {}
  /\ batch' = Ready /\ edge' = {}
  /\ UNCHANGED <<table, backlog, open, owner, input, fin, crowded, fresh, fault>>

(* The event e is handled.                                                   *)
Done(e) ==
  /\ e \in batch /\ batch' = batch \ {e}
  /\ fresh' = IF batch' = {} THEN {} ELSE (fresh \cap open') \cup (open' \ open)

Accept ==
  /\ Listener \in batch
  /\ \E f \in Fds \ open, s \in Sessions \ alloc :
       /\ Enter(f, s, [session EXCEPT ![s] = NewSession(f)])
       /\ open' = open \cup {f}
       /\ owner' = [owner EXCEPT ![f] = s]
  /\ Done(Listener)
  /\ backlog' = FALSE
  /\ UNCHANGED <<input, fin, edge, crowded, fault>>

(* accept fails for want of a descriptor. *)
AcceptFails ==
  /\ Listener \in batch /\ Fds \subseteq open
  /\ UNCHANGED <<table, backlog, sockets, fault>>
  /\ Done(Listener)

(* close(fd), free(s), sessions[fd] = NULL *)
GiveUp(f, s) ==
  /\ sessions' = [sessions EXCEPT ![f] = NULL]
  /\ alloc' = alloc \ {s}
  /\ session' = [session EXCEPT ![s] = NewSession(NULL)]

(* handle_handshake; the chat server may refuse the connection, and the      *)
(* descriptor made for it is not closed.                                     *)
Handshake(f, s) ==
  \/ /\ "hello" \in {Received(f)[i] : i \in DOMAIN Received(f)}
     /\ \E t \in Fds \ open :
          \/ /\ Enter(t, s, [session EXCEPT ![s].target = t, ![s].state = "ESTABLISHED"])
             /\ open' = open \cup {t}
             /\ owner' = [owner EXCEPT ![t] = s]
             /\ input' = [input EXCEPT ![f] = Left(f)]
             /\ UNCHANGED <<fin, edge, crowded>>
          \/ /\ open' = (open \ {f}) \cup {t}
             /\ owner' = [owner EXCEPT ![f] = NULL]
             /\ input' = [input EXCEPT ![f] = <<>>]
             /\ fin' = fin \ {f} /\ UNCHANGED <<edge, crowded>>
             /\ GiveUp(f, s)
  \/ /\ \/ "nokey" \in {Received(f)[i] : i \in DOMAIN Received(f)}
        \/ Fds \subseteq open
     /\ CloseFds({f}) /\ GiveUp(f, s)

(* An event of a client whose request is not answered yet.  Without bytes it *)
(* is closed, be it at its end, closed already, or new and silent.  Nothing  *)
(* is read before the blank line is there.                                   *)
Request(f, s) ==
  \/ /\ input[f] = <<>>
     /\ CloseFds({f} \cap open) /\ GiveUp(f, s)
  \/ /\ Received(f) # <<>>
     /\ \A i \in DOMAIN Received(f) : Received(f)[i] = "part"
     /\ UNCHANGED <<table, sockets>>
  \/ /\ \E i \in DOMAIN Received(f) : Received(f)[i] # "part"
     /\ Handshake(f, s)

(* Mutant: only the client is closed.                                        *)
ClosePairHalf(s) == CloseFds({session[s].client} \cap open) /\ UNCHANGED table

(* recv returned nothing: both numbers are closed, whoever has them by now,  *)
(* and the Session stays.                                                    *)
ClosePair(s) == CloseFds(Pair(s) \cap open) /\ UNCHANGED table

(* Mutant: n <= 1 instead of n <= 0.                                         *)
ForwardOffByOne(from, s) ==
  IF Len(input[from]) <= 1
    THEN ClosePair(s)
    ELSE /\ input' = [input EXCEPT ![from] = Left(from)]
         /\ UNCHANGED <<table, open, owner, fin, edge, crowded>>

(* Mutant: n < 0 instead of n <= 0.                                          *)
ForwardNoEnd(from, s) ==
  IF input[from] = <<>> /\ from \notin fin
    THEN ClosePair(s)
    ELSE /\ input' = [input EXCEPT ![from] = Left(from)]
         /\ UNCHANGED <<table, open, owner, fin, edge, crowded>>

(* forward_client_to_target and forward_target_to_client, for the event of   *)
(* from: one recv.  Without bytes the pair is closed, be it at the end, or   *)
(* that from is closed already, or new and silent.                           *)
Forward(from, s) ==
  IF input[from] = <<>>
    THEN ClosePair(s)
    ELSE /\ input' = [input EXCEPT ![from] = Left(from)]
         /\ UNCHANGED <<table, open, owner, fin, edge, crowded>>

(* The Session of a descriptor: its own entry, or one that has it as target. *)
Found(f) == IF sessions[f] # NULL THEN {sessions[f]}
            ELSE {sessions[k] : k \in {k \in Fds : sessions[k] # NULL
                                         /\ session[sessions[k]].target = f}}

(* The event was of another connection than the one that has the number, or  *)
(* the other number of the pair, by now: what follows closes that one.       *)
Misled(f, s) == Strangers(s) # {} \/ (f \in open /\ ~Readable(f))

(* main, for the event of a descriptor.  An event without a Session is       *)
(* skipped, as in the code; no run gets there.                               *)
Event(f) ==
  /\ f \in batch
  /\ \/ Found(f) = {} /\ UNCHANGED <<table, sockets, fault>>
     \/ \E s \in Found(f) :
          /\ \/ f = session[s].client /\ session[s].state = "HANDSHAKE" /\ Request(f, s)
             \/ f = session[s].client /\ session[s].state = "ESTABLISHED" /\ Forward(f, s)
             \/ f = session[s].target /\ Forward(f, s)
          /\ fault' = IF Misled(f, s) THEN "stranger" ELSE fault
  /\ Done(f)
  /\ UNCHANGED backlog

(* send to a connection whose other end has closed. *)
SigPipe(f) ==
  /\ f \in batch \cap open /\ input[f] # <<>>
  /\ \E s \in Found(f) : (Pair(s) \ {f}) \cap fin # {}
  /\ fault' = "sigpipe"
  /\ UNCHANGED <<table, batch, backlog, sockets, fresh>>

-----------------------------------------------------------------------------
World == \/ Connect
         \/ \E f \in Fds : (\E c \in Chunks : ClientSends(f, c)) \/ TargetSends(f) \/ HangUp(f)

Main  == \/ EpollWait \/ Accept \/ AcceptFails
         \/ \E f \in Fds : Event(f) \/ SigPipe(f)

Next == fault = "none" /\ (World \/ Main)

Spec == Init /\ [][Next]_vars

-----------------------------------------------------------------------------
(* Properties *)

(* No entry of sessions[] points to a Session that was freed (bridge.c:581,  *)
(* 607): main reads through any of them (bridge.c:561).                      *)
NoDanglingEntry == \A f \in Fds : sessions[f] # NULL => sessions[f] \in alloc

(* An open descriptor that some session was given finds that session, in its *)
(* role there, and the two descriptors of an established pair are open       *)
(* together: nothing is forwarded into a closed or a foreign connection.     *)
Agrees(f, s) ==
  /\ sessions[f] = s /\ s \in alloc /\ f \in Pair(s)
  /\ session[s].state = "ESTABLISHED" =>
       /\ session[s].target # NULL
       /\ \A g \in Pair(s) : g \in open /\ owner[g] = s

PairsAgree == \A f \in open, s \in Sessions : owner[f] = s => Agrees(f, s)

(* The three, as one invariant; where an event has closed a stranger's       *)
(* connection, the last does not hold.                                       *)
Consistent == TypeOK /\ NoDanglingEntry /\ (fault # "stranger" => PairsAgree)

(* Why a descriptor may be closed: its other end or that of its pair has     *)
(* closed, or its request is complete.                                       *)
Cause(f) ==
  \/ f \in fin
  \/ owner[f] # NULL /\ Pair(owner[f]) \cap fin # {}
  \/ \E i \in DOMAIN input[f] : input[f][i] \in {"hello", "nokey"}

(* An event left over from a closed pair (bridge.c:381-384, 461-463) does    *)
(* close connections without any cause of their own, but only such as were   *)
(* opened since epoll_wait returned that event, or whose pair was: no        *)
(* connection that was there before is ever closed for another.              *)
ClosedForCause ==
  [][ \A f \in open \ open' :
        \/ Cause(f)
        \/ f \in fresh
        \/ owner[f] # NULL /\ Pair(owner[f]) \cap fresh # {} ]_vars

(* What comes from the chat server has an event to come, its end too, unless *)
(* more came at once than one recv takes, or the end together with bytes:    *)
(* the edge is used up by the first recv (bridge.c:456, 595).                *)
NoEdgeLost ==
  \A f \in open : IsTarget(f) /\ Readable(f) => f \in edge \cup batch \cup crowded

=============================================================================
