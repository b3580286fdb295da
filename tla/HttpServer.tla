----------------------------- MODULE HttpServer -----------------------------
(***************************************************************************)
(* The life of a connection in the plain web server (http/server.c:105-374 *)
(* and http/request_handler.c:485-571, 647-904): the epoll thread reads    *)
(* requests and relays proxied bytes, the workers answer requests and set  *)
(* proxied connections up.  They share the ClientState records, their      *)
(* descriptors and the epoll set, and what keeps them apart is mostly the  *)
(* order in which each of them touches these.                              *)
(*                                                                         *)
(* A record is its address.  Freed memory keeps its contents until it is   *)
(* allocated again, as a record; a thread that reads it finds what is      *)
(* there.  Where the program goes on with a record that is no longer its   *)
(* own, follows a null pointer, or makes the epoll thread wait for a client,*)
(* the model stops: fault says why.                                        *)
(*                                                                         *)
(* What is received comes in chunks; Cap of them fill a buffer.  A chunk   *)
(* is "more", or "end" if it has the blank line that ends a request.       *)
(***************************************************************************)
EXTENDS Naturals, Sequences, FiniteSets

CONSTANTS Recs,     \* the addresses calloc can return for a ClientState
          Fds,      \* the descriptors accept and socket can return
          Workers,  \* the worker threads
          Chunks,   \* bound: the chunks that arrive, of "more" and "end"
          Cap,      \* BUFFER_SIZE - 1, in chunks
          MaxInput, \* bound: chunks that wait in a socket
          NULL      \* the null pointer, no descriptor (-1), no thread

ASSUME HttpAssumption == /\ Chunks \subseteq {"more", "end"}
                         /\ Cap \in Nat \ {0} /\ MaxInput \in Nat
                         /\ NULL \notin Recs \cup Fds \cup Workers

VARIABLES
  \* memory
  rec,      \* the ClientState records
  alloc,    \* the records that are allocated
  \* the kernel
  open,     \* the open descriptors
  input,    \* what each socket has received
  fin,      \* the sockets that will receive no more
  watch,    \* the epoll set: the data.ptr of each descriptor
  edge,     \* the descriptors that epoll has an event for
  \* the epoll thread
  batch,    \* the data.ptr of the events still to be handled
  mpc, cur, \* what it does next, and for which record
  \* the hand-off to the workers, as in TaskFifo
  pending, current,
  wpc,      \* what each worker does next
  \* what went wrong
  orphans,  \* auxiliary: descriptors that the server lost track of: no longer
            \* watched, or left with bytes unread
  stale,    \* auxiliary: workers whose record was freed before their last look
            \* at its peer
  fault     \* why the model stopped

memory  == <<rec, alloc>>
sockets == <<open, input, fin>>
epoll   == <<watch, edge>>
main    == <<batch, mpc, cur>>
handoff == <<pending, current>>
lost    == <<orphans, stale>>
flaws   == <<lost, fault>>
vars == <<memory, sockets, epoll, main, handoff, wpc, flaws>>

MainPc   == {"next", "recv", "check", "close", "relay"}
WorkerPc == {"pop", "work", "rearm", "connect", "test", "send", "failed",
             "readd", "peer", "mod"}

Records == [fd : Fds \cup {NULL}, bytes : 0..Cap, done : BOOLEAN,
            state : {"READ_REQUEST", "PROXYING"}, peer : Recs \cup {NULL}]

MemoryTypes ==
  /\ rec \in [Recs -> Records]
  /\ alloc \in SUBSET Recs

SocketTypes ==
  /\ open \in SUBSET Fds
  /\ input \in [Fds -> Seq(Chunks)] /\ \A f \in Fds : Len(input[f]) <= MaxInput
  /\ fin \in SUBSET open
  /\ watch \in [Fds -> Recs \cup {NULL}]
  /\ edge \in SUBSET open
  /\ orphans \in SUBSET open

ThreadTypes ==
  /\ batch \in SUBSET Recs
  /\ mpc \in MainPc /\ cur \in Recs \cup {NULL}
  /\ pending \in Seq(Recs)
  /\ current \in [Workers -> Recs \cup {NULL}]
  /\ wpc \in [Workers -> WorkerPc]
  /\ stale \in SUBSET Workers
  /\ fault \in {"none", "overfull", "peer_gone", "peer_freed", "add_failed", "stale", "main_waits"}

TypeOK == MemoryTypes /\ SocketTypes /\ ThreadTypes

(* create_client_state. *)
NewRecord(f) == [fd |-> f, bytes |-> 0, done |-> FALSE,
                 state |-> "READ_REQUEST", peer |-> NULL]

Init ==
  /\ rec = [r \in Recs |-> NewRecord(NULL)] /\ alloc = {}
  /\ open = {} /\ input = [f \in Fds |-> <<>>] /\ fin = {}
  /\ watch = [f \in Fds |-> NULL] /\ edge = {}
  /\ batch = {} /\ mpc = "next" /\ cur = NULL
  /\ pending = <<>> /\ current = [w \in Workers |-> NULL]
  /\ wpc = [w \in Workers |-> "pop"]
  /\ orphans = {} /\ stale = {} /\ fault = "none"

-----------------------------------------------------------------------------
(* Descriptors and the epoll set. *)

Readable(f) == input[f] # <<>> \/ f \in fin

(* close: the kernel forgets the descriptor, also in the epoll set. *)
CloseFds(S) ==
  /\ open' = open \ S
  /\ input' = [f \in Fds |-> IF f \in S THEN <<>> ELSE input[f]]
  /\ orphans' = orphans \ S

(* EPOLL_CTL_ADD or MOD, edge-triggered: an event at once if there is        *)
(* something to read.                                                        *)
Watch(f, r) ==
  /\ watch' = [watch EXCEPT ![f] = r]
  /\ edge' = IF Readable(f) THEN edge \cup {f} ELSE edge

Unwatch(f) ==
  /\ watch' = [watch EXCEPT ![f] = NULL]
  /\ edge' = edge \ {f}

(* The other end sends, or is gone. *)
Arrive(f, chunk) ==
  /\ f \in open \ fin
  /\ Len(input[f]) < MaxInput
  /\ input' = [input EXCEPT ![f] = Append(@, chunk)]
  /\ edge' = IF watch[f] # NULL THEN edge \cup {f} ELSE edge
  /\ UNCHANGED <<memory, open, fin, watch, main, handoff, wpc, flaws>>

Gone(f) ==
  /\ f \in open \ fin
  /\ fin' = fin \cup {f}
  /\ edge' = IF watch[f] # NULL THEN edge \cup {f} ELSE edge
  /\ UNCHANGED <<memory, open, input, watch, main, handoff, wpc, flaws>>

Network == \E f \in Fds : Gone(f) \/ \E chunk \in Chunks : Arrive(f, chunk)

-----------------------------------------------------------------------------
(* cleanup_client, which only the epoll thread calls. *)

(* Mutant: the peer is freed along with the record.                          *)
CleanupClientBoth(r) ==
  LET f    == rec[r].fd
      p    == rec[r].peer
      gone == IF p # NULL THEN {r, p} ELSE {r}
      fds  == {rec[q].fd : q \in gone} \ {NULL}
  IN  IF f = NULL THEN UNCHANGED <<memory, sockets, epoll, lost>>
      ELSE /\ rec' = [q \in Recs |-> IF q \in gone THEN [rec[q] EXCEPT !.fd = NULL, !.peer = NULL]
                                     ELSE rec[q]]
           /\ alloc' = alloc \ gone
           /\ fin' = fin \ fds
           /\ watch' = [g \in Fds |-> IF g \in fds THEN NULL ELSE watch[g]]
           /\ edge' = edge \ fds
           /\ CloseFds(fds)
           /\ UNCHANGED stale

(* Mutant: the peer is not told.                                             *)
CleanupClientAlone(r) ==
  LET f == rec[r].fd
  IN  IF f = NULL THEN UNCHANGED <<memory, sockets, epoll, lost>>
      ELSE /\ rec' = [rec EXCEPT ![r].fd = NULL, ![r].peer = NULL]
           /\ alloc' = alloc \ {r}
           /\ fin' = fin \ {f}
           /\ Unwatch(f)
           /\ CloseFds({f})
           /\ UNCHANGED stale

(* The peer is not freed: its descriptor is shut down, so that an event for  *)
(* it comes, or is already in the batch, and finds the record.               *)
CleanupClient(r) ==
  LET f    == rec[r].fd
      p    == rec[r].peer
      shut == {g \in open : p # NULL /\ g = rec[p].fd}
  IN  IF f = NULL THEN UNCHANGED <<memory, sockets, epoll, lost>>
      ELSE /\ rec' = [q \in Recs |->
                        IF q = r THEN [rec[r] EXCEPT !.fd = NULL, !.peer = NULL]
                        ELSE IF q = p THEN [rec[p] EXCEPT !.peer = NULL]
                        ELSE rec[q]]
           /\ alloc' = alloc \ {r}
           /\ fin' = (fin \cup shut) \ {f}
           /\ watch' = [watch EXCEPT ![f] = NULL]
           /\ edge' = (edge \cup {g \in shut : watch[g] # NULL}) \ {f}
           /\ CloseFds({f})
           /\ stale' = stale \cup {w \in Workers : current[w] = r}

-----------------------------------------------------------------------------
(* main. *)

MainGoto(from, to) == mpc = from /\ mpc' = to

(* The next event of the batch. *)
MainNext == mpc' = "next" /\ cur' = NULL

(* The event of the listening socket, which may come anywhere in a batch.  A *)
(* failing EPOLL_CTL_ADD takes everything back.                              *)
Accept(f, r) ==
  /\ mpc = "next"
  /\ f \notin open /\ r \notin alloc
  /\ open' = open \cup {f}
  /\ alloc' = alloc \cup {r}
  /\ rec' = [rec EXCEPT ![r] = NewRecord(f)]
  /\ Watch(f, r)
  /\ UNCHANGED <<input, fin, main, handoff, wpc, flaws>>

(* The events of one epoll_wait are what the epoll set had then, in an order *)
(* that nobody promises.                                                     *)
EpollWait ==
  /\ mpc = "next" /\ batch = {} /\ edge # {}
  /\ batch' = {watch[f] : f \in edge}
  /\ edge' = {}
  /\ UNCHANGED <<memory, sockets, watch, mpc, cur, handoff, wpc, flaws>>

TakeEvent(r) ==
  /\ r \in batch
  /\ batch' = batch \ {r}
  /\ cur' = r
  /\ MainGoto("next", IF rec[r].state = "PROXYING" THEN "relay" ELSE "recv")
  /\ UNCHANGED <<memory, sockets, epoll, handoff, wpc, flaws>>

Least(m, n) == IF m < n THEN m ELSE n

(* One recv: what there is, as far as the buffer has room. *)
Recv(r) ==
  LET got  == input[rec[r].fd]
      n    == Least(Len(got), Cap - rec[r].bytes)
  IN  /\ rec[r].bytes < Cap /\ got # <<>>
      /\ input' = [input EXCEPT ![rec[r].fd] = SubSeq(got, n + 1, Len(got))]
      /\ rec' = [rec EXCEPT ![r].bytes = @ + n,
                            ![r].done = @ \/ \E i \in 1..n : got[i] = "end"]

(* The request is not complete: the loop goes round. *)
RecvMore ==
  /\ MainGoto("recv", "recv")
  /\ Recv(cur)
  /\ ~rec'[cur].done
  /\ UNCHANGED <<alloc, open, fin, epoll, batch, cur, handoff, wpc, flaws>>

(* Mutant: the connection stays in the epoll set while it is queued.         *)
RecvRequestWatched ==
  /\ MainGoto("recv", "check")
  /\ Recv(cur)
  /\ rec'[cur].done
  /\ pending' = Append(pending, cur)
  /\ UNCHANGED <<alloc, open, fin, epoll, batch, cur, current, wpc, flaws>>

(* The blank line is there: EPOLL_CTL_DEL and queue_push. *)
RecvRequest ==
  /\ MainGoto("recv", "check")
  /\ Recv(cur)
  /\ rec'[cur].done
  /\ Unwatch(rec[cur].fd)
  /\ pending' = Append(pending, cur)
  /\ UNCHANGED <<alloc, open, fin, batch, cur, current, wpc, flaws>>

(* recv returns 0 or an error. *)
RecvEnd ==
  /\ MainGoto("recv", "check")
  /\ rec[cur].bytes < Cap
  /\ input[rec[cur].fd] = <<>> /\ rec[cur].fd \in fin
  /\ CleanupClient(cur)
  /\ UNCHANGED <<batch, cur, handoff, wpc, fault>>

(* Mutant: one recv per event, instead of as many as there are bytes for.    *)
RecvDoneEarly ==
  /\ MainGoto("recv", "check")
  /\ UNCHANGED <<memory, sockets, epoll, batch, cur, handoff, wpc, flaws>>

(* There is no more to read, or no more room: the loop ends. *)
RecvDone ==
  /\ MainGoto("recv", "check")
  /\ rec[cur].bytes = Cap \/ ~Readable(rec[cur].fd)
  /\ UNCHANGED <<memory, sockets, epoll, batch, cur, handoff, wpc, flaws>>

(* if (client->bytes_read >= BUFFER_SIZE - 1), whoever has the record by     *)
(* now, and also if it has just been freed.                                  *)
CheckSize ==
  /\ mpc = "check"
  /\ IF rec[cur].bytes >= Cap THEN mpc' = "close" /\ UNCHANGED cur ELSE MainNext
  /\ UNCHANGED <<memory, sockets, epoll, batch, handoff, wpc, flaws>>

(* A worker that is past its use of the record, but for a look at its peer.  *)
LetsGo(w) == wpc[w] \in {"pop", "peer", "mod"}

InQueue(r) == \E i \in 1..Len(pending) : pending[i] = r
AtWork(r)  == \E w \in Workers : current[w] = r /\ ~LetsGo(w)

(* "Request too large": but a request that fills the buffer to the last byte *)
(* has been handed over just before, and is with the workers, or has been    *)
(* closed by one of them, unless it is back in the epoll set already.        *)
CloseTooLarge ==
  /\ mpc = "close"
  /\ MainNext
  /\ IF \E f \in Fds : watch[f] = cur
     THEN CleanupClient(cur) /\ UNCHANGED fault
     ELSE /\ fault' = "overfull"
          /\ UNCHANGED <<memory, sockets, epoll, lost>>
  /\ UNCHANGED <<batch, handoff, wpc>>

(* STATE_PROXYING: one recv and the send to the peer, which takes it, or has *)
(* no room (the bytes are dropped and the loop left), or fails.              *)
Relay ==
  /\ mpc = "relay"
  /\ input[rec[cur].fd] # <<>>
  /\ \/ /\ input' = [input EXCEPT ![rec[cur].fd] = <<>>]
        /\ \/ UNCHANGED <<mpc, cur, orphans>>
           \/ /\ rec[cur].peer # NULL
              /\ MainNext
              /\ orphans' = orphans \cup {rec[cur].fd}
        /\ UNCHANGED <<memory, open, fin, epoll, stale>>
     \/ /\ rec[cur].peer # NULL
        /\ MainNext
        /\ CleanupClient(cur)
  /\ UNCHANGED <<batch, handoff, wpc, fault>>

(* A send to a client whose worker has not made it non-blocking again (830)  *)
(* may wait, for ever if the client does not read.                           *)
RelayWaits ==
  /\ mpc = "relay"
  /\ input[rec[cur].fd] # <<>>
  /\ \E w \in Workers : current[w] = rec[cur].peer /\ wpc[w] \in {"test", "send", "failed", "readd"}
  /\ fault' = "main_waits"
  /\ UNCHANGED <<memory, sockets, epoll, main, handoff, wpc, lost>>

RelayEnd ==
  /\ mpc = "relay"
  /\ input[rec[cur].fd] = <<>>
  /\ MainNext
  /\ IF rec[cur].fd \in fin THEN CleanupClient(cur)
                            ELSE UNCHANGED <<memory, sockets, epoll, lost>>
  /\ UNCHANGED <<batch, handoff, wpc, fault>>

MainStep ==
  \/ EpollWait
  \/ \E r \in Recs : TakeEvent(r)
  \/ RecvMore \/ RecvRequest \/ RecvEnd \/ RecvDone \/ CheckSize \/ CloseTooLarge
  \/ Relay \/ RelayWaits \/ RelayEnd

-----------------------------------------------------------------------------
(* handle_work. *)

WorkerGoto(w, from, to) == wpc[w] = from /\ wpc' = [wpc EXCEPT ![w] = to]
Client(w) == current[w]

(* queue_pop returns. *)
Start(w) ==
  /\ WorkerGoto(w, "pop", "work")
  /\ pending # <<>>
  /\ current' = [current EXCEPT ![w] = Head(pending)]
  /\ pending' = Tail(pending)
  /\ UNCHANGED <<memory, sockets, epoll, main, flaws>>

Return(w, from) ==
  /\ WorkerGoto(w, from, "pop")
  /\ current' = [current EXCEPT ![w] = NULL]
  /\ UNCHANGED pending

(* A record that leaks.  Once nothing refers to it, no thread either, the    *)
(* model may as well allocate it again.                                      *)
Leaked(w) ==
  {r \in {Client(w)} : r # cur /\ \A v \in Workers \ {w} : current[v] # r}

(* The descriptor is closed, and the record leaks. *)
Abandon(w) ==
  /\ CloseFds({rec[Client(w)].fd})
  /\ fin' = fin \ {rec[Client(w)].fd}
  /\ alloc' = alloc \ Leaked(w)
  /\ UNCHANGED <<rec, epoll, stale>>

(* No path, a path with "..", one that is too long, or no authorisation. *)
Reject(w) ==
  /\ Return(w, "work")
  /\ Abandon(w)
  /\ UNCHANGED <<main, fault>>

(* Mutant: the connection is back in the epoll set while it is answered.     *)
ServeStaticFileWatched(w) ==
  /\ WorkerGoto(w, "work", "rearm")
  /\ Watch(rec[Client(w)].fd, Client(w))
  /\ UNCHANGED <<memory, sockets, main, handoff, flaws>>

(* A file, or 404: only sends, whatever happens.  Each may wait, as may all  *)
(* that the next action does (MayWait).                                      *)
ServeStaticFile(w) ==
  /\ WorkerGoto(w, "work", "rearm")
  /\ UNCHANGED <<memory, sockets, epoll, main, handoff, flaws>>

(* A CGI program.  The body of a POST is read on from the socket, as far as  *)
(* it comes: up to the announced length, a hang-up or a timeout.             *)
HandleCgiRequest(w) ==
  /\ WorkerGoto(w, "work", "rearm")
  /\ LET f == rec[Client(w)].fd
     IN  \E n \in 0..Len(input[f]) :
           input' = [input EXCEPT ![f] = SubSeq(@, n + 1, Len(@))]
  /\ UNCHANGED <<memory, open, fin, epoll, main, handoff, flaws>>

(* Nothing read, no peer: the record is as it was when it was created.       *)
Forget(r) == NewRecord(rec[r].fd)

(* Mutant: the connection is not put into the epoll set again.               *)
RearmForgets(w) ==
  /\ Return(w, "rearm")
  /\ rec' = [rec EXCEPT ![Client(w)] = Forget(Client(w))]
  /\ UNCHANGED <<alloc, sockets, epoll, main, flaws>>

(* The end of handle_work: ready for the next request, or closed if epoll    *)
(* refuses the descriptor.                                                   *)
Rearm(w) ==
  /\ Return(w, "rearm")
  /\ \/ /\ rec' = [rec EXCEPT ![Client(w)] = Forget(Client(w))]
        /\ Watch(rec[Client(w)].fd, Client(w))
        /\ UNCHANGED <<alloc, sockets, lost>>
     \/ Abandon(w)
  /\ UNCHANGED <<main, fault>>

(* handle_proxy_request_async.  The upstream connection u is in the epoll    *)
(* set, with its record q, before the worker is done with it.  Without a     *)
(* socket the request stays in the buffer; otherwise a failure empties it.   *)
Connect(w) ==
  WorkerGoto(w, "work", "connect")
  /\ UNCHANGED <<memory, sockets, epoll, main, handoff, flaws>>

Connected(w, u, q) ==
  /\ WorkerGoto(w, "connect", "test")
  /\ u \notin open /\ q \notin alloc
  /\ open' = open \cup {u}
  /\ alloc' = alloc \cup {q}
  /\ rec' = [rec EXCEPT ![Client(w)].state = "PROXYING", ![Client(w)].peer = q,
                        ![q] = [NewRecord(u) EXCEPT !.state = "PROXYING", !.peer = Client(w)]]
  /\ Watch(u, q)
  /\ UNCHANGED <<input, fin, main, handoff, flaws>>

ConnectFails(w) ==
  /\ WorkerGoto(w, "connect", "test")
  /\ \/ UNCHANGED rec
     \/ rec' = [rec EXCEPT ![Client(w)] = Forget(Client(w))]
  /\ UNCHANGED <<alloc, sockets, epoll, main, handoff, flaws>>

(* if (client->peer && client->bytes_read > 0): the epoll thread may close   *)
(* the upstream connection at any moment from here on.                       *)
TestPeer(w) ==
  /\ LET c == rec[Client(w)]
     IN  WorkerGoto(w, "test", IF c.peer # NULL /\ c.bytes > 0 THEN "send" ELSE "readd")
  /\ UNCHANGED <<memory, sockets, epoll, main, handoff, flaws>>

(* The peer that was there at the test is not there any more. *)
PeerGone(w) ==
  /\ wpc[w] \in {"send", "failed", "mod"}
  /\ rec[Client(w)].peer = NULL
  /\ fault' = "peer_gone"
  /\ UNCHANGED <<memory, sockets, epoll, main, handoff, wpc, lost>>

(* send(client->peer->fd, ...), once more after a wait if there is no room.  *)
SendRequest(w) ==
  /\ WorkerGoto(w, "send", "readd") \/ WorkerGoto(w, "send", "failed")
  /\ rec[Client(w)].peer # NULL
  /\ UNCHANGED <<memory, sockets, epoll, main, handoff, flaws>>

(* 502; the upstream record is freed although the epoll thread may hold it.  *)
(* The client's connection is neither closed nor watched any more.           *)
SendFailed(w) ==
  LET q == rec[Client(w)].peer
  IN  /\ Return(w, "failed")
      /\ q # NULL
      /\ IF q \in batch \/ (mpc = "relay" /\ cur = q)
         THEN /\ fault' = "peer_freed"
              /\ UNCHANGED <<memory, sockets, epoll, orphans>>
         ELSE /\ alloc' = alloc \ ({q} \cup Leaked(w))
              /\ rec' = [rec EXCEPT ![Client(w)] = Forget(Client(w))]
              /\ open' = open \ {rec[q].fd}
              /\ input' = [input EXCEPT ![rec[q].fd] = <<>>]
              /\ fin' = fin \ {rec[q].fd}
              /\ Unwatch(rec[q].fd)
              /\ orphans' = (orphans \ {rec[q].fd}) \cup {rec[Client(w)].fd}
              /\ UNCHANGED fault
      /\ UNCHANGED <<main, stale>>

(* EPOLL_CTL_ADD of the client.  If epoll refuses it, its descriptor is      *)
(* closed; the upstream record goes on sending to that number.               *)
ReAdd(w) ==
  \/ /\ WorkerGoto(w, "readd", "peer")
     /\ Watch(rec[Client(w)].fd, Client(w))
     /\ UNCHANGED <<memory, sockets, main, handoff, flaws>>
  \/ /\ Return(w, "readd")
     /\ IF rec[Client(w)].peer = NULL
        THEN Abandon(w) /\ UNCHANGED fault
        ELSE fault' = "add_failed" /\ UNCHANGED <<memory, sockets, epoll, lost>>
     /\ UNCHANGED main

(* if (client->peer): the record may be with main again, or free.  A record  *)
(* that was freed has no peer, unless it is part of another connection now.  *)
LookAtPeer(w) ==
  /\ \/ /\ Return(w, "peer")
        /\ rec[Client(w)].peer = NULL
        /\ stale' = stale \ {w}
     \/ /\ WorkerGoto(w, "peer", "mod")
        /\ rec[Client(w)].peer # NULL /\ w \notin stale
        /\ UNCHANGED <<handoff, stale>>
  /\ UNCHANGED <<memory, sockets, epoll, main, orphans, fault>>

PeerOfAnother(w) ==
  /\ wpc[w] \in {"peer", "mod"}
  /\ rec[Client(w)].peer # NULL /\ w \in stale
  /\ fault' = "stale"
  /\ UNCHANGED <<memory, sockets, epoll, main, handoff, wpc, lost>>

(* EPOLL_CTL_ADD answers EEXIST, EPOLL_CTL_MOD arms the descriptor again.    *)
(* If that fails, the peer's descriptor is closed behind its record's back.  *)
ModPeer(w) ==
  LET q == rec[Client(w)].peer
  IN  /\ Return(w, "mod")
      /\ q # NULL /\ w \notin stale
      /\ \/ Watch(rec[q].fd, q) /\ UNCHANGED fault
         \/ fault' = "add_failed" /\ UNCHANGED epoll
      /\ UNCHANGED <<memory, sockets, main, lost>>

WorkerStep(w) ==
  \/ Start(w) \/ Reject(w) \/ ServeStaticFile(w) \/ HandleCgiRequest(w) \/ Rearm(w)
  \/ Connect(w) \/ ConnectFails(w)
  \/ \E u \in Fds, q \in Recs : Connected(w, u, q)
  \/ TestPeer(w) \/ PeerGone(w) \/ SendRequest(w) \/ SendFailed(w)
  \/ ReAdd(w) \/ LookAtPeer(w) \/ PeerOfAnother(w) \/ ModPeer(w)

-----------------------------------------------------------------------------
Next ==
  /\ fault = "none"
  /\ \/ Network
     \/ \E f \in Fds, r \in Recs : Accept(f, r)
     \/ MainStep
     \/ \E w \in Workers : WorkerStep(w)

Spec == Init /\ [][Next]_vars

(* The steps that send to the client, whose socket is blocking meanwhile     *)
(* (660), or wait for a CGI program: a client that does not read, or a       *)
(* program that does not end, keeps the worker for ever.                     *)
MayWait(w) == wpc[w] \in {"work", "connect", "failed"}

(* The epoll thread and every worker run when they can, but for those steps. *)
(* Nobody need send, hang up or connect; but no sender outruns the relay     *)
(* loop for ever, which reads one socket until it is empty (otherwise that   *)
(* connection alone would keep the epoll thread).                            *)
Fairness == /\ WF_vars(fault = "none" /\ MainStep)
            /\ SF_vars(fault = "none" /\ RelayEnd)
            /\ \A w \in Workers : WF_vars(fault = "none" /\ ~MayWait(w) /\ WorkerStep(w))

FairSpec == Spec /\ Fairness

-----------------------------------------------------------------------------
Handling == mpc \in {"recv", "relay"}

(* No thread works with a record that was freed: not the epoll thread, whose *)
(* batch was filled before it freed anything, not the queue, and no worker   *)
(* before its last look at the peer.                                         *)
RecordsLive ==
  /\ batch \subseteq alloc
  /\ Handling => cur \in alloc
  /\ \A i \in 1..Len(pending) : pending[i] \in alloc
  /\ \A w \in Workers : ~LetsGo(w) => current[w] \in alloc

(* What the epoll set says of a descriptor is the record of the connection   *)
(* that has the descriptor now, never that of an earlier one.                *)
WatchMatches ==
  \A f \in Fds : watch[f] # NULL =>
    f \in open /\ watch[f] \in alloc /\ rec[watch[f]].fd = f

(* The two records of a proxied connection point to each other, and both are *)
(* connected, until the first of them is cleaned up.                         *)
PeersAgree ==
  \A r \in alloc : LET p == rec[r].peer IN p # NULL =>
    /\ p \in alloc /\ rec[p].peer = r
    /\ {rec[r].fd, rec[p].fd} \subseteq open
    /\ rec[r].state = "PROXYING" /\ rec[p].state = "PROXYING"

(* The three, as one invariant. *)
Consistent == TypeOK /\ WatchMatches /\ PeersAgree

(* A request has one owner: while it is queued or a worker answers it, no    *)
(* event can bring its record to the epoll thread, and no other worker has   *)
(* it.                                                                       *)
OneOwner ==
  \A r \in Recs :
    /\ InQueue(r) \/ AtWork(r) =>
         watch[rec[r].fd] = NULL /\ r \notin batch /\ ~(Handling /\ cur = r)
    /\ AtWork(r) => ~InQueue(r)
    /\ \A v, w \in Workers : current[v] = r /\ current[w] = r /\ ~LetsGo(v) /\ ~LetsGo(w)
                             => v = w

(* Epoll reports an edge once.  A connection that waits for a request and    *)
(* has something to read is therefore reported, or in the batch, or being    *)
(* read at this moment.                                                      *)
NoEdgeLost ==
  \A f \in Fds :
    LET r == watch[f]
    IN  r # NULL /\ rec[r].state = "READ_REQUEST" /\ Readable(f) =>
          \/ f \in edge \/ r \in batch
          \/ cur = r /\ (mpc = "recv" \/ rec[r].bytes = Cap)

(* Once the other end of a connection is gone, or the server has shut it     *)
(* down because the peer it was proxied to is gone, its descriptor is closed *)
(* in the end; unless the server lost track of it (orphans), or a worker     *)
(* waits for this client for ever, or all workers wait for others for ever.  *)
HeldUp(f) ==
  \/ \E w \in Workers : MayWait(w) /\ rec[current[w]].fd = f
  \/ \A w \in Workers : MayWait(w)

HangupsEnd ==
  \A f \in Fds : \/ f \in fin ~> (f \notin open \/ f \in orphans \/ fault # "none")
                 \/ <>[]HeldUp(f)

(* The queue is used as TaskFifo asks: no record is pushed that is in it or  *)
(* with a worker.  (A worker is done with a record once the record is back   *)
(* in the epoll set, although it still looks at its peer.)                   *)
Fifo == INSTANCE TaskFifo WITH
          Clients <- Recs,
          current <- [w \in Workers |-> IF LetsGo(w) THEN NULL ELSE current[w]]

UsesFifo == Fifo!Spec

=============================================================================
