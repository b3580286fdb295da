----------------------------- MODULE HttpsServer ----------------------------
(***************************************************************************)
(* The life of a connection in the TLS web server (https/server.c:48-110,  *)
(* 197-277, 369-631 and https/request_handler.c:62-122, 465-716).  Unlike  *)
(* the plain server it arms a descriptor for one event at a time, and it   *)
(* does not wait for room: what cannot be written stays with the record,   *)
(* and so does the rest of a file, until an event says that there is room. *)
(* Whether that event comes depends on what was armed last, by whom.       *)
(*                                                                         *)
(* Chunks are as in HttpServer; "part" is one that gives the application   *)
(* nothing: a handshake message, or the beginning of a TLS record.         *)
(***************************************************************************)
EXTENDS Naturals, Sequences, FiniteSets

CONSTANTS Recs,     \* the addresses calloc can return for a ClientState
          Fds,      \* the descriptors accept and socket can return
          Workers,  \* the worker threads
          Chunks,   \* bound: the chunks that arrive
          Cap,      \* BUFFER_SIZE - 1, in chunks
          MaxInput, \* bound: chunks that wait in a socket
          MaxClients, \* bound: accepted connections that are open
          NULL      \* the null pointer, no descriptor, no thread

ASSUME HttpsAssumption == /\ Chunks \subseteq {"part", "more", "end"}
                          /\ Cap \in Nat \ {0} /\ MaxInput \in Nat
                          /\ NULL \notin Recs \cup Fds \cup Workers

VARIABLES
  rec,      \* the ClientState records
  alloc,    \* the records that are allocated
  open,     \* the open descriptors
  input,    \* what each socket has received
  fin,      \* the sockets that will receive no more
  full,     \* the sockets whose send buffer has no room
  watch,    \* the epoll set: the data.ptr of each descriptor
  mask,     \* what each descriptor is armed for
  ready,    \* epoll's ready list
  batch,    \* the events still to be handled: record and kind
  mpc, cur, \* what the epoll thread does next, and for which record
  pending, current, \* the hand-off to the workers, as in TaskFifo
  wpc,      \* what each worker does next
  lost,     \* auxiliary: for each descriptor, the kinds of event the server
            \* waits for without having armed them
  fault     \* why the model stopped

memory  == <<rec, alloc>>
sockets == <<open, input, fin, full>>
epoll   == <<watch, mask, ready>>
main    == <<batch, mpc, cur>>
handoff == <<pending, current>>
vars == <<memory, sockets, epoll, main, handoff, wpc, lost, fault>>

Events == {"in", "out"}
Masks  == SUBSET {"in", "out", "once"}

Records == [fd : Fds \cup {NULL}, ssl : BOOLEAN,
            state : {"SSL_HANDSHAKE", "READ_REQUEST", "PROXYING"},
            bytes : 0..Cap, done : BOOLEAN, peer : Recs \cup {NULL},
            pend : BOOLEAN,    \* pending_write_len > 0
            stream : BOOLEAN,  \* file_stream
            want : BOOLEAN,    \* ssl_want_write
            old : BOOLEAN]     \* auxiliary: the request was answered before

MemoryTypes ==
  /\ rec \in [Recs -> Records]
  /\ alloc \in SUBSET Recs

SocketTypes ==
  /\ open \in SUBSET Fds
  /\ input \in [Fds -> Seq(Chunks \cup {"more"})] /\ \A f \in Fds : Len(input[f]) <= MaxInput
  /\ fin \in SUBSET open /\ full \in SUBSET open /\ ready \in SUBSET open
  /\ watch \in [Fds -> Recs \cup {NULL}]
  /\ mask \in [Fds -> Masks]
  /\ lost \in [Fds -> SUBSET Events]

ThreadTypes ==
  /\ batch \in SUBSET (Recs \X Events)
  /\ mpc \in {"next", "check"} /\ cur \in Recs \cup {NULL}
  /\ pending \in Seq(Recs)
  /\ current \in [Workers -> Recs \cup {NULL}]
  /\ wpc \in [Workers -> {"pop", "work", "rearm"}]
  /\ fault \in {"none", "overfull"}

TypeOK == MemoryTypes /\ SocketTypes /\ ThreadTypes

(* create_client_state. *)
NewRecord(f) == [fd |-> f, ssl |-> FALSE, state |-> "READ_REQUEST", bytes |-> 0,
                 done |-> FALSE, peer |-> NULL, pend |-> FALSE, stream |-> FALSE,
                 want |-> FALSE, old |-> FALSE]

Init ==
  /\ rec = [r \in Recs |-> NewRecord(NULL)] /\ alloc = {}
  /\ open = {} /\ input = [f \in Fds |-> <<>>] /\ fin = {} /\ full = {}
  /\ watch = [f \in Fds |-> NULL] /\ mask = [f \in Fds |-> {}] /\ ready = {}
  /\ batch = {} /\ mpc = "next" /\ cur = NULL
  /\ pending = <<>> /\ current = [w \in Workers |-> NULL]
  /\ wpc = [w \in Workers |-> "pop"]
  /\ lost = [f \in Fds |-> {}] /\ fault = "none"

-----------------------------------------------------------------------------
(* Sockets and the epoll set. *)

(* What epoll has to report of a descriptor. *)
Readable(f) == input[f] # <<>> \/ f \in fin
Due(f) == {e \in mask[f] \cap Events : IF e = "in" THEN Readable(f) ELSE f \notin full}

(* EPOLL_CTL_ADD, or EPOLL_CTL_MOD of a descriptor that is in the set: an    *)
(* event at once if there is one.                                            *)
Watch(f, r, m) ==
  /\ watch' = [watch EXCEPT ![f] = r]
  /\ mask' = [mask EXCEPT ![f] = m]
  /\ ready' = IF \/ "in" \in m /\ (input'[f] # <<>> \/ f \in fin')
                 \/ "out" \in m /\ f \notin full'
              THEN ready \cup {f} ELSE ready \ {f}

Unwatch(S) ==
  /\ watch' = [f \in Fds |-> IF f \in S THEN NULL ELSE watch[f]]
  /\ mask' = [f \in Fds |-> IF f \in S THEN {} ELSE mask[f]]
  /\ ready' = ready \ S

CloseFds(S) ==
  /\ open' = open \ S /\ fin' = fin \ S /\ full' = full \ S
  /\ input' = [f \in Fds |-> IF f \in S THEN <<>> ELSE input[f]]

Loses(f, S) == lost' = [lost EXCEPT ![f] = @ \cup S]
Finds(f, S) == lost' = [lost EXCEPT ![f] = @ \ S]

Noticed(f, e) == ready' = IF e \in mask[f] THEN ready \cup {f} ELSE ready

(* What the other end may send: a client its request, the upstream server    *)
(* anything.  What a client sends while it is proxied stays in its socket,   *)
(* and is left out.                                                          *)
Sends(r) == IF ~rec[r].ssl THEN {"more"} ELSE IF rec[r].peer = NULL THEN Chunks ELSE {}

(* The other end sends, is gone, or has read. *)
Network == \E r \in alloc : LET f == rec[r].fd IN
  /\ \/ /\ f \notin fin /\ Len(input[f]) < MaxInput
        /\ \E chunk \in Sends(r) : input' = [input EXCEPT ![f] = Append(@, chunk)]
        /\ Noticed(f, "in") /\ UNCHANGED <<fin, full>>
     \/ /\ f \notin fin
        /\ fin' = fin \cup {f}
        /\ Noticed(f, "in") /\ UNCHANGED <<input, full>>
     \/ /\ f \in full
        /\ full' = full \ {f}
        /\ Noticed(f, "out") /\ UNCHANGED <<input, fin>>
  /\ UNCHANGED <<memory, open, watch, mask, main, handoff, wpc, lost, fault>>

(* SSL_write writes all, or wants to wait for room.  It fails on a dead      *)
(* connection; and after it wanted to wait, it may refuse a second try from  *)
(* another buffer, which is what the program makes.                          *)
WriteAll(f)   == f \notin full /\ UNCHANGED full
WriteWants(f) == full' = full \cup {f}
WriteFails(f, retry) == retry \/ f \in fin

-----------------------------------------------------------------------------
(* The events that a break out of the loop over the batch leaves behind. *)
LeftBehind(S) == {rec[x[1]].fd : x \in S}
AndLost(S) == [f \in Fds |-> IF f \in S THEN Events ELSE lost[f]]

(* Mutant: the peer stays, and is not told.                                  *)
CleanupAlone(r, S) ==
  LET f == rec[r].fd
  IN  /\ alloc' = alloc \ {r}
      /\ rec' = [rec EXCEPT ![r] = NewRecord(NULL)]
      /\ CloseFds({f})
      /\ Unwatch({f})
      /\ lost' = [lost EXCEPT ![f] = {}]

(* cleanup_client: the peer is closed and freed, too.  Events may be left    *)
(* behind.                                                                   *)
CleanupLeaving(r, S) ==
  LET gone == {r, rec[r].peer} \ {NULL}
      fds  == {rec[q].fd : q \in gone}
  IN  /\ alloc' = alloc \ gone
      /\ rec' = [q \in Recs |-> IF q \in gone THEN NewRecord(NULL) ELSE rec[q]]
      /\ CloseFds(fds)
      /\ Unwatch(fds)
      /\ lost' = [f \in Fds |-> IF f \in fds THEN {} ELSE AndLost(LeftBehind(S))[f]]

CleanupClient(r) == CleanupLeaving(r, {})

(* main. *)

(* A new connection, up to the first SSL_accept, which waits for the client: *)
(* there is room for whatever it sends.  If it fails, or epoll refuses the   *)
(* descriptor, all is taken back.                                            *)
Accept(f, r) ==
  /\ mpc = "next"
  /\ f \notin open /\ r \notin alloc
  /\ Cardinality(open \ {rec[q].fd : q \in {p \in alloc : ~rec[p].ssl}}) < MaxClients
  /\ open' = open \cup {f}
  /\ alloc' = alloc \cup {r}
  /\ rec' = [rec EXCEPT ![r] = [NewRecord(f) EXCEPT !.ssl = TRUE, !.state = "SSL_HANDSHAKE"]]
  /\ UNCHANGED <<input, fin, full>>
  /\ Watch(f, r, {"in", "once"})
  /\ UNCHANGED <<main, handoff, wpc, lost, fault>>

(* Each descriptor of the ready list is reported with what is due then, in   *)
(* an order that nobody promises.  A one-shot descriptor is disarmed.  Main  *)
(* looks at EPOLLIN first.                                                   *)
EpollWait ==
  /\ mpc = "next" /\ batch = {} /\ ready # {}
  /\ LET told == {f \in ready : Due(f) # {}}
     IN  /\ batch' = {<<watch[f], IF "in" \in Due(f) THEN "in" ELSE "out">> : f \in told}
         /\ mask' = [f \in Fds |-> IF f \in told /\ "once" \in mask[f] THEN {} ELSE mask[f]]
  /\ ready' = {}
  /\ UNCHANGED <<memory, sockets, watch, mpc, cur, handoff, wpc, lost, fault>>

Event(r, e) == mpc = "next" /\ <<r, e>> \in batch
Handled(r, e) == batch' = batch \ {<<r, e>>}

(* rearm_client: EPOLL_CTL_MOD, which reports what has come meanwhile.  It    *)
(* does not arm for what is still to be written.                             *)
RearmClient(r, want) ==
  LET f == rec[r].fd
  IN  /\ Watch(f, r, {"in", "once"} \cup (IF want THEN {"out"} ELSE {}))
      /\ lost' = [lost EXCEPT ![f] = IF (rec[r].pend \/ rec[r].stream) /\ ~want THEN {"out"} ELSE {}]

(* The chunks that have data, among the first n. *)
Data(f, n) == Cardinality({i \in 1..n : input[f][i] # "part"})
Drop(f, n) == input' = [input EXCEPT ![f] = SubSeq(@, n + 1, Len(@))]

(* perform_ssl_handshake: SSL_accept is done with the client's messages,     *)
(* waits for more of them or for room, or fails (as epoll may, too).         *)
Handshake(r) ==
  LET f == rec[r].fd
      n == CHOOSE n \in 0..Len(input[f]) :
             Data(f, n) = 0 /\ (n < Len(input[f]) => Data(f, n + 1) = 1)
  IN  /\ Event(r, "in") /\ rec[r].state = "SSL_HANDSHAKE"
      /\ Handled(r, "in")
      /\ \/ \E done, want \in BOOLEAN :
              /\ done => n > 0 /\ ~want
              /\ done \/ want \/ (n = Len(input[f]) /\ f \notin fin)
              /\ Drop(f, n)
              /\ IF want THEN WriteWants(f) ELSE UNCHANGED full
              /\ UNCHANGED <<alloc, open, fin>>
              /\ rec' = [rec EXCEPT ![r].want = want,
                           ![r].state = IF done THEN "READ_REQUEST" ELSE "SSL_HANDSHAKE"]
              /\ RearmClient(r, want)
         \/ CleanupClient(r)
      /\ UNCHANGED <<mpc, cur, handoff, wpc, fault>>

(* STATE_READ_REQUEST: SSL_read in a loop, which ends at n: at a blank line  *)
(* that is, or comes, into the buffer, or when that is full.  SSL_read does  *)
(* not want to write, as renegotiation is off.                               *)
Ends(r, n) ==
  LET f == rec[r].fd
  IN  /\ Data(f, n) > Data(f, n - 1)
      /\ rec[r].done \/ input[f][n] = "end" \/ rec[r].bytes + Data(f, n) = Cap

Stop(r) == LET ends == {n \in 1..Len(input[rec[r].fd]) : Ends(r, n)}
           IN  IF ends = {} THEN 0 ELSE CHOOSE n \in ends : \A k \in ends : n <= k

Complete(r) == Stop(r) # 0 /\ (rec[r].done \/ input[rec[r].fd][Stop(r)] = "end")

Reads(r) == Event(r, "in") /\ rec[r].state = "READ_REQUEST" /\ rec[r].bytes < Cap

(* Mutant: the descriptor is armed again instead of taken out of the set.    *)
ReadRequestArmed(r) ==
  LET f == rec[r].fd
  IN  /\ Reads(r) /\ Complete(r)
      /\ Drop(f, Stop(r))
      /\ rec' = [rec EXCEPT ![r].bytes = @ + Data(f, Stop(r)), ![r].done = TRUE]
      /\ UNCHANGED <<fin, full>>
      /\ Watch(f, r, {"in", "once"})
      /\ pending' = Append(pending, r)
      /\ mpc' = "check" /\ cur' = r
      /\ Handled(r, "in")
      /\ UNCHANGED <<alloc, open, current, wpc, lost, fault>>

(* EPOLL_CTL_DEL and queue_push. *)
ReadRequest(r) ==
  LET f == rec[r].fd
  IN  /\ Reads(r) /\ Complete(r)
      /\ Drop(f, Stop(r))
      /\ rec' = [rec EXCEPT ![r].bytes = @ + Data(f, Stop(r)), ![r].done = TRUE]
      /\ Unwatch({f})
      /\ pending' = Append(pending, r)
      /\ mpc' = "check" /\ cur' = r
      /\ Handled(r, "in")
      /\ UNCHANGED <<alloc, open, fin, full, current, wpc, lost, fault>>

ReadMore(r) ==
  LET f == rec[r].fd
      n == Len(input[f])
  IN  /\ Reads(r) /\ Stop(r) = 0 /\ f \notin fin
      /\ Drop(f, n)
      /\ rec' = [rec EXCEPT ![r].bytes = @ + Data(f, n)]
      /\ UNCHANGED <<alloc, open, fin, full>>
      /\ RearmClient(r, FALSE)
      /\ Handled(r, "in")
      /\ UNCHANGED <<mpc, cur, handoff, wpc, fault>>

(* SSL_read or epoll fails, or the buffer is full without a blank line, or   *)
(* full already.                                                             *)
ReadFails(r) ==
  /\ Event(r, "in") /\ rec[r].state = "READ_REQUEST"
  /\ Reads(r) => ~Complete(r)
  /\ CleanupClient(r)
  /\ Handled(r, "in")
  /\ UNCHANGED <<mpc, cur, handoff, wpc, fault>>

InQueue(r) == \E i \in 1..Len(pending) : pending[i] = r
AtWork(r)  == \E w \in Workers : current[w] = r

(* "Request too large", looked at once more after the request was handed     *)
(* over: the record may be queued, with a worker, back, or free.             *)
CheckSize ==
  /\ mpc = "check"
  /\ mpc' = "next" /\ cur' = NULL
  /\ IF rec[cur].bytes < Cap THEN UNCHANGED <<memory, sockets, epoll, lost, fault>>
     ELSE IF InQueue(cur) \/ AtWork(cur) \/ cur \notin alloc
     THEN fault' = "overfull" /\ UNCHANGED <<memory, sockets, epoll, lost>>
     ELSE CleanupClient(cur) /\ UNCHANGED fault
  /\ UNCHANGED <<batch, handoff, wpc>>

(* Mutant: the upstream descriptor stays armed while the browser has no room *)
(* for what it sent.                                                         *)
UpstreamStaysArmed(r) ==
  LET f == rec[r].fd
      b == rec[r].peer
      g == rec[b].fd
  IN  /\ Event(r, "in") /\ rec[r].state = "PROXYING" /\ ~rec[b].pend
      /\ input[f] # <<>>
      /\ Drop(f, 1)
      /\ WriteWants(g)
      /\ rec' = [rec EXCEPT ![b].pend = TRUE]
      /\ Loses(g, Events)
      /\ Handled(r, "in")
      /\ UNCHANGED <<alloc, open, fin, epoll, mpc, cur, handoff, wpc, fault>>

(* STATE_PROXYING: this is the upstream connection (no event comes for the   *)
(* browser's, see ProxiedOneWay).  One recv for each event, whatever is      *)
(* behind it.  What the browser has no room for is kept, and both            *)
(* descriptors are to be armed for that: but the browser's is not in the     *)
(* epoll set, where EPOLL_CTL_MOD could find it.  A recv that fails is not   *)
(* looked at.                                                                *)
Upstream(r) ==
  LET f == rec[r].fd
      b == rec[r].peer
      g == rec[b].fd
  IN  /\ Event(r, "in") /\ rec[r].state = "PROXYING" /\ ~rec[b].pend
      /\ \/ /\ input[f] # <<>>
            /\ Drop(f, 1)
            /\ \/ /\ WriteAll(g)
                  /\ IF Len(input[f]) > 1 \/ f \in fin THEN Loses(f, {"in"}) ELSE Finds(f, {"in"})
                  /\ UNCHANGED <<rec, epoll>>
               \/ /\ WriteWants(g)
                  /\ rec' = [rec EXCEPT ![b].pend = TRUE]
                  /\ mask' = [mask EXCEPT ![f] = {}]
                  /\ ready' = ready \ {f}
                  /\ lost' = [lost EXCEPT ![f] = {"in"}, ![g] = Events]
                  /\ UNCHANGED watch
            /\ UNCHANGED <<alloc, open, fin>>
         \/ /\ input[f] = <<>> /\ f \in fin
            /\ \/ CleanupClient(r)
               \/ Loses(f, {"in"}) /\ UNCHANGED <<memory, sockets, epoll>>
      /\ Handled(r, "in")
      /\ UNCHANGED <<mpc, cur, handoff, wpc, fault>>

(* The browser cannot be written to any more: both are closed, and break     *)
(* leaves the loop over the batch.  (So does the break before the recv, for  *)
(* bytes that still wait for the browser, but main never finds any.)         *)
UpstreamBreaks(r) ==
  /\ Event(r, "in") /\ rec[r].state = "PROXYING" /\ ~rec[rec[r].peer].pend
  /\ input[rec[r].fd] # <<>> /\ WriteFails(rec[rec[r].peer].fd, FALSE)
  /\ batch' = {}
  /\ CleanupLeaving(r, batch)
  /\ UNCHANGED <<mpc, cur, handoff, wpc, fault>>

(* EPOLLOUT: flush_pending_write.  What is left is waited for again, at the  *)
(* same time as the next request.                                            *)
FlushWaits(r) ==
  LET f == rec[r].fd
  IN  /\ Event(r, "out") /\ rec[r].pend
      /\ WriteWants(f)
      /\ UNCHANGED <<memory, open, input, fin>>
      /\ Watch(f, r, {"in", "out", "once"})
      /\ Finds(f, Events)
      /\ Handled(r, "out")
      /\ UNCHANGED <<mpc, cur, handoff, wpc, fault>>

FlushFails(r) ==
  /\ Event(r, "out")
  /\ rec[r].pend \/ rec[r].stream
  /\ WriteFails(rec[r].fd, rec[r].pend)
  /\ CleanupClient(r)
  /\ Handled(r, "out")
  /\ UNCHANGED <<mpc, cur, handoff, wpc, fault>>

(* All is written, and epoll told to wait for the next request; if nothing   *)
(* was to be written (but a handshake, that waited for room), it is told     *)
(* nothing.  Then, from a file that was put aside, one buffer more: it ends, *)
(* or the buffer is written, or has to wait.  After one that was written     *)
(* nothing waits for the rest of the file.  The request that was answered    *)
(* stays in the record's buffer.                                             *)
FlushDone(r) ==
  LET f == rec[r].fd
      unheard == IF rec[r].pend THEN {} ELSE {"in"}
      unsent(rest) == IF rest = "written" \/ rec[r].want THEN {"out"} ELSE {}
  IN  /\ Event(r, "out")
      /\ rec[r].pend => f \notin full
      /\ UNCHANGED <<alloc, open, input, fin>>
      /\ \E rest \in IF rec[r].stream THEN {"end", "written", "waits"} ELSE {"end"} :
           /\ rest = "written" => f \notin full
           /\ rec' = [rec EXCEPT ![r].pend = rest = "waits", ![r].stream = rest # "end"]
           /\ IF rest = "waits"
              THEN /\ WriteWants(f)
                   /\ Watch(f, r, {"in", "out"})
                   /\ Finds(f, Events)
              ELSE /\ UNCHANGED full
                   /\ IF rec[r].pend THEN Watch(f, r, {"in", "once"}) ELSE UNCHANGED epoll
                   /\ lost' = [lost EXCEPT ![f] = unheard \cup unsent(rest)]
      /\ Handled(r, "out")
      /\ UNCHANGED <<mpc, cur, handoff, wpc, fault>>

MainStep ==
  \/ EpollWait \/ CheckSize
  \/ \E r \in Recs : \/ Handshake(r)
                     \/ ReadRequest(r) \/ ReadMore(r) \/ ReadFails(r)
                     \/ Upstream(r) \/ UpstreamBreaks(r)
                     \/ FlushWaits(r) \/ FlushFails(r) \/ FlushDone(r)

-----------------------------------------------------------------------------
(* handle_work. *)

WorkerGoto(w, from, to) == wpc[w] = from /\ wpc' = [wpc EXCEPT ![w] = to]
Client(w) == current[w]

Start(w) ==
  /\ WorkerGoto(w, "pop", "work")
  /\ pending # <<>>
  /\ current' = [current EXCEPT ![w] = Head(pending)]
  /\ pending' = Tail(pending)
  /\ UNCHANGED <<memory, sockets, epoll, main, lost, fault>>

Return(w, from) ==
  /\ WorkerGoto(w, from, "pop")
  /\ current' = [current EXCEPT ![w] = NULL]
  /\ UNCHANGED pending

(* Main is about to look at the size of the record's request. *)
ToCheck(r) == mpc = "check" /\ cur = r /\ rec[r].bytes = Cap

(* ssl_send_response, once or more: all is sent, or the rest is kept.  The   *)
(* EPOLL_CTL_MOD that is to wait for room finds nothing, as the descriptor   *)
(* is not in the epoll set.  Errors are not looked at.                       *)
Responds(r, pend) ==
  LET f == rec[r].fd
  IN  /\ rec[r].pend => pend
      /\ pend \/ f \in fin \/ f \notin full
      /\ full' = IF pend /\ ~rec[r].pend THEN full \cup {f} ELSE full

(* No path, a path with "..", one that is too long, no authorisation; or no  *)
(* connection to the upstream server.  An error is sent and that is all: the *)
(* connection is neither closed nor waited for.  Unless main is not done     *)
(* with the record, it leaks, and the model may as well allocate it again;   *)
(* the descriptor stays open, whatever happens to it.                        *)
Forgets(w) ==
  LET r == Client(w)
      f == rec[r].fd
  IN  /\ Return(w, "work")
      /\ Loses(f, Events)
      /\ IF ToCheck(r) THEN UNCHANGED <<memory, input, fin, full>>
         ELSE /\ alloc' = alloc \ {r}
              /\ rec' = [rec EXCEPT ![r] = NewRecord(NULL)]
              /\ Drop(f, Len(input[f]))
              /\ fin' = fin \ {f} /\ full' = full \ {f}
      /\ UNCHANGED <<open, epoll, main, fault>>

(* Mutant: the connection is back in the epoll set while it is answered.     *)
AnswerWatched(w) ==
  /\ WorkerGoto(w, "work", "rearm")
  /\ UNCHANGED <<memory, sockets>>
  /\ Watch(rec[Client(w)].fd, Client(w), {"in", "once"})
  /\ UNCHANGED <<main, handoff, lost, fault>>

(* A file, the output of a CGI program, or 404.  Once something has to wait, *)
(* the rest of a file stays a file, and output is kept as it comes, or stays *)
(* in its pipe if there is too much of it.                                   *)
Answer(w) ==
  /\ WorkerGoto(w, "work", "rearm")
  /\ \E pend \in BOOLEAN : \E stream \in {rec[Client(w)].stream, pend} :
       /\ Responds(Client(w), pend)
       /\ rec' = [rec EXCEPT ![Client(w)].pend = pend, ![Client(w)].stream = stream]
  /\ UNCHANGED <<alloc, open, input, fin, epoll, main, handoff, lost, fault>>

(* Mutant: what is left of the answer is not waited for.                     *)
RearmInOnly(w) ==
  LET r == Client(w)
      left == rec[r].pend \/ rec[r].stream
  IN  /\ Return(w, "rearm")
      /\ rec' = [rec EXCEPT ![r].bytes = IF left THEN @ ELSE 0, ![r].done = left, ![r].old = left]
      /\ UNCHANGED <<alloc, sockets>>
      /\ Watch(rec[r].fd, r, {"in", "once"})
      /\ Finds(rec[r].fd, Events)
      /\ UNCHANGED <<main, fault>>

(* The end of handle_work: back into the epoll set, with the request still   *)
(* in the buffer if anything of the answer is left; or closed, if epoll      *)
(* refuses the descriptor.                                                   *)
Rearm(w) ==
  LET r == Client(w)
      f == rec[r].fd
      left == rec[r].pend \/ rec[r].stream \/ rec[r].want
  IN  /\ Return(w, "rearm")
      /\ \/ /\ rec' = [rec EXCEPT ![r].bytes = IF left THEN @ ELSE 0,
                                  ![r].done = left, ![r].old = left]
            /\ UNCHANGED <<alloc, sockets>>
            /\ Watch(f, r, {"in", "once"} \cup (IF left THEN {"out"} ELSE {}))
            /\ Finds(f, Events)
         \/ /\ alloc' = alloc \ {r}
            /\ CloseFds({f})
            /\ lost' = [lost EXCEPT ![f] = {}]
            /\ rec' = IF ToCheck(r) THEN rec ELSE [rec EXCEPT ![r] = NewRecord(NULL)]
            /\ UNCHANGED epoll
      /\ UNCHANGED <<main, fault>>

(* handle_proxy_request_async.  Only the upstream connection u is put into   *)
(* the epoll set.  If that fails, it is closed again and the client          *)
(* forgotten, as in Forgets.                                                 *)
Proxied(w, u, q) ==
  LET r == Client(w)
  IN  /\ Return(w, "work")
      /\ ~rec[r].old
      /\ u \notin open /\ q \notin alloc
      /\ open' = open \cup {u}
      /\ alloc' = alloc \cup {q}
      /\ rec' = [rec EXCEPT ![r].state = "PROXYING", ![r].peer = q,
                   ![q] = [NewRecord(u) EXCEPT !.state = "PROXYING", !.peer = r]]
      /\ UNCHANGED <<input, fin, full>>
      /\ Watch(u, q, {"in"})
      /\ Loses(rec[r].fd, Events)
      /\ UNCHANGED <<main, fault>>

WorkerStep(w) ==
  \/ Start(w) \/ Forgets(w) \/ Answer(w) \/ Rearm(w)
  \/ \E u \in Fds, q \in Recs : Proxied(w, u, q)

-----------------------------------------------------------------------------
Next ==
  /\ fault = "none"
  /\ \/ Network
     \/ \E f \in Fds, r \in Recs : Accept(f, r)
     \/ MainStep
     \/ \E w \in Workers : WorkerStep(w)

Spec == Init /\ [][Next]_vars

-----------------------------------------------------------------------------
(* What the epoll set says of a descriptor is the record of the connection   *)
(* that has the descriptor now.                                              *)
WatchMatches ==
  \A f \in Fds : watch[f] # NULL =>
    f \in open /\ watch[f] \in alloc /\ rec[watch[f]].fd = f

(* The two records of a proxied connection point to each other; one of them  *)
(* is a TLS connection.                                                      *)
PeersAgree ==
  \A r \in alloc : LET p == rec[r].peer IN p # NULL =>
    /\ p \in alloc /\ rec[p].peer = r /\ rec[p].ssl = ~rec[r].ssl
    /\ {rec[r].fd, rec[p].fd} \subseteq open

(* No thread works with a record that was freed: cleanup_client frees the    *)
(* peer as well, and yet no event of it is in the batch and nobody else has  *)
(* it.                                                                       *)
RecordsLive ==
  /\ \A x \in batch : x[1] \in alloc
  /\ \A i \in 1..Len(pending) : pending[i] \in alloc
  /\ \A w \in Workers : current[w] # NULL => current[w] \in alloc

(* The four, as one invariant. *)
Consistent == TypeOK /\ WatchMatches /\ PeersAgree /\ RecordsLive

(* A request has one owner: while it is queued or with a worker, epoll has   *)
(* no event for it, and there is none in the batch.                          *)
OneOwner ==
  \A r \in Recs :
    /\ InQueue(r) \/ AtWork(r) =>
         /\ watch[rec[r].fd] = NULL
         /\ \A e \in Events : <<r, e>> \notin batch
    /\ \A v, w \in Workers : current[v] = r /\ current[w] = r => v = w

(* A proxied connection works in one direction: no event ever comes for the  *)
(* browser's descriptor; and while bytes wait for the browser, none comes    *)
(* for the upstream one, so that main never finds them waiting.              *)
ProxiedOneWay ==
  \A r \in alloc : rec[r].peer # NULL /\ rec[r].ssl =>
    LET q == rec[r].peer
    IN  /\ watch[rec[r].fd] = NULL
        /\ \A e \in Events : <<r, e>> \notin batch
        /\ rec[r].pend => mask[rec[q].fd] = {} /\ \A e \in Events : <<q, e>> \notin batch

(* Nobody has the connection in hands. *)
AtRest(r) ==
  /\ r \in alloc /\ ~InQueue(r) /\ ~AtWork(r) /\ \A e \in Events : <<r, e>> \notin batch
  /\ mpc = "next" \/ cur # r

(* A connection at rest is armed for its next request, and for the room that *)
(* the rest of its answer waits for; and if either is there already, epoll   *)
(* is about to say so.  Where the server omits to arm a descriptor it is     *)
(* noted in lost, and nowhere else does it lose an event.                    *)
EveryoneHeard ==
  \A r \in Recs : AtRest(r) =>
    LET f == rec[r].fd
    IN  \A e \in Events \ lost[f] :
          e = "in" \/ rec[r].pend \/ rec[r].stream \/ rec[r].want =>
            /\ watch[f] = r /\ e \in mask[f]
            /\ e \in Due(f) => f \in ready

(* The queue is used as TaskFifo asks. *)
Fifo == INSTANCE TaskFifo WITH Clients <- Recs
UsesFifo == Fifo!Spec

=============================================================================
