----------------------------- MODULE RadioServer -----------------------------
(***************************************************************************)
(* The radio (radio_server.c): a broadcaster thread copies the playlist,   *)
(* chunk after chunk, into a ring of slots; sender threads forward the     *)
(* newest slot to the listeners on their own lists; the main thread        *)
(* accepts listeners and deals them to the senders in turn.                *)
(*                                                                         *)
(* The ring's index and the chunk sizes are guarded by g_buffer_mutex, and *)
(* so is the copy INTO a slot; the send OUT of a slot is not: a sender     *)
(* samples the index, releases the mutex, and reads the slot while it      *)
(* walks its list under the list's own mutex.                              *)
(*                                                                         *)
(* A chunk is its number, counted from 1; slot contents and recorded sizes *)
(* are the number of the chunk they come from, 0 standing for the zeroes   *)
(* that the ring starts with.                                              *)
(***************************************************************************)
EXTENDS Integers, Sequences, FiniteSets

CONSTANTS NumSenders,  \* NUM_SENDER_THREADS
          Slots,       \* BROADCAST_BUFFER_SLOTS
          Fds,         \* the descriptors accept can return
          LastChunk,   \* bound: the playlist stalls after this chunk
          Main,        \* the epoll thread
          Broadcaster, \* the broadcaster thread
          NULL

ASSUME RadioAssumption ==
  /\ NumSenders \in Nat \ {0}
  /\ Slots \in Nat /\ Slots > 1
  /\ LastChunk \in Nat
  /\ NULL \notin Fds \cup {Main, Broadcaster} \cup (0..NumSenders - 1)
  /\ Main # Broadcaster
  /\ {Main, Broadcaster} \cap (0..NumSenders - 1) = {}

Senders == 0..NumSenders - 1
Torn    == -1   \* a slot in the middle of a memcpy

VARIABLES
  \* the ring and its producer
  written,  \* auxiliary: number of the chunk last stored or being stored
  widx,     \* g_write_index
  slot,     \* g_broadcast_buffer
  size,     \* g_buffer_chunk_size
  bmutex,   \* holder of g_buffer_mutex, or NULL
  waiting,  \* senders blocked on g_new_data_cond
  bpc,      \* what the broadcaster does next
  \* the senders
  spc,      \* what each sender does next
  last,     \* last_processed_idx (= current_write_idx once sampled)
  csize,    \* current_chunk_size
  list,     \* client_list_head: the descriptors on each list, in list order
  lmutex,   \* holder of list_mutex, or NULL
  curr,     \* the position of curr in the list, 1 between two walks
  \* the main thread
  mpc,      \* what main does next
  mfd,      \* client_fd
  turn,     \* current_thread_idx
  \* the connections
  conn,     \* each descriptor: closed, or open and in epoll, with main, or listed
  heard     \* auxiliary: number of the last chunk announced to a listener

ring      == <<written, widx, slot, size>>
producer  == <<ring, bpc>>
sampled   == <<last, csize>>
mainvars  == <<mpc, mfd, turn>>
stream    == <<heard>>
sync      == <<bmutex, waiting>>
walk      == <<list, lmutex, curr>>
outside   == <<mainvars, conn, stream>>
vars == <<producer, sync, spc, sampled, walk, outside>>

BroadcastPc == {"read", "lock", "advance", "copy", "copied", "unlock", "broadcast"}
SenderPc    == {"top", "wait", "relock", "test", "list", "visit",
                "payload", "trailer", "close", "unlink"}
MainPc      == {"epoll", "header", "malloc", "lock", "insert"}

Chunks == 0..LastChunk

RingTypes ==
  /\ written \in Chunks
  /\ widx \in 0..Slots - 1
  /\ slot \in [0..Slots - 1 -> Chunks \cup {Torn}]
  /\ size \in [0..Slots - 1 -> Chunks]
  /\ bmutex \in Senders \cup {Broadcaster, NULL}
  /\ waiting \in SUBSET Senders
  /\ bpc \in BroadcastPc

SenderTypes ==
  /\ spc \in [Senders -> SenderPc]
  /\ last \in [Senders -> -1..Slots - 1]
  /\ csize \in [Senders -> Chunks]
  /\ list \in [Senders -> Seq(Fds)]
  /\ lmutex \in [Senders -> Senders \cup {Main, NULL}]
  /\ curr \in [Senders -> Nat \ {0}]

MainTypes ==
  /\ mpc \in MainPc
  /\ mfd \in Fds \cup {NULL}
  /\ turn \in Senders
  /\ conn \in [Fds -> {"closed", "epoll", "main", "listed"}]
  /\ heard \in [Fds -> Chunks \cup {-1}]

TypeOK == RingTypes /\ SenderTypes /\ MainTypes

(* The static arrays are zero; every thread is at the top of its loop.       *)
Init ==
  /\ written = 0
  /\ widx = 0
  /\ slot = [i \in 0..Slots - 1 |-> 0]
  /\ size = [i \in 0..Slots - 1 |-> 0]
  /\ bmutex = NULL
  /\ waiting = {}
  /\ bpc = "read"
  /\ spc = [s \in Senders |-> "top"]
  /\ last = [s \in Senders |-> -1]
  /\ csize = [s \in Senders |-> 0]
  /\ list = [s \in Senders |-> <<>>]
  /\ lmutex = [s \in Senders |-> NULL]
  /\ curr = [s \in Senders |-> 1]
  /\ mpc = "epoll"
  /\ mfd = NULL
  /\ turn = 0
  /\ conn = [f \in Fds |-> "closed"]
  /\ heard = [f \in Fds |-> -1]

-----------------------------------------------------------------------------
(* broadcast_thread_function. *)

BroadcastGoto(from, to) == bpc = from /\ bpc' = to

(* fread returned bytes.  An end of file reopens the playlist and reads on;  *)
(* a read error sleeps and tries again, for ever if need be: both leave the  *)
(* broadcaster where it is.                                                  *)
ReadChunk ==
  /\ written < LastChunk
  /\ BroadcastGoto("read", "lock")
  /\ UNCHANGED <<ring, sync, spc, sampled, walk, outside>>

(* Mutant: the chunk is stored without the mutex.                            *)
LockBufferNot ==
  /\ BroadcastGoto("lock", "advance")
  /\ UNCHANGED <<ring, sync, spc, sampled, walk, outside>>

LockBuffer ==
  /\ bmutex = NULL
  /\ bmutex' = Broadcaster
  /\ BroadcastGoto("lock", "advance")
  /\ UNCHANGED <<ring, waiting, spc, sampled, walk, outside>>

(* g_write_index = (g_write_index + 1) % BROADCAST_BUFFER_SLOTS; *)
Advance ==
  /\ BroadcastGoto("advance", "copy")
  /\ widx' = (widx + 1) % Slots
  /\ written' = written + 1
  /\ UNCHANGED <<slot, size, sync, spc, sampled, walk, outside>>

(* memcpy, which a sender that reads the slot may catch half way. *)
CopyBegins ==
  /\ BroadcastGoto("copy", "copied")
  /\ slot' = [slot EXCEPT ![widx] = Torn]
  /\ UNCHANGED <<written, widx, size, sync, spc, sampled, walk, outside>>

(* The copy is complete; g_buffer_chunk_size[g_write_index] = bytes_read; *)
CopyEnds ==
  /\ BroadcastGoto("copied", "unlock")
  /\ slot' = [slot EXCEPT ![widx] = written]
  /\ size' = [size EXCEPT ![widx] = written]
  /\ UNCHANGED <<written, widx, sync, spc, sampled, walk, outside>>

UnlockBuffer ==
  /\ BroadcastGoto("unlock", "broadcast")
  /\ bmutex' = NULL
  /\ UNCHANGED <<ring, waiting, spc, sampled, walk, outside>>

(* Mutant: pthread_cond_signal, which wakes one waiter.                      *)
BroadcastToOne ==
  /\ BroadcastGoto("broadcast", "read")
  /\ \/ /\ waiting = {}
        /\ UNCHANGED <<waiting, spc>>
     \/ \E s \in waiting : /\ waiting' = waiting \ {s}
                           /\ spc' = [spc EXCEPT ![s] = "relock"]
  /\ UNCHANGED <<ring, bmutex, sampled, walk, outside>>

(* pthread_cond_broadcast wakes every waiter; then sync_stream_timing sleeps *)
(* until the next chunk is due, which is any amount of time here.            *)
Broadcast ==
  /\ BroadcastGoto("broadcast", "read")
  /\ waiting' = {}
  /\ spc' = [s \in Senders |-> IF s \in waiting THEN "relock" ELSE spc[s]]
  /\ UNCHANGED <<ring, bmutex, sampled, walk, outside>>

BroadcastStep ==
  \/ ReadChunk \/ LockBuffer \/ Advance \/ CopyBegins \/ CopyEnds
  \/ UnlockBuffer \/ Broadcast

-----------------------------------------------------------------------------
(* sender_worker_thread. *)

SenderGoto(s, from, to) == spc[s] = from /\ spc' = [spc EXCEPT ![s] = to]

(* The lock at the top of the loop, and the one cond_wait takes again.       *)
SenderLock(s) ==
  /\ bmutex = NULL
  /\ bmutex' = s
  /\ \/ SenderGoto(s, "top", "test")
     \/ SenderGoto(s, "relock", "test")
  /\ UNCHANGED <<producer, waiting, sampled, walk, outside>>

SenderWait(s) ==
  /\ SenderGoto(s, "test", "wait")
  /\ last[s] = widx
  /\ bmutex' = NULL
  /\ waiting' = waiting \cup {s}
  /\ UNCHANGED <<producer, sampled, walk, outside>>

SpuriousWakeup(s) ==
  /\ s \in waiting
  /\ waiting' = waiting \ {s}
  /\ SenderGoto(s, "wait", "relock")
  /\ UNCHANGED <<producer, bmutex, sampled, walk, outside>>

(* Mutant: last_processed_idx is not brought up to date.                     *)
SampleAgain(s) ==
  /\ SenderGoto(s, "test", "list")
  /\ last[s] # widx
  /\ csize' = [csize EXCEPT ![s] = size[widx]]
  /\ bmutex' = NULL
  /\ UNCHANGED <<producer, waiting, last, walk, outside>>

(* current_write_idx, last_processed_idx and current_chunk_size, then the    *)
(* unlock.                                                                   *)
Sample(s) ==
  /\ SenderGoto(s, "test", "list")
  /\ last[s] # widx
  /\ last' = [last EXCEPT ![s] = widx]
  /\ csize' = [csize EXCEPT ![s] = size[widx]]
  /\ bmutex' = NULL
  /\ UNCHANGED <<producer, waiting, walk, outside>>

SenderLockList(s) ==
  /\ SenderGoto(s, "list", "visit")
  /\ lmutex[s] = NULL
  /\ lmutex' = [lmutex EXCEPT ![s] = s]
  /\ UNCHANGED <<producer, sync, sampled, list, curr, outside>>

Visiting(s) == list[s][curr[s]]
AtEnd(s)    == curr[s] > Len(list[s])

(* prev = curr; curr = curr->next; *)
Advances(s) == curr' = [curr EXCEPT ![s] = @ + 1]

(* The socket may have no room, or not enough.  In the first round, before   *)
(* any data, it has: the chunk is empty and nothing else has been sent.      *)
MayBeFull(s) == csize[s] # 0

(* The three sends of one chunk.  Each one sends, or finds the socket full   *)
(* (EAGAIN: the listener stays, the rest of the chunk is skipped), or finds  *)
(* the connection broken; a short count is not looked at and passes for      *)
(* success.  The heard number is that of the chunk a header was sent for.    *)
SendHeader(s) ==
  /\ spc[s] = "visit" /\ ~AtEnd(s)
  /\ \/ /\ SenderGoto(s, "visit", "payload")
        /\ heard' = [heard EXCEPT ![Visiting(s)] = csize[s]]
        /\ UNCHANGED curr
     \/ /\ MayBeFull(s)
        /\ Advances(s)
        /\ UNCHANGED <<spc, stream>>
     \/ /\ SenderGoto(s, "visit", "close")
        /\ UNCHANGED <<curr, stream>>
  /\ UNCHANGED <<producer, sync, sampled, list, lmutex, mainvars, conn>>

(* The slot is read here, without g_buffer_mutex. *)
SendPayload(s) ==
  /\ \/ /\ SenderGoto(s, "payload", "trailer")
        /\ UNCHANGED curr
     \/ /\ MayBeFull(s)
        /\ SenderGoto(s, "payload", "visit")
        /\ Advances(s)
     \/ /\ SenderGoto(s, "payload", "close")
        /\ UNCHANGED curr
  /\ UNCHANGED <<producer, sync, sampled, list, lmutex, mainvars, conn, heard>>

(* The closing CRLF; read_index, which nothing reads, is not modelled.       *)
SendTrailer(s) ==
  /\ \/ /\ SenderGoto(s, "trailer", "visit")
        /\ Advances(s)
     \/ /\ MayBeFull(s)
        /\ SenderGoto(s, "trailer", "visit")
        /\ Advances(s)
     \/ /\ SenderGoto(s, "trailer", "close")
        /\ UNCHANGED curr
  /\ UNCHANGED <<producer, sync, sampled, list, lmutex, mainvars, conn, heard>>

(* close: what the connection heard is history. *)
Closed(f) == /\ conn' = [conn EXCEPT ![f] = "closed"]
             /\ heard' = [heard EXCEPT ![f] = -1]

(* close(curr->fd): from here on accept may return the same number again,    *)
(* while the node is still on the list.                                      *)
CloseListener(s) ==
  /\ SenderGoto(s, "close", "unlink")
  /\ Closed(Visiting(s))
  /\ UNCHANGED <<producer, sync, sampled, walk, mainvars>>

Without(q, i) == SubSeq(q, 1, i - 1) \o SubSeq(q, i + 1, Len(q))

(* Mutant: the node of the closed connection stays on the list.              *)
UnlinkNothing(s) ==
  /\ SenderGoto(s, "unlink", "visit")
  /\ Advances(s)
  /\ UNCHANGED <<producer, sync, sampled, list, lmutex, outside>>

(* The node leaves the list and is freed; curr is its successor.             *)
Unlink(s) ==
  /\ SenderGoto(s, "unlink", "visit")
  /\ list' = [list EXCEPT ![s] = Without(@, curr[s])]
  /\ UNCHANGED <<producer, sync, sampled, lmutex, curr, outside>>

(* Mutant: the list stays locked when the walk ends.                         *)
SenderKeepsList(s) ==
  /\ AtEnd(s)
  /\ SenderGoto(s, "visit", "top")
  /\ curr' = [curr EXCEPT ![s] = 1]
  /\ UNCHANGED <<producer, sync, sampled, list, lmutex, outside>>

SenderUnlockList(s) ==
  /\ AtEnd(s)
  /\ SenderGoto(s, "visit", "top")
  /\ lmutex' = [lmutex EXCEPT ![s] = NULL]
  /\ curr' = [curr EXCEPT ![s] = 1]
  /\ UNCHANGED <<producer, sync, sampled, list, outside>>

SenderStep(s) ==
  \/ SenderLock(s) \/ SenderWait(s) \/ Sample(s)
  \/ SenderLockList(s) \/ SendHeader(s) \/ SendPayload(s) \/ SendTrailer(s)
  \/ CloseListener(s) \/ Unlink(s) \/ SenderUnlockList(s)

-----------------------------------------------------------------------------
(* main: one pass through the body of the epoll loop is cut at its calls. *)

(* accept and EPOLL_CTL_ADD; a failing ADD closes the descriptor at once,    *)
(* which changes nothing.                                                    *)
Accept(f) ==
  /\ mpc = "epoll"
  /\ conn[f] = "closed"
  /\ conn' = [conn EXCEPT ![f] = "epoll"]
  /\ UNCHANGED <<producer, sync, spc, sampled, walk, mainvars, stream>>

(* recv failed or the peer is gone: close(client_fd).                        *)
HangUp(f) ==
  /\ mpc = "epoll"
  /\ conn[f] = "epoll"
  /\ conn' = [conn EXCEPT ![f] = "closed"]
  /\ UNCHANGED <<producer, sync, spc, sampled, walk, mainvars, stream>>

(* Whatever was received counts as the request.  EPOLL_CTL_DEL.              *)
Request(f) ==
  /\ mpc = "epoll"
  /\ conn[f] = "epoll"
  /\ conn' = [conn EXCEPT ![f] = "main"]
  /\ mfd' = f
  /\ mpc' = "header"
  /\ UNCHANGED <<producer, sync, spc, sampled, walk, turn, stream>>

(* send of the response header, and malloc: on failure the descriptor is     *)
(* closed and the turn stays with the same sender.                           *)
Respond ==
  /\ \/ /\ mpc = "header" /\ mpc' = "malloc"
     \/ /\ mpc = "malloc" /\ mpc' = "lock"
  /\ UNCHANGED <<producer, sync, spc, sampled, walk, mfd, turn, conn, stream>>

RespondFails ==
  /\ mpc \in {"header", "malloc"}
  /\ mpc' = "epoll"
  /\ conn' = [conn EXCEPT ![mfd] = "closed"]
  /\ mfd' = NULL
  /\ UNCHANGED <<producer, sync, spc, sampled, walk, turn, stream>>

MainLockList ==
  /\ mpc = "lock"
  /\ lmutex[turn] = NULL
  /\ lmutex' = [lmutex EXCEPT ![turn] = Main]
  /\ mpc' = "insert"
  /\ UNCHANGED <<producer, sync, spc, sampled, list, curr, mfd, turn, conn, stream>>

(* The new node becomes the head of the list; then the unlock, and the next  *)
(* listener goes to the next sender.                                         *)
Insert ==
  /\ mpc = "insert"
  /\ list' = [list EXCEPT ![turn] = <<mfd>> \o @]
  /\ conn' = [conn EXCEPT ![mfd] = "listed"]
  /\ lmutex' = [lmutex EXCEPT ![turn] = NULL]
  /\ turn' = (turn + 1) % NumSenders
  /\ mfd' = NULL
  /\ mpc' = "epoll"
  /\ UNCHANGED <<producer, sync, spc, sampled, curr, stream>>

MainStep == Respond \/ RespondFails \/ MainLockList \/ Insert

Next ==
  \/ BroadcastStep
  \/ \E s \in Senders : SenderStep(s) \/ SpuriousWakeup(s)
  \/ \E f \in Fds : Accept(f) \/ HangUp(f) \/ Request(f)
  \/ MainStep

Spec == Init /\ [][Next]_vars

(* A thread that can run is run, and one that asks for a mutex released over *)
(* and over obtains it.  Listeners need not come, and need not leave.        *)
Fairness ==
  /\ WF_vars(BroadcastStep) /\ SF_vars(LockBuffer)
  /\ \A s \in Senders : /\ WF_vars(SenderStep(s))
                         /\ SF_vars(SenderLock(s)) /\ SF_vars(SenderLockList(s))
  /\ WF_vars(MainStep) /\ SF_vars(MainLockList)

FairSpec == Spec /\ Fairness

-----------------------------------------------------------------------------
Walking(s) == spc[s] \in {"list", "visit", "payload", "trailer", "close", "unlink"}

(* While a sender walks its list, the slot it sends from holds exactly the   *)
(* chunk whose size it announces, complete, although it reads the slot with  *)
(* no mutex held: until the broadcaster has come round the whole ring and    *)
(* stores into the slot again.                                               *)
SlotHoldsAnnouncedChunk ==
  \A s \in Senders :
    Walking(s) /\ written < csize[s] + Slots => slot[last[s]] = csize[s]

(* A listener hears the playlist forwards: the chunk a sender is about to    *)
(* announce to it comes after every chunk announced to it before.  In        *)
(* particular the empty chunk, which ends a chunked response, cannot reach a *)
(* listener that has heard anything.                                         *)
NeverReplays ==
  \A s \in Senders :
    spc[s] = "visit" =>
      \A i \in curr[s]..Len(list[s]) : heard[list[s][i]] < csize[s]

(* A sender that sleeps, with no broadcast under way, has sampled the newest *)
(* chunk, or has missed whole laps of the ring, which the index cannot show. *)
SleepersAreCurrent ==
  \A s \in waiting :
    bpc \in {"read", "lock", "advance"} => (written - csize[s]) % Slots = 0

Places(f) == UNION {{<<s, i>> : i \in {j \in DOMAIN list[s] : list[s][j] = f}} : s \in Senders}

(* The node of a connection that its sender has closed and not yet unlinked. *)
Unlinking == {<<s, curr[s]>> : s \in {t \in Senders : spc[t] = "unlink"}}

(* Every open descriptor is looked after by exactly one thread: it is in     *)
(* epoll, in main's hands, or once on the list of one sender; and what is on *)
(* a list is open, except the node its sender is about to unlink, whose      *)
(* number may already belong to a new connection.                            *)
OneKeeper ==
  \A f \in Fds :
    /\ conn[f] = "main" <=> mfd = f
    /\ Cardinality(Places(f) \ Unlinking) = IF conn[f] = "listed" THEN 1 ELSE 0

(* The two, as one invariant. *)
Consistent == TypeOK /\ OneKeeper

(* Every sender gets to the chunk at the write index again and again, however *)
(* often it is overtaken, and however its listeners' sockets behave.         *)
SendersKeepUp == \A s \in Senders : []<>(last[s] = widx)

(* A listener that main has answered ends up on a list or is closed: a       *)
(* sender that walks a long list does not keep main waiting for ever.        *)
AnsweredIsListed == \A f \in Fds : (conn[f] = "main") ~> (conn[f] # "main")

=============================================================================
