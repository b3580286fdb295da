# Verification of CaligoEngine

CaligoEngine is a small music site: two web servers (one plain, one TLS), a radio that streams a playlist, a chat
server with a WebSocket bridge in front of it, and CGI programs for accounts, playlists and song requests. The web
page ties them together. This directory holds TLA+ models of the parts that are hard to test, their TLC
configurations, and proofs about most of them.

To check a model: `tlc -workers 2 -config HttpSafe.cfg MCHttpServer.tla`; to check the proofs of a module: `tlapm
TaskQueueProofs.tla` (the other `*Proofs` modules likewise; the largest takes some minutes). `PROJECT.json` lists the
runs, the source lines every definition stands for, the hazards with the properties that watch them, the mutants that
show that a property notices a plausible bug, and the findings.

## 1. The system

| Component | Code | State it keeps | Operations | Hard because of |
|---|---|---|---|---|
| Task queue, worker pool | `http/server.c:20-85`, `https/server.c:112-177` | linked list, mutex, condition variable | `queue_push`, `queue_pop`, worker loop | threads; signal after unlock; node freed outside the mutex |
| Plain web server | `http/server.c`, `http/request_handler.c` | `ClientState` records, descriptors, edge-triggered epoll set | accept, read, hand over, answer, re-arm, proxy set-up, relay, cleanup | epoll thread and workers share records; numbers are used again; edges |
| TLS web server | `https/*` | the same, with `SSL *`, pending writes, a file put aside, and one-shot events | the same, plus non-blocking handshake and writes | as above; what a descriptor is armed for is decided in nine places |
| Routing, configuration | `*/request_handler.c` (`load_config_file`, `handle_work`), `server.conf` | route table | load, longest prefix | the order of the lines, a full table |
| Static files, ranges | `*/request_handler.c` | none | open, send | arithmetic at the boundaries |
| CGI execution | `http/request_handler.c:251-452` | two pipes and a child | fork, feed the body, copy the answer, wait | blocking on both sides; a child inherits the pipes of the other requests |
| Radio | `radio_server.c` | ring of slots with sizes and a write index; one listener list per sender | broadcast, forward, accept and deal | three kinds of threads; slots are sent without the lock |
| Chat server | `xmppd.c` | table of `Client` records indexed by descriptor modulo 64, known rooms | login, bind, join, leave, message, room list, hang-up | views of many clients; one recv may hold several stanzas; a shared table slot |
| Chat of the page | `public_html/index.html:1238-1430` | socket, `xmppState`, current room | connect, the login dialogue, join, leave | answers and wishes cross |
| WebSocket bridge | `bridge.c` | `sessions[]` by descriptor, `Session` records | handshake, forward in both directions, close | events of a batch are older than the closes it causes; one side level-, the other edge-triggered |
| SHA-1, base64 | `bridge.c:33-249`, `http/request_handler.c` | none | pure | nothing a test vector leaves open |
| Accounts, playlists | `cgi_bin/auth_app.c`, `cgi_bin/playlist_manager.c` | `data/users.json` | register, log in, list, create, add | concurrent processes, no lock, saves that fail |
| Songs | `request_song.c`, `downloader.py`, `mixtape_app.c`, `get_chat_rooms.c` | work directories, albums | fetch, remove the old album, move the new one there, list | jobs that know nothing of each other share two directories |

How they meet: the page calls the CGI programs through a web server, whose workers run them as child processes, so
several run at once on one accounts file. It opens a WebSocket, which a web server proxies as bytes to the bridge,
which unwraps the frames and passes the stanzas to the chat server over TCP; the answers come back the same way. The
radio is reached directly or through the proxy. Inside each server, threads meet in shared records (the queue, the
`ClientState`s, the ring, the listener lists); between servers everything is a stream of bytes without message
borders.

What makes each part correct, in a sentence: the queue hands every connection to exactly one worker and never sleeps
on work; a web server uses no record after it was freed, never lets two threads work on one connection, loses no edge,
and closes both ends of a proxied connection in the end; the radio sends what it announces and announces something
new; the chat server tells everybody the room lists and members there are, and nobody skips the login; the page and
the chat server agree where the user is; the bridge mixes up no two pairs that were there before; what is on file for
an account is what was told, and an album is the whole of what one job fetched.

## 2. Modules

```
TaskFifo  <-- implemented by --  TaskQueue  <-- TaskQueueProofs (TLAPS)
    ^--------- used as asked by -- HttpServer, HttpsServer
Routes, Ranges (pure)   checked with HttpServer
CgiPipes
XmppProtocol  <-- Xmppd (many clients),  ChatLogin (one tab, the bridge, one record)
RadioServer
Bridge;  Frames (pure)  checked with Bridge
UserRequests  <-- UserStore
Downloads, UserStore  <-- composed by -- CgiFiles
```

Each `*Proofs` module extends the modules it is about and holds nothing but inductive invariants, lemmas and theorems:
ChatProofs is about Xmppd and ChatLogin, CgiProofs about CgiPipes and CgiFiles, HttpServerProofs and BridgeProofs
about the pure modules of their runs, too. **Induction** has the induction that these need. Each `MC*` module extends
one of these with the symmetry sets and the inputs of its runs. Mutants stand in the modules, each right before the
definition it changes, under a comment that begins with "Mutant"; no specification uses them.

**TaskQueue** has one action per statement of `queue_push` and `queue_pop` that touches the list, the mutex or the
condition variable, so that it is the mutex and not the grain of the model that keeps the list in shape. `task`,
`live` are the heap; `head`, `tail`, `mutex`, `waiting` are the fields of `TaskQueue`; `held` is the local node.
`chain` is auxiliary: the list as a sequence. `pthread_cond_signal` wakes any one waiter, and waiters may also wake by
themselves. **TaskFifo** is its promise: a first-in first-out line in which a connection stands at most once.

**HttpServer** models the epoll loop and `handle_work` over records, descriptors and epoll registrations. A record is
its address, memory that was freed keeps its contents until it is allocated again, and a descriptor number is given
out again as soon as it is closed. Where a worker sends to its client, whose socket is blocking meanwhile, or waits
for a CGI program (`MayWait`), nothing makes it go on. An epoll event is a set element that is consumed by
`epoll_wait`; `batch` holds what it returned. The bytes of a request are chunks with or without the blank line. The
queue is `TaskFifo`'s sequence, and `UsesFifo` checks that this module uses it the way `TaskFifo` allows: never to
push a connection that is queued or served.

**HttpsServer** is its counterpart with TLS. `mask` is what a descriptor is armed for, and a one-shot descriptor is
disarmed by `epoll_wait`; `full` are the sockets that have no room, `pend`, `stream` and `want` the record's
`pending_write_len`, `file_stream` and `ssl_want_write`. A chunk may be "part": bytes that arrive and give the
application nothing. `lost` is auxiliary: for each descriptor, the events that the server waits for without having
armed them. It is written where the code omits to arm: after an error response (`https/request_handler.c:603-670`),
for a browser that is proxied (`495`), after a flush that is followed by one buffer of a file
(`https/server.c:603-627`), when a re-arm does not ask for room (`269`), after one `recv` for an edge (`547`), and for
what a `break` leaves in the batch (`558`).

**CgiPipes** has a worker and a child for each request, and counts what is in the two pipes. `server` and `held` are
who has which end open; a child is born with every end that the server has open. **Routes** and **Ranges** are pure:
the table that a configuration makes and the rule that a path finds; the bytes of a file that a Range header gets. In
the TLS server these depend on how each write goes (`Outcomes`: it finds room, has to wait for an EPOLLOUT, or is
refused then): the worker's loop ends at the first write that has to wait, and each EPOLLOUT sends one buffer more.
Their properties, and that of Frames, depend on no state, and are stated in the MC modules for the states before the
first connection; TLC looks at every input within the bounds there.

**RadioServer** has the broadcaster, the senders and the main thread with both kinds of mutexes, the condition
variable and the list walks. A chunk is its number, `Torn` a slot in the middle of a `memcpy`; `heard` remembers what
a listener was last told.

**XmppProtocol** is the state machine of one connection, as a relation between the marks that `strstr` finds in a
buffer, the state, and what is done. **Xmppd** adds the table, the rooms and the broadcasts; what each client has been
told (`view`, `roster`) is auxiliary and written where the code sends. **ChatLogin** puts one tab of the page, the
bridge and one record together with streams in between, because its questions are about bytes that arrive together.
The server answers nothing before it has accepted the connection: `queued`, `place` and `reported` are the backlog of
its edge-triggered listener, of which each event accepts one, while other tabs connect, too.

**Bridge** has `sessions[]`, the `Session` records, and a batch of events over descriptors of which the client's is
level-triggered and the target's edge-triggered; one `recv` returns at most `Cap` chunks. One event is one step:
nothing else runs in that process. Auxiliary are `owner`, for whom a number was opened; `fresh`, which were opened
since `epoll_wait` returned; and `crowded`, which targets were sent more than one `recv` returns, or bytes and the
end, before they were read. An event left over from a closed pair whose number somebody else has by now does what the
code does, close that one's connection, and the model stops behind that step (`Misled`). **Frames** has the loop that
takes frames out of what one `recv` returned, the recvs that follow each other over one stream of frames (`Stream`),
and the frame made for the chat server's bytes, over lengths instead of bytes. Sums are those of a `size_t`. A `recv`
that ends inside a frame puts the loop out of step with the stream (`inStep`).

**UserStore** cuts a CGI request where another process can see it: the load (with the decision and the change in
memory), the `fopen` that empties the file, the write at the close, the answer. **UserRequests** has what the programs
make of a request, given the object they have loaded. A password is cut by bytes; where that splits a character, what
is left is told in the answer but is no text to `json_string`, and the account has no password (`Chosen`, `Stored`).

**Downloads** cuts `downloader.py` at each look at, and change of, the two directories that jobs share: the look for
the album, each file that `shutil.rmtree` removes, the look, the rename or the copy of `shutil.move`. A file is its
name and the job that wrote it. `sanitize_filename` may leave of a name nothing, "." or "..": the job's album is then
the directory of all albums (`Music`), or above it, and the job removes them all, album by album (`at`, `todo`).
**CgiFiles** puts it beside UserStore: the workers run both kinds of programs at the same time, and they have no file
in common, so that a run may look at one kind at a time (`OneKind`) and lose nothing.

`Consistent`, in the modules that have it, is the type invariant together with what makes the state hang together: the
list spells the queue and no pointer dangles (TaskQueue); epoll's pointer for a number is the record of the connection
that has it now, and peers point at each other (HttpServer, HttpsServer, which adds that all records in use are
allocated); an open descriptor is with epoll, with main, or once on one list (RadioServer); no record outlives its
connection (Xmppd); what is on file for a password is what was told, or nothing where that was no text (UserStore); no
entry of `sessions[]` points to freed memory and pairs agree (Bridge).

`fault`, in HttpServer, HttpsServer and Bridge, stops the model where the program goes on with something that is not
its own any more (a freed record, a null peer, a number that belongs to another connection), is ended by a signal, or
where the epoll thread itself waits for a client ("main_waits"). The properties speak about everything up to there, in
Bridge with the step that closes a stranger's connection, and the hazards of PROJECT.json name each such place with
its line. The runs do reach these states; they are known weaknesses of the code and not hidden by a guard.

## 3. Runs

| Run | Properties | Bounds |
|---|---|---|
| `task_queue` | Consistent, OneOwner, NoLostWakeup, ImplementsFifo, EveryPushIsServed | 3 connections, 2 workers, 2 nodes: more work than workers, and than nodes |
| `http_safe` | Consistent, NoEdgeLost, RecordsLive, OneOwner, UsesFifo; RoutesAsConfigured, RangesHonoured | 2 records and numbers (two clients, or a client and its upstream), 2 workers; a request in pieces, a buffer holds 2 of them. Files of up to 4 lines over 3 paths and a table of 2; ranges in files of up to 6 bytes, buffers of 2, and every sequence of outcomes of the writes |
| `http_live` | HangupsEnd | 1 worker; every chunk a whole request |
| `https_safe` | Consistent, OneOwner, ProxiedOneWay, EveryoneHeard, UsesFifo | 3 records and numbers: two clients, one of them proxied; 1 worker; a buffer of 2 chunks, one chunk waits in a socket |
| `cgi_pipes` | ShortOnlyIfLate, RequestsEnd | 2 requests; a pipe holds 1 chunk; a body that is read, one longer than a pipe that is not; answers of up to 2 |
| `cgi_files` | Consistent, AlbumsWhole, NothingLost | 2 processes, 1 failing save, a password cut at the end of a character and one cut in the middle, the file absent or with an account of the older format; 3 jobs and 2 albums of their own names, and the three names that are none, in 2 seconds, with both directories on one disk or not, old albums there or not |
| `radio_safe` | Consistent, SlotHoldsAnnouncedChunk, NeverReplays, SleepersAreCurrent | 2 senders, 2 listeners, 2 slots, 3 chunks: the ring is gone round |
| `radio_live` | SendersKeepUp, AnsweredIsListed | 2 senders, 1 listener, 2 slots |
| `xmppd_safe` | Consistent, NobodySkipsAuth, RoomListsFresh, RosterComplete, RoomsListed | 3 clients; 3 rooms with the unnamed one, a table of 2: it runs full |
| `chat_login` | LoginInStep, LoginCompletes | 2 rooms, 3 user actions, 1 broken connection, 2 connections of others |
| `chat_login_join` (violation) | JoinedWhenReady | 1 room, 1 action, no broken connection, no other |
| `bridge_safe` | Consistent, NoEdgeLost, ClosedForCause; FramesIntact | 3 descriptors: a pair and a client that takes over its numbers; requests in up to 3 pieces and refused ones; 3 chunks wait in a socket, one `recv` returns 2. Up to 3 frames of lengths about the changes of the length code, received in one or two recvs that end anywhere near a border |

Why these bounds: each property is about an encounter of at most three parties (two workers and the epoll thread, two
senders and the broadcaster, a joiner and two members, a pair of the bridge and who gets its numbers, two writers of
the file, two children with each other's pipes, a job that meets a second and a third that comes after) and each bound
lets that encounter happen and something be used again afterwards: a node, an address, a descriptor number, a slot of
the ring, a place in a full table. Two whole pairs of the bridge at a time, with requests in pieces, are too many
states for a run; the theorems about Bridge hold for any number. Every run is a complete search. Symmetry is used only
in runs without liveness. Where CHECK_DEADLOCK is off, the system may really stop: `fault`, or (chat) the user's moves
are used up.

What the properties say, beyond their names:

* *NoLostWakeup*: the signal is sent after the unlock; never are all workers asleep over a non-empty list with no
  signal still to come.
* *RecordsLive, OneOwner*: the record behind every event, queue entry and worker is allocated, although a cleanup
  frees it while others may have it; a connection is with the epoll set, the queue or one worker.
* *NoEdgeLost*: a connection that nobody works on and that has something to read has an event to come. The bridge's
  property of that name is about its connections to the chat server, which are read once for each event: where the
  chat server had sent more than one `recv` returns before it was read, or bytes and the end (`crowded`,
  `bridge.c:456`), there may be none, and nowhere else.
* *HangupsEnd*: a connection whose other end is gone is closed, unless the server has lost track of it (`orphans`: a
  client left behind by a failed upstream send, `http/request_handler.c:827`, or a relay that dropped bytes because
  the other side was full, `http/server.c:343`), or a worker waits for ever (`HeldUp`): the one that serves this
  client, which does not read or whose CGI program does not end, or all workers for others.
* *RangesHonoured*: the plain server sends as many bytes as it announces exactly if the file has as many, as it has
  for every range inside the file. The TLS server sends a file to its end, whatever it announced, unless a write finds
  room after one that had to wait, or is refused: then it ends exactly there.
* *SlotHoldsAnnouncedChunk*: while a sender walks its list, the slot it reads without the lock holds the whole chunk
  whose size it announces, until the broadcaster has come round the ring. *NeverReplays*: what is announced to a
  listener is newer than all it has heard.
* *EveryoneHeard*: in the TLS server, a connection that nobody works on is armed for its next request, and for the
  room that the rest of its answer waits for; what is already there is on epoll's ready list. The places where the
  code omits this (`lost`, above) are exempted, so that the property says: there are no others.
* *ProxiedOneWay*: no event ever comes for a proxied browser, and none for the upstream connection while bytes wait
  for the browser: so the code for these cases (`https/server.c:512-541`, `543-545`) is never reached.
* *ShortOnlyIfLate*: a CGI program that got less of its body than was announced got it because the body was late (two
  seconds, `http/request_handler.c:391`), never because its pipe ended too early. *RequestsEnd*: a request ends,
  unless children hold the ends of each other's pipes, or a long body and a long answer fill both pipes of one.
* *AlbumsWhole*: a job whose album has a directory of its own, and that meets no other there, succeeds, and leaves
  exactly what it fetched, whatever earlier jobs that did meet have left. A job whose name is no directory of its own
  meets all.
* *RosterComplete, RoomListsFresh*: after every step each client has been told of every member of its room, and of
  exactly the head counts there are. That a member has left is never announced, so a client may know of more than
  there are.
* *Consistent (Bridge), ClosedForCause*: `forward_*` leave the entries of a closed pair in `sessions[]`. They do no
  harm as long as a number has not been given out again while an event of the old pair is in the batch. Where it has,
  the event closes the new holder's connection, and its pair's: connections that are as new as that, and no other
  ever.
* *FramesIntact*: recv after recv, exactly the frames that have come as a whole are passed on, up to and with the
  first recv that ends inside a frame. Nothing is said of what follows.
* *Consistent (Xmppd)*: no record of `clients[]` outlives its connection. The run gives every connection of Xmppd a
  slot of its own; two descriptors that agree modulo 64 share one, and then a record is overwritten or cleared for the
  other. What remains true then is proved without a hypothesis (section 5); `NobodySkipsAuth` and `RoomListsFresh` are
  not, and need slots of their own.
* *LoginInStep* (ChatLogin's type invariant with it): the page shows that it is connected only when the server has
  bound it, and the server is never behind what the page has seen, nor more than a stage ahead; and its connection is
  left behind in the server's backlog only if others came in (`NeverBehindAlone`). *LoginCompletes*: a login that the
  connection survives comes to its end, whatever arrives together, unless it is left behind.
* *NothingLost*: a process that loads a whole file and saves before anybody else does loses nothing; with overlap, or
  after a failed save, it may. *Consistent (UserStore)*: whatever overwrites what, what is on file for an account is a
  password that was told to who registered it, or none where the cut at 32 bytes split a character; and nobody logs in
  with another.

The finding, a violation run with the line it contradicts: the presence behind a session request is not looked at, so
that the page shows a room that the server does not have the user in (`chat_login_join`).

What the models show about the code besides, without a run of its own:

* The accounts file is saved without a lock and without a look at the result: "Added to ..." (`index.html:2089`) may
  be shown for a track that is not on file. `NothingLost` says when. A collection of an account of the older format is
  answered with "success" and not stored either (`playlist_manager.c:87`).
* The radio skips what a full listener socket does not take: the header of the next chunk then stands inside an
  incomplete one (`radio_server.c:167`), in a response that is announced as chunked.
* The TLS server's `lost`: a file that needs more than one flush stops after the next buffer; after a 401 a connection
  is neither closed nor listened to; a proxied browser that hangs up is noticed at the next write only; a request
  whose answer had to wait is answered again. When a CGI program has more than 4 MB waiting, the 1024 bytes just read
  are dropped (`https/request_handler.c:384`).
* A CGI program that reads to the end of its input, or writes to a pipe whose reader is gone, may wait for another
  request's program to exit, since the pipes are inherited (`http/request_handler.c:289`).
* The rule for `bytes=-n` takes the number for a negative first byte (`http/request_handler.c:203`): the whole file is
  sent and n bytes more are announced. The TLS server announces the end of a range but sends up to the end of the
  file, or less where a write found no room.
* A password whose 32nd byte is inside a character is told but not stored: nobody can log in to that account
  (`auth_app.c:91-98`).
* Two downloads of one album at one time may leave it nested in itself, mixed, or gone. A download whose name has no
  letter that `sanitize_filename` keeps removes every album there is (`downloader.py:43`, `219`), and may then fail
  itself.
* Of two chat connections that come in at one time, one is left in the backlog until a third comes (`xmppd.c:606`).
* In the bridge, a number that is given out again within a batch may be closed by an event of the connection before
  (`bridge.c:381`, `461`), and after a frame that did not come as a whole its rest is read as a header
  (`bridge.c:431`): what is passed on from there is not what was sent.

## 4. Fairness

* TaskQueue, RadioServer: every thread that can step does (WF), and a mutex that is free again and again is got in the
  end (SF on the lock actions). pthreads promise the first; the second holds for a fair mutex or any random
  scheduling, and the code's critical sections are a few statements long. Accepting, broadcasting beyond the bound,
  and clients have no fairness.
* HttpServer: WF of the epoll thread, and of each worker but where it may wait for a client or a CGI program
  (`MayWait`; the socket is made blocking at `http/request_handler.c:660`): there it may stay for ever. SF of
  `RelayEnd`: the relay loop reads one socket until it is empty, and we assume that no sender keeps it so for ever.
  Without this one sender keeps the epoll thread for itself, which is listed as a hazard.
* ChatLogin: WF of the tab, the bridge and the server together, the accept of a listener that has an event included;
  the user may stop, and nobody else need connect. What a tab sends between two rounds of the bridge or the server is
  taken to fit one buffer, so that one recv for each edge reads it all: it is a few short stanzas.
* CgiPipes: WF of each worker and each child. The client reads its answer or is gone, so that no `send` waits for
  ever; a client that does neither keeps its worker (the socket is made blocking at `http/request_handler.c:660`). The
  body needs no fairness of the client: the two seconds are the worker's.
* Xmppd, Bridge, HttpsServer, CgiFiles: no fairness, only safety is checked. The bridge runs in one loop that never
  waits but in `epoll_wait`, and NoEdgeLost says what wakes it. In HttpsServer a liveness property would have to
  exempt so much (`lost`) that EveryoneHeard, which says the same as an invariant, is the stronger statement.
* Liveness properties exempt `fault # "none"`, where the model has no more to say.

## 5. Proofs

A theorem holds for any sets of connections, descriptors, records, workers, processes and so on, and any sizes of
buffers, queues and tables (of the two buffers `BUFFER_SIZE` that of Ranges is a constant, that of Frames the code's
8192; `SizeMod`, the 2^64 of a `size_t`, is any number from 4 * 65536): it assumes of the constants what the ASSUME of
the module says, which every run evaluates. Most of these say that a bound is a number and that NULL is nobody's name;
Routes needs the characters of its paths (`Characters`) to hold those of the run's, and no length for its table
(`MAX_ROUTES`). In Bridge a client may send data at all, and there are as many addresses as descriptors; in Xmppd
there are finitely many rooms, as a head count needs. The last argument is always the same: an invariant that the runs
check is seldom inductive; the module says in an `IInv` what more is true, has one lemma for each action or group of
actions, and puts them together in `Invariance`. TLC finds no violation of any `IInv` on the instance of its run (with
the quantified list indices of RadioServer's bounded). In CgiProofs it is called `StoreInv`, `JobsInv` and `PipesInv`
for the three specifications that it is about, and in ChatProofs `DialogueInv` for ChatLogin.

| Module | Theorems, and the property of section 3 that they state |
|---|---|
| `TaskQueueProofs` | `Invariance`; `AlwaysConsistent` (Consistent), `SingleOwner` (OneOwner), `WakeupKept` (NoLostWakeup), `Refinement` (ImplementsFifo) |
| `HttpServerProofs` | `Invariance`; `TableRight` (Consistent), `EdgesKept` (NoEdgeLost), `RecordsStayLive` (RecordsLive), `OneOwnerEach` (OneOwner), `QueueUsedAsAsked` (UsesFifo); `HangupsHeard`; `EveryRangeHonoured`, `EveryFileEnds`, `RangesAlwaysHonoured` (RangesHonoured); `EveryPathRouted`, `RoutesAlwaysAsConfigured` (RoutesAsConfigured) |
| `HttpsServerProofs` | `Invariance`; `TableRight` (Consistent), `OneOwnerEach` (OneOwner), `OneWay` (ProxiedOneWay), `AllHeard` (EveryoneHeard), `QueueUsedAsAsked` (UsesFifo) |
| `CgiProofs` | `PipesInvariance`; `InputComplete` (ShortOnlyIfLate), `NoThirdWay`; `StoreInvariance`, `FilesImplementStore`; `PasswordsKnown` (Consistent), `LoneSaveLosesNothing` (NothingLost), `PublishedWhole` (AlbumsWhole) |
| `RadioServerProofs` | `Invariance`; `OneKeeperEach` (Consistent), `SlotHolds` (SlotHoldsAnnouncedChunk), `NeverReplayed` (NeverReplays), `SleepersCurrent` (SleepersAreCurrent) |
| `ChatProofs` | `Invariance`; `TableRight` (Consistent), `RosterRight` (RosterComplete), `AllRoomsListed` (RoomsListed), `LoginInOrder` (NobodySkipsAuth), `HeadCountsRight` (RoomListsFresh); `DialogueInvariance`; `LoginKeepsStep` (LoginInStep), `LoginNeverStuck` |
| `BridgeProofs` | `Invariance`; `TableRight` (Consistent), `EdgesKept` (NoEdgeLost), `ClosedWithCause` (ClosedForCause); `WholeFramesPassed`, `FramesAlwaysIntact` (FramesIntact) |
| `Induction` | lemmas only: `HasLeast`, `UpTo`, `Recursion`, `Values` |

**TaskQueue.** `ListSpellsQueue` speaks only of states in which the mutex is free. `IInv` says for every program
counter who holds the mutex (`MutexInv`), who sleeps (`WaitInv`), which node each thread has in its hands and that no
two have the same (`HeldInv`), that the chain is allocated, distinct and disjoint from the nodes in workers' hands
(`ChainInv`), what `head`, `tail` and `next` are, with the one statement by which `head` lags in a push on an empty
list and `tail` in the pop of the last node (`HeadInv`, `TailInv`, `NextInv`), and where every connection is
(`ClientInv`). In `Refinement` a push is `Submit` where the node is linked, a pop is `Start` where it is unlinked, the
end of `handle_work` is `Finish`; all else stutters.

**HttpServer.** A record that is allocated and not leaked is with epoll, in the queue, or with one worker, and `IInv`
follows it: what is in the batch or in main's hands is still in the epoll set (`BatchInv`); what the workers have is
allocated, connected, there once, and not in the epoll set (`BusyInv`); a worker's last look is at a record that is
allocated or known to be freed (`LifeInv`). The difficult record is that of an upstream connection, which a worker
sets up but which belongs to epoll at once: `PeerInv` says that both records of a proxied connection are with epoll,
but for the client's while its worker has it, and that worker's upstream record is nobody else's. Not even that holds
where the model stops with a `fault`. `NoEdgeLost` is inductive with these, since only main reads what the epoll set
has. `QueueUsedAsAsked` closes the circle with TaskQueue, whose guard `AtMain` assumes of main what is proved here: no
record is pushed that is in the queue or with a worker. `HangupsHeard` is what HangupsEnd says without the fairness:
when epoll, main and the workers have nothing to do (`Idle`), nothing is left open whose other end is gone, but for
the `orphans`. For that every descriptor is with epoll or its record with the workers (`Held`), and epoll or main
knows of every hang-up on a proxied connection (`Heard`); of the others `NoEdgeLost` says it.

**HttpsServer.** Here a cleanup frees the peer, too, so that no record is ever half of a pair; but then main must not
have an event of the peer left. It has none because of which descriptors are armed: a browser's is out of the epoll
set from the request on (`BrowserFine`), and an upstream one's is armed for bytes only as long as none wait for the
browser (`UpperFine`). `CheckInv` is needed for the close of `Request too large`, which comes after the record was
handed over and may have got a peer from a worker meanwhile. `EveryoneHeard` is inductive once it is said of all
records that nobody has, the one that main is to check included (`HeardFine`), and with it that only an answered
request has bytes left to send (`AnswerFine`). All but the queue is said of one record, its peer and their descriptors
(`Fine`); one lemma (`Others`) deals with every record that a step does not touch. That SSL_read never overruns the
buffer needs the least chunk at which the loop ends (`LeastOf`, `Below`, `StopIs`).

**CgiPipes** (in CgiProofs). The proof counts: while a program reads it holds the reading end (`ReaderInv`), so that
what it still wants is in the pipe or will be fed (`CountInv`), and the server has the writing end until all is fed or
not waited for (`EndsInv`, `FedInv`). Which other ends the children inherit does not matter. It does for `NoThirdWay`,
the safety half of RequestsEnd, which says in which ways all can wait for each other (`Standstill`): a ring of
children that hold each other's pipes, or a worker and its child with both pipes full, as the property names them, and
no third. `HolderInv` says who may have which end; a waiting child then waits for another one that waits
(`WaitsForAnother`).

**CgiFiles** (in CgiProofs). The steps of the download jobs are stutters of UserStore (`FilesImplementStore`), so that
what is proved of the accounts alone holds beside them. What makes `NothingLost` inductive is that the object a
process has loaded, while nobody else has saved, is the one on file, changed by its own request (`LoadedInv`,
`AloneInv`), and that a request's outcome keeps all that was there (`Promised`). `AlbumsWhole` speaks of ended jobs;
`AsLeft` says of a job at every step that whoever else has looked at its album, or at the directory of all albums, has
ended (`LoneInv`), that what is still to be removed is what is there, and that what is there is what it has copied.

**RadioServer.** Slot c % Slots holds chunk c until the broadcaster has come round (`RingInv`), which needs lemmas
about remainders, as the prover knows `%` by its definition only. A sender cannot have sampled the chunk that is being
stored (`SampleInv`). The node of a connection that was closed stays on its list for one step, under a number that a
new connection may have by then: `ListInv` and `HeardInv` speak of the live nodes only.

**Xmppd** (in ChatProofs). The table is indexed modulo its size, so that two connections may share a slot, and the
later one takes it. That a record is that of an open connection in the slot of its descriptor (`TableInv`), that
members have been told of each other, and that rooms are listed, is true also then. `LoginInOrder` and
`HeadCountsRight` have the hypothesis `OwnSlots`, that no two descriptors fall on one slot, which is so as long as the
server has at most 64 consecutive numbers in use, and without which they are false: a connection would go on with the
state of another one.

**Bridge.** Closing a pair leaves its `Session` and its entries behind while the numbers are given out again. An entry
therefore says only that the `Session` is allocated and has the number (`EntryInv`), and `PairsAgree` rests on who
opened a descriptor. `Inv` has two parts: `BaseInv` holds in every state, `IInv` until an event has closed a
stranger's connection. `NoEdgeLost` is about what was sent, so that it needs what a `recv` leaves: nothing, unless the
target was crowded (`CrowdedInv`). `ClosedForCause` is a property of steps, also of those that are misled. It needs
that only a client that was answered has sent frames (`RequestInv`), and that an event in the batch is of a connection
that has still something to read, or of a number that was closed, and perhaps opened again, since `epoll_wait`
(`BatchInv`, `SameBatch`).

**ChatLogin** (in ChatProofs). What makes `LoginInStep` inductive is what is on its way (`DialogueInv`): for each
stage of the page the server is at one of two, and at the one exactly one stanza of the login is under way, at the
other exactly one text with the words that the page waits for, and nothing else that either end would take for its
own. That is so although the user's presences and messages travel between the stanzas, a recv may take several of
them, and the bridge puts several texts in one frame. As long as the connection waits in the backlog, the server is at
the first stage and the first stanza is on its way. `LoginNeverStuck` follows: an open socket that is not ready always
has something under way, so that no login waits for what nobody will send. It is what LoginCompletes needs besides
fairness.

**Routes, Ranges, Frames.** `EveryPathRouted` is about every configuration file of any length, every path over any
characters and a table of any size; `EveryRangeHonoured` about every size of a file, every range inside and every size
of the buffer; `EveryFileEnds` about every number of bytes and whatever becomes of each write; `WholeFramesPassed`
about every sequence of frames that a `size_t` can count, received in any number of recvs that end anywhere. The
theorems about runs' properties (`RoutesAlwaysAsConfigured` and so on) follow from these: the properties quantify over
the inputs that TLC looks at, the general theorems over all of them. The functions are recursive, and each proof has
two parts. First, the recursive definition has a solution (`Recursion` in **Induction**), so that CHOOSE finds one and
the values satisfy the equation of the code's loop. Second, what the loop keeps holds after every round (`UpTo`): of
the table, that its rules are the route lines read so far in their order, each marked if an AUTH line came behind it,
and that reading stops at the route too many; of the search, that it has the first of the longest rules so far; of a
file, that each round sends something or all is sent; of the frames, that what is processed is where a frame ends.

**Induction.** The library's induction theorems take an operator, which the provers cannot instantiate. Here the
numbers of which something holds are a set and a step of a recursion is a function; a set of numbers that is not empty
has a least one (`HasLeast`), from the library's facts that `<` is well-founded and that every set has a minimal
element then.

Only model-checked: the liveness properties (HangupsEnd, RequestsEnd, SendersKeepUp, AnsweredIsListed, LoginCompletes,
EveryPushIsServed), as fairness and ENABLED are out of TLAPS's reach. What they need of the states is proved, though,
for all but AnsweredIsListed: `HangupsHeard`, `NoThirdWay`, `SleepersCurrent`, `LoginNeverStuck` and `WakeupKept` say
that nobody waits for what will not come. Only model-checked is also the finding `JoinedWhenReady`, which the run
refutes. Every invariant and every action property of the passing runs, and every refinement, is proved, two of
Xmppd's with the hypothesis above. No model uses a RECURSIVE operator, so that all of them can be reasoned about.

## 6. What is not modelled

* SHA-1 and base64 are pure bit arithmetic. `get_chat_rooms.c` prints what it reads; what yt-dlp and spotdl do is any
  outcome of `Fetch` and `FetchFails`. The Makefile has no behaviour of its own.
* The rest of the web page (player, lists, account dialogue) is the user's sequence of requests, of which UserStore,
  CgiPipes and ChatLogin take any.
* In HttpsServer: an event that is a hang-up alone, which main ignores; SSL_read wanting to write (renegotiation is
  off) and partial writes of SSL_write (not enabled); what a browser sends while it is proxied, which is never read.
  In CgiPipes: the environment of the child. In Downloads: the lines that a job prints, and files it cannot write.
* Texts: stanzas are marks, requests are chunks, JSON is the object it spells. The lengths of texts and the sizes of
  fixed buffers (room list, `body[512]`) are not modelled, nor are nicknames. A text of the accounts file fits one
  stdio buffer. The bridge's sessions that are never freed are only addresses that come free.
* The unchecked sends of the chat server (`xmppd.c:127`, `223`, `242`), on sockets that do not block, are taken to
  succeed: a client that does not read loses lists and members' names. So are those of the page's connection in
  ChatLogin.
* In Bridge, what happens after a stale event has closed a stranger's connection; in Frames, what is passed on out of
  step, and frames whose eight-byte length wraps the sum of their sizes.
* What a job named ".." does above the directory of the albums, where `rmtree` begins with whatever comes first; files
  beside the albums that no job has put there, and an album with the name of one (`metadata.json`).
* What stands behind the first request in the buffer of a connection (`http/request_handler.c:892` erases it).
* `malloc` failing, descriptors above a table's size, more than 1024 events in a batch.

## 7. Plan

All components with state of their own are modelled and proved about. What could follow: the liveness properties, once
the prover knows ENABLED, from the theorems that say that nobody waits for what will not come; and AnsweredIsListed
from the fairness of the mutex alone.
