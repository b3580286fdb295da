------------------------------ MODULE TaskQueue ------------------------------
(***************************************************************************)
(* The task queue of the two web servers (http/server.c:20-85, repeated    *)
(* word for word in https/server.c:112-177): one epoll thread, Main, hands *)
(* connections whose request is complete to a pool of worker threads.      *)
(*                                                                         *)
(* The queue is a singly linked list of malloc'ed Task nodes with a head   *)
(* and a tail pointer, guarded by one mutex and one condition variable.    *)
(* Every statement that touches the list is a step of its own, so that the *)
(* mutex, and not the granularity of the model, is what keeps the list in  *)
(* shape.                                                                  *)
(***************************************************************************)
EXTENDS Sequences, Naturals

CONSTANTS Clients,  \* the connections (ClientState records)
          Workers,  \* the worker threads
          Tasks,    \* the heap addresses malloc can return for a Task
          Main,     \* the epoll thread, the only one that pushes
          NULL      \* the null pointer

ASSUME QueueAssumption == /\ Workers # {}
                          /\ Main \notin Workers
                          /\ NULL \notin Clients \cup Tasks \cup Workers \cup {Main}

Threads == Workers \cup {Main}

VARIABLES
  task,     \* the Task nodes: their client and next fields
  live,     \* the nodes that are allocated
  head,     \* q->head
  tail,     \* q->tail
  mutex,    \* the thread that holds q->mutex, or NULL
  waiting,  \* the workers blocked in pthread_cond_wait
  pc,       \* what each thread executes next
  held,     \* new_task of queue_push, task of queue_pop
  serving,  \* the connection a worker passed to handle_work, or NULL
  chain     \* auxiliary: the nodes linked and not yet unlinked, in order

vars == <<task, live, head, tail, mutex, waiting, pc, held, serving, chain>>
list == <<task, head, tail, chain>>

PushPc == {"run", "push_lock", "push_link", "push_head", "push_unlock", "push_signal"}
PopPc  == {"pop", "wait", "relock", "test", "tail", "unlock", "return", "work"}

TypeOK ==
  /\ task \in [Tasks -> [client : Clients \cup {NULL}, next : Tasks \cup {NULL}]]
  /\ live \in SUBSET Tasks
  /\ head \in Tasks \cup {NULL}
  /\ tail \in Tasks \cup {NULL}
  /\ mutex \in Threads \cup {NULL}
  /\ waiting \in SUBSET Workers
  /\ pc \in [Threads -> PushPc \cup PopPc]
  /\ pc[Main] \in PushPc
  /\ \A w \in Workers : pc[w] \in PopPc
  /\ held \in [Threads -> Tasks \cup {NULL}]
  /\ serving \in [Workers -> Clients \cup {NULL}]
  /\ chain \in Seq(Tasks)

(* queue_init, and the threads as main starts them. *)
Init ==
  /\ task = [t \in Tasks |-> [client |-> NULL, next |-> NULL]]
  /\ live = {}
  /\ head = NULL
  /\ tail = NULL
  /\ mutex = NULL
  /\ waiting = {}
  /\ pc = [t \in Threads |-> IF t = Main THEN "run" ELSE "pop"]
  /\ held = [t \in Threads |-> NULL]
  /\ serving = [w \in Workers |-> NULL]
  /\ chain = <<>>

Goto(t, label) == pc' = [pc EXCEPT ![t] = label]

(* Mutant: the connection is still watched by epoll while it is queued.      *)
AtMainWatched(c) == c \in Clients

(* A connection that main can push: it is taken out of epoll before the push *)
(* (http/server.c:324), so no event brings it back to main before a worker   *)
(* has put it into epoll again and is done with it.  That the servers keep   *)
(* to this is UsesFifo of HttpServer.                                        *)
AtMain(c) == /\ \A t \in live : task[t].client # c
             /\ \A w \in Workers : serving[w] # c

-----------------------------------------------------------------------------
(* queue_push, executed by the epoll thread. *)

(* malloc may return any free address; the node is filled before the lock. *)
PushAlloc(c) ==
  /\ pc[Main] = "run"
  /\ AtMain(c)
  /\ \E t \in Tasks \ live :
       /\ live' = live \cup {t}
       /\ task' = [task EXCEPT ![t] = [client |-> c, next |-> NULL]]
       /\ held' = [held EXCEPT ![Main] = t]
  /\ Goto(Main, "push_lock")
  /\ UNCHANGED <<head, tail, mutex, waiting, serving, chain>>

PushLock ==
  /\ pc[Main] = "push_lock"
  /\ mutex = NULL
  /\ mutex' = Main
  /\ Goto(Main, "push_link")
  /\ UNCHANGED <<list, live, waiting, held, serving>>

(* Mutant: the predecessor is not linked to the new node. *)
PushLinkUnlinked ==
  /\ pc[Main] = "push_link"
  /\ tail' = held[Main]
  /\ chain' = Append(chain, held[Main])
  /\ Goto(Main, "push_head")
  /\ UNCHANGED <<task, live, head, mutex, waiting, held, serving>>

(* if (q->tail) q->tail->next = new_task; q->tail = new_task; *)
PushLink ==
  /\ pc[Main] = "push_link"
  /\ task' = IF tail = NULL THEN task
                            ELSE [task EXCEPT ![tail] = [client |-> @.client, next |-> held[Main]]]
  /\ tail' = held[Main]
  /\ chain' = Append(chain, held[Main])
  /\ Goto(Main, "push_head")
  /\ UNCHANGED <<live, head, mutex, waiting, held, serving>>

(* Mutant: head is set on every push, not only on an empty queue. *)
PushHeadAlways ==
  /\ pc[Main] = "push_head"
  /\ head' = held[Main]
  /\ Goto(Main, "push_unlock")
  /\ UNCHANGED <<task, live, tail, mutex, waiting, held, serving, chain>>

(* if (q->head == NULL) q->head = new_task; *)
PushHead ==
  /\ pc[Main] = "push_head"
  /\ head' = IF head = NULL THEN held[Main] ELSE head
  /\ Goto(Main, "push_unlock")
  /\ UNCHANGED <<task, live, tail, mutex, waiting, held, serving, chain>>

PushUnlock ==
  /\ pc[Main] = "push_unlock"
  /\ mutex' = NULL
  /\ held' = [held EXCEPT ![Main] = NULL]
  /\ Goto(Main, "push_signal")
  /\ UNCHANGED <<list, live, waiting, serving>>

(* Mutant: the worker is not signalled. *)
PushSignalNobody ==
  /\ pc[Main] = "push_signal"
  /\ Goto(Main, "run")
  /\ UNCHANGED <<list, live, mutex, waiting, held, serving>>

(* pthread_cond_signal, after the unlock: it wakes a waiter if there is one. *)
PushSignal ==
  /\ pc[Main] = "push_signal"
  /\ \/ /\ waiting = {}
        /\ Goto(Main, "run")
        /\ UNCHANGED waiting
     \/ \E w \in waiting :
          /\ waiting' = waiting \ {w}
          /\ pc' = [pc EXCEPT ![Main] = "run", ![w] = "relock"]
  /\ UNCHANGED <<list, live, mutex, held, serving>>

-----------------------------------------------------------------------------
(* queue_pop and worker_thread_function, executed by a worker. *)

(* The lock at the top of queue_pop, and the one pthread_cond_wait takes     *)
(* again before it returns.                                                  *)
PopLock(w) ==
  /\ pc[w] \in {"pop", "relock"}
  /\ mutex = NULL
  /\ mutex' = w
  /\ Goto(w, "test")
  /\ UNCHANGED <<list, live, waiting, held, serving>>

(* The queue is empty: release the mutex and sleep, in one step. *)
PopWait(w) ==
  /\ pc[w] = "test"
  /\ head = NULL
  /\ mutex' = NULL
  /\ waiting' = waiting \cup {w}
  /\ Goto(w, "wait")
  /\ UNCHANGED <<list, live, held, serving>>

(* POSIX lets pthread_cond_wait return without a signal; the loop tests head *)
(* again.                                                                    *)
SpuriousWakeup(w) ==
  /\ w \in waiting
  /\ waiting' = waiting \ {w}
  /\ Goto(w, "relock")
  /\ UNCHANGED <<list, live, mutex, held, serving>>

(* task = q->head; q->head = q->head->next; *)
PopTake(w) ==
  /\ pc[w] = "test"
  /\ head # NULL
  /\ held' = [held EXCEPT ![w] = head]
  /\ head' = task[head].next
  /\ chain' = Tail(chain)
  /\ Goto(w, "tail")
  /\ UNCHANGED <<task, live, tail, mutex, waiting, serving>>

(* if (q->head == NULL) q->tail = NULL; *)
PopTail(w) ==
  /\ pc[w] = "tail"
  /\ tail' = IF head = NULL THEN NULL ELSE tail
  /\ Goto(w, "unlock")
  /\ UNCHANGED <<task, live, head, mutex, waiting, held, serving, chain>>

PopUnlock(w) ==
  /\ pc[w] = "unlock"
  /\ mutex' = NULL
  /\ Goto(w, "return")
  /\ UNCHANGED <<list, live, waiting, held, serving>>

(* client = task->client; free(task); return client; -> handle_work(client). *)
PopReturn(w) ==
  /\ pc[w] = "return"
  /\ serving' = [serving EXCEPT ![w] = task[held[w]].client]
  /\ live' = live \ {held[w]}
  /\ held' = [held EXCEPT ![w] = NULL]
  /\ Goto(w, "work")
  /\ UNCHANGED <<list, mutex, waiting>>

(* handle_work returns: the client is back in epoll and the worker pops again. *)
HandleWork(w) ==
  /\ pc[w] = "work"
  /\ serving' = [serving EXCEPT ![w] = NULL]
  /\ Goto(w, "pop")
  /\ UNCHANGED <<list, live, mutex, waiting, held>>

-----------------------------------------------------------------------------
Push == \/ PushLock \/ PushLink \/ PushHead \/ PushUnlock \/ PushSignal

Pop(w) == \/ PopLock(w) \/ PopWait(w) \/ PopTake(w) \/ PopTail(w)
          \/ PopUnlock(w) \/ PopReturn(w) \/ HandleWork(w)

Next == \/ \E c \in Clients : PushAlloc(c)
        \/ Push
        \/ \E w \in Workers : Pop(w) \/ SpuriousWakeup(w)

Spec == Init /\ [][Next]_vars

(* A thread that can run is run, and a thread that asks for a mutex which is *)
(* released over and over obtains it.  Whether a request arrives, and        *)
(* whether the kernel wakes a waiter for nothing, is left open.              *)
Fairness == /\ WF_vars(Push) /\ SF_vars(PushLock)
            /\ \A w \in Workers : WF_vars(Pop(w)) /\ SF_vars(PopLock(w))

FairSpec == Spec /\ Fairness

-----------------------------------------------------------------------------
(* Whenever the mutex is free, head, tail and the next pointers spell out    *)
(* exactly the nodes pushed and not yet popped, in the order of the pushes:  *)
(* head is the oldest, tail the youngest, and each node points to the one    *)
(* pushed after it.                                                          *)
ListSpellsQueue ==
  mutex = NULL =>
    /\ head = IF chain = <<>> THEN NULL ELSE chain[1]
    /\ tail = IF chain = <<>> THEN NULL ELSE chain[Len(chain)]
    /\ \A i \in 1..Len(chain) :
         task[chain[i]].next = IF i = Len(chain) THEN NULL ELSE chain[i + 1]

(* No pointer that a thread may still follow refers to a node that was       *)
(* freed: head and tail whenever another thread could take the mutex, and    *)
(* each thread's own node until it lets go of it.                            *)
NoDanglingPointer ==
  /\ mutex = NULL => {head, tail} \subseteq live \cup {NULL}
  /\ \A t \in Threads : held[t] \in live \cup {NULL}

(* The three, as one invariant. *)
Consistent == TypeOK /\ ListSpellsQueue /\ NoDanglingPointer

(* A connection is in one place: in at most one task, with at most one       *)
(* worker, and never in both; no two workers run handle_work on the same     *)
(* ClientState.                                                              *)
OneOwner ==
  /\ \A t, u \in live : task[t].client = task[u].client => t = u
  /\ \A w \in Workers : serving[w] # NULL =>
       /\ \A t \in live : task[t].client # serving[w]
       /\ \A v \in Workers : serving[v] = serving[w] => v = w

(* No lost wake-up: a connection is never left in the queue with every       *)
(* worker asleep, unless the push that put it there has yet to signal.       *)
NoLostWakeup ==
  /\ chain # <<>>
  /\ waiting = Workers
  => pc[Main] \in {"push_head", "push_unlock", "push_signal"}

(* The queue implements the first-in first-out hand-off of TaskFifo: the     *)
(* line is what the list holds, and a worker has a connection from the       *)
(* moment it unlinks its node until handle_work returns.                     *)
Fifo == INSTANCE TaskFifo WITH
          pending <- [i \in 1..Len(chain) |-> task[chain[i]].client],
          current <- [w \in Workers |-> IF held[w] # NULL THEN task[held[w]].client
                                                          ELSE serving[w]]

ImplementsFifo == Fifo!Spec

(* A connection that main hands over is worked on eventually, however the    *)
(* threads are scheduled, as long as each one that can run does run.         *)
EveryPushIsServed ==
  \A c \in Clients :
    (\E t \in live : task[t].client = c) ~> (\E w \in Workers : serving[w] = c)

=============================================================================
