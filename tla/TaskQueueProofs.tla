--------------------------- MODULE TaskQueueProofs ---------------------------
(***************************************************************************)
(* Proofs about TaskQueue, for any number of connections, workers and heap *)
(* addresses.  The inductive invariant IInv says, for every value of the   *)
(* program counters and not only when the mutex is free, who holds the     *)
(* mutex, who sleeps, which node each thread has in its hands, and what    *)
(* the list then looks like.                                               *)
(***************************************************************************)
EXTENDS TaskQueue, SequenceTheorems, TLAPS

(* The mutex belongs to the thread that is between lock and unlock.          *)
MutexInv ==
  /\ mutex = Main <=> pc[Main] \in {"push_link", "push_head", "push_unlock"}
  /\ \A w \in Workers : mutex = w <=> pc[w] \in {"test", "tail", "unlock"}

(* The condition variable's waiters are the threads inside pthread_cond_wait. *)
WaitInv == \A w \in Workers : w \in waiting <=> pc[w] = "wait"

(* A thread has a node exactly between malloc and unlock, or between unlink  *)
(* and free.  No two threads have the same one.                              *)
HeldInv ==
  /\ held[Main] # NULL
     <=> pc[Main] \in {"push_lock", "push_link", "push_head", "push_unlock"}
  /\ \A w \in Workers : held[w] # NULL <=> pc[w] \in {"tail", "unlock", "return"}
  /\ \A t \in Threads : held[t] \in live \cup {NULL}
  /\ \A t, u \in Threads : held[t] = held[u] /\ held[t] # NULL => t = u

(* The linked nodes are allocated and distinct, and the only one of them     *)
(* that a thread has in its hands is the one main has just linked.           *)
ChainInv ==
  /\ \A i \in 1..Len(chain) : chain[i] \in live
  /\ \A i, j \in 1..Len(chain) : chain[i] = chain[j] => i = j
  /\ \A w \in Workers, i \in 1..Len(chain) : chain[i] # held[w]
  /\ pc[Main] \in {"push_lock", "push_link"} =>
       \A i \in 1..Len(chain) : chain[i] # held[Main]
  /\ pc[Main] = "push_head" => chain # <<>> /\ chain[Len(chain)] = held[Main]

(* The pointers, with the one statement's delay of head in a push on an      *)
(* empty list and of tail in the pop of the last node.                       *)
HeadInv ==
  head = IF chain = <<>> \/ (pc[Main] = "push_head" /\ Len(chain) = 1)
         THEN NULL ELSE chain[1]

TailInv ==
  /\ chain # <<>> => tail = chain[Len(chain)]
  /\ chain = <<>> /\ (\A w \in Workers : pc[w] # "tail") => tail = NULL

NextInv ==
  /\ \A i \in 1..Len(chain) :
       task[chain[i]].next = IF i = Len(chain) THEN NULL ELSE chain[i + 1]
  /\ pc[Main] \in {"push_lock", "push_link"} => task[held[Main]].next = NULL

(* Every allocated node carries a connection, and every connection is in one *)
(* place.                                                                    *)
ClientInv ==
  /\ \A t \in live : task[t].client \in Clients
  /\ \A w \in Workers : serving[w] # NULL <=> pc[w] = "work"
  /\ OneOwner

IInv == /\ TypeOK
        /\ MutexInv /\ WaitInv /\ HeldInv
        /\ ChainInv /\ HeadInv /\ TailInv /\ NextInv
        /\ ClientInv /\ NoLostWakeup

-----------------------------------------------------------------------------
(* With no node, no waiter and every worker about to lock, all parts hold.   *)
LEMMA InitInv == Init => IInv
BY QueueAssumption
DEF Init, IInv, TypeOK, PushPc, PopPc, Threads, MutexInv, WaitInv, HeldInv,
    ChainInv, HeadInv, TailInv, NextInv, ClientInv, OneOwner, NoLostWakeup

(* queue_push 29-31: the fresh node is in no list and no other hand.         *)
LEMMA PushAllocInv ==
  ASSUME IInv, NEW c \in Clients, PushAlloc(c)
  PROVE  IInv'
<1> USE QueueAssumption
    DEF IInv, TypeOK, PushPc, PopPc, Threads, Goto, list, PushAlloc
<1>1. NextInv'
  BY DEF ChainInv, NextInv
<1>2. ClientInv'
  BY DEF ClientInv, OneOwner, AtMain
<1>3. /\ TypeOK' /\ MutexInv' /\ WaitInv' /\ HeldInv' /\ ChainInv' /\ HeadInv'
      /\ TailInv' /\ NoLostWakeup'
  BY DEF MutexInv, WaitInv, HeldInv, ChainInv, HeadInv, TailInv, NoLostWakeup
<1> QED  BY <1>1, <1>2, <1>3

(* queue_push 33: only the owner of the mutex and pc[Main] change.           *)
LEMMA PushLockInv ==
  ASSUME IInv, PushLock
  PROVE  IInv'
<1> USE QueueAssumption
    DEF IInv, TypeOK, PushPc, PopPc, Threads, Goto, list, PushLock
<1>1. /\ TypeOK' /\ MutexInv' /\ WaitInv' /\ HeldInv' /\ ChainInv' /\ HeadInv'
      /\ TailInv' /\ NextInv' /\ ClientInv' /\ NoLostWakeup'
  BY DEF MutexInv, WaitInv, HeldInv, ChainInv, HeadInv, TailInv, NextInv,
         ClientInv, OneOwner, NoLostWakeup
<1> QED  BY <1>1

(* queue_push 35-39: the node joins the chain; head is owed while Main is at *)
(* push_head.                                                                *)
LEMMA PushLinkInv ==
  ASSUME IInv, PushLink
  PROVE  IInv'
<1> USE QueueAssumption
    DEF IInv, TypeOK, PushPc, PopPc, Threads, Goto, list, PushLink
<1>1. TypeOK'
  BY DEF HeldInv
<1>2. ChainInv'
  BY DEF HeldInv, ChainInv
<1>3. NextInv'
  BY DEF MutexInv, ChainInv, TailInv, NextInv
<1>4. /\ MutexInv' /\ WaitInv' /\ HeldInv' /\ ClientInv' /\ NoLostWakeup'
  BY DEF MutexInv, WaitInv, HeldInv, ClientInv, OneOwner, NoLostWakeup
<1>5. HeadInv'
  BY DEF HeadInv
<1>6. TailInv'
  BY DEF TailInv
<1> QED  BY <1>1, <1>2, <1>3, <1>4, <1>5, <1>6

(* queue_push 41-43: the head that was owed is set.                          *)
LEMMA PushHeadInv ==
  ASSUME IInv, PushHead
  PROVE  IInv'
<1> USE QueueAssumption
    DEF IInv, TypeOK, PushPc, PopPc, Threads, Goto, list, PushHead
<1>1. HeadInv'
  BY DEF ChainInv, HeadInv
<1>2. /\ TypeOK' /\ MutexInv' /\ WaitInv' /\ HeldInv' /\ ChainInv' /\ TailInv'
      /\ NextInv' /\ ClientInv' /\ NoLostWakeup'
  BY DEF MutexInv, WaitInv, HeldInv, ChainInv, TailInv, NextInv, ClientInv,
         OneOwner, NoLostWakeup
<1> QED  BY <1>1, <1>2

(* queue_push 45: the mutex is given up with the list in order.              *)
LEMMA PushUnlockInv ==
  ASSUME IInv, PushUnlock
  PROVE  IInv'
<1> USE QueueAssumption
    DEF IInv, TypeOK, PushPc, PopPc, Threads, Goto, list, PushUnlock
<1>1. /\ TypeOK' /\ MutexInv' /\ WaitInv' /\ HeldInv' /\ ChainInv' /\ HeadInv'
      /\ TailInv' /\ NextInv' /\ ClientInv' /\ NoLostWakeup'
  BY DEF MutexInv, WaitInv, HeldInv, ChainInv, HeadInv, TailInv, NextInv,
         ClientInv, OneOwner, NoLostWakeup
<1> QED  BY <1>1

(* queue_push 47: a waiter, if there is one, leaves the condition variable.  *)
LEMMA PushSignalInv ==
  ASSUME IInv, PushSignal
  PROVE  IInv'
<1> USE QueueAssumption
    DEF IInv, TypeOK, PushPc, PopPc, Threads, Goto, list, PushSignal
<1>1. MutexInv'
  BY DEF MutexInv, WaitInv
<1>2. HeldInv'
  BY DEF WaitInv, HeldInv
<1>3. TailInv'
  BY DEF WaitInv, TailInv
<1>4. ClientInv'
  BY DEF WaitInv, ClientInv, OneOwner
<1>5. /\ TypeOK' /\ WaitInv' /\ ChainInv' /\ HeadInv' /\ NextInv'
      /\ NoLostWakeup'
  BY DEF WaitInv, ChainInv, HeadInv, NextInv, NoLostWakeup
<1> QED  BY <1>1, <1>2, <1>3, <1>4, <1>5

(* queue_pop 51: only the owner of the mutex and pc[w] change.               *)
LEMMA PopLockInv ==
  ASSUME IInv, NEW w \in Workers, PopLock(w)
  PROVE  IInv'
<1> USE QueueAssumption
    DEF IInv, TypeOK, PushPc, PopPc, Threads, Goto, list, PopLock
<1>1. /\ TypeOK' /\ MutexInv' /\ WaitInv' /\ HeldInv' /\ ChainInv' /\ HeadInv'
      /\ TailInv' /\ NextInv' /\ ClientInv' /\ NoLostWakeup'
  BY DEF MutexInv, WaitInv, HeldInv, ChainInv, HeadInv, TailInv, NextInv,
         ClientInv, OneOwner, NoLostWakeup
<1> QED  BY <1>1

(* queue_pop 53-55: a worker sleeps only when the chain is empty, and gives up *)
(* the mutex as it does.                                                     *)
LEMMA PopWaitInv ==
  ASSUME IInv, NEW w \in Workers, PopWait(w)
  PROVE  IInv'
<1> USE QueueAssumption
    DEF IInv, TypeOK, PushPc, PopPc, Threads, Goto, list, PopWait
<1>1. NoLostWakeup'
  BY DEF HeadInv, NoLostWakeup
<1>2. /\ TypeOK' /\ MutexInv' /\ WaitInv' /\ HeldInv' /\ ChainInv' /\ HeadInv'
      /\ TailInv' /\ NextInv' /\ ClientInv'
  BY DEF MutexInv, WaitInv, HeldInv, ChainInv, HeadInv, TailInv, NextInv,
         ClientInv, OneOwner
<1> QED  BY <1>1, <1>2

(* queue_pop 53-55: a worker that wakes by itself goes back to the mutex.    *)
LEMMA SpuriousWakeupInv ==
  ASSUME IInv, NEW w \in Workers, SpuriousWakeup(w)
  PROVE  IInv'
<1> USE QueueAssumption
    DEF IInv, TypeOK, PushPc, PopPc, Threads, Goto, list, SpuriousWakeup
<1>1. MutexInv'
  BY DEF MutexInv, WaitInv
<1>2. HeldInv'
  BY DEF WaitInv, HeldInv
<1>3. TailInv'
  BY DEF WaitInv, TailInv
<1>4. ClientInv'
  BY DEF WaitInv, ClientInv, OneOwner
<1>5. /\ TypeOK' /\ WaitInv' /\ ChainInv' /\ HeadInv' /\ NextInv'
      /\ NoLostWakeup'
  BY DEF WaitInv, ChainInv, HeadInv, NextInv, NoLostWakeup
<1> QED  BY <1>1, <1>2, <1>3, <1>4, <1>5

(* What is left of a sequence of two elements or more when its first one is  *)
(* taken.                                                                    *)
LEMMA TailOfLonger ==
  ASSUME NEW S, NEW s \in Seq(S), Len(s) # 1, s # <<>>
  PROVE  Tail(s) # <<>> /\ Tail(s)[1] = s[2]
<1>1. Len(s) \in Nat /\ Len(s) # 0
  BY EmptySeq
<1>2. /\ Tail(s) \in Seq(S)
      /\ Len(Tail(s)) = Len(s) - 1
      /\ \A i \in 1..Len(Tail(s)) : Tail(s)[i] = s[i + 1]
  BY HeadTailProperties
<1>3. Len(Tail(s)) # 0 /\ 1 \in 1..Len(Tail(s))
  BY <1>1, <1>2
<1> QED  BY <1>2, <1>3, EmptySeq

(* queue_pop 57-58: the first node leaves the chain for the worker's hand.   *)
LEMMA PopTakeInv ==
  ASSUME IInv, NEW w \in Workers, PopTake(w)
  PROVE  IInv'
<1> USE QueueAssumption
    DEF IInv, TypeOK, PushPc, PopPc, Threads, Goto, list, PopTake
<1>1. TypeOK'
  BY DEF HeadInv
<1>2. HeldInv'
  BY DEF MutexInv, HeldInv, ChainInv, HeadInv
<1>3. ChainInv'
  BY DEF MutexInv, ChainInv, HeadInv
<1>4. HeadInv'
  <2>1. /\ chain # <<>> /\ head = chain[1]
        /\ pc[Main] # "push_head" /\ pc'[Main] # "push_head"
    BY DEF MutexInv, HeadInv
  <2>2. head' = IF Len(chain) = 1 THEN NULL ELSE chain[2]
    <3>1. 1 \in 1..Len(chain) /\ Len(chain) \in Nat
      BY <2>1
    <3>2. task[chain[1]].next = IF 1 = Len(chain) THEN NULL ELSE chain[1 + 1]
      BY <3>1 DEF NextInv
    <3> QED  BY <2>1, <3>1, <3>2
  <2>3. CASE Len(chain) = 1
    BY <2>1, <2>2, <2>3 DEF HeadInv
  <2>4. CASE Len(chain) # 1
    <3>1. chain' # <<>> /\ chain'[1] = chain[2]
      BY <2>1, <2>4, TailOfLonger
    <3> QED  BY <2>1, <2>2, <2>4, <3>1 DEF HeadInv
  <2> QED  BY <2>3, <2>4
<1>5. /\ MutexInv' /\ WaitInv' /\ TailInv' /\ NextInv' /\ ClientInv'
      /\ NoLostWakeup'
  BY DEF MutexInv, WaitInv, TailInv, NextInv, ClientInv, OneOwner,
         NoLostWakeup
<1> QED  BY <1>1, <1>2, <1>3, <1>4, <1>5

(* queue_pop 60-62: the tail that was owed is cleared.                       *)
LEMMA PopTailInv ==
  ASSUME IInv, NEW w \in Workers, PopTail(w)
  PROVE  IInv'
<1> USE QueueAssumption
    DEF IInv, TypeOK, PushPc, PopPc, Threads, Goto, list, PopTail
<1>1. TailInv'
  BY DEF MutexInv, HeadInv, TailInv
<1>2. /\ TypeOK' /\ MutexInv' /\ WaitInv' /\ HeldInv' /\ ChainInv' /\ HeadInv'
      /\ NextInv' /\ ClientInv' /\ NoLostWakeup'
  BY DEF MutexInv, WaitInv, HeldInv, ChainInv, HeadInv, NextInv, ClientInv,
         OneOwner, NoLostWakeup
<1> QED  BY <1>1, <1>2

(* queue_pop 64: the mutex is given up with the list in order.               *)
LEMMA PopUnlockInv ==
  ASSUME IInv, NEW w \in Workers, PopUnlock(w)
  PROVE  IInv'
<1> USE QueueAssumption
    DEF IInv, TypeOK, PushPc, PopPc, Threads, Goto, list, PopUnlock
<1>1. /\ TypeOK' /\ MutexInv' /\ WaitInv' /\ HeldInv' /\ ChainInv' /\ HeadInv'
      /\ TailInv' /\ NextInv' /\ ClientInv' /\ NoLostWakeup'
  BY DEF MutexInv, WaitInv, HeldInv, ChainInv, HeadInv, TailInv, NextInv,
         ClientInv, OneOwner, NoLostWakeup
<1> QED  BY <1>1

(* queue_pop 66-70: the node is freed, its connection is the worker's.       *)
LEMMA PopReturnInv ==
  ASSUME IInv, NEW w \in Workers, PopReturn(w)
  PROVE  IInv'
<1> USE QueueAssumption
    DEF IInv, TypeOK, PushPc, PopPc, Threads, Goto, list, PopReturn
<1>1. TypeOK'
  BY DEF HeldInv
<1>2. ClientInv'
  BY DEF HeldInv, ClientInv, OneOwner
<1>3. /\ MutexInv' /\ WaitInv' /\ HeldInv' /\ ChainInv' /\ HeadInv'
      /\ TailInv' /\ NextInv' /\ NoLostWakeup'
  BY DEF MutexInv, WaitInv, HeldInv, ChainInv, HeadInv, TailInv, NextInv,
         NoLostWakeup
<1> QED  BY <1>1, <1>2, <1>3

(* worker_thread_function 73-85: the connection is let go.                   *)
LEMMA HandleWorkInv ==
  ASSUME IInv, NEW w \in Workers, HandleWork(w)
  PROVE  IInv'
<1> USE QueueAssumption
    DEF IInv, TypeOK, PushPc, PopPc, Threads, Goto, list, HandleWork
<1>1. /\ TypeOK' /\ MutexInv' /\ WaitInv' /\ HeldInv' /\ ChainInv' /\ HeadInv'
      /\ TailInv' /\ NextInv' /\ ClientInv' /\ NoLostWakeup'
  BY DEF MutexInv, WaitInv, HeldInv, ChainInv, HeadInv, TailInv, NextInv,
         ClientInv, OneOwner, NoLostWakeup
<1> QED  BY <1>1

-----------------------------------------------------------------------------
(* No step of Main or of a worker breaks the invariant.                      *)
LEMMA StepInv == IInv /\ [Next]_vars => IInv'
<1> SUFFICES ASSUME IInv, [Next]_vars PROVE IInv'
  OBVIOUS
<1>1. CASE \E c \in Clients : PushAlloc(c)
  BY <1>1, PushAllocInv
<1>2. CASE Push
  BY <1>2, PushLockInv, PushLinkInv, PushHeadInv, PushUnlockInv, PushSignalInv
  DEF Push
<1>3. CASE \E w \in Workers : Pop(w)
  BY <1>3, PopLockInv, PopWaitInv, PopTakeInv, PopTailInv, PopUnlockInv,
     PopReturnInv, HandleWorkInv
  DEF Pop
<1>4. CASE \E w \in Workers : SpuriousWakeup(w)
  BY <1>4, SpuriousWakeupInv
<1>5. CASE UNCHANGED vars
  <2> USE <1>5 DEF vars, IInv
  <2>1. /\ TypeOK' /\ MutexInv' /\ WaitInv' /\ HeldInv'
    BY DEF TypeOK, MutexInv, WaitInv, HeldInv
  <2>2. /\ ChainInv' /\ HeadInv' /\ TailInv' /\ NextInv'
    BY DEF ChainInv, HeadInv, TailInv, NextInv
  <2>3. /\ ClientInv' /\ NoLostWakeup'
    BY DEF ClientInv, OneOwner, NoLostWakeup
  <2> QED  BY <2>1, <2>2, <2>3
<1> QED  BY <1>1, <1>2, <1>3, <1>4, <1>5 DEF Next

(* The strengthened invariant of the queue: the mutex, the condition variable, *)
(* the nodes in hand, the chain and its pointers, and the connections.       *)
THEOREM Invariance == Spec => []IInv
BY InitInv, StepInv, PTL DEF Spec

(* Every variable keeps its type.                                            *)
THEOREM TypeCorrect == Spec => []TypeOK
BY Invariance, PTL DEF IInv

(* With the mutex free, no thread is between link and head, or between       *)
(* unlink and tail, so the pointers are in step with the chain.              *)
THEOREM ListCorrect == Spec => []ListSpellsQueue
<1>1. IInv => ListSpellsQueue
  <2> SUFFICES ASSUME IInv, mutex = NULL PROVE ListSpellsQueue
    BY DEF ListSpellsQueue
  <2>1. pc[Main] # "push_head" /\ \A w \in Workers : pc[w] # "tail"
    BY QueueAssumption DEF IInv, MutexInv
  <2> QED  BY <2>1 DEF IInv, HeadInv, TailInv, NextInv, ListSpellsQueue
<1> QED  BY <1>1, Invariance, PTL

(* The ends of the list are nodes of the chain, which are all allocated.     *)
THEOREM PointersLive == Spec => []NoDanglingPointer
<1>1. IInv => NoDanglingPointer
  <2> SUFFICES ASSUME IInv PROVE NoDanglingPointer
    OBVIOUS
  <2>1. ASSUME mutex = NULL PROVE {head, tail} \subseteq live \cup {NULL}
    <3>1. pc[Main] # "push_head" /\ \A w \in Workers : pc[w] # "tail"
      BY <2>1, QueueAssumption DEF IInv, MutexInv
    <3>2. CASE chain = <<>>
      BY <3>1, <3>2 DEF IInv, HeadInv, TailInv
    <3>3. CASE chain # <<>>
      <4>1. 1 \in 1..Len(chain) /\ Len(chain) \in 1..Len(chain)
        BY <3>3, EmptySeq DEF IInv, TypeOK
      <4> QED  BY <3>1, <3>3, <4>1 DEF IInv, HeadInv, TailInv, ChainInv
    <3> QED  BY <3>2, <3>3
  <2> QED  BY <2>1 DEF IInv, HeldInv, NoDanglingPointer
<1> QED  BY <1>1, Invariance, PTL

(* The queue is consistent at all times: the three theorems above, together. *)
THEOREM AlwaysConsistent == Spec => []Consistent
BY TypeCorrect, ListCorrect, PointersLive, PTL DEF Consistent

(* No connection is queued twice, served twice, or queued and served.        *)
THEOREM SingleOwner == Spec => []OneOwner
BY Invariance, PTL DEF IInv, ClientInv

(* The queue is never non-empty with every worker asleep and no signal to    *)
(* come.                                                                     *)
THEOREM WakeupKept == Spec => []NoLostWakeup
BY Invariance, PTL DEF IInv

-----------------------------------------------------------------------------
(* The refinement mapping of TaskFifo.                                       *)
Pending == [i \in 1..Len(chain) |-> task[chain[i]].client]
Current == [w \in Workers |-> IF held[w] # NULL THEN task[held[w]].client
                                                ELSE serving[w]]

(* A step that keeps the chain, the nodes' connections and what each worker  *)
(* has is a stutter of TaskFifo.                                             *)
LEMMA StutterKeepsFifo ==
  ASSUME IInv, chain' = chain, task' = task, held' = held, serving' = serving
  PROVE  Pending' = Pending /\ Current' = Current
BY DEF Pending, Current

(* A node taken from the heap changes nothing a client of the queue can see. *)
LEMMA AllocIsStutter ==
  ASSUME IInv, NEW c \in Clients, PushAlloc(c)
  PROVE  Pending' = Pending /\ Current' = Current
<1> USE QueueAssumption DEF IInv, TypeOK, Threads
<1>1. PICK t \in Tasks \ live :
        /\ task' = [task EXCEPT ![t] = [client |-> c, next |-> NULL]]
        /\ held' = [held EXCEPT ![Main] = t]
  BY DEF PushAlloc
<1>2. chain' = chain /\ serving' = serving
  BY DEF PushAlloc
<1>3. \A i \in 1..Len(chain) : task'[chain[i]] = task[chain[i]]
  BY <1>1 DEF ChainInv
<1>4. \A w \in Workers : /\ held'[w] = held[w]
                         /\ held[w] # NULL =>
                              task'[held[w]].client = task[held[w]].client
  <2> SUFFICES ASSUME NEW w \in Workers
               PROVE  /\ held'[w] = held[w]
                      /\ held[w] # NULL => task'[held[w]] = task[held[w]]
    OBVIOUS
  <2> QED  BY <1>1 DEF HeldInv
<1>5. Pending' = Pending
  BY <1>2, <1>3 DEF Pending
<1>6. Current' = Current
  <2> SUFFICES ASSUME NEW w \in Workers
               PROVE  (IF held'[w] # NULL THEN task'[held'[w]].client
                                          ELSE serving'[w])
                      = IF held[w] # NULL THEN task[held[w]].client
                                          ELSE serving[w]
    BY DEF Current
  <2>1. held'[w] = held[w] /\ serving'[w] = serving[w]
    BY <1>2, <1>4
  <2>2. CASE held[w] = NULL
    BY <2>1, <2>2
  <2>3. CASE held[w] # NULL
    BY <2>1, <2>3, <1>4
  <2> QED  BY <2>2, <2>3
<1> QED  BY <1>5, <1>6

(* Linking the node hands its connection over: it stands nowhere yet.        *)
LEMMA LinkIsSubmit ==
  ASSUME IInv, PushLink
  PROVE  \E c \in Clients : Fifo!Submit(c)
<1> DEFINE c == task[held[Main]].client
<1> USE QueueAssumption DEF IInv, TypeOK, Threads
<1>1. held[Main] \in live /\ c \in Clients /\ pc[Main] = "push_link"
  BY DEF PushLink, HeldInv, ClientInv
<1>2. \A u \in live : u # held[Main] => task[u].client # c
  BY <1>1 DEF ClientInv, OneOwner
<1>3. \A i \in 1..Len(chain) : Pending[i] # c
  BY <1>1, <1>2 DEF Pending, ChainInv
<1>4. \A w \in Workers : Current[w] # c
  BY <1>1, <1>2 DEF Current, HeldInv, ClientInv, OneOwner
<1>5. \A u \in Tasks : task'[u].client = task[u].client
  BY <1>1 DEF PushLink
<1>6. Pending' = Append(Pending, c)
  <2>1. Pending \in Seq(Clients) /\ Len(Pending) = Len(chain)
    BY DEF Pending, ChainInv, ClientInv
  <2>2. chain' = Append(chain, held[Main])
    BY DEF PushLink
  <2>3. Len(chain') = Len(chain) + 1
    BY <1>1, <2>2
  <2>4. \A i \in 1..Len(chain) : chain'[i] = chain[i]
    BY <1>1, <2>2
  <2>5. chain'[Len(chain) + 1] = held[Main]
    BY <1>1, <2>2
  <2>6. Pending' \in Seq(Clients) /\ Len(Pending') = Len(chain) + 1
    BY <2>3, PushLinkInv DEF Pending, ChainInv, ClientInv
  <2>7. \A i \in 1..Len(chain) : Pending'[i] = Pending[i]
    BY <1>5, <2>3, <2>4 DEF Pending
  <2>8. Pending'[Len(chain) + 1] = c
    BY <1>1, <1>5, <2>3, <2>5 DEF Pending
  <2> QED
    BY <1>1, <2>1, <2>6, <2>7, <2>8
<1>7. Current' = Current
  BY <1>5 DEF Current, PushLink
<1>8. Len(Pending) = Len(chain)
  BY DEF Pending
<1>9. Fifo!Submit(c)
  BY <1>3, <1>4, <1>6, <1>7, <1>8 DEF Fifo!Submit, Fifo!Idle, Pending, Current
<1>10. c \in Clients
  BY <1>1
<1> HIDE DEF c
<1> QED  BY <1>9, <1>10 DEF Fifo!Submit, Fifo!Idle

(* Unlinking the first node starts its connection.                           *)
LEMMA TakeIsStart ==
  ASSUME IInv, NEW w \in Workers, PopTake(w)
  PROVE  Fifo!Start(w)
<1> USE QueueAssumption DEF IInv, TypeOK, Threads
<1>1. /\ chain # <<>> /\ head = chain[1] /\ 1 \in 1..Len(chain)
      /\ Len(chain) \in Nat
  BY EmptySeq DEF PopTake, MutexInv, HeadInv
<1>2. held[w] = NULL /\ serving[w] = NULL
  BY DEF PopTake, HeldInv, ClientInv
<1>3. chain[1] \in Tasks /\ chain[1] # NULL
  BY <1>1
<1>4. Current[w] = NULL
  BY <1>2 DEF Current
<1>5. Current' = [Current EXCEPT ![w] = task[chain[1]].client]
  BY <1>1, <1>2, <1>3 DEF Current, PopTake
<1>6. Pending \in Seq(Clients) /\ Len(Pending) = Len(chain)
  BY DEF Pending, ChainInv, ClientInv
<1>7. Pending # <<>> /\ Head(Pending) = task[chain[1]].client
  <2>1. Pending[1] = task[chain[1]].client
    BY <1>1 DEF Pending
  <2> QED  BY <2>1, <1>1, <1>6, EmptySeq
<1>8. Pending' = Tail(Pending)
  <2>1. /\ Len(chain') = Len(chain) - 1
        /\ \A i \in 1..Len(chain') : chain'[i] = chain[i + 1]
    BY <1>1, HeadTailProperties DEF PopTake
  <2>2. /\ Tail(Pending) \in Seq(Clients)
        /\ Len(Tail(Pending)) = Len(Pending) - 1
        /\ \A i \in 1..Len(Tail(Pending)) : Tail(Pending)[i] = Pending[i + 1]
    BY <1>6, <1>7, HeadTailProperties
  <2>3. task' = task
    BY DEF PopTake
  <2>4. Pending' \in Seq(Clients) /\ Len(Pending') = Len(chain')
    BY PopTakeInv DEF Pending, ChainInv, ClientInv
  <2>5. \A i \in 1..Len(Pending') : Pending'[i] = Pending[i + 1]
    BY <1>1, <2>1, <2>3, <2>4 DEF Pending
  <2> QED  BY <1>6, <2>1, <2>2, <2>4, <2>5, SeqEqual, SMTT(30)
<1> QED  BY <1>4, <1>5, <1>7, <1>8 DEF Fifo!Start, Pending, Current

(* Freeing the node moves its connection from held to serving: a stutter.    *)
LEMMA ReturnIsStutter ==
  ASSUME IInv, NEW w \in Workers, PopReturn(w)
  PROVE  Pending' = Pending /\ Current' = Current
<1> USE QueueAssumption DEF IInv, TypeOK, Threads, PopReturn, list
<1>1. held[w] # NULL
  BY DEF HeldInv
<1>2. Pending' = Pending
  BY DEF Pending
<1>3. Current' = Current
  BY <1>1 DEF Current
<1> QED  BY <1>2, <1>3

(* handle_client_request ends: the worker's connection is finished.          *)
LEMMA WorkIsFinish ==
  ASSUME IInv, NEW w \in Workers, HandleWork(w)
  PROVE  Fifo!Finish(w)
<1> USE QueueAssumption DEF IInv, TypeOK, Threads, HandleWork, list
<1>1. held[w] = NULL /\ serving[w] # NULL
  BY DEF HeldInv, ClientInv
<1>2. Current[w] # NULL
  BY <1>1 DEF Current
<1>3. Current' = [Current EXCEPT ![w] = NULL]
  BY <1>1 DEF Current
<1>4. Pending' = Pending
  BY DEF Pending
<1> QED  BY <1>2, <1>3, <1>4 DEF Fifo!Finish, Pending, Current

(* The linked list, its mutex and its condition variable implement the       *)
(* first-in first-out hand-off of TaskFifo.                                  *)
THEOREM Refinement == Spec => ImplementsFifo
<1>1. Init => Fifo!Init
  BY QueueAssumption DEF Init, Fifo!Init, Threads
<1>2. IInv /\ [Next]_vars => [Fifo!Next]_(Fifo!vars)
  <2> SUFFICES ASSUME IInv, [Next]_vars PROVE [Fifo!Next]_(Fifo!vars)
    OBVIOUS
  <2> USE DEF Fifo!Next, Fifo!vars
  <2>1. ASSUME Pending' = Pending, Current' = Current
        PROVE  [Fifo!Next]_(Fifo!vars)
    BY <2>1 DEF Pending, Current
  <2>2. CASE \E c \in Clients : PushAlloc(c)
    BY <2>1, <2>2, AllocIsStutter
  <2>3. CASE PushLink
    BY <2>3, LinkIsSubmit
  <2>4. CASE PushLock \/ PushHead \/ PushUnlock \/ PushSignal
    <3>1. \A w \in Workers : held'[w] = held[w]
      BY <2>4, QueueAssumption
      DEF PushLock, PushHead, PushUnlock, PushSignal, IInv, TypeOK, Threads, list
    <3>2. chain' = chain /\ task' = task /\ serving' = serving
      BY <2>4 DEF PushLock, PushHead, PushUnlock, PushSignal, list
    <3> QED  BY <2>1, <3>1, <3>2 DEF Pending, Current
  <2>5. ASSUME NEW w \in Workers,
               \/ PopLock(w) \/ PopWait(w) \/ SpuriousWakeup(w)
               \/ PopTail(w) \/ PopUnlock(w)
        PROVE  [Fifo!Next]_(Fifo!vars)
    BY <2>1, <2>5, StutterKeepsFifo
    DEF PopLock, PopWait, SpuriousWakeup, PopTail, PopUnlock, list
  <2>6. ASSUME NEW w \in Workers, PopTake(w)
        PROVE  [Fifo!Next]_(Fifo!vars)
    BY <2>6, TakeIsStart
  <2>7. ASSUME NEW w \in Workers, PopReturn(w)
        PROVE  [Fifo!Next]_(Fifo!vars)
    BY <2>1, <2>7, ReturnIsStutter
  <2>8. ASSUME NEW w \in Workers, HandleWork(w)
        PROVE  [Fifo!Next]_(Fifo!vars)
    BY <2>8, WorkIsFinish
  <2>9. CASE UNCHANGED vars
    BY <2>1, <2>9, StutterKeepsFifo DEF vars
  <2> QED
    BY <2>2, <2>3, <2>4, <2>5, <2>6, <2>7, <2>8, <2>9 DEF Next, Push, Pop
<1> QED  BY <1>1, <1>2, Invariance, PTL DEF Spec, ImplementsFifo, Fifo!Spec

=============================================================================
