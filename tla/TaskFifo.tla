------------------------------ MODULE TaskFifo ------------------------------
(***************************************************************************)
(* What the hand-off between the epoll thread and the worker pool          *)
(* promises, without its linked list, its mutex or its condition variable: *)
(* a first-in first-out line of connections whose request is complete.     *)
(* A connection stands in the line at most once, and it is handed to one   *)
(* worker only, which has it to itself until handle_work returns.          *)
(***************************************************************************)
EXTENDS Sequences, Naturals

CONSTANTS Clients,  \* the connections (ClientState records)
          Workers,  \* the worker threads
          NULL      \* the null pointer

VARIABLES pending,  \* the connections handed over, oldest first
          current   \* the connection each worker is working on, or NULL

vars == <<pending, current>>

Init == /\ pending = <<>>
        /\ current = [w \in Workers |-> NULL]

(* Neither in the line nor with a worker. *)
Idle(c) == /\ \A i \in 1..Len(pending) : pending[i] # c
           /\ \A w \in Workers : current[w] # c

Submit(c) == /\ Idle(c)
             /\ pending' = Append(pending, c)
             /\ UNCHANGED current

(* The line is served in order: a worker can only start on its first entry. *)
Start(w) == /\ current[w] = NULL
            /\ pending # <<>>
            /\ current' = [current EXCEPT ![w] = Head(pending)]
            /\ pending' = Tail(pending)

Finish(w) == /\ current[w] # NULL
             /\ current' = [current EXCEPT ![w] = NULL]
             /\ UNCHANGED pending

Next == \/ \E c \in Clients : Submit(c)
        \/ \E w \in Workers : Start(w) \/ Finish(w)

Spec == Init /\ [][Next]_vars

=============================================================================
