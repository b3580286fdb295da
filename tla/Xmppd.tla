-------------------------------- MODULE Xmppd --------------------------------
(***************************************************************************)
(* The chat server (xmppd.c): one thread, one epoll loop.  Each connection *)
(* has a Client record in the table clients[], at the slot its descriptor  *)
(* falls on modulo the size of the table; the rooms that anybody ever      *)
(* joined are in known_rooms.                                              *)
(*                                                                         *)
(* What matters to the users is what they have been told: the last room    *)
(* list, with its head counts, and who is in their room.  Both are         *)
(* auxiliary variables here, written where the server sends.               *)
(***************************************************************************)
EXTENDS XmppProtocol, Naturals, FiniteSets

CONSTANTS Fds,       \* the descriptors accept can return
          MaxEvents, \* MAX_EVENTS: the size of clients[]
          Lobby,     \* "", the room of a client that has joined none
          MaxRooms,  \* MAX_ROOMS
          Backlog,   \* bound: connections waiting to be accepted
          Coalesced, \* bound: different marks in one buffer
          NULL

ASSUME XmppdAssumption ==
  /\ Fds \subseteq Nat /\ IsFiniteSet(Fds)
  /\ MaxEvents \in Nat \ {0}
  /\ MaxRooms \in Nat
  /\ Backlog \in Nat /\ Coalesced \in Nat
  /\ Lobby \notin Rooms /\ IsFiniteSet(Rooms)

Slots    == 0..MaxEvents - 1
SlotOf(f) == f % MaxEvents
Places   == Rooms \cup {Lobby}
Buffers  == {b \in SUBSET Marks : Cardinality(b) <= Coalesced}

VARIABLES
  open,     \* the descriptors that are open
  clients,  \* the table of Client records: descriptor, state and room
  known,    \* known_rooms
  backlog,  \* connections that the kernel has completed
  edge,     \* epoll will report the listener
  view,     \* auxiliary: the last room list sent to each connection
  roster,   \* auxiliary: the members, with their room, that each connection
            \* has been told of since they entered
  passed    \* auxiliary: the stages of the login that each connection's own
            \* bytes have asked for

vars == <<open, clients, known, backlog, edge, view, roster, passed>>

Records == [fd : Fds, state : {ConnStates[i] : i \in 1..5}, room : Places]

TableTypes ==
  /\ open \in SUBSET Fds
  /\ clients \in [Slots -> Records \cup {NULL}]
  /\ known \in SUBSET Places
  /\ Cardinality(known) <= MaxRooms
  /\ backlog \in 0..Backlog
  /\ edge \in BOOLEAN

ToldTypes ==
  /\ view \in [Fds -> [Places -> Nat \cup {NULL}]]
  /\ roster \in [Fds -> SUBSET (Places \X Fds)]
  /\ passed \in [Fds -> SUBSET {"open", "auth", "restart", "bind"}]

TypeOK == TableTypes /\ ToldTypes

NoList == [r \in Places |-> NULL]

(* load_persistent_rooms: the file may name rooms, never the empty one.      *)
Init ==
  /\ open = {}
  /\ clients = [i \in Slots |-> NULL]
  /\ known \in {k \in SUBSET Rooms : Cardinality(k) <= MaxRooms}
  /\ backlog = 0
  /\ edge = FALSE
  /\ view = [f \in Fds |-> NoList]
  /\ roster = [f \in Fds |-> {}]
  /\ passed = [f \in Fds |-> {}]

-----------------------------------------------------------------------------
BoundIn(table) == {i \in Slots : table[i] # NULL /\ table[i].state = "BOUND"}

(* get_users_in_room. *)
UsersInRoom(table, r) == Cardinality({i \in BoundIn(table) : table[i].room = r})

(* The head counts of broadcast_room_list. *)
RoomList(table, rooms) ==
  [r \in Places |-> IF r \in rooms THEN UsersInRoom(table, r) ELSE NULL]

(* broadcast_room_list(-1): to everybody who is bound. *)
BroadcastRoomList(table, rooms) ==
  LET told == {table[i].fd : i \in BoundIn(table)}
  IN  view' = [f \in Fds |-> IF f \in told THEN RoomList(table, rooms) ELSE view[f]]

(* Mutant: a room that nobody joined before is not remembered.               *)
AddRoomNot(r) == r \in Places /\ UNCHANGED known

(* add_room_to_memory: a full table drops the room. *)
AddRoom(r) == known' = IF Cardinality(known) < MaxRooms THEN known \cup {r} ELSE known

(* Nobody has been told of f any more: it left. *)
Forget(f) == [g \in Fds |-> {p \in roster[g] : p[2] # f}]

-----------------------------------------------------------------------------
(* A connection comes in.  The listener is edge-triggered: this is the only  *)
(* thing that makes epoll report it.                                         *)
Connect ==
  /\ backlog < Backlog
  /\ backlog' = backlog + 1
  /\ edge' = TRUE
  /\ UNCHANGED <<open, clients, known, view, roster, passed>>

(* One accept per report, so that the backlog may keep what came in at the   *)
(* same time.  The new record takes the slot, whoever had it.                *)
Accept(f) ==
  /\ edge /\ backlog > 0
  /\ f \notin open
  /\ open' = open \cup {f}
  /\ clients' = [clients EXCEPT ![SlotOf(f)] =
                   [fd |-> f, state |-> "CONNECTED", room |-> Lobby]]
  /\ backlog' = backlog - 1
  /\ edge' = FALSE
  /\ UNCHANGED <<known, view, roster, passed>>

(* Mutant: the others are not told when somebody leaves.                     *)
DisconnectQuietly(f) ==
  /\ f \in open
  /\ open' = open \ {f}
  /\ clients' = [clients EXCEPT ![SlotOf(f)] = NULL]
  /\ view' = [view EXCEPT ![f] = NoList]
  /\ roster' = [Forget(f) EXCEPT ![f] = {}]
  /\ passed' = [passed EXCEPT ![f] = {}]
  /\ UNCHANGED <<known, backlog, edge>>

(* Mutant: the record is left in the table.                                  *)
DisconnectKeepsRecord(f) ==
  /\ f \in open
  /\ open' = open \ {f}
  /\ view' = [view EXCEPT ![f] = NoList]
  /\ roster' = [Forget(f) EXCEPT ![f] = {}]
  /\ passed' = [passed EXCEPT ![f] = {}]
  /\ UNCHANGED <<clients, known, backlog, edge>>

(* recv says that the peer is gone, or fails, or returns bytes that cannot   *)
(* be XML: the descriptor is closed, and whatever record its slot holds is   *)
(* freed.                                                                    *)
Disconnect(f) ==
  /\ f \in open
  /\ open' = open \ {f}
  /\ LET table == [clients EXCEPT ![SlotOf(f)] = NULL]
         rest  == {table[i].fd : i \in BoundIn(table)}
     IN  /\ clients' = table
         /\ view' = [g \in Fds |->
                       IF g = f THEN NoList
                       ELSE IF clients[SlotOf(f)] # NULL /\ g \in rest
                       THEN RoomList(table, known) ELSE view[g]]
  /\ roster' = [Forget(f) EXCEPT ![f] = {}]
  /\ passed' = [passed EXCEPT ![f] = {}]
  /\ UNCHANGED <<known, backlog, edge>>

-----------------------------------------------------------------------------
(* handle_client_message, for the record in the slot of the descriptor that  *)
(* the bytes came in on.                                                     *)

Handles(f, buffer, reaction) ==
  /\ f \in open
  /\ clients[SlotOf(f)] # NULL
  /\ Reaction(clients[SlotOf(f)].state, buffer) = reaction

(* The stream header, the SASL success and the second stream header. *)
Negotiate(f, buffer) ==
  \E reaction \in {"open", "auth", "restart"} :
    /\ Handles(f, buffer, reaction)
    /\ clients' = [clients EXCEPT ![SlotOf(f)].state = NextState(@, reaction)]
    /\ passed' = [passed EXCEPT ![f] = @ \cup {reaction}]
    /\ UNCHANGED <<open, known, backlog, edge, view, roster>>

(* handle_bind_request, then the room list to this client alone. *)
Bind(f, buffer) ==
  /\ Handles(f, buffer, "bind")
  /\ LET table == [clients EXCEPT ![SlotOf(f)].state = "BOUND"]
     IN  /\ clients' = table
         /\ view' = [view EXCEPT ![table[SlotOf(f)].fd] = RoomList(table, known)]
  /\ passed' = [passed EXCEPT ![f] = @ \cup {"bind"}]
  /\ UNCHANGED <<open, known, backlog, edge, roster>>

(* Mutant: the members that were there first are not presented to a joiner.  *)
JoinHalf(f, buffer, r) ==
  /\ Handles(f, buffer, "join")
  /\ AddRoom(r)
  /\ LET table == [clients EXCEPT ![SlotOf(f)].room = r]
         c     == table[SlotOf(f)].fd
         crew  == {table[i].fd : i \in {j \in BoundIn(table) : table[j].room = r}}
     IN  /\ clients' = table
         /\ roster' = [g \in Fds |-> IF g \in crew THEN Forget(c)[g] \cup {<<r, c>>}
                                                   ELSE Forget(c)[g]]
         /\ BroadcastRoomList(table, known')
  /\ UNCHANGED <<open, backlog, edge, passed>>

(* handle_muc_join, then the room list to everybody.  The joiner is presented *)
(* to the members of the room, itself among them, and they to the joiner.    *)
Join(f, buffer, r) ==
  /\ Handles(f, buffer, "join")
  /\ AddRoom(r)
  /\ LET table == [clients EXCEPT ![SlotOf(f)].room = r]
         c     == table[SlotOf(f)].fd
         crew  == {table[i].fd : i \in {j \in BoundIn(table) : table[j].room = r}}
     IN  /\ clients' = table
         /\ roster' = [g \in Fds |->
                         IF g = c THEN Forget(c)[g] \cup {<<r, m>> : m \in crew}
                         ELSE IF g \in crew THEN Forget(c)[g] \cup {<<r, c>>}
                         ELSE Forget(c)[g]]
         /\ BroadcastRoomList(table, known')
  /\ UNCHANGED <<open, backlog, edge, passed>>

(* The replies to <session> and to a disco query, the forwarding of a        *)
(* message, and what is ignored: nothing that the server keeps changes.      *)
Reply(f, buffer) ==
  /\ \E reaction \in {"session", "disco", "message", "ignore"} :
       Handles(f, buffer, reaction)
  /\ UNCHANGED vars

Next ==
  \/ Connect
  \/ \E f \in Fds :
       \/ Accept(f)
       \/ Disconnect(f)
       \/ \E buffer \in Buffers :
            \/ Negotiate(f, buffer) \/ Bind(f, buffer) \/ Reply(f, buffer)
            \/ \E r \in Places : Join(f, buffer, r)

Spec == Init /\ [][Next]_vars

-----------------------------------------------------------------------------
(* A record in the table belongs to an open connection, also when two        *)
(* descriptors fall on the same slot: the server never sends on a descriptor *)
(* that it has closed and that may be somebody else's by now.                *)
RecordsAreOpen ==
  \A i \in Slots : clients[i] # NULL => clients[i].fd \in open

(* The two, as one invariant. *)
Consistent == TypeOK /\ RecordsAreOpen

(* Whatever the sends of a connection are cut or joined into, it is bound    *)
(* only after it has itself asked for every stage: nobody enters a room      *)
(* without having authenticated, and no connection inherits the stage of one *)
(* that had its descriptor before.                                           *)
NobodySkipsAuth ==
  \A i \in BoundIn(clients) :
    passed[clients[i].fd] = {"open", "auth", "restart", "bind"}

(* Whatever happened last, a join, a change of room, a hang-up or a bad      *)
(* stanza, the head counts that each bound client was last sent are the      *)
(* right ones.  (A room named "" counts those who joined none, and nobody is *)
(* told when a client binds.)                                                *)
RoomListsFresh ==
  \A i \in BoundIn(clients) : \A r \in known \ {Lobby} :
    view[clients[i].fd][r] = UsersInRoom(clients, r)

(* Two members of a room have been told of each other, in whichever order    *)
(* they came, and again after one of them left and came back.                *)
RosterComplete ==
  \A i, j \in BoundIn(clients) :
    LET a == clients[i] b == clients[j]
    IN  a.room = b.room /\ a.room # Lobby => <<b.room, b.fd>> \in roster[a.fd]

(* Every room with somebody in it is on the room list, unless the table of   *)
(* rooms is full.                                                            *)
RoomsListed ==
  \A i \in BoundIn(clients) :
    \/ clients[i].room \in known \cup {Lobby}
    \/ Cardinality(known) = MaxRooms

=============================================================================
