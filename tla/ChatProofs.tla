----------------------------- MODULE ChatProofs ------------------------------
(***************************************************************************)
(* Proofs about the chat: the server (Xmppd) and the login of the web page *)
(* (ChatLogin).                                                            *)
(*                                                                         *)
(* Xmppd, for any table, any number of connections and rooms.              *)
(* The table of Client records is indexed by the descriptor modulo its     *)
(* size, so that two connections may share a slot: the one that comes      *)
(* later takes it.  What is proved without a hypothesis holds then, too;   *)
(* what the login promises, and that the head counts are right, is proved  *)
(* for connections that have a slot each.                                  *)
(*                                                                         *)
(* ChatLogin, for any rooms and any number of joins and broken             *)
(* connections: at most one stanza, or one text, of the login is on its    *)
(* way, and the stages of the two ends say which.                          *)
(***************************************************************************)
EXTENDS Xmppd, ChatLogin, FiniteSetTheorems, SequenceTheorems, Induction

(* No two descriptors fall on one slot. *)
OwnSlots == \A f, g \in Fds : SlotOf(f) = SlotOf(g) => f = g

States == {"CONNECTED", "STREAM_OPEN", "AUTHENTICATED", "NEGOTIATING", "BOUND"}

(* The stages that a connection in this state has passed.                    *)
Stages(stage) ==
  CASE stage = "CONNECTED"     -> {}
    [] stage = "STREAM_OPEN"   -> {"open"}
    [] stage = "AUTHENTICATED" -> {"open", "auth"}
    [] stage = "NEGOTIATING"   -> {"open", "auth", "restart"}
    [] OTHER                   -> {"open", "auth", "restart", "bind"}

(* A record is that of an open connection, in the slot of its descriptor,    *)
(* and the connection is in no room before it is bound.                      *)
TableInv ==
  /\ IsFiniteSet(known)
  /\ \A i \in Slots : clients[i] # NULL =>
       /\ clients[i].fd \in open /\ SlotOf(clients[i].fd) = i
       /\ clients[i].state # "BOUND" => clients[i].room = Lobby

IInv == TypeOK /\ TableInv /\ RosterComplete /\ RoomsListed

(* A descriptor that is not open has passed nothing; a connection, what its  *)
(* state says.                                                               *)
LoginInv ==
  /\ \A f \in Fds \ open : passed[f] = {}
  /\ \A i \in Slots : clients[i] # NULL => passed[clients[i].fd] = Stages(clients[i].state)

-----------------------------------------------------------------------------
(* The table. *)

(* The constants, as the steps need them. *)
LEMMA Constants ==
  /\ MaxEvents \in Nat \ {0} /\ MaxRooms \in Nat /\ Backlog \in Nat
  /\ IsFiniteSet(Places) /\ IsFiniteSet(Slots) /\ Rooms \subseteq Places /\ Lobby \in Places
  /\ \A f \in Fds : SlotOf(f) \in Slots
  /\ {ConnStates[i] : i \in 1..5} = States
<1>1. MaxEvents \in Nat \ {0} /\ MaxRooms \in Nat /\ Backlog \in Nat /\ IsFiniteSet(Rooms) /\ Fds \subseteq Nat
  BY XmppdAssumption
<1>2. IsFiniteSet(Places) /\ Rooms \subseteq Places /\ Lobby \in Places
  BY <1>1, FS_AddElement DEF Places
<1>3. IsFiniteSet(Slots)
  BY <1>1, FS_Interval DEF Slots
<1>4. ASSUME NEW f \in Fds PROVE SlotOf(f) \in Slots
  BY <1>1 DEF SlotOf, Slots
<1>5. {ConnStates[i] : i \in 1..5} = States
  <2>1. 1..5 = {1, 2, 3, 4, 5}
    OBVIOUS
  <2>2. /\ ConnStates[1] = "CONNECTED" /\ ConnStates[2] = "STREAM_OPEN" /\ ConnStates[3] = "AUTHENTICATED"
        /\ ConnStates[4] = "NEGOTIATING" /\ ConnStates[5] = "BOUND"
    BY DEF ConnStates
  <2> QED  BY <2>1, <2>2 DEF States
<1> QED  BY <1>1, <1>2, <1>3, <1>4, <1>5

(* A head count is a number. *)
LEMMA Counted ==
  ASSUME NEW table, NEW r
  PROVE  UsersInRoom(table, r) \in Nat
<1>1. {i \in BoundIn(table) : table[i].room = r} \in SUBSET Slots
  BY DEF BoundIn
<1> QED  BY <1>1, Constants, FS_Subset, FS_CardinalityType DEF UsersInRoom

(* A room list has a head count for each room it names.                      *)
LEMMA Listed ==
  ASSUME NEW table, NEW rooms
  PROVE  /\ RoomList(table, rooms) \in [Places -> Nat \cup {NULL}]
         /\ \A r \in Places \cap rooms : RoomList(table, rooms)[r] = UsersInRoom(table, r)
BY Counted DEF RoomList

(* Each mark is looked at in its own state. *)
LEMMA Reacts ==
  ASSUME NEW s, NEW buffer, NEW reaction, Reaction(s, buffer) = reaction
  PROVE  /\ reaction = "open" => s = "CONNECTED" /\ NextState(s, reaction) = "STREAM_OPEN"
         /\ reaction = "auth" => s = "STREAM_OPEN" /\ NextState(s, reaction) = "AUTHENTICATED"
         /\ reaction = "restart" => s = "AUTHENTICATED" /\ NextState(s, reaction) = "NEGOTIATING"
         /\ reaction = "bind" => s = "NEGOTIATING"
         /\ reaction = "join" => s = "BOUND"
BY DEF Reaction, NextState

(* The rooms never become more than the table holds.                         *)
LEMMA RoomAdded ==
  ASSUME IInv, NEW r \in Places, AddRoom(r)
  PROVE  /\ IsFiniteSet(known') /\ known' \subseteq Places
         /\ Cardinality(known') <= MaxRooms
         /\ known \subseteq known'
         /\ r \in known' \/ Cardinality(known') = MaxRooms
         /\ Cardinality(known) = MaxRooms => Cardinality(known') = MaxRooms
<1>1. IsFiniteSet(known) /\ known \subseteq Places /\ Cardinality(known) <= MaxRooms
      /\ Cardinality(known) \in Nat /\ MaxRooms \in Nat
  BY Constants, FS_CardinalityType DEF IInv, TableInv, TypeOK, TableTypes
<1>2. IsFiniteSet(known \cup {r})
      /\ Cardinality(known \cup {r}) = IF r \in known THEN Cardinality(known) ELSE Cardinality(known) + 1
  BY <1>1, FS_AddElement
<1>3. CASE Cardinality(known) < MaxRooms
  <2>1. known' = known \cup {r}
    BY <1>3 DEF AddRoom
  <2>2. Cardinality(known \cup {r}) <= MaxRooms
    BY <1>1, <1>2, <1>3
  <2> QED  BY <1>1, <1>2, <1>3, <2>1, <2>2
<1>4. CASE ~(Cardinality(known) < MaxRooms)
  <2>1. known' = known /\ Cardinality(known) = MaxRooms
    BY <1>1, <1>4 DEF AddRoom
  <2> QED  BY <1>1, <2>1
<1> QED  BY <1>3, <1>4

(* At the start nobody is connected.                                         *)
LEMMA InitInv == Init => IInv /\ LoginInv /\ RoomListsFresh
<1> SUFFICES ASSUME Init PROVE IInv /\ LoginInv /\ RoomListsFresh
  OBVIOUS
<1>1. known \in SUBSET Rooms /\ Cardinality(known) <= MaxRooms
  BY DEF Init
<1>7. IsFiniteSet(known) /\ known \in SUBSET Places
  BY <1>1, Constants, FS_Subset
<1>2. TableTypes
  <2>1. edge \in BOOLEAN
    BY Zenon DEF Init
  <2>2. open = {} /\ clients = [i \in Slots |-> NULL] /\ backlog = 0
    BY DEF Init
  <2> QED  BY <1>1, <1>7, <2>1, <2>2, Constants DEF TableTypes
<1>6. ToldTypes
  <2>1. NoList \in [Places -> Nat \cup {NULL}]
    BY DEF NoList
  <2> QED  BY <2>1 DEF Init, ToldTypes
<1>3. \A i \in Slots : clients[i] = NULL
  BY DEF Init
<1>4. TableInv /\ RosterComplete /\ RoomsListed /\ RoomListsFresh
  BY <1>3, <1>7 DEF TableInv, RosterComplete, RoomsListed, RoomListsFresh, BoundIn
<1>5. LoginInv
  BY <1>3 DEF Init, LoginInv
<1> QED  BY <1>2, <1>4, <1>5, <1>6 DEF IInv, TypeOK

(* The record that a step works on.                                          *)
LEMMA Worked ==
  ASSUME IInv, NEW f \in Fds, clients[SlotOf(f)] # NULL
  PROVE  /\ clients[SlotOf(f)] \in Records /\ SlotOf(f) \in Slots
         /\ clients[SlotOf(f)].fd \in open /\ clients[SlotOf(f)].fd \in Fds
         /\ SlotOf(clients[SlotOf(f)].fd) = SlotOf(f)
         /\ clients[SlotOf(f)].state # "BOUND" => clients[SlotOf(f)].room = Lobby
         /\ OwnSlots => clients[SlotOf(f)].fd = f
<1>1. SlotOf(f) \in Slots
  BY Constants
<1>2. clients[SlotOf(f)] \in Records
  BY <1>1 DEF IInv, TypeOK, TableTypes
<1>3. clients[SlotOf(f)].fd \in Fds
  BY <1>2 DEF Records
<1> QED  BY <1>1, <1>2, <1>3 DEF IInv, TableInv, OwnSlots

-----------------------------------------------------------------------------
(* The table and the rooms keep their types.                                 *)
LEMMA TableTyped ==
  ASSUME IInv, [Next]_vars
  PROVE  TableTypes' /\ TableInv'
<1>8. edge' \in BOOLEAN
  <2>1. edge \in BOOLEAN
    BY DEF IInv, TypeOK, TableTypes
  <2>2. edge' \in {TRUE, FALSE, edge}
    <3>1. CASE Connect \/ UNCHANGED vars
      BY <3>1, Zenon DEF Connect, vars
    <3>2. ASSUME NEW f \in Fds, Accept(f) \/ Disconnect(f) PROVE edge' \in {TRUE, FALSE, edge}
      BY <3>2, Zenon DEF Accept, Disconnect
    <3>3. ASSUME NEW f \in Fds, NEW buffer, Negotiate(f, buffer) \/ Bind(f, buffer) \/ Reply(f, buffer)
          PROVE  edge' \in {TRUE, FALSE, edge}
      BY <3>3, Zenon DEF Negotiate, Bind, Reply, vars
    <3>4. ASSUME NEW f \in Fds, NEW buffer, NEW r \in Places, Join(f, buffer, r)
          PROVE  edge' \in {TRUE, FALSE, edge}
      BY <3>4, Zenon DEF Join
    <3> QED  BY <3>1, <3>2, <3>3, <3>4, Zenon DEF Next
  <2> QED  BY <2>1, <2>2, Zenon
<1> USE Constants, <1>8 DEF IInv, TypeOK, TableTypes, TableInv
<1>1. CASE Connect \/ UNCHANGED vars
  <2>1. CASE Connect
    BY <2>1 DEF Connect
  <2>2. CASE UNCHANGED vars
    BY <2>2 DEF vars
  <2> QED  BY <1>1, <2>1, <2>2
<1>2. ASSUME NEW f \in Fds, Accept(f) PROVE TableTypes' /\ TableInv'
  <2>1. [fd |-> f, state |-> "CONNECTED", room |-> Lobby] \in Records
    BY DEF Records, States
  <2>2. /\ backlog \in 0..Backlog /\ backlog > 0 /\ backlog' = backlog - 1 /\ open' = open \cup {f}
        /\ clients' = [clients EXCEPT ![SlotOf(f)] = [fd |-> f, state |-> "CONNECTED", room |-> Lobby]]
        /\ UNCHANGED known
    BY <1>2, Zenon DEF Accept
  <2> QED  BY <2>1, <2>2
<1>3. ASSUME NEW f \in Fds, Disconnect(f) PROVE TableTypes' /\ TableInv'
  <2>1. /\ open' = open \ {f} /\ clients' = [clients EXCEPT ![SlotOf(f)] = NULL]
        /\ UNCHANGED <<known, backlog, edge>>
    BY <1>3 DEF Disconnect
  <2>2. \A i \in Slots : clients[i] # NULL /\ i # SlotOf(f) => clients[i].fd # f
    OBVIOUS
  <2> QED  BY <2>1, <2>2
<1>4. ASSUME NEW f \in Fds, NEW buffer, Negotiate(f, buffer) PROVE TableTypes' /\ TableInv'
  <2> DEFINE s == SlotOf(f)
  <2>1. PICK reaction \in {"open", "auth", "restart"} :
          Handles(f, buffer, reaction)
          /\ clients' = [clients EXCEPT ![s].state = NextState(@, reaction)]
    BY <1>4 DEF Negotiate
  <2>2. UNCHANGED <<open, known, backlog, edge>> /\ clients[s] # NULL
    BY <1>4 DEF Negotiate, Handles
  <2>3. clients[s] \in Records /\ NextState(clients[s].state, reaction) \in States \ {"BOUND"}
        /\ clients[s].state # "BOUND"
    BY <2>1, <2>2, Worked, Reacts DEF Handles, States
  <2>4. [clients[s] EXCEPT !.state = NextState(@, reaction)] \in Records
    BY <2>3 DEF Records
  <2>5. clients' = [clients EXCEPT ![s] = [clients[s] EXCEPT !.state = NextState(@, reaction)]]
    BY <2>1
  <2> HIDE DEF s
  <2> QED  BY <2>2, <2>3, <2>4, <2>5 DEF Records
<1>5. ASSUME NEW f \in Fds, NEW buffer, Bind(f, buffer) PROVE TableTypes' /\ TableInv'
  <2> DEFINE s == SlotOf(f)
  <2>1. /\ clients' = [clients EXCEPT ![s] = [clients[s] EXCEPT !.state = "BOUND"]]
        /\ UNCHANGED <<open, known, backlog, edge>> /\ clients[s] # NULL
    BY <1>5 DEF Bind, Handles
  <2>2. clients[s] \in Records
    BY <2>1, Worked
  <2>3. [clients[s] EXCEPT !.state = "BOUND"] \in Records
    BY <2>2 DEF Records, States
  <2> HIDE DEF s
  <2> QED  BY <2>1, <2>2, <2>3 DEF Records
<1>6. ASSUME NEW f \in Fds, NEW buffer, NEW r \in Places, Join(f, buffer, r) PROVE TableTypes' /\ TableInv'
  <2> DEFINE s == SlotOf(f)
  <2>1. /\ clients' = [clients EXCEPT ![s] = [clients[s] EXCEPT !.room = r]]
        /\ UNCHANGED <<open, backlog, edge>> /\ clients[s] # NULL /\ clients[s].state = "BOUND"
    BY <1>6, Reacts DEF Join, Handles
  <2>2. clients[s] \in Records
    BY <2>1, Worked
  <2>3. [clients[s] EXCEPT !.room = r] \in Records
    BY <2>2 DEF Records
  <2>4. IsFiniteSet(known') /\ known' \in SUBSET Places /\ Cardinality(known') <= MaxRooms
    BY <1>6, RoomAdded DEF Join
  <2> HIDE DEF s
  <2> QED  BY <2>1, <2>2, <2>3, <2>4 DEF Records
<1>7. ASSUME NEW f \in Fds, NEW buffer, Reply(f, buffer) PROVE TableTypes' /\ TableInv'
  BY <1>7 DEF Reply, vars
<1> QED  BY <1>1, <1>2, <1>3, <1>4, <1>5, <1>6, <1>7 DEF Next

(* What has been told keeps its type.                                        *)
LEMMA ToldTyped ==
  ASSUME IInv, [Next]_vars
  PROVE  ToldTypes'
<1> USE DEF IInv, TypeOK, ToldTypes
<1>1. CASE Connect \/ UNCHANGED vars
  <2>1. UNCHANGED <<view, roster, passed>>
    BY <1>1 DEF Connect, vars
  <2> QED  BY <2>1
<1>2. ASSUME NEW f \in Fds, Accept(f) PROVE ToldTypes'
  BY <1>2 DEF Accept
<1>9. ASSUME NEW f \in Fds PROVE Forget(f) \in [Fds -> SUBSET (Places \X Fds)]
  BY DEF Forget
<1>3. ASSUME NEW f \in Fds, Disconnect(f) PROVE ToldTypes'
  <2>1. NoList \in [Places -> Nat \cup {NULL}]
    BY DEF NoList
  <2>2. PICK table, rest : view' = [g \in Fds |-> IF g = f THEN NoList
                                  ELSE IF clients[SlotOf(f)] # NULL /\ g \in rest
                                  THEN RoomList(table, known) ELSE view[g]]
    BY <1>3 DEF Disconnect
  <2>3. RoomList(table, known) \in [Places -> Nat \cup {NULL}]
    BY Listed
  <2> HIDE DEF ToldTypes
  <2>4. view' \in [Fds -> [Places -> Nat \cup {NULL}]]
    BY <2>1, <2>2, <2>3 DEF ToldTypes
  <2>5. roster' \in [Fds -> SUBSET (Places \X Fds)]
    BY <1>3, <1>9 DEF Disconnect
  <2>6. passed' \in [Fds -> SUBSET {"open", "auth", "restart", "bind"}]
    BY <1>3 DEF Disconnect, ToldTypes
  <2> QED  BY <2>4, <2>5, <2>6 DEF ToldTypes
<1>4. ASSUME NEW f \in Fds, NEW buffer, Negotiate(f, buffer) PROVE ToldTypes'
  BY <1>4 DEF Negotiate
<1>5. ASSUME NEW f \in Fds, NEW buffer, Bind(f, buffer) PROVE ToldTypes'
  <2>1. PICK table : view' = [view EXCEPT ![table[SlotOf(f)].fd] = RoomList(table, known)]
    BY <1>5 DEF Bind
  <2>2. RoomList(table, known) \in [Places -> Nat \cup {NULL}]
    BY Listed
  <2>3. view' \in [Fds -> [Places -> Nat \cup {NULL}]]
    BY <2>1, <2>2
  <2> QED  BY <1>5, <2>3 DEF Bind
<1>6. ASSUME NEW f \in Fds, NEW buffer, NEW r \in Places, Join(f, buffer, r) PROVE ToldTypes'
  <2>1. PICK table, told : view' = [g \in Fds |-> IF g \in told THEN RoomList(table, known') ELSE view[g]]
    BY <1>6 DEF Join, BroadcastRoomList
  <2>2. RoomList(table, known') \in [Places -> Nat \cup {NULL}]
    BY Listed
  <2>3. view' \in [Fds -> [Places -> Nat \cup {NULL}]]
    BY <2>1, <2>2
  <2> DEFINE after == [clients EXCEPT ![SlotOf(f)].room = r]
             c     == after[SlotOf(f)].fd
             crew  == {after[i].fd : i \in {j \in BoundIn(after) : after[j].room = r}}
  <2>4. TableTypes' /\ clients' = after /\ clients[SlotOf(f)] # NULL /\ clients[SlotOf(f)].fd \in Fds
    BY <1>6, TableTyped, Worked DEF Join, Handles
  <2>5. c \in Fds
    BY <2>4, Constants DEF TableTypes
  <2>6. crew \subseteq Fds
    <3>1. \A i \in BoundIn(clients') : clients'[i].fd \in Fds
      BY <2>4 DEF BoundIn, TableTypes, Records
    <3> QED  BY <2>4, <3>1, ZenonT(30)
  <2>7. roster' = [g \in Fds |-> IF g = c THEN Forget(c)[g] \cup {<<r, m>> : m \in crew}
                                 ELSE IF g \in crew THEN Forget(c)[g] \cup {<<r, c>>}
                                 ELSE Forget(c)[g]]
    BY <1>6 DEF Join
  <2> HIDE DEF c, crew
  <2>8. roster' \in [Fds -> SUBSET (Places \X Fds)]
    BY <1>9, <2>5, <2>6, <2>7
  <2> QED  BY <1>6, <2>3, <2>8 DEF Join
<1>7. ASSUME NEW f \in Fds, NEW buffer, Reply(f, buffer) PROVE ToldTypes'
  BY <1>7 DEF Reply, vars
<1> QED  BY <1>1, <1>2, <1>3, <1>4, <1>5, <1>6, <1>7 DEF Next

-----------------------------------------------------------------------------
(* What the steps do to the bound records: the ones that are bound after a   *)
(* step were bound before, in the same room, but for one that has just been  *)
(* bound, or has joined.                                                     *)
Same(i) == /\ i \in BoundIn(clients) /\ i \in BoundIn(clients')
           /\ clients'[i].fd = clients[i].fd /\ clients'[i].room = clients[i].room

LEMMA NoneBound ==
  ASSUME IInv, NEW f \in Fds, NEW buffer, Accept(f) \/ Disconnect(f) \/ Negotiate(f, buffer)
  PROVE  \A i \in BoundIn(clients') : i # SlotOf(f) /\ Same(i)
<1> USE DEF IInv, TypeOK, TableTypes
<1>1. CASE Accept(f)
  BY <1>1, Constants DEF Accept, BoundIn, Same
<1>2. CASE Disconnect(f)
  BY <1>2, Constants DEF Disconnect, BoundIn, Same
<1>3. CASE Negotiate(f, buffer)
  <2> DEFINE s == SlotOf(f)
  <2>1. PICK reaction \in {"open", "auth", "restart"} :
          Handles(f, buffer, reaction)
          /\ clients' = [clients EXCEPT ![s].state = NextState(@, reaction)]
    BY <1>3 DEF Negotiate
  <2>2. clients[s] \in Records /\ NextState(clients[s].state, reaction) # "BOUND" /\ s \in Slots
    BY <2>1, Worked, Reacts DEF Handles
  <2>3. clients'[s].state # "BOUND" /\ \A i \in Slots \ {s} : clients'[i] = clients[i]
    BY <2>1, <2>2 DEF Records
  <2> HIDE DEF s
  <2> QED  BY <2>2, <2>3 DEF BoundIn, Same, s
<1> QED  BY <1>1, <1>2, <1>3

LEMMA OneBound ==
  ASSUME IInv, NEW f \in Fds, NEW buffer, Bind(f, buffer)
  PROVE  /\ SlotOf(f) \in Slots /\ SlotOf(f) \notin BoundIn(clients)
         /\ SlotOf(f) \in BoundIn(clients') \/ clients'[SlotOf(f)] = NULL
         /\ clients'[SlotOf(f)].room = Lobby
         /\ clients'[SlotOf(f)].fd = clients[SlotOf(f)].fd
         /\ \A i \in Slots \ {SlotOf(f)} : clients'[i] = clients[i]
         /\ \A i \in BoundIn(clients') : i # SlotOf(f) => Same(i)
<1> USE DEF IInv, TypeOK, TableTypes
<1> DEFINE s == SlotOf(f)
<1>1. /\ clients' = [clients EXCEPT ![s] = [clients[s] EXCEPT !.state = "BOUND"]]
      /\ clients[s] # NULL /\ clients[s].state = "NEGOTIATING"
  BY Reacts DEF Bind, Handles
<1>2. clients[s] \in Records /\ s \in Slots /\ clients[s].room = Lobby
  BY <1>1, Worked
<1>3. clients'[s] = [clients[s] EXCEPT !.state = "BOUND"] /\ \A i \in Slots \ {s} : clients'[i] = clients[i]
  BY <1>1, <1>2
<1>4. clients'[s].fd = clients[s].fd /\ clients'[s].room = Lobby /\ clients'[s].state = "BOUND"
  BY <1>2, <1>3 DEF Records
<1> HIDE DEF s
<1> QED  BY <1>1, <1>2, <1>3, <1>4 DEF BoundIn, Same, s

LEMMA OneJoined ==
  ASSUME IInv, NEW f \in Fds, NEW buffer, NEW r \in Places, Join(f, buffer, r)
  PROVE  /\ SlotOf(f) \in BoundIn(clients)
         /\ clients'[SlotOf(f)].room = r
         /\ clients'[SlotOf(f)].fd = clients[SlotOf(f)].fd
         /\ clients[SlotOf(f)].fd \in Fds
         /\ \A i \in Slots \ {SlotOf(f)} : clients'[i] = clients[i]
         /\ \A i \in BoundIn(clients') : i # SlotOf(f) => Same(i)
<1> USE DEF IInv, TypeOK, TableTypes
<1> DEFINE s == SlotOf(f)
<1>1. /\ clients' = [clients EXCEPT ![s] = [clients[s] EXCEPT !.room = r]]
      /\ clients[s] # NULL /\ clients[s].state = "BOUND"
  BY Reacts DEF Join, Handles
<1>2. clients[s] \in Records /\ s \in Slots
  BY <1>1, Worked
<1>3. clients'[s] = [clients[s] EXCEPT !.room = r] /\ \A i \in Slots \ {s} : clients'[i] = clients[i]
  BY <1>1, <1>2
<1>4. clients'[s].fd = clients[s].fd /\ clients'[s].room = r /\ clients[s].fd \in Fds
  BY <1>2, <1>3 DEF Records
<1> HIDE DEF s
<1> QED  BY <1>1, <1>2, <1>3, <1>4 DEF BoundIn, Same, s

(* A room is on the list as soon as somebody is in it.                       *)
LEMMA ListedKept ==
  ASSUME IInv, [Next]_vars
  PROVE  RoomsListed'
<1> USE DEF IInv, RoomsListed
<1>1. CASE UNCHANGED <<clients, known>>
  BY <1>1 DEF BoundIn
<1>2. ASSUME NEW f \in Fds, NEW buffer, Accept(f) \/ Disconnect(f) \/ Negotiate(f, buffer) PROVE RoomsListed'
  <2>1. UNCHANGED known /\ \A i \in BoundIn(clients') : Same(i)
    BY <1>2, NoneBound DEF Accept, Disconnect, Negotiate
  <2> QED  BY <2>1 DEF Same
<1>3. ASSUME NEW f \in Fds, NEW buffer, Bind(f, buffer) PROVE RoomsListed'
  <2>1. UNCHANGED known
    BY <1>3 DEF Bind
  <2> QED  BY <1>3, <2>1, OneBound DEF Same
<1>4. ASSUME NEW f \in Fds, NEW buffer, NEW r \in Places, Join(f, buffer, r) PROVE RoomsListed'
  <2>1. /\ known \subseteq known' /\ (r \in known' \/ Cardinality(known') = MaxRooms)
        /\ Cardinality(known) = MaxRooms => Cardinality(known') = MaxRooms
    BY <1>4, RoomAdded DEF Join
  <2>2. ASSUME NEW i \in BoundIn(clients')
        PROVE  clients'[i].room \in known' \cup {Lobby} \/ Cardinality(known') = MaxRooms
    BY <1>4, <2>1, OneJoined DEF Same
  <2> QED  BY <2>2
<1> QED  BY <1>1, <1>2, <1>3, <1>4 DEF Next, Connect, Reply, vars

(* Joiner and members are presented to each other, and a record that leaves  *)
(* is forgotten by all.                                                      *)
LEMMA RosterKept ==
  ASSUME IInv, [Next]_vars
  PROVE  RosterComplete'
<1> USE DEF IInv, RosterComplete
<1>1. CASE UNCHANGED <<clients, roster>>
  BY <1>1 DEF BoundIn
<1>2. ASSUME NEW f \in Fds, NEW buffer, Accept(f) \/ Negotiate(f, buffer) PROVE RosterComplete'
  <2>1. UNCHANGED roster /\ \A i \in BoundIn(clients') : Same(i)
    BY <1>2, NoneBound DEF Accept, Negotiate
  <2> QED  BY <2>1 DEF Same
<1>3. ASSUME NEW f \in Fds, Disconnect(f) PROVE RosterComplete'
  <2>1. roster' = [Forget(f) EXCEPT ![f] = {}]
    BY <1>3 DEF Disconnect
  <2>2. \A i \in BoundIn(clients') : i # SlotOf(f) /\ Same(i)
    BY <1>3, NoneBound
  <2>3. \A i \in BoundIn(clients') : clients[i].fd # f /\ clients[i].fd \in Fds
    BY <2>2 DEF Same, BoundIn, TableInv, TypeOK, TableTypes, Records
  <2>4. \A g \in Fds \ {f} : roster'[g] = {p \in roster[g] : p[2] # f}
    BY <2>1 DEF Forget
  <2>5. ASSUME NEW i \in BoundIn(clients'), NEW j \in BoundIn(clients'),
               clients'[i].room = clients'[j].room, clients'[i].room # Lobby
        PROVE  <<clients'[j].room, clients'[j].fd>> \in roster'[clients'[i].fd]
    <3>1. <<clients[j].room, clients[j].fd>> \in roster[clients[i].fd]
      BY <2>2, <2>5 DEF Same
    <3> QED  BY <2>2, <2>3, <2>4, <3>1 DEF Same
  <2> QED  BY <2>5
<1>4. ASSUME NEW f \in Fds, NEW buffer, Bind(f, buffer) PROVE RosterComplete'
  <2>1. UNCHANGED roster
    BY <1>4 DEF Bind
  <2> QED  BY <1>4, <2>1, OneBound DEF Same
<1>5. ASSUME NEW f \in Fds, NEW buffer, NEW r \in Places, Join(f, buffer, r) PROVE RosterComplete'
  <2> DEFINE s    == SlotOf(f)
             c    == clients'[s].fd
             crew == {clients'[i].fd : i \in {j \in BoundIn(clients') : clients'[j].room = r}}
  <2>1. roster' = [g \in Fds |-> IF g = c THEN Forget(c)[g] \cup {<<r, m>> : m \in crew}
                                 ELSE IF g \in crew THEN Forget(c)[g] \cup {<<r, c>>}
                                 ELSE Forget(c)[g]]
    BY <1>5 DEF Join
  <2>2. c = clients[s].fd /\ c \in Fds /\ clients'[s].room = r
        /\ \A i \in BoundIn(clients') : i # s => Same(i)
    BY <1>5, OneJoined
  <2>3. \A i \in BoundIn(clients') : clients'[i].fd \in Fds /\ (i # s => clients'[i].fd # c)
    <3>1. TableTypes' /\ TableInv'
      BY TableTyped
    <3>2. SlotOf(c) = s
      BY <1>5, <2>2, OneJoined DEF TableInv, BoundIn
    <3> QED  BY <3>1, <3>2 DEF TableTypes, TableInv, BoundIn, Records
  <2>4. ASSUME NEW i \in BoundIn(clients'), NEW j \in BoundIn(clients'),
               clients'[i].room = clients'[j].room, clients'[i].room # Lobby
        PROVE  <<clients'[j].room, clients'[j].fd>> \in roster'[clients'[i].fd]
    <3>1. CASE i = s
      <4>1. clients'[j].fd \in crew /\ clients'[j].room = r /\ clients'[i].fd = c
        BY <2>2, <2>4, <3>1
      <4> HIDE DEF c, crew, s
      <4>2. roster'[c] = Forget(c)[c] \cup {<<r, m>> : m \in crew}
        BY <2>1, <2>2
      <4> QED  BY <4>1, <4>2
    <3>2. CASE i # s /\ j = s
      <4>1. clients'[i].fd \in crew /\ clients'[i].fd # c /\ clients'[i].fd \in Fds
            /\ clients'[j].room = r /\ clients'[j].fd = c
        BY <2>2, <2>3, <2>4, <3>2
      <4> HIDE DEF c, crew, s
      <4>2. <<r, c>> \in roster'[clients'[i].fd]
        BY <2>1, <4>1
      <4> QED  BY <4>1, <4>2
    <3>3. CASE i # s /\ j # s
      <4>1. clients'[i].fd # c /\ clients'[i].fd \in Fds /\ clients'[j].fd # c
        BY <2>3, <3>3
      <4>2. <<clients'[j].room, clients'[j].fd>> \in roster[clients'[i].fd]
        BY <2>2, <2>4, <3>3 DEF Same
      <4> HIDE DEF c, crew, s
      <4>3. <<clients'[j].room, clients'[j].fd>> \in Forget(c)[clients'[i].fd]
        BY <4>1, <4>2 DEF Forget
      <4>4. Forget(c)[clients'[i].fd] \subseteq roster'[clients'[i].fd]
        BY <2>1, <4>1
      <4> QED  BY <4>3, <4>4
    <3> QED  BY <3>1, <3>2, <3>3
  <2> QED  BY <2>4
<1> QED  BY <1>1, <1>2, <1>3, <1>4, <1>5 DEF Next, Connect, Reply, vars

(* IInv holds in every reachable state, also when slots are shared.          *)
THEOREM Invariance == Spec => []IInv
<1>1. IInv /\ [Next]_vars => IInv'
  BY TableTyped, ToldTyped, ListedKept, RosterKept DEF IInv, TypeOK
<1> QED  BY InitInv, <1>1, PTL DEF Spec

(* No record in the table is that of a connection that has been closed.      *)
THEOREM TableRight == Spec => []Consistent
<1>1. IInv => Consistent
  BY DEF IInv, TableInv, Consistent, RecordsAreOpen
<1> QED  BY Invariance, <1>1, PTL

(* The members of a room have been told of each other.                       *)
THEOREM RosterRight == Spec => []RosterComplete
<1>1. IInv => RosterComplete
  BY DEF IInv
<1> QED  BY Invariance, <1>1, PTL

(* A room with somebody in it is on the list of rooms while that has place.  *)
THEOREM AllRoomsListed == Spec => []RoomsListed
<1>1. IInv => RoomsListed
  BY DEF IInv
<1> QED  BY Invariance, <1>1, PTL

-----------------------------------------------------------------------------
(* A connection with a slot of its own is alone in passing its stages, and   *)
(* what its descriptor passed before is forgotten when it is closed.         *)
LEMMA LoginKept ==
  ASSUME IInv, OwnSlots, LoginInv, [Next]_vars
  PROVE  LoginInv'
<1> USE DEF LoginInv
<1>0. clients \in [Slots -> Records \cup {NULL}] /\ open \in SUBSET Fds
      /\ passed \in [Fds -> SUBSET {"open", "auth", "restart", "bind"}]
  BY DEF IInv, TypeOK, TableTypes, ToldTypes
<1>1. CASE UNCHANGED <<clients, open, passed>>
  BY <1>1
<1>10. \A i \in Slots : clients[i] # NULL => clients[i].fd \in open /\ SlotOf(clients[i].fd) = i
  BY DEF IInv, TableInv
<1>2. ASSUME NEW f \in Fds, Accept(f) PROVE LoginInv'
  <2>1. /\ clients' = [clients EXCEPT ![SlotOf(f)] = [fd |-> f, state |-> "CONNECTED", room |-> Lobby]]
        /\ open' = open \cup {f} /\ f \notin open /\ passed' = passed
    BY <1>2 DEF Accept
  <2>2. Stages("CONNECTED") = {} /\ passed[f] = {}
    BY <2>1 DEF Stages
  <2> QED  BY <1>0, <2>1, <2>2, Constants
<1>3. ASSUME NEW f \in Fds, Disconnect(f) PROVE LoginInv'
  <2>1. /\ clients' = [clients EXCEPT ![SlotOf(f)] = NULL] /\ open' = open \ {f}
        /\ passed' = [passed EXCEPT ![f] = {}]
    BY <1>3 DEF Disconnect
  <2>2. \A i \in Slots \ {SlotOf(f)} : clients[i] # NULL => clients[i].fd # f
    BY <1>10
  <2> QED  BY <1>0, <1>10, <2>1, <2>2, Constants
<1>11. ASSUME NEW f \in Fds, NEW reaction, clients[SlotOf(f)] # NULL, UNCHANGED open,
              clients'[SlotOf(f)].fd = f,
              \A i \in Slots \ {SlotOf(f)} : clients'[i] = clients[i],
              passed' = [passed EXCEPT ![f] = @ \cup {reaction}],
              Stages(clients'[SlotOf(f)].state) = Stages(clients[SlotOf(f)].state) \cup {reaction}
       PROVE  LoginInv'
  <2>1. clients[SlotOf(f)].fd = f /\ SlotOf(f) \in Slots /\ f \in open
    BY <1>11, Worked
  <2>2. \A i \in Slots \ {SlotOf(f)} : clients[i] # NULL => clients[i].fd # f
    BY <1>10
  <2>3. passed'[f] = Stages(clients'[SlotOf(f)].state)
    BY <1>0, <1>11, <2>1
  <2>4. \A g \in Fds \ {f} : passed'[g] = passed[g]
    BY <1>0, <1>11
  <2>5. ASSUME NEW i \in Slots, clients'[i] # NULL PROVE passed'[clients'[i].fd] = Stages(clients'[i].state)
    <3>1. CASE i = SlotOf(f)
      BY <1>11, <2>3, <3>1
    <3>2. CASE i # SlotOf(f)
      BY <1>0, <1>10, <1>11, <2>2, <2>4, <2>5, <3>2
    <3> QED  BY <3>1, <3>2
  <2>6. \A g \in Fds \ open' : passed'[g] = {}
    BY <1>11, <2>1, <2>4
  <2> QED  BY <2>5, <2>6
<1>4. ASSUME NEW f \in Fds, NEW buffer, Negotiate(f, buffer) PROVE LoginInv'
  <2> DEFINE s == SlotOf(f)
  <2>1. PICK reaction \in {"open", "auth", "restart"} :
          /\ Handles(f, buffer, reaction)
          /\ clients' = [clients EXCEPT ![s].state = NextState(@, reaction)]
          /\ passed' = [passed EXCEPT ![f] = @ \cup {reaction}]
    BY <1>4 DEF Negotiate
  <2>2. clients[s] \in Records /\ clients[s].fd = f /\ s \in Slots /\ clients[s] # NULL
    BY <2>1, Worked DEF Handles
  <2>3. /\ clients'[s].fd = f /\ clients'[s].state = NextState(clients[s].state, reaction)
        /\ \A i \in Slots \ {s} : clients'[i] = clients[i]
    BY <1>0, <2>1, <2>2 DEF Records
  <2>4. Stages(clients'[s].state) = Stages(clients[s].state) \cup {reaction}
    BY <2>1, <2>3, Reacts DEF Handles, Stages
  <2>5. UNCHANGED open
    BY <1>4 DEF Negotiate
  <2> QED  BY <1>11, <2>1, <2>2, <2>3, <2>4, <2>5
<1>5. ASSUME NEW f \in Fds, NEW buffer, Bind(f, buffer) PROVE LoginInv'
  <2> DEFINE s == SlotOf(f)
  <2>1. /\ clients[s] # NULL /\ clients[s].state = "NEGOTIATING" /\ UNCHANGED open
        /\ clients' = [clients EXCEPT ![s].state = "BOUND"]
        /\ passed' = [passed EXCEPT ![f] = @ \cup {"bind"}]
    BY <1>5, Reacts DEF Bind, Handles
  <2>2. clients[s] \in Records /\ clients[s].fd = f /\ s \in Slots
    BY <2>1, Worked
  <2>3. /\ clients'[s].fd = f /\ clients'[s].state = "BOUND"
        /\ \A i \in Slots \ {s} : clients'[i] = clients[i]
    BY <1>0, <2>1, <2>2 DEF Records
  <2>4. Stages(clients'[s].state) = Stages(clients[s].state) \cup {"bind"}
    BY <2>1, <2>3 DEF Stages
  <2> QED  BY <1>11, <2>1, <2>3, <2>4
<1>6. ASSUME NEW f \in Fds, NEW buffer, NEW r \in Places, Join(f, buffer, r) PROVE LoginInv'
  <2>1. UNCHANGED <<open, passed>>
    BY <1>6 DEF Join
  <2>2. \A i \in Slots : clients'[i] # NULL => clients[i] # NULL /\ clients'[i].fd = clients[i].fd
                                               /\ clients'[i].state = clients[i].state
    <3> DEFINE s == SlotOf(f)
    <3>1. clients' = [clients EXCEPT ![s].room = r] /\ clients[s] # NULL
      BY <1>6 DEF Join, Handles
    <3>2. clients[s] \in Records /\ s \in Slots
      BY <3>1, Worked
    <3>3. clients'[s].fd = clients[s].fd /\ clients'[s].state = clients[s].state
          /\ \A i \in Slots \ {s} : clients'[i] = clients[i]
      BY <1>0, <3>1, <3>2 DEF Records
    <3> HIDE DEF s
    <3> QED  BY <3>1, <3>3
  <2> QED  BY <2>1, <2>2
<1> QED  BY <1>1, <1>2, <1>3, <1>4, <1>5, <1>6 DEF Next, Connect, Reply, vars

(* With a slot for each connection, nobody is bound who has not asked for    *)
(* every stage of the login on its own connection.                           *)
THEOREM LoginInOrder == OwnSlots => (Spec => []NobodySkipsAuth)
<1> SUFFICES ASSUME OwnSlots PROVE Spec => []NobodySkipsAuth
  OBVIOUS
<1>1. IInv /\ LoginInv /\ [Next]_vars => LoginInv'
  BY LoginKept
<1>2. LoginInv => NobodySkipsAuth
  BY DEF LoginInv, NobodySkipsAuth, BoundIn, Stages
<1> QED  BY InitInv, Invariance, <1>1, <1>2, PTL DEF Spec

-----------------------------------------------------------------------------
(* The same records bound, in the same rooms, mean the same head counts.     *)
LEMMA SameCount ==
  ASSUME IInv, NEW r, NEW S,
         \A i \in BoundIn(clients') : i \notin S => Same(i),
         \A i \in BoundIn(clients) : i \notin S => Same(i),
         \A i \in S \cap BoundIn(clients) : clients[i].room # r,
         \A i \in S \cap BoundIn(clients') : clients'[i].room # r
  PROVE  UsersInRoom(clients', r) = UsersInRoom(clients, r)
<1>1. {i \in BoundIn(clients') : clients'[i].room = r} = {i \in BoundIn(clients) : clients[i].room = r}
  BY DEF Same
<1> QED  BY <1>1 DEF UsersInRoom

(* Every step that changes a head count sends the list to all.               *)
LEMMA FreshKept ==
  ASSUME IInv, OwnSlots, RoomListsFresh, [Next]_vars
  PROVE  RoomListsFresh'
<1> USE DEF RoomListsFresh
<1>0. /\ clients \in [Slots -> Records \cup {NULL}] /\ open \in SUBSET Fds
      /\ view \in [Fds -> [Places -> Nat \cup {NULL}]] /\ known \subseteq Places
      /\ \A i \in Slots : clients[i] # NULL => clients[i].fd \in open /\ SlotOf(clients[i].fd) = i
      /\ \A i \in BoundIn(clients) : clients[i].fd \in Fds
  BY DEF IInv, TypeOK, TableTypes, ToldTypes, TableInv, BoundIn, Records
<1>1. CASE UNCHANGED <<clients, known, view>>
  BY <1>1 DEF BoundIn, UsersInRoom
<1>2. ASSUME NEW f \in Fds, NEW buffer, Accept(f) \/ Negotiate(f, buffer) PROVE RoomListsFresh'
  <2>1. UNCHANGED <<view, known>>
    BY <1>2 DEF Accept, Negotiate
  <2>2. \A i \in BoundIn(clients') : Same(i)
    BY <1>2, NoneBound
  <2>3. \A i \in BoundIn(clients) : i # SlotOf(f)
    <3>1. CASE Accept(f)
      BY <1>0, <3>1 DEF Accept, OwnSlots, BoundIn
    <3>2. CASE Negotiate(f, buffer)
      BY <3>2, Reacts DEF Negotiate, Handles, BoundIn
    <3> QED  BY <1>2, <3>1, <3>2
  <2>4. \A i \in BoundIn(clients) : Same(i)
    <3>1. \A i \in Slots \ {SlotOf(f)} : clients'[i] = clients[i]
      BY <1>0, <1>2 DEF Accept, Negotiate
    <3> QED  BY <2>3, <3>1 DEF Same, BoundIn
  <2>5. \A r : UsersInRoom(clients', r) = UsersInRoom(clients, r)
    <3>1. ASSUME NEW r PROVE UsersInRoom(clients', r) = UsersInRoom(clients, r)
      <4>1. \E S : S = {}
        OBVIOUS
      <4> QED  BY <2>2, <2>4, <4>1, SameCount
    <3> QED  BY <3>1
  <2> QED  BY <2>1, <2>2, <2>5 DEF Same
<1>3. ASSUME NEW f \in Fds, Disconnect(f) PROVE RoomListsFresh'
  <2>1. /\ clients' = [clients EXCEPT ![SlotOf(f)] = NULL] /\ UNCHANGED known
        /\ view' = [g \in Fds |->
                      IF g = f THEN NoList
                      ELSE IF clients[SlotOf(f)] # NULL /\ g \in {clients'[i].fd : i \in BoundIn(clients')}
                      THEN RoomList(clients', known) ELSE view[g]]
    BY <1>3 DEF Disconnect
  <2>2. \A i \in BoundIn(clients') : i # SlotOf(f) /\ Same(i)
    BY <1>3, NoneBound
  <2>3. \A i \in BoundIn(clients') : clients'[i].fd \in Fds \ {f}
    BY <1>0, <2>2 DEF Same, BoundIn
  <2>4. CASE clients[SlotOf(f)] # NULL
    <3>1. ASSUME NEW i \in BoundIn(clients') PROVE view'[clients'[i].fd] = RoomList(clients', known)
      BY <2>1, <2>3, <2>4
    <3>2. ASSUME NEW i \in BoundIn(clients'), NEW r \in known \ {Lobby}
          PROVE  view'[clients'[i].fd][r] = UsersInRoom(clients', r)
      BY <1>0, <3>1, Listed
    <3> QED  BY <2>1, <3>2
  <2>5. CASE clients[SlotOf(f)] = NULL
    <3>1. clients' = clients
      BY <1>0, <2>1, <2>5, Constants
    <3>2. ASSUME NEW i \in BoundIn(clients') PROVE view'[clients'[i].fd] = view[clients[i].fd]
      BY <2>1, <2>3, <2>5, <3>1
    <3>3. BoundIn(clients') = BoundIn(clients) /\ \A r : UsersInRoom(clients', r) = UsersInRoom(clients, r)
      BY <3>1
    <3>4. ASSUME NEW i \in BoundIn(clients'), NEW r \in known \ {Lobby}
          PROVE  view'[clients'[i].fd][r] = UsersInRoom(clients', r)
      BY <3>2, <3>3
    <3> QED  BY <2>1, <3>4
  <2> QED  BY <2>4, <2>5
<1>4. ASSUME NEW f \in Fds, NEW buffer, Bind(f, buffer) PROVE RoomListsFresh'
  <2> DEFINE s == SlotOf(f)
             c == clients'[s].fd
  <2>1. /\ UNCHANGED known
        /\ view' = [view EXCEPT ![c] = RoomList(clients', known)]
    BY <1>4 DEF Bind
  <2>2. /\ s \in Slots /\ s \notin BoundIn(clients) /\ clients'[s].room = Lobby
        /\ c = clients[s].fd
        /\ \A i \in Slots \ {s} : clients'[i] = clients[i]
        /\ \A i \in BoundIn(clients') : i # s => Same(i)
    BY <1>4, OneBound
  <2>3. c \in Fds /\ SlotOf(c) = s
    BY <1>4, <2>2, Worked DEF Bind, Handles
  <2> HIDE DEF c
  <2>4. ASSUME NEW r \in known \ {Lobby} PROVE UsersInRoom(clients', r) = UsersInRoom(clients, r)
    <3>1. \A i \in BoundIn(clients) : i \notin {s} => Same(i)
      BY <2>2 DEF Same, BoundIn
    <3> QED  BY <2>2, <3>1, SameCount
  <2>5. ASSUME NEW i \in BoundIn(clients'), NEW r \in known \ {Lobby}
        PROVE  view'[clients'[i].fd][r] = UsersInRoom(clients', r)
    <3>1. CASE i = s
      <4>1. view'[c] = RoomList(clients', known)
        BY <1>0, <2>1, <2>3
      <4> QED  BY <1>0, <3>1, <4>1, Listed DEF c
    <3>2. CASE i # s
      <4>1. Same(i) /\ clients[i].fd # c
        BY <1>0, <2>2, <2>3, <3>2 DEF Same, BoundIn
      <4>2. view'[clients[i].fd] = view[clients[i].fd]
        BY <1>0, <2>1, <4>1
      <4> QED  BY <2>4, <4>1, <4>2 DEF Same
    <3> QED  BY <3>1, <3>2
  <2> QED  BY <2>1, <2>5
<1>5. ASSUME NEW f \in Fds, NEW buffer, NEW r \in Places, Join(f, buffer, r) PROVE RoomListsFresh'
  <2>1. view' = [g \in Fds |-> IF g \in {clients'[i].fd : i \in BoundIn(clients')}
                               THEN RoomList(clients', known') ELSE view[g]]
    BY <1>5 DEF Join, BroadcastRoomList
  <2>2. TableTypes'
    BY TableTyped
  <2>3. \A i \in BoundIn(clients') : clients'[i].fd \in Fds
    BY <2>2 DEF TableTypes, BoundIn, Records
  <2>4. ASSUME NEW i \in BoundIn(clients') PROVE view'[clients'[i].fd] = RoomList(clients', known')
    BY <2>1, <2>3
  <2>5. known' \subseteq Places
    BY <2>2 DEF TableTypes
  <2> QED  BY <2>4, <2>5, Listed
<1> QED  BY <1>1, <1>2, <1>3, <1>4, <1>5 DEF Next, Connect, Reply, vars

(* With a slot for each connection, the head counts that each bound client   *)
(* was last sent are the right ones.                                         *)
THEOREM HeadCountsRight == OwnSlots => (Spec => []RoomListsFresh)
<1> SUFFICES ASSUME OwnSlots PROVE Spec => []RoomListsFresh
  OBVIOUS
<1>1. IInv /\ RoomListsFresh /\ [Next]_vars => RoomListsFresh'
  BY FreshKept
<1> QED  BY InitInv, Invariance, <1>1, PTL DEF Spec

-----------------------------------------------------------------------------
(* The login dialogue of the web page (ChatLogin), for any rooms and any     *)
(* number of joins and broken connections.                                   *)

(* The stanzas that may move the login on, and the words that do.            *)
LoginMarks == {"xml", "stream", "auth", "bind"}
LoginWords == {"mechanisms", "success", "bind", "jid"}

Plain(stanzas) == \A i \in DOMAIN stanzas : stanzas[i].mark \notin LoginMarks
Dark(texts)    == \A i \in DOMAIN texts : texts[i] \cap LoginWords = {}

(* One of them and no other. *)
OneAsks(stanzas, mark) ==
  \E i \in DOMAIN stanzas :
    /\ stanzas[i].mark = mark
    /\ \A j \in DOMAIN stanzas : j # i => stanzas[j].mark \notin LoginMarks

OneTells(texts, words) ==
  \E i \in DOMAIN texts :
    /\ texts[i] \cap LoginWords = words
    /\ \A j \in DOMAIN texts : j # i => texts[j] \cap LoginWords = {}

(* The request is on its way; the answer is. *)
Asking(mark) == OneAsks(up, mark) /\ Dark(down) /\ Dark(frames)
Telling(words) ==
  /\ Plain(up)
  /\ \/ OneTells(down, words) /\ Dark(frames)
     \/ Dark(down) /\ OneTells(frames, words)

(* Where the server is, and what is in flight, for each stage of the tab.    *)
WaitSasl   == \/ state = "CONNECTED" /\ Asking("stream")
              \/ state = "STREAM_OPEN" /\ Telling({"mechanisms"})
WaitAuth   == \/ state = "STREAM_OPEN" /\ Asking("auth")
              \/ state = "AUTHENTICATED" /\ Telling({"success"})
WaitOffer  == \/ state = "AUTHENTICATED" /\ Asking("stream")
              \/ state = "NEGOTIATING" /\ Telling({"bind"})
WaitResult == \/ state = "NEGOTIATING" /\ Asking("bind")
              \/ state = "BOUND" /\ Telling({"bind", "jid"})
Ready      == state = "BOUND" /\ Plain(up) /\ Dark(down) /\ Dark(frames)

StagesInv ==
  /\ xmppState = "WAIT_SASL"        => WaitSasl
  /\ xmppState = "WAIT_AUTH_RESULT" => WaitAuth
  /\ xmppState = "WAIT_BIND_OFFER"  => WaitOffer
  /\ xmppState = "WAIT_BIND_RESULT" => WaitResult
  /\ xmppState = "READY"            => Ready

(* Until another tab connects, or this one's connection breaks, the backlog  *)
(* holds nothing but this tab's connection, and that is reported.            *)
QueueInv ==
  others = 0 /\ drops = 0 => \/ queued = 0
                             \/ queued = 1 /\ reported /\ socket = "open"

DialogueInv ==
  /\ LoginTypes
  /\ QueueInv
  /\ socket = "open" <=> xmppState # "DISCONNECTED"
  /\ socket # "open" => up = <<>> /\ down = <<>> /\ frames = <<>> /\ state = "CONNECTED"
  /\ StagesInv

(* The states of the server by name, and what the dialogue asks of a buffer. *)
LEMMA Phases ==
  /\ {ConnStates[i] : i \in 1..5}
       = {"CONNECTED", "STREAM_OPEN", "AUTHENTICATED", "NEGOTIATING", "BOUND"}
  /\ Moves \in Nat /\ Drops \in Nat /\ Others \in Nat
<1>1. 1..5 = {1, 2, 3, 4, 5}
  OBVIOUS
<1>2. {ConnStates[i] : i \in 1..5} = {ConnStates[i] : i \in {1, 2, 3, 4, 5}}
  BY <1>1
<1> QED  BY <1>2, ChatAssumption DEF ConnStates

(* A stanza that is no login stanza may follow any others.                   *)
LEMMA PlainAppended ==
  ASSUME NEW u \in Seq(Stanzas), NEW s \in Stanzas, s.mark \notin LoginMarks
  PROVE  /\ Append(u, s) \in Seq(Stanzas)
         /\ Plain(u) => Plain(Append(u, s))
         /\ \A mark : OneAsks(u, mark) => OneAsks(Append(u, s), mark)
<1>1. /\ Append(u, s) \in Seq(Stanzas) /\ Len(u) \in Nat
      /\ DOMAIN u = 1..Len(u) /\ DOMAIN Append(u, s) = 1..(Len(u) + 1)
      /\ \A i \in 1..Len(u) : Append(u, s)[i] = u[i]
      /\ Append(u, s)[Len(u) + 1] = s
  OBVIOUS
<1>2. Plain(u) => Plain(Append(u, s))
  BY <1>1 DEF Plain
<1>3. ASSUME NEW mark, OneAsks(u, mark) PROVE OneAsks(Append(u, s), mark)
  <2>1. PICK i \in DOMAIN u :
          /\ u[i].mark = mark
          /\ \A j \in DOMAIN u : j # i => u[j].mark \notin LoginMarks
    BY <1>3 DEF OneAsks
  <2>2. i \in DOMAIN Append(u, s) /\ Append(u, s)[i].mark = mark
    BY <1>1, <2>1
  <2>3. ASSUME NEW j \in DOMAIN Append(u, s), j # i
        PROVE  Append(u, s)[j].mark \notin LoginMarks
    BY <1>1, <2>1, <2>3
  <2> QED  BY <2>2, <2>3 DEF OneAsks
<1> QED  BY <1>1, <1>2, <1>3

(* One login stanza behind plain ones is the only one.                       *)
LEMMA AskAppended ==
  ASSUME NEW u \in Seq(Stanzas), NEW s \in Stanzas, Plain(u)
  PROVE  Append(u, s) \in Seq(Stanzas) /\ OneAsks(Append(u, s), s.mark)
<1>1. /\ Append(u, s) \in Seq(Stanzas) /\ Len(u) \in Nat
      /\ DOMAIN u = 1..Len(u) /\ DOMAIN Append(u, s) = 1..(Len(u) + 1)
      /\ \A i \in 1..Len(u) : Append(u, s)[i] = u[i]
      /\ Append(u, s)[Len(u) + 1] = s
  OBVIOUS
<1>2. ASSUME NEW j \in DOMAIN Append(u, s), j # Len(u) + 1
      PROVE  Append(u, s)[j].mark \notin LoginMarks
  BY <1>1, <1>2 DEF Plain
<1> QED  BY <1>1, <1>2 DEF OneAsks

(* What is received of the stanzas on their way, and what is not.            *)
LEMMA Cut ==
  ASSUME NEW u \in Seq(Stanzas), NEW n \in 1..Len(u)
  PROVE  LET got == SubSeq(u, 1, n)
             rest == SubSeq(u, n + 1, Len(u))
         IN /\ got \in Seq(Stanzas) /\ rest \in Seq(Stanzas)
            /\ Plain(u) => Plain(got) /\ Plain(rest)
            /\ \A mark : OneAsks(u, mark) => \/ OneAsks(got, mark) /\ Plain(rest)
                                             \/ Plain(got) /\ OneAsks(rest, mark)
<1> DEFINE got == SubSeq(u, 1, n)
           rest == SubSeq(u, n + 1, Len(u))
<1>1. /\ got \in Seq(Stanzas) /\ rest \in Seq(Stanzas) /\ n \in Nat /\ Len(u) \in Nat
      /\ DOMAIN u = 1..Len(u) /\ DOMAIN got = 1..n /\ DOMAIN rest = 1..(Len(u) - n)
      /\ \A i \in 1..n : got[i] = u[i]
      /\ \A i \in 1..(Len(u) - n) : rest[i] = u[n + i]
  OBVIOUS
<1> HIDE DEF got, rest
<1>2. ASSUME NEW i \in DOMAIN rest
      PROVE  n + i \in DOMAIN u /\ n + i > n /\ rest[i] = u[n + i]
  BY <1>1
<1>3. \A i \in DOMAIN got : i \in DOMAIN u /\ i <= n /\ got[i] = u[i]
  BY <1>1
<1>4. Plain(u) => Plain(got) /\ Plain(rest)
  BY <1>2, <1>3 DEF Plain
<1>5. ASSUME NEW mark, OneAsks(u, mark)
      PROVE  \/ OneAsks(got, mark) /\ Plain(rest)
             \/ Plain(got) /\ OneAsks(rest, mark)
  <2>1. PICK i \in DOMAIN u :
          /\ u[i].mark = mark
          /\ \A j \in DOMAIN u : j # i => u[j].mark \notin LoginMarks
    BY <1>5 DEF OneAsks
  <2>2. CASE i <= n
    <3>1. i \in DOMAIN got /\ got[i].mark = mark
      BY <1>1, <2>1, <2>2
    <3>2. \A j \in DOMAIN got : j # i => got[j].mark \notin LoginMarks
      BY <1>1, <2>1
    <3>3. Plain(rest)
      <4>1. \A j \in DOMAIN rest : n + j # i
        BY <1>1, <1>2, <2>2
      <4> QED  BY <1>2, <2>1, <4>1 DEF Plain
    <3> QED  BY <3>1, <3>2, <3>3 DEF OneAsks
  <2>3. CASE ~(i <= n)
    <3>1. i - n \in DOMAIN rest /\ rest[i - n].mark = mark
      BY <1>1, <2>1, <2>3
    <3>2. ASSUME NEW j \in DOMAIN rest, j # i - n PROVE rest[j].mark \notin LoginMarks
      <4>1. n + j # i
        BY <1>1, <3>2
      <4> QED  BY <1>2, <2>1, <4>1
    <3>3. Plain(got)
      BY <1>1, <2>1, <2>3 DEF Plain
    <3> QED  BY <3>1, <3>2, <3>3 DEF OneAsks
  <2> QED  BY <2>2, <2>3
<1> QED  BY <1>1, <1>4, <1>5 DEF got, rest

(* The login marks of a buffer.                                              *)
LEMMA BufferMarks ==
  ASSUME NEW got \in Seq(Stanzas)
  PROVE  LET buffer == {s.mark : s \in ToSet(got)}
         IN /\ Plain(got) => buffer \cap LoginMarks = {}
            /\ \A mark \in LoginMarks : OneAsks(got, mark) => buffer \cap LoginMarks = {mark}
<1>1. {s.mark : s \in ToSet(got)} = {got[i].mark : i \in DOMAIN got}
  BY DEF ToSet
<1>2. Plain(got) => {got[i].mark : i \in DOMAIN got} \cap LoginMarks = {}
  BY DEF Plain
<1>3. \A mark \in LoginMarks : OneAsks(got, mark) =>
        {got[i].mark : i \in DOMAIN got} \cap LoginMarks = {mark}
  BY DEF OneAsks
<1> QED  BY <1>1, <1>2, <1>3

(* Texts of the server, one behind another.                                  *)
LEMMA TextsJoined ==
  ASSUME NEW d \in Seq(SUBSET Words), NEW e \in Seq(SUBSET Words), Dark(d)
  PROVE  /\ d \o e \in Seq(SUBSET Words)
         /\ Dark(e) => Dark(d \o e)
         /\ \A words : OneTells(e, words) => OneTells(d \o e, words)
<1>1. /\ d \o e \in Seq(SUBSET Words) /\ Len(d) \in Nat /\ Len(e) \in Nat
      /\ DOMAIN d = 1..Len(d) /\ DOMAIN e = 1..Len(e)
      /\ DOMAIN (d \o e) = 1..(Len(d) + Len(e))
      /\ \A i \in 1..(Len(d) + Len(e)) :
           (d \o e)[i] = IF i <= Len(d) THEN d[i] ELSE e[i - Len(d)]
  OBVIOUS
<1>2. Dark(e) => Dark(d \o e)
  BY <1>1 DEF Dark
<1>3. ASSUME NEW words, OneTells(e, words) PROVE OneTells(d \o e, words)
  <2>1. PICK i \in DOMAIN e :
          /\ e[i] \cap LoginWords = words
          /\ \A j \in DOMAIN e : j # i => e[j] \cap LoginWords = {}
    BY <1>3 DEF OneTells
  <2>2. Len(d) + i \in DOMAIN (d \o e) /\ (d \o e)[Len(d) + i] = e[i]
    BY <1>1
  <2>3. ASSUME NEW j \in DOMAIN (d \o e), j # Len(d) + i
        PROVE  (d \o e)[j] \cap LoginWords = {}
    <3>1. CASE j <= Len(d)
      BY <1>1, <3>1 DEF Dark
    <3>2. CASE ~(j <= Len(d))
      <4>1. j - Len(d) \in DOMAIN e /\ j - Len(d) # i /\ (d \o e)[j] = e[j - Len(d)]
        BY <1>1, <2>3, <3>2
      <4> QED  BY <2>1, <4>1
    <3> QED  BY <3>1, <3>2
  <2> QED  BY <2>1, <2>2, <2>3 DEF OneTells
<1> QED  BY <1>1, <1>2, <1>3

(* A word that is on its way stays the only one, whatever else is sent.      *)
LEMMA TellingFollowed ==
  ASSUME NEW d \in Seq(SUBSET Words), NEW e \in Seq(SUBSET Words), Dark(e), NEW words,
         OneTells(d, words)
  PROVE  OneTells(d \o e, words)
<1>1. /\ Len(d) \in Nat /\ Len(e) \in Nat
      /\ DOMAIN d = 1..Len(d) /\ DOMAIN e = 1..Len(e)
      /\ DOMAIN (d \o e) = 1..(Len(d) + Len(e))
      /\ \A i \in 1..(Len(d) + Len(e)) :
           (d \o e)[i] = IF i <= Len(d) THEN d[i] ELSE e[i - Len(d)]
  OBVIOUS
<1>2. PICK i \in DOMAIN d :
        /\ d[i] \cap LoginWords = words
        /\ \A j \in DOMAIN d : j # i => d[j] \cap LoginWords = {}
  BY DEF OneTells
<1>3. i \in DOMAIN (d \o e) /\ (d \o e)[i] = d[i]
  BY <1>1
<1>4. ASSUME NEW j \in DOMAIN (d \o e), j # i PROVE (d \o e)[j] \cap LoginWords = {}
  <2>1. CASE j <= Len(d)
    BY <1>1, <1>2, <1>4, <2>1
  <2>2. CASE ~(j <= Len(d))
    BY <1>1, <2>2 DEF Dark
  <2> QED  BY <2>1, <2>2
<1> QED  BY <1>2, <1>3, <1>4 DEF OneTells

(* The bridge makes one frame of what it finds.                              *)
LEMMA Framed ==
  ASSUME NEW d \in Seq(SUBSET Words)
  PROVE  LET frame == UNION ToSet(d)
         IN /\ frame \in SUBSET Words
            /\ Dark(d) => Dark(<<frame>>)
            /\ \A words : OneTells(d, words) => OneTells(<<frame>>, words)
<1> DEFINE frame == UNION ToSet(d)
<1>1. \A w : w \in frame <=> \E i \in DOMAIN d : w \in d[i]
  BY DEF ToSet
<1>2. frame \in SUBSET Words
  BY <1>1
<1> HIDE DEF frame
<1>3. DOMAIN <<frame>> = {1} /\ <<frame>>[1] = frame
  OBVIOUS
<1>4. Dark(d) => Dark(<<frame>>)
  BY <1>1, <1>3 DEF Dark
<1>5. ASSUME NEW words, OneTells(d, words) PROVE OneTells(<<frame>>, words)
  <2>1. PICK i \in DOMAIN d :
          /\ d[i] \cap LoginWords = words
          /\ \A j \in DOMAIN d : j # i => d[j] \cap LoginWords = {}
    BY <1>5 DEF OneTells
  <2>2. frame \cap LoginWords = words
    BY <1>1, <2>1
  <2> QED  BY <1>3, <2>2 DEF OneTells
<1> QED  BY <1>2, <1>4, <1>5 DEF frame

(* The tab takes the first frame: the word is in it, or still to come.       *)
LEMMA Taken ==
  ASSUME NEW f \in Seq(SUBSET Words), f # <<>>
  PROVE  /\ Tail(f) \in Seq(SUBSET Words)
         /\ Dark(f) => Dark(Tail(f)) /\ Head(f) \cap LoginWords = {}
         /\ \A words : OneTells(f, words) =>
              \/ Head(f) \cap LoginWords = words /\ Dark(Tail(f))
              \/ Head(f) \cap LoginWords = {} /\ OneTells(Tail(f), words)
<1>1. /\ Tail(f) \in Seq(SUBSET Words) /\ Len(f) \in Nat \ {0}
      /\ DOMAIN f = 1..Len(f) /\ DOMAIN Tail(f) = 1..(Len(f) - 1)
      /\ Head(f) = f[1] /\ \A i \in 1..(Len(f) - 1) : Tail(f)[i] = f[i + 1]
  OBVIOUS
<1>2. Dark(f) => Dark(Tail(f)) /\ Head(f) \cap LoginWords = {}
  BY <1>1 DEF Dark
<1>3. ASSUME NEW words, OneTells(f, words)
      PROVE  \/ Head(f) \cap LoginWords = words /\ Dark(Tail(f))
             \/ Head(f) \cap LoginWords = {} /\ OneTells(Tail(f), words)
  <2>1. PICK i \in DOMAIN f :
          /\ f[i] \cap LoginWords = words
          /\ \A j \in DOMAIN f : j # i => f[j] \cap LoginWords = {}
    BY <1>3 DEF OneTells
  <2>2. CASE i = 1
    BY <1>1, <2>1, <2>2 DEF Dark
  <2>3. CASE i # 1
    <3>1. i - 1 \in DOMAIN Tail(f) /\ Tail(f)[i - 1] = f[i]
      BY <1>1, <2>3
    <3>2. \A j \in DOMAIN Tail(f) : j # i - 1 => Tail(f)[j] \cap LoginWords = {}
      BY <1>1, <2>1
    <3>3. Head(f) \cap LoginWords = {}
      BY <1>1, <2>1, <2>3
    <3> QED  BY <2>1, <3>1, <3>2, <3>3 DEF OneTells
  <2> QED  BY <2>2, <2>3
<1> QED  BY <1>1, <1>2, <1>3

(* What the server sends never has a login word in it, but the answers of    *)
(* the dialogue, which have it in their first send.                          *)
LEMMA SendsWords ==
  ASSUME NEW reaction
  PROVE  /\ Sends(reaction) \in Seq(SUBSET Words)
         /\ reaction \notin {"open", "auth", "restart", "bind"} => Dark(Sends(reaction))
         /\ OneTells(Sends("open"), {"mechanisms"})
         /\ OneTells(Sends("auth"), {"success"})
         /\ OneTells(Sends("restart"), {"bind"})
         /\ OneTells(Sends("bind"), {"bind", "jid"})
<1>1. \A a \in SUBSET Words : /\ <<a>> \in Seq(SUBSET Words)
                              /\ DOMAIN <<a>> = {1} /\ <<a>>[1] = a
  OBVIOUS
<1>2. \A a, b \in SUBSET Words : /\ <<a, b>> \in Seq(SUBSET Words)
                                 /\ DOMAIN <<a, b>> = {1, 2}
                                 /\ <<a, b>>[1] = a /\ <<a, b>>[2] = b
  OBVIOUS
<1>3. <<>> \in Seq(SUBSET Words) /\ DOMAIN <<>> = {}
  OBVIOUS
<1> DEFINE sets == {{"mechanisms"}, {"success"}, {"bind"}, {"bind", "jid"}, {"roomlist"}, {"other"}}
<1>4. sets \subseteq SUBSET Words
  BY DEF Words
<1>5. /\ {"mechanisms"} \cap LoginWords = {"mechanisms"}
      /\ {"success"} \cap LoginWords = {"success"}
      /\ {"bind"} \cap LoginWords = {"bind"}
      /\ {"bind", "jid"} \cap LoginWords = {"bind", "jid"}
      /\ {"roomlist"} \cap LoginWords = {} /\ {"other"} \cap LoginWords = {}
  BY DEF LoginWords
<1>6. /\ Sends("open") = <<{"mechanisms"}>> /\ Sends("auth") = <<{"success"}>>
      /\ Sends("restart") = <<{"bind"}>> /\ Sends("bind") = <<{"bind", "jid"}, {"roomlist"}>>
      /\ Sends("session") = <<{"other"}>> /\ Sends("join") = <<{"other"}, {"roomlist"}>>
      /\ reaction \notin {"open", "auth", "restart", "bind", "session", "join"}
           => Sends(reaction) = <<>>
  BY DEF Sends
<1> HIDE DEF sets
<1>7. /\ Sends("open") \in Seq(SUBSET Words) /\ Sends("auth") \in Seq(SUBSET Words)
      /\ Sends("restart") \in Seq(SUBSET Words) /\ Sends("bind") \in Seq(SUBSET Words)
      /\ Sends("session") \in Seq(SUBSET Words) /\ Sends("join") \in Seq(SUBSET Words)
  <2>1. /\ {"mechanisms"} \in SUBSET Words /\ {"success"} \in SUBSET Words
        /\ {"bind"} \in SUBSET Words /\ {"bind", "jid"} \in SUBSET Words
        /\ {"roomlist"} \in SUBSET Words /\ {"other"} \in SUBSET Words
    BY DEF Words
  <2>2. /\ <<{"mechanisms"}>> \in Seq(SUBSET Words) /\ <<{"success"}>> \in Seq(SUBSET Words)
        /\ <<{"bind"}>> \in Seq(SUBSET Words) /\ <<{"other"}>> \in Seq(SUBSET Words)
    BY <2>1
  <2>3. /\ <<{"bind", "jid"}, {"roomlist"}>> \in Seq(SUBSET Words)
        /\ <<{"other"}, {"roomlist"}>> \in Seq(SUBSET Words)
    BY <2>1
  <2> QED  BY <1>6, <2>2, <2>3, Zenon
<1>8. /\ Dark(Sends("session")) /\ Dark(Sends("join"))
      /\ reaction \notin {"open", "auth", "restart", "bind", "session", "join"}
           => Dark(Sends(reaction))
  BY <1>1, <1>2, <1>3, <1>4, <1>5, <1>6 DEF Dark, sets
<1>9. /\ OneTells(Sends("open"), {"mechanisms"})
      /\ OneTells(Sends("auth"), {"success"})
      /\ OneTells(Sends("restart"), {"bind"})
  BY <1>1, <1>4, <1>5, <1>6 DEF OneTells, sets
<1>10. OneTells(Sends("bind"), {"bind", "jid"})
  BY <1>2, <1>4, <1>5, <1>6 DEF OneTells, sets
<1> QED  BY <1>3, <1>6, <1>7, <1>8, <1>9, <1>10

(* Without a login stanza the server stays in its state; the one that is     *)
(* waited for moves it on.                                                   *)
LEMMA Reactions ==
  ASSUME NEW buffer
  PROVE  /\ \A s : buffer \cap LoginMarks = {} =>
              LET r == Reaction(s, buffer)
              IN r \notin {"open", "auth", "restart", "bind"} /\ NextState(s, r) = s
         /\ buffer \cap LoginMarks = {"stream"} =>
              /\ Reaction("CONNECTED", buffer) = "open"
              /\ Reaction("AUTHENTICATED", buffer) = "restart"
         /\ buffer \cap LoginMarks = {"auth"} => Reaction("STREAM_OPEN", buffer) = "auth"
         /\ buffer \cap LoginMarks = {"bind"} => Reaction("NEGOTIATING", buffer) = "bind"
         /\ NextState("CONNECTED", "open") = "STREAM_OPEN"
         /\ NextState("STREAM_OPEN", "auth") = "AUTHENTICATED"
         /\ NextState("AUTHENTICATED", "restart") = "NEGOTIATING"
         /\ NextState("NEGOTIATING", "bind") = "BOUND"
<1>1. ASSUME NEW s, buffer \cap LoginMarks = {}
      PROVE  LET r == Reaction(s, buffer)
             IN r \notin {"open", "auth", "restart", "bind"} /\ NextState(s, r) = s
  <2>1. /\ buffer \cap {"stream", "xml"} = {} /\ "auth" \notin buffer
        /\ "stream" \notin buffer /\ "bind" \notin buffer
    BY <1>1 DEF LoginMarks
  <2>2. Reaction(s, buffer) \in {"session", "ignore", "disco", "join", "message"}
    BY <2>1 DEF Reaction
  <2> QED  BY <2>2 DEF NextState
<1>2. buffer \cap LoginMarks = {"stream"} =>
        /\ Reaction("CONNECTED", buffer) = "open"
        /\ Reaction("AUTHENTICATED", buffer) = "restart"
  BY DEF Reaction, LoginMarks
<1>3. buffer \cap LoginMarks = {"auth"} => Reaction("STREAM_OPEN", buffer) = "auth"
  BY DEF Reaction, LoginMarks
<1>4. buffer \cap LoginMarks = {"bind"} => Reaction("NEGOTIATING", buffer) = "bind"
  BY DEF Reaction, LoginMarks
<1> QED  BY <1>1, <1>2, <1>3, <1>4 DEF NextState

(* A reaction joins a room only if the buffer has a presence; the room is    *)
(* one that the page named, or an address taken for one.                     *)
LEMMA JoinedRoom ==
  ASSUME NEW got \in Seq(Stanzas), NEW s,
         Reaction(s, {x.mark : x \in ToSet(got)}) = "join"
  PROVE  RoomJoined(got) \in Rooms \cup OtherRooms
<1> DEFINE addressed == {i \in DOMAIN got : got[i].mark \in {"presence", "message"}}
           least == CHOOSE i \in addressed : \A j \in addressed : i <= j
<1>1. "presence" \in {x.mark : x \in ToSet(got)}
  BY DEF Reaction
<1>2. PICK x \in ToSet(got) : x.mark = "presence"
  BY <1>1
<1>3. PICK i \in DOMAIN got : got[i] = x
  BY <1>2 DEF ToSet
<1>4. addressed # {} /\ addressed \subseteq Nat
  BY <1>2, <1>3
<1> HIDE DEF addressed
<1>5. \E k \in addressed : \A j \in addressed : k <= j
  BY <1>4, HasLeast
<1>6. least \in addressed
  BY <1>5
<1> HIDE DEF least
<1>7. got[least] \in Stanzas
  BY <1>6 DEF addressed
<1>8. got[least].to \in Rooms \cup OtherRooms /\ "address" \in OtherRooms
  BY <1>7 DEF Stanzas, OtherRooms
<1>9. RoomJoined(got) = IF got[least].mark = "presence" THEN got[least].to ELSE "address"
  BY DEF RoomJoined, least, addressed
<1> QED  BY <1>8, <1>9

-----------------------------------------------------------------------------
(* At the start there is no connection. *)
LEMMA DialogueInit == LoginInit => DialogueInv
<1> SUFFICES ASSUME LoginInit PROVE DialogueInv
  OBVIOUS
<1>1. <<>> \in Seq(Stanzas) /\ <<>> \in Seq(SUBSET Words)
  OBVIOUS
<1>2. /\ "CONNECTED" \in {ConnStates[i] : i \in 1..5} /\ 0 \in 0..Moves /\ 0 \in 0..Drops
      /\ "" \in OtherRooms /\ 0 \in 0..Others /\ 0 \in 0..0
  BY Phases DEF OtherRooms
<1>3. LoginTypes
  BY <1>1, <1>2 DEF LoginInit, LoginTypes, TabStates
<1> QED  BY <1>3 DEF LoginInit, DialogueInv, StagesInv, QueueInv

(* joinRoom, leaveRoom, sendChatMessage: whatever the login has come to, a   *)
(* presence or a message changes nothing of it.                              *)
LEMMA UserKeeps ==
  ASSUME DialogueInv,
         (\E r \in Rooms : JoinRoom(r)) \/ LeaveRoom \/ SendChatMessage
  PROVE  DialogueInv'
<1> USE DEF DialogueInv, tab, server, counts, queue, QueueInv
<1>1. ASSUME NEW s \in Stanzas, s.mark \notin LoginMarks, up' = Append(up, s),
             UNCHANGED <<socket, xmppState, down, frames, state>>
      PROVE  StagesInv' /\ up' \in Seq(Stanzas)
  <2>1. /\ up' \in Seq(Stanzas) /\ (Plain(up) => Plain(up'))
        /\ \A mark : OneAsks(up, mark) => OneAsks(up', mark)
    BY <1>1, PlainAppended DEF LoginTypes
  <2>2. /\ \A mark : Asking(mark) => Asking(mark)'
        /\ \A words : Telling(words) => Telling(words)'
    BY <1>1, <2>1 DEF Asking, Telling
  <2> QED
    BY <1>1, <2>1, <2>2 DEF StagesInv, WaitSasl, WaitAuth, WaitOffer, WaitResult, Ready
<1>2. ASSUME UNCHANGED <<xmppState, up, down, frames, state>> PROVE StagesInv'
  BY <1>2 DEF StagesInv, WaitSasl, WaitAuth, WaitOffer, WaitResult, Ready, Asking, Telling,
              Plain, Dark, OneAsks, OneTells
<1>3. ASSUME NEW r \in Rooms \cup OtherRooms
      PROVE  /\ Presence(r) \in Stanzas /\ Presence(r).mark \notin LoginMarks
             /\ [mark |-> "message", to |-> r] \in Stanzas
             /\ [mark |-> "message", to |-> r].mark \notin LoginMarks
  BY DEF Presence, Stanzas, Marks, LoginMarks
<1>4. ASSUME NEW r \in Rooms, JoinRoom(r) PROVE DialogueInv'
  <2>1. CASE socket = "open"
    <3>1. Presence(r) \in Stanzas /\ Presence(r).mark \notin LoginMarks
      BY <1>3
    <3>2. StagesInv' /\ up' \in Seq(Stanzas)
      BY <1>1, <1>4, <2>1, <3>1 DEF JoinRoom
    <3> QED  BY <1>4, <2>1, <3>2, Phases DEF JoinRoom, LoginTypes
  <2>2. CASE socket # "open"
    <3>1. StagesInv'
      BY <1>2, <1>4, <2>2 DEF JoinRoom, ConnectXMPP
    <3> QED  BY <1>4, <2>2, <3>1, Phases DEF JoinRoom, ConnectXMPP, LoginTypes
  <2> QED  BY <2>1, <2>2
<1>5. ASSUME LeaveRoom PROVE DialogueInv'
  <2>1. CASE socket = "open"
    <3>1. Presence("lobby") \in Stanzas /\ Presence("lobby").mark \notin LoginMarks
      BY <1>3 DEF OtherRooms
    <3>2. StagesInv' /\ up' \in Seq(Stanzas)
      BY <1>1, <1>5, <2>1, <3>1 DEF LeaveRoom
    <3> QED  BY <1>5, <2>1, <3>2, Phases DEF LeaveRoom, LoginTypes
  <2>2. CASE socket # "open"
    <3>1. StagesInv'
      BY <1>2, <1>5, <2>2 DEF LeaveRoom
    <3> QED  BY <1>5, <2>2, <3>1, Phases DEF LeaveRoom, LoginTypes
  <2> QED  BY <2>1, <2>2
<1>6. ASSUME SendChatMessage PROVE DialogueInv'
  <2> DEFINE s == [mark |-> "message", to |-> currentRoom]
  <2>1. currentRoom \in Rooms
    BY <1>6 DEF SendChatMessage, LoginTypes
  <2>2. s \in Stanzas /\ s.mark \notin LoginMarks
    BY <1>3, <2>1
  <2>3. up' = Append(up, s)
    BY <1>6 DEF SendChatMessage
  <2> HIDE DEF s
  <2>4. StagesInv' /\ up' \in Seq(Stanzas)
    BY <1>1, <1>6, <2>2, <2>3 DEF SendChatMessage
  <2> QED  BY <1>6, <2>4, Phases DEF SendChatMessage, LoginTypes
<1> QED  BY <1>4, <1>5, <1>6

(* onopen: the stream is asked for on a connection that is new.              *)
LEMMA OpenKeeps == ASSUME DialogueInv, OnOpen PROVE DialogueInv'
<1> USE DEF DialogueInv
<1>1. /\ up = <<>> /\ down = <<>> /\ frames = <<>> /\ state = "CONNECTED"
      /\ socket' = "open" /\ xmppState' = "WAIT_SASL" /\ up' = <<Stanza("stream")>>
      /\ UNCHANGED <<currentRoom, moves, drops, down, frames, state, room, others>>
      /\ queued' = queued + 1 /\ place' = queued + 1 /\ reported'
  BY DEF OnOpen, counts, server
<1>2. Stanza("stream") \in Stanzas /\ Stanza("stream").mark = "stream"
  BY DEF Stanza, Stanzas, Marks, OtherRooms
<1>3. DOMAIN up' = {1} /\ up'[1] = Stanza("stream") /\ up' \in Seq(Stanzas)
  BY <1>1, <1>2
<1>4. OneAsks(up', "stream")
  BY <1>2, <1>3 DEF OneAsks
<1>5. Dark(down') /\ Dark(frames')
  <2>1. \A i \in DOMAIN <<>> : <<>>[i] \cap LoginWords = {}
    OBVIOUS
  <2> QED  BY <1>1, <2>1 DEF Dark
<1>6. StagesInv'
  BY <1>1, <1>4, <1>5 DEF StagesInv, WaitSasl, Asking
<1>7. queued' \in Nat /\ place' \in 0..queued' /\ reported' \in BOOLEAN /\ QueueInv'
  <2>1. queued \in Nat /\ (others = 0 /\ drops = 0 => queued = 0)
    BY DEF LoginTypes, QueueInv, OnOpen
  <2> QED  BY <1>1, <2>1 DEF QueueInv
<1> QED  BY <1>1, <1>3, <1>6, <1>7 DEF LoginTypes, TabStates

(* onmessage. *)
LEMMA MessageKeeps == ASSUME DialogueInv, OnMessage PROVE DialogueInv'
<1> USE DEF DialogueInv
<1>1. /\ frames # <<>> /\ frames' = Tail(frames) /\ frames \in Seq(SUBSET Words)
      /\ up \in Seq(Stanzas) /\ down \in Seq(SUBSET Words)
      /\ UNCHANGED <<socket, currentRoom, moves, drops, down, state, room>>
      /\ UNCHANGED <<queued, place, reported, others>> /\ QueueInv'
  BY DEF OnMessage, LoginTypes, counts, server, queue, QueueInv
<1>2. socket = "open" /\ xmppState \in TabStates \ {"DISCONNECTED"}
  BY <1>1 DEF LoginTypes
<1>3. /\ frames' \in Seq(SUBSET Words)
      /\ Dark(frames) => Dark(frames') /\ Head(frames) \cap LoginWords = {}
      /\ \A words : OneTells(frames, words) =>
           \/ Head(frames) \cap LoginWords = words /\ Dark(frames')
           \/ Head(frames) \cap LoginWords = {} /\ OneTells(frames', words)
  BY <1>1, Taken
<1>4. ASSUME NEW mark, Asking(mark)
      PROVE  Head(frames) \cap LoginWords = {} /\ (up' = up => Asking(mark)')
  BY <1>1, <1>3, <1>4 DEF Asking
<1>5. ASSUME NEW words, Telling(words)
      PROVE  \/ /\ Head(frames) \cap LoginWords = words
                /\ Plain(up) /\ Dark(down) /\ Dark(frames')
             \/ Head(frames) \cap LoginWords = {} /\ (up' = up => Telling(words)')
  BY <1>1, <1>3, <1>5 DEF Telling
<1>6. ASSUME Plain(up), Dark(down), Dark(frames'), NEW mark \in {"auth", "stream", "bind"},
             up' = up \o <<Stanza(mark)>>
      PROVE  up' \in Seq(Stanzas) /\ Asking(mark)'
  <2>1. Stanza(mark) \in Stanzas /\ Stanza(mark).mark = mark
    BY DEF Stanza, Stanzas, Marks, OtherRooms
  <2>2. up' = Append(up, Stanza(mark))
    BY <1>1, <1>6, <2>1
  <2>3. up' \in Seq(Stanzas) /\ OneAsks(up', mark)
    BY <1>1, <1>6, <2>1, <2>2, AskAppended
  <2> QED  BY <1>1, <1>6, <2>3 DEF Asking
<1>7. CASE Answer("WAIT_SASL", "mechanisms", "WAIT_AUTH_RESULT", <<Stanza("auth")>>)
  <2>1. /\ xmppState = "WAIT_SASL" /\ xmppState' = "WAIT_AUTH_RESULT"
        /\ "mechanisms" \in Head(frames) \cap LoginWords
        /\ up' = up \o <<Stanza("auth")>>
    BY <1>7 DEF Answer, LoginWords
  <2>2. state = "STREAM_OPEN" /\ Plain(up) /\ Dark(down) /\ Dark(frames')
    BY <1>4, <1>5, <2>1 DEF StagesInv, WaitSasl
  <2>3. up' \in Seq(Stanzas) /\ Asking("auth")'
    BY <1>6, <2>1, <2>2
  <2> QED  BY <1>1, <1>2, <1>3, <2>1, <2>2, <2>3 DEF StagesInv, WaitAuth, LoginTypes, TabStates
<1>8. CASE Answer("WAIT_AUTH_RESULT", "success", "WAIT_BIND_OFFER", <<Stanza("stream")>>)
  <2>1. /\ xmppState = "WAIT_AUTH_RESULT" /\ xmppState' = "WAIT_BIND_OFFER"
        /\ "success" \in Head(frames) \cap LoginWords
        /\ up' = up \o <<Stanza("stream")>>
    BY <1>8 DEF Answer, LoginWords
  <2>2. state = "AUTHENTICATED" /\ Plain(up) /\ Dark(down) /\ Dark(frames')
    BY <1>4, <1>5, <2>1 DEF StagesInv, WaitAuth
  <2>3. up' \in Seq(Stanzas) /\ Asking("stream")'
    BY <1>6, <2>1, <2>2
  <2> QED  BY <1>1, <1>2, <1>3, <2>1, <2>2, <2>3 DEF StagesInv, WaitOffer, LoginTypes, TabStates
<1>9. CASE Answer("WAIT_BIND_OFFER", "bind", "WAIT_BIND_RESULT", <<Stanza("bind")>>)
  <2>1. /\ xmppState = "WAIT_BIND_OFFER" /\ xmppState' = "WAIT_BIND_RESULT"
        /\ "bind" \in Head(frames) \cap LoginWords
        /\ up' = up \o <<Stanza("bind")>>
    BY <1>9 DEF Answer, LoginWords
  <2>2. state = "NEGOTIATING" /\ Plain(up) /\ Dark(down) /\ Dark(frames')
    BY <1>4, <1>5, <2>1 DEF StagesInv, WaitOffer
  <2>3. up' \in Seq(Stanzas) /\ Asking("bind")'
    BY <1>6, <2>1, <2>2
  <2> QED  BY <1>1, <1>2, <1>3, <2>1, <2>2, <2>3 DEF StagesInv, WaitResult, LoginTypes, TabStates
<1>10. CASE Answer("WAIT_BIND_RESULT", "jid", "READY", <<Stanza("session"), Presence(currentRoom)>>)
  <2> DEFINE s == Stanza("session")  p == Presence(currentRoom)
  <2>1. /\ xmppState = "WAIT_BIND_RESULT" /\ xmppState' = "READY"
        /\ "jid" \in Head(frames) \cap LoginWords
        /\ up' = up \o <<s, p>>
    BY <1>10 DEF Answer, LoginWords
  <2>2. state = "BOUND" /\ Plain(up) /\ Dark(down) /\ Dark(frames')
    BY <1>4, <1>5, <2>1 DEF StagesInv, WaitResult
  <2>3. /\ s \in Stanzas /\ p \in Stanzas
        /\ s.mark \notin LoginMarks /\ p.mark \notin LoginMarks
    BY DEF Stanza, Presence, Stanzas, Marks, OtherRooms, LoginMarks, LoginTypes
  <2> HIDE DEF s, p
  <2>4. up' = Append(Append(up, s), p)
    BY <1>1, <2>1, <2>3
  <2>5. Append(up, s) \in Seq(Stanzas) /\ Plain(Append(up, s))
    BY <1>1, <2>2, <2>3, PlainAppended
  <2>6. up' \in Seq(Stanzas) /\ Plain(up')
    BY <2>3, <2>4, <2>5, PlainAppended
  <2> QED  BY <1>1, <1>2, <1>3, <2>1, <2>2, <2>6 DEF StagesInv, Ready, LoginTypes, TabStates
<1>11. CASE /\ \A w \in {<<"WAIT_SASL", "mechanisms">>, <<"WAIT_AUTH_RESULT", "success">>,
                         <<"WAIT_BIND_OFFER", "bind">>, <<"WAIT_BIND_RESULT", "jid">>} :
                  xmppState = w[1] => w[2] \notin Head(frames)
            /\ UNCHANGED <<xmppState, up>>
  <2>1. /\ xmppState = "WAIT_SASL" => "mechanisms" \notin Head(frames)
        /\ xmppState = "WAIT_AUTH_RESULT" => "success" \notin Head(frames)
        /\ xmppState = "WAIT_BIND_OFFER" => "bind" \notin Head(frames)
        /\ xmppState = "WAIT_BIND_RESULT" => "jid" \notin Head(frames)
    BY <1>11
  <2>2. xmppState' = xmppState /\ up' = up
    BY <1>11
  <2>3. xmppState = "WAIT_SASL" => WaitSasl'
    BY <1>1, <1>4, <1>5, <2>1, <2>2 DEF StagesInv, WaitSasl
  <2>4. xmppState = "WAIT_AUTH_RESULT" => WaitAuth'
    BY <1>1, <1>4, <1>5, <2>1, <2>2 DEF StagesInv, WaitAuth
  <2>5. xmppState = "WAIT_BIND_OFFER" => WaitOffer'
    BY <1>1, <1>4, <1>5, <2>1, <2>2 DEF StagesInv, WaitOffer
  <2>6. xmppState = "WAIT_BIND_RESULT" => WaitResult'
    BY <1>1, <1>4, <1>5, <2>1, <2>2 DEF StagesInv, WaitResult
  <2>7. xmppState = "READY" => Ready'
    BY <1>1, <1>3, <2>2 DEF StagesInv, Ready
  <2>8. StagesInv'
    BY <2>2, <2>3, <2>4, <2>5, <2>6, <2>7 DEF StagesInv
  <2> QED  BY <1>1, <1>2, <1>3, <2>2, <2>8 DEF LoginTypes
<1> QED  BY <1>7, <1>8, <1>9, <1>10, <1>11 DEF OnMessage

(* onclose and the timer. *)
LEMMA CloseKeeps == ASSUME DialogueInv, OnClose \/ Reconnect PROVE DialogueInv'
<1> USE DEF DialogueInv
<1>1. CASE OnClose
  <2>1. "CONNECTED" \in {ConnStates[i] : i \in 1..5} /\ "" \in OtherRooms
    BY Phases DEF OtherRooms
  <2>2. <<>> \in Seq(Stanzas) /\ <<>> \in Seq(SUBSET Words)
    OBVIOUS
  <2>3. drops' \in 0..Drops
    <3>1. drops \in 0..Drops /\ drops < Drops /\ drops' = drops + 1 /\ Drops \in Nat
      BY <1>1, Phases DEF OnClose, LoginTypes
    <3> QED  BY <3>1
  <2>4. /\ queued' \in Nat /\ place' \in 0..queued' /\ reported' \in BOOLEAN
        /\ others' \in 0..Others
    <3>1. /\ queued' = queued /\ place' = 0 /\ reported' = reported /\ others' = others
          /\ queued \in Nat /\ reported \in BOOLEAN /\ others \in 0..Others
      BY <1>1 DEF OnClose, LoginTypes
    <3>2. reported' \in BOOLEAN
      BY <3>1, Zenon
    <3> QED  BY <3>1, <3>2
  <2>5. LoginTypes'
    BY <1>1, <2>1, <2>2, <2>3, <2>4 DEF OnClose, LoginTypes, TabStates
  <2>6. StagesInv'
    BY <1>1 DEF OnClose, StagesInv
  <2>7. QueueInv'
    <3>1. drops \in 0..Drops /\ drops' = drops + 1 /\ Drops \in Nat
      BY <1>1, Phases DEF OnClose, LoginTypes
    <3>2. drops' # 0
      BY <3>1
    <3> QED  BY <3>2 DEF QueueInv
  <2> QED  BY <1>1, <2>5, <2>6, <2>7 DEF OnClose
<1>2. CASE Reconnect
  <2>1. /\ socket = "closed" /\ socket' = "connecting"
        /\ UNCHANGED <<xmppState, currentRoom, moves, drops, up, down, frames, state, room,
                       queued, place, reported, others>>
    BY <1>2 DEF Reconnect, ConnectXMPP, counts, server, queue
  <2> QED  BY <2>1 DEF LoginTypes, StagesInv, QueueInv
<1> QED  BY <1>1, <1>2

(* The bridge: what the server sent becomes one frame. *)
LEMMA ForwardKeeps == ASSUME DialogueInv, BridgeForward PROVE DialogueInv'
<1> USE DEF DialogueInv
<1> DEFINE frame == UNION ToSet(down)
<1>1. /\ down # <<>> /\ frames' = Append(frames, frame) /\ down' = <<>>
      /\ down \in Seq(SUBSET Words) /\ frames \in Seq(SUBSET Words)
      /\ UNCHANGED <<socket, xmppState, currentRoom, moves, drops, up, state, room>>
      /\ UNCHANGED <<queued, place, reported, others>> /\ QueueInv'
  BY DEF BridgeForward, LoginTypes, tab, counts, server, queue, QueueInv
<1>2. /\ frame \in SUBSET Words
      /\ Dark(down) => Dark(<<frame>>)
      /\ \A words : OneTells(down, words) => OneTells(<<frame>>, words)
  BY <1>1, Framed
<1> HIDE DEF frame
<1>3. <<frame>> \in Seq(SUBSET Words) /\ frames' = frames \o <<frame>>
  BY <1>1, <1>2
<1>4. Dark(down')
  BY <1>1 DEF Dark
<1>5. /\ frames' \in Seq(SUBSET Words)
      /\ Dark(frames) /\ Dark(<<frame>>) => Dark(frames')
      /\ \A words : /\ Dark(frames) /\ OneTells(<<frame>>, words) => OneTells(frames', words)
                    /\ Dark(<<frame>>) /\ OneTells(frames, words) => OneTells(frames', words)
  <2>1. frames' \in Seq(SUBSET Words)
    BY <1>1, <1>2
  <2>2. /\ Dark(frames) /\ Dark(<<frame>>) => Dark(frames')
        /\ \A words : Dark(frames) /\ OneTells(<<frame>>, words) => OneTells(frames', words)
    BY <1>1, <1>3, TextsJoined
  <2>3. \A words : Dark(<<frame>>) /\ OneTells(frames, words) => OneTells(frames', words)
    BY <1>1, <1>3, TellingFollowed
  <2> QED  BY <2>1, <2>2, <2>3
<1>6. /\ \A mark : Asking(mark) => Asking(mark)'
      /\ \A words : Telling(words) => Telling(words)'
  BY <1>1, <1>2, <1>4, <1>5 DEF Asking, Telling
<1>7. Ready => Ready'
  BY <1>1, <1>2, <1>4, <1>5 DEF Ready
<1>8. StagesInv'
  BY <1>1, <1>6, <1>7 DEF StagesInv, WaitSasl, WaitAuth, WaitOffer, WaitResult
<1> QED  BY <1>1, <1>4, <1>5, <1>8 DEF LoginTypes

(* recv in xmppd: what has arrived is one buffer, and one reaction.          *)
LEMMA ReceiveKeeps ==
  ASSUME DialogueInv, NEW n \in 1..Len(up), Receive(n)
  PROVE  DialogueInv'
<1> USE DEF DialogueInv
<1> DEFINE got == SubSeq(up, 1, n)
           buffer == {s.mark : s \in ToSet(got)}
           r == Reaction(state, buffer)
<1>1. /\ up \in Seq(Stanzas) /\ down \in Seq(SUBSET Words)
      /\ up' = SubSeq(up, n + 1, Len(up))
      /\ state' = NextState(state, r) /\ down' = down \o Sends(r)
      /\ room' = IF r = "join" THEN RoomJoined(got) ELSE room
      /\ UNCHANGED <<socket, xmppState, currentRoom, moves, drops, frames>>
      /\ UNCHANGED <<queued, place, reported, others>> /\ QueueInv'
  BY DEF Receive, LoginTypes, tab, counts, queue, QueueInv
<1>2. /\ got \in Seq(Stanzas) /\ up' \in Seq(Stanzas)
      /\ Plain(up) => Plain(got) /\ Plain(up')
      /\ \A mark : OneAsks(up, mark) => \/ OneAsks(got, mark) /\ Plain(up')
                                        \/ Plain(got) /\ OneAsks(up', mark)
  BY <1>1, Cut
<1>3. room' \in Rooms \cup OtherRooms
  BY <1>1, <1>2, JoinedRoom DEF LoginTypes
<1>4. socket = "open"
  <2>1. CASE socket # "open"
    <3>1. up = <<>>
      BY <2>1
    <3> QED  BY <3>1
  <2> QED  BY <2>1
<1> HIDE DEF got
<1>5. /\ Plain(got) => buffer \cap LoginMarks = {}
      /\ \A mark \in LoginMarks : OneAsks(got, mark) => buffer \cap LoginMarks = {mark}
  BY <1>2, BufferMarks
<1> HIDE DEF buffer
<1>6. Plain(got) => r \notin {"open", "auth", "restart", "bind"} /\ state' = state
  BY <1>1, <1>5, Reactions
<1>7. /\ Sends(r) \in Seq(SUBSET Words)
      /\ r \notin {"open", "auth", "restart", "bind"} => Dark(Sends(r))
      /\ r = "open" => OneTells(Sends(r), {"mechanisms"})
      /\ r = "auth" => OneTells(Sends(r), {"success"})
      /\ r = "restart" => OneTells(Sends(r), {"bind"})
      /\ r = "bind" => OneTells(Sends(r), {"bind", "jid"})
  BY SendsWords
<1> HIDE DEF r
<1>8. /\ down' \in Seq(SUBSET Words)
      /\ Dark(down) /\ Dark(Sends(r)) => Dark(down')
      /\ \A words : /\ Dark(down) /\ OneTells(Sends(r), words) => OneTells(down', words)
                    /\ Dark(Sends(r)) /\ OneTells(down, words) => OneTells(down', words)
  <2>1. down' \in Seq(SUBSET Words)
    BY <1>1, <1>7
  <2>2. /\ Dark(down) /\ Dark(Sends(r)) => Dark(down')
        /\ \A words : Dark(down) /\ OneTells(Sends(r), words) => OneTells(down', words)
    BY <1>1, <1>7, TextsJoined
  <2>3. \A words : Dark(Sends(r)) /\ OneTells(down, words) => OneTells(down', words)
    BY <1>1, <1>7, TellingFollowed
  <2> QED  BY <2>1, <2>2, <2>3
(* The stanza that is waited for is in the buffer, or nothing that matters is. *)
<1>9. ASSUME NEW mark \in LoginMarks, Asking(mark)
      PROVE  \/ state' = state /\ Asking(mark)'
             \/ /\ buffer \cap LoginMarks = {mark} /\ Plain(up') /\ Dark(down) /\ Dark(frames')
  BY <1>1, <1>2, <1>5, <1>6, <1>7, <1>8, <1>9 DEF Asking
<1>10. ASSUME NEW words, Telling(words) PROVE state' = state /\ Telling(words)'
  BY <1>1, <1>2, <1>6, <1>7, <1>8, <1>10 DEF Telling
<1>11. ASSUME NEW words, OneTells(Sends(r), words), Plain(up'), Dark(down), Dark(frames')
       PROVE  Telling(words)'
  BY <1>8, <1>11 DEF Telling
<1>12. "stream" \in LoginMarks /\ "auth" \in LoginMarks /\ "bind" \in LoginMarks
  BY DEF LoginMarks
<1>13. WaitSasl => WaitSasl'
  <2>1. state = "CONNECTED" /\ buffer \cap LoginMarks = {"stream"}
          => r = "open" /\ state' = "STREAM_OPEN"
    BY <1>1, Reactions DEF r
  <2> QED  BY <1>7, <1>9, <1>10, <1>11, <1>12, <2>1 DEF WaitSasl
<1>14. WaitAuth => WaitAuth'
  <2>1. state = "STREAM_OPEN" /\ buffer \cap LoginMarks = {"auth"}
          => r = "auth" /\ state' = "AUTHENTICATED"
    BY <1>1, Reactions DEF r
  <2> QED  BY <1>7, <1>9, <1>10, <1>11, <1>12, <2>1 DEF WaitAuth
<1>15. WaitOffer => WaitOffer'
  <2>1. state = "AUTHENTICATED" /\ buffer \cap LoginMarks = {"stream"}
          => r = "restart" /\ state' = "NEGOTIATING"
    BY <1>1, Reactions DEF r
  <2> QED  BY <1>7, <1>9, <1>10, <1>11, <1>12, <2>1 DEF WaitOffer
<1>16. WaitResult => WaitResult'
  <2>1. state = "NEGOTIATING" /\ buffer \cap LoginMarks = {"bind"}
          => r = "bind" /\ state' = "BOUND"
    BY <1>1, Reactions DEF r
  <2> QED  BY <1>7, <1>9, <1>10, <1>11, <1>12, <2>1 DEF WaitResult
<1>17. Ready => Ready'
  BY <1>1, <1>2, <1>6, <1>7, <1>8 DEF Ready
<1>18. StagesInv'
  BY <1>1, <1>13, <1>14, <1>15, <1>16, <1>17 DEF StagesInv
<1>19. state' \in {ConnStates[i] : i \in 1..5}
  <2>1. state' \in {state, "STREAM_OPEN", "AUTHENTICATED", "NEGOTIATING", "BOUND"}
    BY <1>1, Zenon DEF NextState
  <2> QED  BY <2>1, Phases DEF LoginTypes
<1> QED  BY <1>1, <1>2, <1>3, <1>4, <1>8, <1>18, <1>19 DEF LoginTypes

(* The listener: nothing but the backlog changes. *)
LEMMA ListenerKeeps == ASSUME DialogueInv, OtherConnects \/ AcceptFirst PROVE DialogueInv'
<1> USE DEF DialogueInv
<1>1. /\ UNCHANGED <<socket, xmppState, currentRoom, moves, drops, up, down, frames, state, room>>
      /\ queued \in Nat /\ place \in 0..queued /\ others \in 0..Others
  BY DEF OtherConnects, AcceptFirst, LoginTypes, tab, counts, server
<1>2. StagesInv'
  BY <1>1 DEF StagesInv, WaitSasl, WaitAuth, WaitOffer, WaitResult, Ready, Asking, Telling,
              Plain, Dark, OneAsks, OneTells
<1>3. /\ queued' \in Nat /\ place' \in 0..queued' /\ reported' \in BOOLEAN
      /\ others' \in 0..Others /\ QueueInv'
  <2>1. CASE OtherConnects
    BY <1>1, <2>1, Phases DEF OtherConnects, QueueInv
  <2>2. CASE AcceptFirst
    <3>1. /\ queued' = queued - 1 /\ queued > 0 /\ reported' = FALSE /\ others' = others
          /\ place' = IF place = 0 THEN 0 ELSE place - 1
      BY <2>2 DEF AcceptFirst
    <3>2. queued' \in Nat /\ place' \in 0..queued' /\ others' \in 0..Others
      BY <1>1, <3>1
    <3>3. reported' \in BOOLEAN
      BY <3>1, Zenon
    <3>4. QueueInv'
      BY <1>1, <3>1 DEF QueueInv
    <3> QED  BY <3>2, <3>3, <3>4
  <2> QED  BY <2>1, <2>2
<1> QED  BY <1>1, <1>2, <1>3 DEF LoginTypes

(* Every step of the tab, the bridge, the server and the user.               *)
LEMMA DialogueStep == DialogueInv /\ [LoginNext]_loginVars => DialogueInv'
<1> SUFFICES ASSUME DialogueInv, [LoginNext]_loginVars PROVE DialogueInv'
  OBVIOUS
<1>1. CASE LoginNext
  BY <1>1, UserKeeps, CloseKeeps, OpenKeeps, MessageKeeps, ForwardKeeps, ReceiveKeeps,
     ListenerKeeps
  DEF LoginNext, System
<1>2. CASE UNCHANGED loginVars
  BY <1>2 DEF loginVars, tab, counts, server, queue, QueueInv, DialogueInv, LoginTypes, StagesInv, WaitSasl,
              WaitAuth, WaitOffer, WaitResult, Ready, Asking, Telling
<1> QED  BY <1>1, <1>2

-----------------------------------------------------------------------------
(* index.html:1270-1421 with xmppd.c:357-528: for each pair of stages of the *)
(* tab and the server, what is in flight between them, whatever the user     *)
(* joins meanwhile and wherever the bytes are cut.                           *)
THEOREM DialogueInvariance == LoginSpec => []DialogueInv
BY DialogueInit, DialogueStep, PTL DEF LoginSpec

(* The page and the server never differ by more than one stage of the login, *)
(* and the page is READY only when the server has bound it; and no login is  *)
(* left in the backlog of the server unless other connections came in.       *)
THEOREM LoginKeepsStep == LoginSpec => []LoginInStep
<1>1. DialogueInv => LoginInStep
  <2> SUFFICES ASSUME DialogueInv PROVE InStep /\ NeverBehindAlone
    BY DEF LoginInStep, DialogueInv
  <2>1. /\ Stage("STREAM_OPEN") = 2 /\ Stage("AUTHENTICATED") = 3
        /\ Stage("NEGOTIATING") = 4 /\ Stage("BOUND") = 5
    <3>1. 1..5 = {1, 2, 3, 4, 5}
      OBVIOUS
    <3>2. \A s : Stage(s) = CHOOSE i \in {1, 2, 3, 4, 5} : ConnStates[i] = s
      BY <3>1 DEF Stage
    <3>3. /\ ConnStates[1] = "CONNECTED" /\ ConnStates[2] = "STREAM_OPEN"
          /\ ConnStates[3] = "AUTHENTICATED" /\ ConnStates[4] = "NEGOTIATING"
          /\ ConnStates[5] = "BOUND"
      BY DEF ConnStates
    <3> QED  BY <3>2, <3>3
  <2>2. InStep
    BY <2>1 DEF DialogueInv, StagesInv, WaitSasl, WaitAuth, WaitOffer, WaitResult, Ready, InStep
  <2>3. NeverBehindAlone
    BY DEF DialogueInv, LoginTypes, QueueInv, NeverBehindAlone, LeftBehind
  <2> QED  BY <2>2, <2>3
<1> QED  BY <1>1, DialogueInvariance, PTL

(* A login that is not through never waits for nothing: a stanza, a text or  *)
(* a frame is on its way, or the connection is still to be accepted with the *)
(* stanza that it sent.                                                      *)
LoginPending == socket = "open" /\ xmppState # "READY" => up # <<>> \/ down # <<>> \/ frames # <<>>

THEOREM LoginNeverStuck == LoginSpec => []LoginPending
<1>1. DialogueInv => LoginPending
  <2> SUFFICES ASSUME DialogueInv, socket = "open", xmppState # "READY",
                      up = <<>>, down = <<>>, frames = <<>>
               PROVE  FALSE
    BY DEF LoginPending
  <2>1. \A mark : ~OneAsks(up, mark)
    BY DEF OneAsks
  <2>2. \A words : ~OneTells(down, words) /\ ~OneTells(frames, words)
    BY DEF OneTells
  <2>3. xmppState \in TabStates \ {"DISCONNECTED", "READY"}
    BY DEF DialogueInv, LoginTypes
  <2> QED
    BY <2>1, <2>2, <2>3 DEF DialogueInv, StagesInv, TabStates, WaitSasl, WaitAuth, WaitOffer,
                            WaitResult, Asking, Telling
<1> QED  BY <1>1, DialogueInvariance, PTL

=============================================================================
