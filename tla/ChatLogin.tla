------------------------------ MODULE ChatLogin ------------------------------
(***************************************************************************)
(* One browser tab and its record in the chat server: the login dialogue   *)
(* of public_html/index.html:1270-1421 with xmppd.c:357-528, and the joins *)
(* that the user asks for while it runs.                                   *)
(*                                                                         *)
(* What the tab sends is a stream of bytes: the server's one recv per edge *)
(* takes all that has arrived, whether that is one stanza or several.  The *)
(* bridge in between forwards each frame of the tab by a send of its own,  *)
(* and makes one frame of all that it finds from the server.  What a tab   *)
(* sends between two rounds of either is taken to fit its buffer.          *)
(*                                                                         *)
(* The server answers nothing before it has accepted the connection, and   *)
(* it accepts one for each event of its edge-triggered listener: several   *)
(* that come in together are one event.                                    *)
(***************************************************************************)
EXTENDS XmppProtocol, Naturals, Sequences, SequencesExt

CONSTANTS Moves,  \* bound: what the user does
          Drops,  \* bound: connections that break
          Others  \* bound: connections of other tabs that come in

(* What the server may find in a room's place besides a room: no name, the   *)
(* room that leaving leads to, a null currentRoom in print, and an address   *)
(* taken for a name (see RoomJoined).                                        *)
OtherRooms == {"", "lobby", "null", "address"}

ASSUME ChatAssumption == /\ Moves \in Nat /\ Drops \in Nat /\ Others \in Nat
                         /\ Rooms \cap OtherRooms = {}

VARIABLES
  \* the tab
  socket,       \* chatSocket.readyState: "closed", "connecting" or "open"
  xmppState,
  currentRoom,
  moves, drops, \* how often the user acted, and the connection broke
  \* the bytes in flight
  up,           \* stanzas sent by the tab and not received by xmppd
  down,         \* what xmppd sent and the bridge has not received
  frames,       \* the frames the bridge sent and the tab has not handled
  \* the record in xmppd
  state, room,
  \* the listener of xmppd
  queued,       \* how many connections wait to be accepted
  place,        \* which of them is the tab's; 0 if none is
  reported,     \* epoll will report the listener
  others        \* how many connections of other tabs came in

tab    == <<socket, xmppState, currentRoom>>
server == <<state, room>>
counts == <<moves, drops>>
queue  == <<queued, place, reported, others>>
loginVars == <<tab, counts, up, down, frames, server, queue>>

TabStates == {"DISCONNECTED", "WAIT_SASL", "WAIT_AUTH_RESULT", "WAIT_BIND_OFFER",
              "WAIT_BIND_RESULT", "READY"}

Stanzas == [mark : Marks, to : Rooms \cup OtherRooms]
Words   == {"mechanisms", "success", "bind", "jid", "roomlist", "other"}

LoginTypes ==
  /\ socket \in {"closed", "connecting", "open"}
  /\ xmppState \in TabStates
  /\ currentRoom \in Rooms \cup {"null"}
  /\ moves \in 0..Moves /\ drops \in 0..Drops
  /\ up \in Seq(Stanzas)
  /\ down \in Seq(SUBSET Words)
  /\ frames \in Seq(SUBSET Words)
  /\ state \in {ConnStates[i] : i \in 1..5}
  /\ room \in Rooms \cup OtherRooms
  /\ queued \in Nat /\ place \in 0..queued
  /\ reported \in BOOLEAN /\ others \in 0..Others

LoginInit ==
  /\ socket = "closed" /\ xmppState = "DISCONNECTED" /\ currentRoom = "null"
  /\ moves = 0 /\ drops = 0
  /\ up = <<>> /\ down = <<>> /\ frames = <<>>
  /\ state = "CONNECTED" /\ room = ""
  /\ queued = 0 /\ place = 0 /\ reported = FALSE /\ others = 0

Stanza(mark)  == [mark |-> mark, to |-> ""]
Presence(r)   == [mark |-> "presence", to |-> r]

-----------------------------------------------------------------------------
(* The tab. *)

(* connectXMPP does nothing if a socket is open or opening. *)
ConnectXMPP == socket' = IF socket = "closed" THEN "connecting" ELSE socket

(* joinRoom: a presence at once if the socket is open, whatever the login    *)
(* has come to.                                                              *)
JoinRoom(r) ==
  /\ moves < Moves /\ moves' = moves + 1
  /\ currentRoom' = r
  /\ IF socket = "open"
     THEN up' = Append(up, Presence(r)) /\ UNCHANGED socket
     ELSE ConnectXMPP /\ UNCHANGED up
  /\ UNCHANGED <<xmppState, drops, down, frames, server, queue>>

(* leaveRoom. *)
LeaveRoom ==
  /\ moves < Moves /\ moves' = moves + 1
  /\ currentRoom # "null"
  /\ currentRoom' = "null"
  /\ up' = IF socket = "open" THEN Append(up, Presence("lobby")) ELSE up
  /\ UNCHANGED <<socket, xmppState, drops, down, frames, server, queue>>

(* sendChatMessage. *)
SendChatMessage ==
  /\ moves < Moves /\ moves' = moves + 1
  /\ socket = "open" /\ currentRoom # "null"
  /\ up' = Append(up, [mark |-> "message", to |-> currentRoom])
  /\ UNCHANGED <<tab, drops, down, frames, server, queue>>

(* onopen.  The bridge connects to xmppd in its handshake: the connection    *)
(* waits in the backlog from there.                                          *)
OnOpen ==
  /\ socket = "connecting"
  /\ socket' = "open"
  /\ xmppState' = "WAIT_SASL"
  /\ up' = <<Stanza("stream")>>
  /\ queued' = queued + 1 /\ place' = queued + 1 /\ reported' = TRUE
  /\ UNCHANGED <<currentRoom, counts, down, frames, server, others>>

Answer(from, word, to, stanzas) ==
  /\ xmppState = from /\ word \in Head(frames)
  /\ xmppState' = to
  /\ up' = up \o stanzas

(* Mutant: the stream is not started again after the authentication.         *)
OnMessageNoRestart ==
  /\ frames # <<>>
  /\ frames' = Tail(frames)
  /\ \/ Answer("WAIT_SASL", "mechanisms", "WAIT_AUTH_RESULT", <<Stanza("auth")>>)
     \/ Answer("WAIT_AUTH_RESULT", "success", "WAIT_BIND_OFFER", <<>>)
     \/ Answer("WAIT_BIND_OFFER", "bind", "WAIT_BIND_RESULT", <<Stanza("bind")>>)
     \/ Answer("WAIT_BIND_RESULT", "jid", "READY",
               <<Stanza("session"), Presence(currentRoom)>>)
  /\ UNCHANGED <<socket, currentRoom, counts, down, server, queue>>

(* Mutant: the tab takes the offer to bind for the result.                   *)
OnMessageHasty ==
  /\ frames # <<>>
  /\ frames' = Tail(frames)
  /\ \/ Answer("WAIT_SASL", "mechanisms", "WAIT_AUTH_RESULT", <<Stanza("auth")>>)
     \/ Answer("WAIT_AUTH_RESULT", "success", "WAIT_BIND_OFFER", <<Stanza("stream")>>)
     \/ Answer("WAIT_BIND_OFFER", "bind", "READY", <<Stanza("bind")>>)
     \/ /\ xmppState = "READY"
        /\ UNCHANGED <<xmppState, up>>
  /\ UNCHANGED <<socket, currentRoom, counts, down, server, queue>>

(* onmessage: one step of the login if the frame has the word that the tab   *)
(* waits for; else the frame is dropped, or shown once the tab is READY.     *)
OnMessage ==
  /\ frames # <<>>
  /\ frames' = Tail(frames)
  /\ \/ Answer("WAIT_SASL", "mechanisms", "WAIT_AUTH_RESULT", <<Stanza("auth")>>)
     \/ Answer("WAIT_AUTH_RESULT", "success", "WAIT_BIND_OFFER", <<Stanza("stream")>>)
     \/ Answer("WAIT_BIND_OFFER", "bind", "WAIT_BIND_RESULT", <<Stanza("bind")>>)
     \/ Answer("WAIT_BIND_RESULT", "jid", "READY",
               <<Stanza("session"), Presence(currentRoom)>>)
     \/ /\ \A w \in {<<"WAIT_SASL", "mechanisms">>, <<"WAIT_AUTH_RESULT", "success">>,
                     <<"WAIT_BIND_OFFER", "bind">>, <<"WAIT_BIND_RESULT", "jid">>} :
             xmppState = w[1] => w[2] \notin Head(frames)
        /\ UNCHANGED <<xmppState, up>>
  /\ UNCHANGED <<socket, currentRoom, counts, down, server, queue>>

(* onclose, whichever side it comes from, and the timer that connects again  *)
(* three seconds later.  A connection that is not accepted yet stays in the  *)
(* backlog.                                                                  *)
OnClose ==
  /\ drops < Drops /\ drops' = drops + 1
  /\ socket # "closed"
  /\ socket' = "closed" /\ xmppState' = "DISCONNECTED"
  /\ up' = <<>> /\ down' = <<>> /\ frames' = <<>>
  /\ state' = "CONNECTED" /\ room' = ""
  /\ place' = 0
  /\ UNCHANGED <<currentRoom, moves, queued, reported, others>>

Reconnect ==
  /\ socket = "closed" /\ drops > 0
  /\ ConnectXMPP
  /\ UNCHANGED <<xmppState, currentRoom, counts, up, down, frames, server, queue>>

-----------------------------------------------------------------------------
(* The bridge: one recv, one frame. *)
BridgeForward ==
  /\ down # <<>>
  /\ frames' = Append(frames, UNION ToSet(down))
  /\ down' = <<>>
  /\ UNCHANGED <<tab, counts, up, server, queue>>

(* What the server sends for a reaction, send by send. *)
Sends(reaction) ==
  CASE reaction = "open"    -> <<{"mechanisms"}>>
    [] reaction = "auth"    -> <<{"success"}>>
    [] reaction = "restart" -> <<{"bind"}>>
    [] reaction = "bind"    -> <<{"bind", "jid"}, {"roomlist"}>>
    [] reaction = "session" -> <<{"other"}>>
    [] reaction = "join"    -> <<{"other"}, {"roomlist"}>>
    [] OTHER                -> <<>>

(* The room of a presence is read from the first to='...' of the buffer.  A  *)
(* message in front of the presence has one without a nickname, which is     *)
(* taken whole for the name of the room.                                     *)
RoomJoined(stanzas) ==
  LET addressed == {i \in DOMAIN stanzas : stanzas[i].mark \in {"presence", "message"}}
      first == stanzas[CHOOSE i \in addressed : \A j \in addressed : i <= j]
  IN  IF first.mark = "presence" THEN first.to ELSE "address"

(* The server receives n stanzas in one recv: the first n that the tab sent. *)
(* The recv takes all that has arrived; the rest is still on its way.        *)
Receive(n) ==
  /\ place = 0
  /\ n \in 1..Len(up)
  /\ up' = SubSeq(up, n + 1, Len(up))
  /\ LET got      == SubSeq(up, 1, n)
         reaction == Reaction(state, {s.mark : s \in ToSet(got)})
     IN  /\ state' = NextState(state, reaction)
         /\ room' = IF reaction = "join" THEN RoomJoined(got) ELSE room
         /\ down' = down \o Sends(reaction)
  /\ UNCHANGED <<tab, counts, frames, queue>>

(* Another tab's connection comes in. *)
OtherConnects ==
  /\ others < Others /\ others' = others + 1
  /\ queued' = queued + 1
  /\ reported' = TRUE
  /\ UNCHANGED <<tab, counts, up, down, frames, server, place>>

(* One accept, of the connection that came in first, for each report of the  *)
(* listener.                                                                 *)
AcceptFirst ==
  /\ reported /\ queued > 0
  /\ queued' = queued - 1
  /\ place' = IF place = 0 THEN 0 ELSE place - 1
  /\ reported' = FALSE
  /\ UNCHANGED <<tab, counts, up, down, frames, server, others>>

System == OnOpen \/ OnMessage \/ Reconnect \/ BridgeForward \/ AcceptFirst
          \/ \E n \in 1..Len(up) : Receive(n)

LoginNext == \/ \E r \in Rooms : JoinRoom(r)
             \/ LeaveRoom \/ SendChatMessage
             \/ OnClose \/ OtherConnects
             \/ System

LoginSpec == LoginInit /\ [][LoginNext]_loginVars

(* Bytes arrive, callbacks and timers run, and a listener that has an event  *)
(* is looked at.  The user need not do anything, connections need not break, *)
(* and nobody else need connect.                                             *)
FairLogin == LoginSpec /\ WF_loginVars(System)

-----------------------------------------------------------------------------
Stage(s) == CHOOSE i \in 1..5 : ConnStates[i] = s

(* The tab shows "Connected to Caligo Network" only when the server has      *)
(* bound it; before that, the server is at most one step of the dialogue     *)
(* ahead of the tab, never behind what the tab has seen.                     *)
InStep ==
  /\ xmppState = "WAIT_AUTH_RESULT" => Stage(state) \in {2, 3}
  /\ xmppState = "WAIT_BIND_OFFER"  => Stage(state) \in {3, 4}
  /\ xmppState = "WAIT_BIND_RESULT" => Stage(state) \in {4, 5}
  /\ xmppState = "READY"            => Stage(state) = 5

(* The tab's connection waits in the backlog, and no event will make the     *)
(* server accept it: another connection in front of it took its event.       *)
LeftBehind == place > 0 /\ ~reported

(* No login is left behind unless other connections came in: those of other  *)
(* tabs, or one of this tab that broke before it was accepted.               *)
NeverBehindAlone == LeftBehind => others + drops > 0

(* The three, as one invariant. *)
LoginInStep == LoginTypes /\ InStep /\ NeverBehindAlone

(* Whatever arrives together, and whatever the user joins meanwhile, a login *)
(* that the connection survives comes to its end, unless the server leaves   *)
(* it in its backlog; also one that was left there until somebody else came. *)
LoginCompletes ==
  (socket \in {"connecting", "open"}) ~>
    (xmppState = "READY" \/ socket = "closed" \/ LeftBehind)

(* "Wait for session to be established before sending presence": once the    *)
(* tab is READY and everything it sent has been received, the server has it  *)
(* in the room that the tab shows.                                           *)
JoinedWhenReady ==
  xmppState = "READY" /\ up = <<>> /\ currentRoom \in Rooms => room = currentRoom

=============================================================================
