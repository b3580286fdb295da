---------------------------- MODULE XmppProtocol ----------------------------
(***************************************************************************)
(* How the chat server reads what it receives (xmppd.c:357-528).  It does  *)
(* not parse stanzas: it searches the whole buffer that one recv filled    *)
(* for a few marks, in a fixed order, and acts on the first one found.     *)
(*                                                                         *)
(* A buffer is the set of marks it contains.  It is one stanza when the    *)
(* client's sends arrive one by one, and several when they arrive together *)
(* between two rounds of the server.                                       *)
(***************************************************************************)

CONSTANT Rooms  \* the room names that clients use

Marks == {"xml", "stream", "auth", "bind", "session", "disco",
          "presence", "message"}

(* ConnState, in order. *)
ConnStates == <<"CONNECTED", "STREAM_OPEN", "AUTHENTICATED", "NEGOTIATING", "BOUND">>

(* Mutant: the bind request is taken in any state, authenticated or not.     *)
ReactionEarlyBind(state, buffer) ==
  CASE state = "CONNECTED" /\ buffer \cap {"stream", "xml"} # {} -> "open"
    [] state = "STREAM_OPEN" /\ "auth" \in buffer                -> "auth"
    [] state = "AUTHENTICATED" /\ "stream" \in buffer            -> "restart"
    [] state # "BOUND" /\ "bind" \in buffer                      -> "bind"
    [] OTHER -> IF "session" \in buffer THEN "session"
                ELSE IF state # "BOUND" THEN "ignore"
                ELSE IF "disco" \in buffer THEN "disco"
                ELSE IF "presence" \in buffer THEN "join"
                ELSE IF "message" \in buffer THEN "message" ELSE "ignore"

(* Which branch of handle_client_message a buffer takes.  The branches of    *)
(* the first four states fall through when their mark is missing; <session   *)
(* is answered in every state.                                               *)
Reaction(state, buffer) ==
  CASE state = "CONNECTED" /\ buffer \cap {"stream", "xml"} # {} -> "open"
    [] state = "STREAM_OPEN" /\ "auth" \in buffer                -> "auth"
    [] state = "AUTHENTICATED" /\ "stream" \in buffer            -> "restart"
    [] state = "NEGOTIATING" /\ "bind" \in buffer                -> "bind"
    [] OTHER -> IF "session" \in buffer THEN "session"
                ELSE IF state # "BOUND" THEN "ignore"
                ELSE IF "disco" \in buffer THEN "disco"
                ELSE IF "presence" \in buffer THEN "join"
                ELSE IF "message" \in buffer THEN "message" ELSE "ignore"

(* The state the connection is in afterwards. *)
NextState(state, reaction) ==
  CASE reaction = "open"    -> "STREAM_OPEN"
    [] reaction = "auth"    -> "AUTHENTICATED"
    [] reaction = "restart" -> "NEGOTIATING"
    [] reaction = "bind"    -> "BOUND"
    [] OTHER                -> state

=============================================================================
