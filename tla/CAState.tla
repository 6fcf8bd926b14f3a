------------------------------ MODULE CAState ------------------------------
(***************************************************************************)
(* The protocol tables of caproto/_state.py: which commands the client's   *)
(* and the server's half of a circuit or of a channel accept in each       *)
(* state, and the state they lead to.  Python spells every self-loop out   *)
(* as an entry of a dict; here a state has the set of the commands it      *)
(* accepts, and a target that is the state itself unless the command is    *)
(* one of the few that move it.  States and commands keep their names.     *)
(***************************************************************************)

CLIENT == "CLIENT"
SERVER == "SERVER"
Roles  == {CLIENT, SERVER}

(***************************************************************************)
(* Commands.  DIRECTION of a command class says who may send it.           *)
(***************************************************************************)
VersionCommands == {"VersionRequest", "VersionResponse"}

\* The commands that only ever loop a circuit state back to itself.
CircuitCommands ==
  {"SearchRequest", "SearchResponse", "NotFoundResponse", "HostNameRequest",
   "ClientNameRequest", "EventsOffRequest", "EventsOnRequest", "EchoRequest",
   "EchoResponse", "ErrorResponse"}

IoRequests  == {"ReadNotifyRequest", "ReadRequest", "WriteNotifyRequest"}
IoResponses == {"ReadNotifyResponse", "ReadResponse", "WriteNotifyResponse"}

ChannelCommands ==
  IoRequests \cup IoResponses \cup
  {"CreateChanRequest", "CreateChanResponse", "CreateChFailResponse",
   "AccessRightsResponse", "WriteRequest", "EventAddRequest",
   "EventAddResponse", "EventCancelRequest", "EventCancelResponse",
   "ClearChannelRequest", "ClearChannelResponse", "ServerDisconnResponse"}

CommandTypes == VersionCommands \cup CircuitCommands \cup ChannelCommands

Requests ==
  IoRequests \cup
  {"VersionRequest", "SearchRequest", "HostNameRequest", "ClientNameRequest",
   "EventsOffRequest", "EventsOnRequest", "EchoRequest", "CreateChanRequest",
   "WriteRequest", "EventAddRequest", "EventCancelRequest",
   "ClearChannelRequest"}

\* Who is at fault for a command: the only party that may send it.
PartyAtFault(t) == IF t \in Requests THEN CLIENT ELSE SERVER

\* get_exception(our_role, command)
get_exception(role, t) ==
  IF PartyAtFault(t) = role THEN "LocalProtocolError"
                            ELSE "RemoteProtocolError"

(***************************************************************************)
(* COMMAND_TRIGGERED_CIRCUIT_TRANSITIONS                                   *)
(***************************************************************************)
CircuitStates ==
  {"SEND_VERSION_REQUEST", "AWAIT_VERSION_RESPONSE", "IDLE",
   "SEND_VERSION_RESPONSE", "CONNECTED", "DISCONNECTED"}

InitialCircuit == [CLIENT |-> "SEND_VERSION_REQUEST", SERVER |-> "IDLE"]

CircuitAccepts ==
  [SEND_VERSION_REQUEST |-> VersionCommands,
   IDLE |-> VersionCommands,
   AWAIT_VERSION_RESPONSE |->
     {"VersionResponse", "HostNameRequest", "ClientNameRequest",
      "EchoRequest", "EchoResponse", "ErrorResponse"},
   SEND_VERSION_RESPONSE |->
     {"VersionResponse", "HostNameRequest", "ClientNameRequest",
      "ErrorResponse"},
   CONNECTED |-> VersionCommands \cup CircuitCommands,
   DISCONNECTED |-> {}]

\* A server's unprompted VersionResponse (rsrv sends one upon connection)
\* leaves the handshake where it was.
CircuitMoves_unprompted ==
  [VersionRequest |->
     [SEND_VERSION_REQUEST |-> "AWAIT_VERSION_RESPONSE",
      IDLE |-> "SEND_VERSION_RESPONSE"],
   VersionResponse |->
     [SEND_VERSION_REQUEST |-> "CONNECTED",
      AWAIT_VERSION_RESPONSE |-> "CONNECTED",
      SEND_VERSION_RESPONSE |-> "CONNECTED"]]

CircuitMoves ==
  [VersionRequest |->
     [SEND_VERSION_REQUEST |-> "AWAIT_VERSION_RESPONSE",
      IDLE |-> "SEND_VERSION_RESPONSE"],
   VersionResponse |->
     [AWAIT_VERSION_RESPONSE |-> "CONNECTED",
      SEND_VERSION_RESPONSE |-> "CONNECTED"]]

CircuitTarget(st, t) ==
  IF t \in DOMAIN CircuitMoves /\ st \in DOMAIN CircuitMoves[t]
  THEN CircuitMoves[t][st] ELSE st

(***************************************************************************)
(* COMMAND_TRIGGERED_CHANNEL_TRANSITIONS                                   *)
(***************************************************************************)
ChannelStates ==
  {"SEND_CREATE_CHAN_REQUEST", "AWAIT_CREATE_CHAN_RESPONSE", "IDLE",
   "SEND_CREATE_CHAN_RESPONSE", "CONNECTED", "MUST_CLOSE", "CLOSED",
   "FAILED"}

InitialChannel == [CLIENT |-> "SEND_CREATE_CHAN_REQUEST", SERVER |-> "IDLE"]

\* Commands of a server that may still be in flight when its client asks to
\* close the channel.
InFlightResponses ==
  IoResponses \cup {"AccessRightsResponse", "EventAddResponse",
                    "EventCancelResponse", "ErrorResponse"}

ChannelAccepts(role) ==
  [SEND_CREATE_CHAN_REQUEST |-> {"CreateChanRequest", "ErrorResponse"},
   AWAIT_CREATE_CHAN_RESPONSE |->
     {"CreateChanResponse", "AccessRightsResponse", "CreateChFailResponse",
      "ErrorResponse"},
   IDLE |-> {"CreateChanRequest"},
   SEND_CREATE_CHAN_RESPONSE |->
     {"CreateChanResponse", "AccessRightsResponse", "CreateChFailResponse",
      "ErrorResponse"},
   CONNECTED |->
     InFlightResponses \cup IoRequests \cup
     {"WriteRequest", "EventAddRequest", "EventCancelRequest",
      "ClearChannelRequest", "ServerDisconnResponse"},
   MUST_CLOSE |->
     InFlightResponses \cup {"ClearChannelResponse", "ServerDisconnResponse"},
   CLOSED |-> IF role = CLIENT THEN {"EventCancelResponse"} ELSE {},
   FAILED |-> {"ClearChannelResponse", "ServerDisconnResponse",
               "ErrorResponse"}]

ChannelMoves ==
  [CreateChanRequest |->
     [SEND_CREATE_CHAN_REQUEST |-> "AWAIT_CREATE_CHAN_RESPONSE",
      IDLE |-> "SEND_CREATE_CHAN_RESPONSE"],
   CreateChanResponse |->
     [AWAIT_CREATE_CHAN_RESPONSE |-> "CONNECTED",
      SEND_CREATE_CHAN_RESPONSE |-> "CONNECTED"],
   CreateChFailResponse |->
     [AWAIT_CREATE_CHAN_RESPONSE |-> "FAILED",
      SEND_CREATE_CHAN_RESPONSE |-> "FAILED"],
   ClearChannelRequest |-> [CONNECTED |-> "MUST_CLOSE"],
   ClearChannelResponse |-> [MUST_CLOSE |-> "CLOSED"],
   ServerDisconnResponse |-> [CONNECTED |-> "CLOSED",
                              MUST_CLOSE |-> "CLOSED"]]

ChannelTarget(st, t) ==
  IF t \in DOMAIN ChannelMoves /\ st \in DOMAIN ChannelMoves[t]
  THEN ChannelMoves[t][st] ELSE st
=============================================================================
