--------------------------- MODULE VirtualCircuit ---------------------------
(***************************************************************************)
(* One caproto.VirtualCircuit object (caproto/_circuit.py): the sans-I/O   *)
(* state of one TCP connection, as either end keeps it.  Commands that the *)
(* program sends (send) and commands that it receives (process_command) go *)
(* through the same _process_command, which looks the channel up, checks   *)
(* the command against both halves of the state machine and only then      *)
(* updates the tables.  Each action below is that method for one class of  *)
(* command, with every early return and every exception it may leave       *)
(* through; nothing restricts the order in which commands arrive.          *)
(*                                                                         *)
(* A dict is a function that is None on the keys the dict does not have.   *)
(* A Channel object is known by its cid: `channels' holds the cids of the  *)
(* objects in self.channels, and chan_states, chan_sid, chan_version and   *)
(* chan_native are the attributes of the latest object made for a cid,     *)
(* which its owner may still read after the circuit has forgotten it.      *)
(***************************************************************************)
EXTENDS Integers, CAState

CONSTANTS
  OurRole,      \* self.our_role
  Cids, Sids,   \* channel ids chosen by the client, by the server
  Ioids,        \* ids of reads and writes
  Subids,       \* subscription ids
  Types,        \* data types of a subscription
  Counts,       \* data counts of a subscription; 0 stands for "whole array"
  Natives,      \* native type and count, as a CreateChanResponse states them
  Priorities,
  Versions,     \* minor protocol versions; 0 is what CA < 4.11 sends
  DEFAULT_PROTOCOL_VERSION,
  None

ASSUME RoleAssumption    == OurRole \in Roles
ASSUME NoneAssumption    ==
  None \notin Cids \cup Sids \cup Natives \cup Priorities
ASSUME CountAssumption   == Counts \subseteq Nat
ASSUME VersionAssumption == /\ Versions \subseteq Nat
                            /\ DEFAULT_PROTOCOL_VERSION \in Versions

VARIABLES
  circuit_states,  \* self.states: what each role's half of the circuit is in
  priority, version,
  channels, chan_states, chan_sid, chan_version,
  chan_native,     \* native_data_type and native_data_count
  channels_sid,    \* sid -> cid
  ioids,           \* self._ioids: ioid -> cid
  event_add, event_cancel, \* event_{add,cancel}_commands: subid -> EventAdd
  outcome          \* how the last command ended: the error it raised

circuitVars == <<circuit_states, priority, version>>
objectVars  == <<channels, chan_states, chan_sid, chan_version, chan_native>>
indexVars   == <<channels_sid, ioids>>
subVars     == <<event_add, event_cancel>>
vars == <<circuitVars, objectVars, indexVars, subVars, outcome>>

TheirRole == IF OurRole = CLIENT THEN SERVER ELSE CLIENT

\* What is kept of an EventAddRequest.
EventAdds == [sid : Sids, data_type : Types, data_count : Counts]

\* The value of event_{add,cancel}_commands where the dict has no key.
NoSub == [sid |-> None]

Ok == [command |-> "none", error |-> "none"]

Errors == {"LocalProtocolError", "RemoteProtocolError", "KeyError"}

Raise(t, e) == outcome' = [command |-> t, error |-> e]

Min2(a, b) == IF a <= b THEN a ELSE b

(***************************************************************************)
(* The state machines (CircuitState, ChannelState).                        *)
(***************************************************************************)
STT_forgetful(role, st) ==
  IF st \in {"SEND_CREATE_CHAN_RESPONSE", "IDLE"} THEN st ELSE "CLOSED"

\* STATE_TRIGGERED_TRANSITIONS, for a circuit that is DISCONNECTED.  The
\* table has no row for a server half that is still IDLE.
STT(role, st) == IF role = SERVER /\ st = "IDLE" THEN "IDLE" ELSE "CLOSED"

\* ChannelState.update
Update(st) ==
  [r \in Roles |-> IF circuit_states[r] = "DISCONNECTED" THEN STT(r, st[r])
                                                          ELSE st[r]]

\* ChannelState.process_command_type, for a command that it accepts
Fire(st, role, t) ==
  Update([st EXCEPT ![role] = ChannelTarget(st[role], t)])

\* _BaseChannel.process_command: our half steps, then theirs.  When theirs
\* refuses, our half has already moved.  (What the method does first, with a
\* CreateChanResponse, is NotesNative.)
Processed(st, t) ==
  LET ours == Fire(st, OurRole, t) IN
  IF t \notin ChannelAccepts(OurRole)[st[OurRole]]
  THEN [states |-> st, error |-> get_exception(OurRole, t)]
  ELSE IF t \notin ChannelAccepts(TheirRole)[ours[TheirRole]]
  THEN [states |-> ours, error |-> get_exception(TheirRole, t)]
  ELSE [states |-> Fire(ours, TheirRole, t), error |-> "none"]

\* Channel c's machine takes command t, or raises.
Takes(c, t) ==
  /\ Processed(chan_states[c], t).error = "none"
  /\ chan_states' = [chan_states EXCEPT
                       ![c] = Processed(chan_states[c], t).states]
  /\ outcome' = Ok

Raises(c, t) ==
  LET p == Processed(chan_states[c], t) IN
  /\ p.error # "none"
  /\ chan_states' = [chan_states EXCEPT ![c] = p.states]
  /\ Raise(t, p.error)
  /\ UNCHANGED <<channels, chan_sid, chan_version>>

Refuses(c, t) == Raises(c, t) /\ UNCHANGED chan_native

\* An exception before the state machine was reached.
Fails(t, e) == Raise(t, e) /\ UNCHANGED <<objectVars, subVars>>

Init ==
  /\ circuit_states = InitialCircuit
  /\ priority \in IF OurRole = CLIENT THEN Priorities ELSE {None}
  /\ version = DEFAULT_PROTOCOL_VERSION
  /\ channels = {}
  /\ chan_states = [c \in Cids |-> InitialChannel]
  /\ chan_sid = [c \in Cids |-> None]
  /\ chan_version = [c \in Cids |-> version]
  /\ chan_native = [c \in Cids |-> None]
  /\ channels_sid = [s \in Sids |-> None]
  /\ ioids = [i \in Ioids |-> None]
  /\ event_add = [k \in Subids |-> NoSub]
  /\ event_cancel = [k \in Subids |-> NoSub]
  /\ outcome = Ok

(***************************************************************************)
(* Commands about the circuit as a whole.                                  *)
(***************************************************************************)
\* process_command(DISCONNECTED): CircuitState.disconnect
Disconnect ==
  /\ circuit_states' = [r \in Roles |-> "DISCONNECTED"]
  /\ chan_states' = [c \in Cids |->
       IF c \in channels THEN [r \in Roles |-> STT(r, chan_states[c][r])]
                         ELSE chan_states[c]]
  /\ outcome' = Ok
  /\ UNCHANGED <<priority, version, channels, chan_sid, chan_version,
                 chan_native, indexVars, subVars>>

\* CircuitState.process_command_type, for our role and then theirs.  The
\* update of the channels does nothing here: a DISCONNECTED circuit accepts
\* no command, and no command leads to DISCONNECTED.
CircuitTakes(t) ==
  /\ \A r \in Roles : t \in CircuitAccepts[circuit_states[r]]
  /\ circuit_states' = [r \in Roles |-> CircuitTarget(circuit_states[r], t)]

CircuitRefuses(t) ==
  /\ \/ /\ t \notin CircuitAccepts[circuit_states[OurRole]]
        /\ Raise(t, get_exception(OurRole, t))
        /\ UNCHANGED circuit_states
     \/ /\ t \in CircuitAccepts[circuit_states[OurRole]]
        /\ t \notin CircuitAccepts[circuit_states[TheirRole]]
        /\ Raise(t, get_exception(TheirRole, t))
        /\ circuit_states' = [circuit_states EXCEPT
             ![OurRole] = CircuitTarget(circuit_states[OurRole], t)]
  /\ UNCHANGED <<priority, version, objectVars, indexVars, subVars>>

CircuitCommand(t) ==
  \/ CircuitRefuses(t)
  \/ /\ CircuitTakes(t)
     /\ outcome' = Ok
     /\ UNCHANGED <<priority, version, objectVars, indexVars, subVars>>

Negotiate_forgetChannels(v) ==
  /\ version' = Min2(version, v)
  /\ UNCHANGED objectVars

Negotiate_latest(v) ==
  /\ version' = v
  /\ chan_version' = [c \in Cids |-> IF c \in channels THEN version'
                                                       ELSE chan_version[c]]
  /\ UNCHANGED <<channels, chan_states, chan_sid, chan_native>>

\* protocol_version = min(...), told to every channel
Negotiate(v) ==
  /\ version' = Min2(version, v)
  /\ chan_version' = [c \in Cids |-> IF c \in channels THEN version'
                                                       ELSE chan_version[c]]
  /\ UNCHANGED <<channels, chan_states, chan_sid, chan_native>>

\* The priority is checked only after the state machine has moved.
VersionRequest(p, v) ==
  \/ CircuitRefuses("VersionRequest")
  \/ /\ CircuitTakes("VersionRequest")
     /\ priority \in {None, p}
     /\ priority' = p
     /\ Negotiate(v)
     /\ outcome' = Ok
     /\ UNCHANGED <<indexVars, subVars>>
  \/ /\ CircuitTakes("VersionRequest")
     /\ priority \notin {None, p}
     /\ Raise("VersionRequest", get_exception(OurRole, "VersionRequest"))
     /\ UNCHANGED <<priority, version, objectVars, indexVars, subVars>>

VersionResponse(v) ==
  \/ CircuitRefuses("VersionResponse")
  \/ /\ CircuitTakes("VersionResponse")
     /\ IF v = 0 THEN UNCHANGED <<version, objectVars>> ELSE Negotiate(v)
     /\ outcome' = Ok
     /\ UNCHANGED <<priority, indexVars, subVars>>

(***************************************************************************)
(* Commands about one channel.                                             *)
(***************************************************************************)
\* A new Channel object (_BaseChannel.__init__) under an unused cid: what
\* new_channel_id gives a client.
NewChannel(c) ==
  /\ OurRole = CLIENT
  /\ c \notin channels
  /\ channels' = channels \cup {c}
  /\ chan_states' = [chan_states EXCEPT ![c] = InitialChannel]
  /\ chan_sid' = [chan_sid EXCEPT ![c] = None]
  /\ chan_version' = [chan_version EXCEPT ![c] = version]
  /\ chan_native' = [chan_native EXCEPT ![c] = None]
  /\ outcome' = Ok
  /\ UNCHANGED <<circuitVars, indexVars, subVars>>

\* An unknown cid gets its Channel object before the command is validated.
CreateChanRequest(c) ==
  LET new == c \notin channels
      p == Processed(IF new THEN InitialChannel ELSE chan_states[c],
                     "CreateChanRequest")
  IN
  /\ channels' = channels \cup {c}
  /\ chan_states' = [chan_states EXCEPT ![c] = p.states]
  /\ chan_sid' = [chan_sid EXCEPT ![c] = IF new THEN None ELSE @]
  /\ chan_version' = [chan_version EXCEPT ![c] = IF new THEN version ELSE @]
  /\ chan_native' = [chan_native EXCEPT ![c] = IF new THEN None ELSE @]
  /\ IF p.error = "none" THEN outcome' = Ok
                         ELSE Raise("CreateChanRequest", p.error)
  /\ UNCHANGED <<circuitVars, indexVars, subVars>>

\* _BaseChannel.process_command begins with this, before any check.
NotesNative(c, n) == chan_native' = [chan_native EXCEPT ![c] = n]

CreateChanResponse_noIndex(c, s, n) ==
  /\ \/ /\ c \notin channels
        /\ Fails("CreateChanResponse", "KeyError")
     \/ /\ c \in channels
        /\ NotesNative(c, n)
        /\ \/ Raises(c, "CreateChanResponse")
           \/ /\ channels_sid[s] = None
              /\ Takes(c, "CreateChanResponse")
              /\ chan_sid' = [chan_sid EXCEPT ![c] = s]
              /\ chan_version' = [chan_version EXCEPT ![c] = version]
              /\ UNCHANGED channels
  /\ UNCHANGED <<circuitVars, channels_sid, ioids, subVars>>

\* The native type and count stay when the command is refused.  That a
\* response which is taken has a fresh sid is assumed of the server (its
\* new_channel_id skips the sids in use); a client does not check it.
CreateChanResponse(c, s, n) ==
  /\ \/ /\ c \notin channels
        /\ Fails("CreateChanResponse", "KeyError")
        /\ UNCHANGED channels_sid
     \/ /\ c \in channels
        /\ NotesNative(c, n)
        /\ \/ /\ Raises(c, "CreateChanResponse")
              /\ UNCHANGED channels_sid
           \/ /\ channels_sid[s] = None
              /\ Takes(c, "CreateChanResponse")
              /\ chan_sid' = [chan_sid EXCEPT ![c] = s]
              /\ chan_version' = [chan_version EXCEPT ![c] = version]
              /\ channels_sid' = [channels_sid EXCEPT ![s] = c]
              /\ UNCHANGED channels
  /\ UNCHANGED <<circuitVars, ioids, subVars>>

\* Commands found by cid that change nothing but the channel's machine
\* (access rights are data).
ByCid(t, c) ==
  /\ \/ /\ c \notin channels
        /\ Fails(t, "KeyError")
     \/ /\ c \in channels
        /\ Refuses(c, t)
     \/ /\ c \in channels
        /\ Takes(c, t)
        /\ UNCHANGED <<channels, chan_sid, chan_version, chan_native>>
  /\ UNCHANGED <<circuitVars, indexVars, subVars>>

CreateChFailResponse(c) == ByCid("CreateChFailResponse", c)
AccessRightsResponse(c) == ByCid("AccessRightsResponse", c)
ClearChannelRequest(c)  == ByCid("ClearChannelRequest", c)

Forget_keepIoids(c) ==
  /\ channels_sid' = [channels_sid EXCEPT ![chan_sid[c]] = None]
  /\ channels' = channels \ {c}
  /\ UNCHANGED ioids

\* The circuit drops channel c, its sid and its ioids, and keeps its
\* subscriptions.
Forget(c) ==
  /\ channels_sid' = [channels_sid EXCEPT ![chan_sid[c]] = None]
  /\ channels' = channels \ {c}
  /\ ioids' = [i \in Ioids |-> IF ioids[i] = c THEN None ELSE ioids[i]]

\* ClearChannelResponse and ServerDisconnResponse.  A FAILED channel takes
\* the command but has no sid to pop.
CloseResponse(t, c) ==
  /\ \/ /\ c \notin channels
        /\ Fails(t, "KeyError")
        /\ UNCHANGED indexVars
     \/ /\ c \in channels
        /\ Refuses(c, t)
        /\ UNCHANGED indexVars
     \/ /\ c \in channels
        /\ chan_sid[c] = None
        /\ Processed(chan_states[c], t).error = "none"
        /\ Fails(t, "KeyError")
        /\ UNCHANGED indexVars
     \/ /\ c \in channels
        /\ chan_sid[c] # None
        /\ Takes(c, t)
        /\ Forget(c)
        /\ UNCHANGED <<chan_sid, chan_version, chan_native>>
  /\ UNCHANGED <<circuitVars, subVars>>

IoRequest_eager(t, s, i) ==
  /\ channels_sid[s] # None
  /\ \/ Refuses(channels_sid[s], t)
     \/ /\ Takes(channels_sid[s], t)
        /\ UNCHANGED <<channels, chan_sid, chan_version, chan_native>>
  /\ ioids' = [ioids EXCEPT ![i] = channels_sid[s]]
  /\ UNCHANGED <<circuitVars, channels_sid, subVars>>

\* Commands found by sid.  ReadRequest, ReadNotifyRequest and
\* WriteNotifyRequest stash their ioid, WriteRequest does not.
IoRequest(t, s, i) ==
  /\ \/ /\ channels_sid[s] = None
        /\ Fails(t, get_exception(OurRole, t))
        /\ UNCHANGED ioids
     \/ /\ channels_sid[s] # None
        /\ Refuses(channels_sid[s], t)
        /\ UNCHANGED ioids
     \/ /\ channels_sid[s] # None
        /\ Takes(channels_sid[s], t)
        /\ ioids' = IF t = "WriteRequest" THEN ioids
                    ELSE [ioids EXCEPT ![i] = channels_sid[s]]
        /\ UNCHANGED <<channels, chan_sid, chan_version, chan_native>>
  /\ UNCHANGED <<circuitVars, channels_sid, subVars>>

\* The ioid is popped before the command is validated.
IoResponse(t, i) ==
  /\ \/ /\ ioids[i] = None
        /\ Fails(t, get_exception(OurRole, t))
     \/ /\ ioids[i] # None
        /\ Refuses(ioids[i], t)
     \/ /\ ioids[i] # None
        /\ Takes(ioids[i], t)
        /\ UNCHANGED <<channels, chan_sid, chan_version, chan_native>>
  /\ ioids' = [ioids EXCEPT ![i] = None]
  /\ UNCHANGED <<circuitVars, channels_sid, subVars>>

(***************************************************************************)
(* Subscriptions.                                                          *)
(***************************************************************************)
EventAddRequest(k, s, ty, n) ==
  /\ \/ /\ channels_sid[s] = None
        /\ Fails("EventAddRequest", get_exception(OurRole, "EventAddRequest"))
     \/ /\ channels_sid[s] # None
        /\ Refuses(channels_sid[s], "EventAddRequest")
        /\ UNCHANGED subVars
     \/ /\ channels_sid[s] # None
        /\ Takes(channels_sid[s], "EventAddRequest")
        /\ event_add' = [event_add EXCEPT
             ![k] = [sid |-> s, data_type |-> ty, data_count |-> n]]
        /\ UNCHANGED <<channels, chan_sid, chan_version, chan_native,
                       event_cancel>>
  /\ UNCHANGED <<circuitVars, indexVars>>

\* The channel of subscription k, if the circuit still has it.
SubChannel(k) == channels_sid[event_add[k].sid]

EventCancelRequest_unstored(k, s, ty) ==
  /\ event_add[k] # NoSub
  /\ SubChannel(k) # None
  /\ Takes(SubChannel(k), "EventCancelRequest")
  /\ event_cancel' = [event_cancel EXCEPT ![k] = event_add[k]]
  /\ event_add' = [event_add EXCEPT ![k] = NoSub]
  /\ UNCHANGED <<channels, chan_sid, chan_version, chan_native, circuitVars,
                 indexVars>>

EventCancelRequest_keepsSid(k, s, ty) ==
  /\ event_add[k] # NoSub
  /\ SubChannel(k) # None
  /\ Takes(SubChannel(k), "EventCancelRequest")
  /\ event_cancel' = [event_cancel EXCEPT ![k] = event_add[k].sid]
  /\ UNCHANGED <<channels, chan_sid, chan_version, chan_native, circuitVars,
                 indexVars, event_add>>

EventCancelRequest(k, s, ty) ==
  LET t == "EventCancelRequest" IN
  /\ \/ /\ event_add[k] = NoSub
        /\ Fails(t, get_exception(OurRole, t))
     \/ /\ event_add[k] # NoSub
        /\ SubChannel(k) = None
        /\ Fails(t, "KeyError")
     \/ /\ event_add[k] # NoSub
        /\ SubChannel(k) # None
        /\ event_add[k].data_type # ty \/ event_add[k].sid # s
        /\ Fails(t, get_exception(OurRole, t))
     \/ /\ event_add[k] # NoSub
        /\ SubChannel(k) # None
        /\ event_add[k].data_type = ty /\ event_add[k].sid = s
        /\ \/ Refuses(SubChannel(k), t) /\ UNCHANGED subVars
           \/ /\ Takes(SubChannel(k), t)
              /\ event_cancel' = [event_cancel EXCEPT ![k] = event_add[k]]
              /\ UNCHANGED <<channels, chan_sid, chan_version, chan_native,
                             event_add>>
  /\ UNCHANGED <<circuitVars, indexVars>>

\* Sent by a server as it is; what a client processes comes from the
\* transmutation in EventAddResponse.  A cancellation nobody asked for has
\* removed its EventAdd by the time the second pop raises.
EventCancelResponse(k, s, ty) ==
  LET t == "EventCancelResponse" IN
  /\ \/ /\ event_add[k] = NoSub
        /\ outcome' = Ok
        /\ UNCHANGED <<objectVars, subVars>>
     \/ /\ event_add[k] # NoSub
        /\ SubChannel(k) = None
        /\ Fails(t, "KeyError")
     \/ /\ event_add[k] # NoSub
        /\ SubChannel(k) # None
        /\ event_add[k].data_type # ty \/ event_add[k].sid # s
        /\ Fails(t, get_exception(OurRole, t))
     \/ /\ event_add[k] # NoSub
        /\ SubChannel(k) # None
        /\ event_add[k].data_type = ty /\ event_add[k].sid = s
        /\ \/ Refuses(SubChannel(k), t) /\ UNCHANGED subVars
           \/ /\ event_cancel[k] # NoSub
              /\ Takes(SubChannel(k), t)
              /\ event_add' = [event_add EXCEPT ![k] = NoSub]
              /\ event_cancel' = [event_cancel EXCEPT ![k] = NoSub]
              /\ UNCHANGED <<channels, chan_sid, chan_version, chan_native>>
           \/ /\ event_cancel[k] = NoSub
              /\ Processed(chan_states[SubChannel(k)], t).error = "none"
              /\ Raise(t, "KeyError")
              /\ event_add' = [event_add EXCEPT ![k] = NoSub]
              /\ UNCHANGED <<objectVars, event_cancel>>
  /\ UNCHANGED <<circuitVars, indexVars>>

\* An update.  One that has no payload answers a pending cancellation, or is
\* dropped when its subscription is unknown.
EventAddResponse(k, ty, n, empty) ==
  LET t == "EventAddResponse" IN
  \/ /\ empty /\ event_cancel[k] # NoSub
     /\ EventCancelResponse(k, event_cancel[k].sid, ty)
  \/ /\ ~(empty /\ event_cancel[k] # NoSub)
     /\ \/ /\ event_add[k] = NoSub
           /\ IF empty THEN outcome' = Ok /\ UNCHANGED <<objectVars, subVars>>
                       ELSE Fails(t, get_exception(OurRole, t))
        \/ /\ event_add[k] # NoSub
           /\ SubChannel(k) = None
           /\ Fails(t, "KeyError")
        \/ /\ event_add[k] # NoSub
           /\ SubChannel(k) # None
           /\ \/ event_add[k].data_type # ty
              \/ event_add[k].data_count > 0 /\ event_add[k].data_count # n
           /\ Fails(t, get_exception(OurRole, t))
        \/ /\ event_add[k] # NoSub
           /\ SubChannel(k) # None
           /\ event_add[k].data_type = ty
           /\ event_add[k].data_count \in {0, n}
           /\ \/ Refuses(SubChannel(k), t)
              \/ /\ Takes(SubChannel(k), t)
                 /\ UNCHANGED <<channels, chan_sid, chan_version, chan_native>>
           /\ UNCHANGED subVars
     /\ UNCHANGED <<circuitVars, indexVars>>

Next ==
  \/ Disconnect
  \/ \E t \in CircuitCommands : CircuitCommand(t)
  \/ \E p \in Priorities, v \in Versions : VersionRequest(p, v)
  \/ \E v \in Versions : VersionResponse(v)
  \/ \E c \in Cids : \/ NewChannel(c)
                     \/ CreateChanRequest(c)
                     \/ \E s \in Sids, n \in Natives :
                          CreateChanResponse(c, s, n)
                     \/ CreateChFailResponse(c)
                     \/ AccessRightsResponse(c)
                     \/ ClearChannelRequest(c)
                     \/ \E t \in {"ClearChannelResponse",
                                  "ServerDisconnResponse"} :
                          CloseResponse(t, c)
  \/ \E i \in Ioids : \/ \E t \in IoRequests \cup {"WriteRequest"}, s \in Sids :
                           IoRequest(t, s, i)
                      \/ \E t \in IoResponses : IoResponse(t, i)
  \/ \E k \in Subids, s \in Sids, ty \in Types :
       \/ \E n \in Counts : EventAddRequest(k, s, ty, n)
       \/ EventCancelRequest(k, s, ty)
       \/ OurRole = SERVER /\ EventCancelResponse(k, s, ty)
  \/ \E k \in Subids, ty \in Types, n \in Counts, empty \in BOOLEAN :
       EventAddResponse(k, ty, n, empty)

Spec == Init /\ [][Next]_vars

(***************************************************************************)
(* Properties.                                                             *)
(***************************************************************************)
\* Every table of the circuit holds what its readers expect to find there.
TypeOK ==
  /\ circuit_states \in [Roles -> CircuitStates]
  /\ priority \in Priorities \cup {None}
  /\ version \in Versions
  /\ channels \subseteq Cids
  /\ chan_states \in [Cids -> [Roles -> ChannelStates]]
  /\ chan_sid \in [Cids -> Sids \cup {None}]
  /\ chan_version \in [Cids -> Versions]
  /\ chan_native \in [Cids -> Natives \cup {None}]
  /\ channels_sid \in [Sids -> Cids \cup {None}]
  /\ ioids \in [Ioids -> Cids \cup {None}]
  /\ event_add \in [Subids -> EventAdds \cup {NoSub}]
  /\ event_cancel \in [Subids -> EventAdds \cup {NoSub}]
  /\ outcome \in [command : CommandTypes \cup {"none"},
                  error : Errors \cup {"none"}]

CircuitPairs ==
  {<<"SEND_VERSION_REQUEST", "IDLE">>,
   <<"AWAIT_VERSION_RESPONSE", "SEND_VERSION_RESPONSE">>,
   <<"CONNECTED", "CONNECTED">>, <<"DISCONNECTED", "DISCONNECTED">>}

ChannelPairs ==
  {<<"SEND_CREATE_CHAN_REQUEST", "IDLE">>,
   <<"AWAIT_CREATE_CHAN_RESPONSE", "SEND_CREATE_CHAN_RESPONSE">>,
   <<"CONNECTED", "CONNECTED">>, <<"MUST_CLOSE", "MUST_CLOSE">>,
   <<"FAILED", "FAILED">>, <<"CLOSED", "CLOSED">>}

\* Only the loss of the connection closes a client half whose server half has
\* seen nothing yet.
Paired(st) ==
  \/ <<st["CLIENT"], st["SERVER"]>> \in ChannelPairs
  \/ /\ <<st["CLIENT"], st["SERVER"]>> = <<"CLOSED", "IDLE">>
     /\ circuit_states[OurRole] = "DISCONNECTED"

\* The client's and the server's half of a machine are stepped one after the
\* other and either may refuse, yet after any sequence of commands, refused
\* ones included, the two halves are in states that belong together.
LockStep ==
  /\ <<circuit_states["CLIENT"], circuit_states["SERVER"]>> \in CircuitPairs
  /\ \A c \in Cids : Paired(chan_states[c])

\* A lost connection reaches every channel of the circuit: none stays
\* half-open.  A channel made after the loss is still unused.
DisconnectClosesChannels ==
  circuit_states[OurRole] = "DISCONNECTED" =>
    \A c \in channels :
      \/ chan_states[c] = InitialChannel
      \/ /\ chan_states[c]["CLIENT"] = "CLOSED"
         /\ chan_states[c]["SERVER"] \in {"CLOSED", "IDLE"}

\* channels_sid is the inverse of the channels' own sid: it never leads to a
\* forgotten channel, and it has every channel that may carry requests.
SidIndex ==
  /\ \A s \in Sids : channels_sid[s] # None =>
       /\ channels_sid[s] \in channels
       /\ chan_sid[channels_sid[s]] = s
  /\ \A c \in channels :
       chan_states[c]["CLIENT"] \in {"CONNECTED", "MUST_CLOSE"} =>
         /\ chan_sid[c] # None
         /\ channels_sid[chan_sid[c]] = c

\* A read or write in flight belongs to a channel the circuit still has and
\* that has a sid: its answer cannot touch a channel that was closed, or
\* another one that got the same cid since.
IoidLive ==
  \A i \in Ioids : ioids[i] # None =>
    /\ ioids[i] \in channels
    /\ chan_sid[ioids[i]] # None
    /\ channels_sid[chan_sid[ioids[i]]] = ioids[i]

\* While a cancellation awaits its answer the subscription it cancels is
\* still known, so that updates in flight can be told from errors.
CancelIsPending ==
  \A k \in Subids : event_cancel[k] # NoSub => event_add[k] # NoSub

\* Every channel of the circuit composes its commands for the protocol
\* version that the circuit has negotiated.
VersionsAgree == \A c \in channels : chan_version[c] = version

\* Negotiation only ever lowers the version, and the priority of a circuit
\* (half of the key under which clients file it) is set once.
NegotiationIsMonotone ==
  [][version' <= version /\ (priority # None => priority' = priority)]_vars

RejectionLeavesTables ==
  /\ circuit_states[OurRole] # "DISCONNECTED"
  /\ outcome'.error \in {"LocalProtocolError", "RemoteProtocolError"}
  => /\ UNCHANGED <<priority, version, channels, chan_states, chan_sid,
                    chan_version, indexVars, subVars>>
     /\ outcome'.command = "VersionRequest" \/ UNCHANGED circuit_states
     /\ outcome'.command = "CreateChanResponse" \/ UNCHANGED chan_native

\* While the circuit is connected, a command refused with a protocol error
\* leaves every table as it was, although the lookups pop ioids and our half
\* of a machine steps before theirs is asked.  There are two exceptions: after
\* a VersionRequest with the wrong priority the handshake has happened, and a
\* CreateChanResponse has replaced the native type and count of its channel.
RejectionIsAtomic == [][RejectionLeavesTables]_vars

=============================================================================
