----------------------------- MODULE ByteStream -----------------------------
(***************************************************************************)
(* Commands on their way: one peer sends commands over TCP, the other gets *)
(* their bytes in pieces of any size and reads commands from what it has   *)
(* (VirtualCircuit.send and recv in _circuit.py); and datagrams of several *)
(* commands (Broadcaster.send and recv in _broadcaster.py).                *)
(*                                                                         *)
(* What is sent is [command, means]: the command and the fields its sender *)
(* passed to the constructor.  The message of an ErrorResponse is meant    *)
(* with its padding: error_message alone among the texts is not stripped.  *)
(***************************************************************************)
EXTENDS Channels

CONSTANTS
  Texts,        \* names and messages
  Values,       \* data
  Metadata,     \* metadata
  Streams,      \* Streams[role]: what the role may send over TCP
  Datagrams,    \* Datagrams[role]: the sequences it may send as one datagram
  Pieces,       \* the sizes in which bytes arrive
  MaxSent       \* commands sent on the circuit

(***************************************************************************)
(* What may be sent: what a constructor makes of arguments that fit their  *)
(* fields.                                                                 *)
(***************************************************************************)
ASSUME TextsAssumption == \A s \in Texts : s.len \in Nat /\ (s.len = 0 => s.text = "")

ASSUME ValuesAssumption ==
  \A d \in Values : d = [v |-> d.v, n |-> d.n] /\ d.n \in Nat /\ (d.n = 0 => d.v = NoData.v)

OrdinaryTypes == ChannelType \ special_types
Statuses      == DOMAIN CAStatus
Addresses     == (0..Byte - 1) \X (0..Byte - 1) \X (0..Byte - 1) \X (0..Byte - 1)
Events        == {<<0, 0, 0>>} \X U16

\* data of m.data_count elements, with metadata where the type has it
Carries(m) ==
  /\ m.data_count = m.data.n
  /\ m.metadata = NoMetadata <=> m.data_type \in native_types
  /\ DataSize(m.data, m.metadata, m.data_type) \in U32

\* a text that the header can count
Fits(s) == padded_len(s.len) + MessageHeaderSize \in U32

Broadcasted(c, m) ==
  /\ c.cls = "Beacon"
  /\ m \in [version : U16, server_port : U16, beacon_id : U32, address : Addresses]
  /\ c = Beacon(m.version, m.server_port, m.beacon_id, m.address)

Requested(c, m) ==
  \/ Broadcasted(c, m)
  \/ /\ c.cls = "VersionRequest"
     /\ m \in [priority : U16, version : U16]
     /\ c = VersionRequest(m.priority, m.version)
  \/ /\ c.cls = "SearchRequest"
     /\ \E s \in Texts :
          /\ Fits(s)
          /\ m \in [reply : U16, version : U16, cid : U32, name : {s.text}]
          /\ c = SearchRequest(s, m.cid, m.version, m.reply)
  \/ /\ c.cls = "RepeaterRegisterRequest"
     /\ m \in [address : Addresses]
     /\ c = RepeaterRegisterRequest(m.address)
  \/ /\ c.cls = "HostNameRequest"
     /\ \E s \in Texts : Fits(s) /\ m = [name |-> s.text] /\ c = HostNameRequest(s)
  \/ /\ c.cls = "ClientNameRequest"
     /\ \E s \in Texts : Fits(s) /\ m = [name |-> s.text] /\ c = ClientNameRequest(s)
  \/ /\ c.cls = "CreateChanRequest"
     /\ \E s \in Texts :
          /\ Fits(s)
          /\ m \in [cid : U32, version : U32, name : {s.text}]
          /\ c = CreateChanRequest(s, m.cid, m.version)
  \/ /\ c.cls = "ClearChannelRequest"
     /\ m \in [sid : U32, cid : U32]
     /\ c = ClearChannelRequest(m.sid, m.cid)
  \/ /\ c.cls = "ReadRequest"
     /\ m \in [data_type : ChannelType, data_count : U32, sid : U32, ioid : U32]
     /\ c = ReadRequest(m.data_type, m.data_count, m.sid, m.ioid)
  \/ /\ c.cls = "ReadNotifyRequest"
     /\ m \in [data_type : ChannelType, data_count : U32, sid : U32, ioid : U32]
     /\ c = ReadNotifyRequest(m.data_type, m.data_count, m.sid, m.ioid)
  \/ /\ c.cls = "WriteRequest"
     /\ m \in [data_type : OrdinaryTypes, data_count : U32, data : Values,
               metadata : Metadata \cup {NoMetadata}, sid : U32, ioid : U32]
     /\ Carries(m)
     /\ c = WriteRequest(m.data, m.data_type, m.data_count, m.sid, m.ioid, m.metadata)
  \/ /\ c.cls = "WriteNotifyRequest"
     /\ m \in [data_type : OrdinaryTypes, data_count : U32, data : Values,
               metadata : Metadata \cup {NoMetadata}, sid : U32, ioid : U32]
     /\ Carries(m)
     /\ c = WriteNotifyRequest(m.data, m.data_type, m.data_count, m.sid, m.ioid, m.metadata)
  \/ /\ c.cls = "EventAddRequest"
     /\ m \in [data_type : ChannelType, data_count : U32, sid : U32, subscriptionid : U32,
               event : Events]
     /\ c = EventAddRequest(m.data_type, m.data_count, m.sid, m.subscriptionid,
                            m.event[1], m.event[2])
  \/ /\ c.cls = "EventCancelRequest"
     /\ m \in [data_type : ChannelType, sid : U32, subscriptionid : U32]
     /\ c = EventCancelRequest(m.data_type, m.sid, m.subscriptionid)
  \/ /\ m = [none |-> 0]
     /\ c \in {EventsOffRequest, EventsOnRequest, ReadSyncRequest, EchoRequest}

Responded(c, m) ==
  \/ Broadcasted(c, m)
  \/ /\ c.cls = "VersionResponse"
     /\ m \in [version : U16]
     /\ c = VersionResponse(m.version)
  \/ /\ c.cls = "SearchResponse"
     /\ m \in [port : U16, ip : Addresses, cid : U32, version : U16]
     /\ c = SearchResponse(m.port, m.ip, m.cid, m.version)
  \/ /\ c.cls = "NotFoundResponse"
     /\ m \in [version : U16, cid : U32]
     /\ c = NotFoundResponse(m.version, m.cid)
  \/ /\ c.cls = "RepeaterConfirmResponse"
     /\ m \in [address : Addresses]
     /\ c = RepeaterConfirmResponse(m.address)
  \/ /\ c.cls = "CreateChanResponse"
     /\ m \in [data_type : ChannelType, data_count : U32, cid : U32, sid : U32]
     /\ c = CreateChanResponse(m.data_type, m.data_count, m.cid, m.sid)
  \/ /\ c.cls = "ClearChannelResponse"
     /\ m \in [sid : U32, cid : U32]
     /\ c = ClearChannelResponse(m.sid, m.cid)
  \/ /\ c.cls = "ReadResponse"
     /\ m \in [data_type : OrdinaryTypes, data_count : U32, data : Values,
               metadata : Metadata \cup {NoMetadata}, sid : U32, ioid : U32]
     /\ Carries(m)
     /\ c = ReadResponse(m.data, m.data_type, m.data_count, m.sid, m.ioid, m.metadata)
  \/ /\ c.cls = "ReadNotifyResponse"
     /\ m \in [data_type : OrdinaryTypes, data_count : U32, data : Values,
               metadata : Metadata \cup {NoMetadata}, status : Statuses, ioid : U32]
     /\ Carries(m)
     /\ c = ReadNotifyResponse(m.data, m.data_type, m.data_count, m.status, m.ioid, m.metadata)
  \/ /\ c.cls = "WriteNotifyResponse"
     /\ m \in [data_type : ChannelType, data_count : U32, status : Statuses, ioid : U32]
     /\ c = WriteNotifyResponse(m.data_type, m.data_count, m.status, m.ioid)
  \/ /\ c.cls = "EventAddResponse" /\ Payload(c) # <<>>
     /\ m \in [data_type : OrdinaryTypes, data_count : U32, data : Values,
               metadata : Metadata \cup {NoMetadata}, status : Statuses, subscriptionid : U32]
     /\ Carries(m)
     /\ c = EventAddResponse(m.data, m.data_type, m.data_count, m.status, m.subscriptionid,
                             m.metadata)
  \/ /\ c.cls = "EventAddResponse" /\ Payload(c) = <<>>      \* nothing but its header
     /\ m \in [data_type : native_types, data_count : {0}, subscriptionid : U32]
     /\ \E status \in Statuses :
          c = EventAddResponse(NoData, m.data_type, 0, status, m.subscriptionid, NoMetadata)
  \/ /\ c.cls = "EventCancelResponse"
     /\ m \in [data_type : ChannelType, data_count : U32, subscriptionid : U32]
     /\ c.header.parameter1 \in U32
     /\ c = EventCancelResponse(m.data_type, c.header.parameter1, m.subscriptionid, m.data_count)
  \/ /\ c.cls = "ErrorResponse"
     /\ \E s \in Texts :
          /\ Fits(s)
          /\ m \in [cid : U32, status : Statuses, original_request : ShortHeaders,
                    error_message : {padded_string_payload(s)}]
          /\ c = ErrorResponse([header |-> m.original_request], m.cid, m.status, s)
  \/ /\ c.cls = "AccessRightsResponse"
     /\ m \in [cid : U32, access_rights : U32]
     /\ c = AccessRightsResponse(m.cid, m.access_rights)
  \/ /\ c.cls = "CreateChFailResponse"
     /\ m \in [cid : U32]
     /\ c = CreateChFailResponse(m.cid)
  \/ /\ c.cls = "ServerDisconnResponse"
     /\ m \in [cid : U32]
     /\ c = ServerDisconnResponse(m.cid)
  \/ m = [none |-> 0] /\ c = EchoResponse

Composed(role, x) ==
  IF role = CLIENT THEN Requested(x.command, x.means) ELSE Responded(x.command, x.means)

ASSUME StreamsAssumption ==
  \A role \in {CLIENT, SERVER} : \A x \in Streams[role] : Composed(role, x)

\* a datagram is a sequence of commands with short headers
ASSUME DatagramsAssumption ==
  \A role \in {CLIENT, SERVER} : \A cs \in Datagrams[role] :
    /\ cs \in Seq(Range(cs))
    /\ \A x \in Range(cs) : Composed(role, x) /\ ~x.command.header.extended

VARIABLES
  their_role,   \* the role of the sender
  udp,          \* the receiver is a Broadcaster, not a VirtualCircuit
  sent,         \* what was sent on the circuit
  wire,         \* bytes sent and not received
  data,         \* _data: bytes received and not read
  needed,       \* num_bytes_needed, as last reported
  commands,     \* what was read, in order
  datagram,     \* the last datagram: [sent, read]
  registered    \* Broadcaster._registered

vars == <<their_role, udp, sent, wire, data, needed, commands, datagram, registered>>

DISCONNECTED == "DISCONNECTED"

\* recv was called with nothing: the connection has ended.
Ended == commands # <<>> /\ Last(commands).cls = DISCONNECTED

Init ==
  /\ their_role \in {CLIENT, SERVER}
  /\ udp \in BOOLEAN
  /\ sent = <<>> /\ wire = <<>> /\ data = <<>> /\ commands = <<>>
  /\ needed = 0
  /\ datagram = [sent |-> <<>>, read |-> <<>>]
  /\ registered = FALSE

\* VirtualCircuit.send: the header and the buffers as they are, nothing cut or padded
Send(x) ==
  /\ ~udp /\ ~Ended
  /\ Len(sent) < MaxSent
  /\ validate(their_role, x.command)
  /\ sent' = Append(sent, x)
  /\ wire' = wire \o HeaderBytes(x.command.header) \o Payload(x.command)
  /\ UNCHANGED <<their_role, udp, data, needed, commands, datagram, registered>>

\* the loop of recv: read until a command is incomplete
ReadAll(bytes, role) ==
  LET step[n \in 0..Len(bytes)] ==
        LET rest == SubSeq(bytes, Len(bytes) - n + 1, Len(bytes))
            Given(result) ==
              IF result.command[1] # "command"
              THEN [commands |-> <<>>, data |-> rest, needed |-> result.needed,
                    failed |-> result.command[1] = ProtocolError]
              ELSE [step[Len(result.data)] EXCEPT !.commands = <<result.command[2]>> \o @]
        IN  Given(read_from_bytestream(rest, role))
  IN  step[Len(bytes)]

\* VirtualCircuit.recv
Recv(n) ==
  /\ n \in 1..Len(wire)
  /\ wire' = SubSeq(wire, n + 1, Len(wire))
  /\ \E read \in {ReadAll(data \o SubSeq(wire, 1, n), their_role)} :
       /\ data' = read.data
       /\ needed' = read.needed
       /\ commands' = commands \o read.commands
                      \o (IF read.failed THEN <<Message(ProtocolError, 0, <<>>)>> ELSE <<>>)
  /\ UNCHANGED <<their_role, udp, sent, datagram, registered>>

\* recv of no bytes: the connection ends, what is on the wire is lost, and what
\* is buffered stays there unread
RecvNothing ==
  /\ ~udp /\ ~Ended
  /\ wire' = <<>>
  /\ commands' = Append(commands, Message(DISCONNECTED, 0, <<>>))
  /\ needed' = 0
  /\ UNCHANGED <<their_role, udp, sent, data, datagram, registered>>

\* Broadcaster.send, read_datagram and process_commands
SendDatagram(cs) ==
  LET read == read_datagram(FlattenSeq([i \in DOMAIN cs |-> CommandBytes(cs[i].command)]),
                            their_role)
  IN  /\ udp
      /\ datagram' = [sent |-> cs, read |-> read]
      /\ registered' = (registered \/ \E i \in DOMAIN read :
                                        read[i].cls = "RepeaterConfirmResponse")
      /\ UNCHANGED <<their_role, udp, sent, wire, data, needed, commands>>

\* Broadcaster.disconnect
Disconnect ==
  /\ registered
  /\ registered' = FALSE
  /\ UNCHANGED <<their_role, udp, sent, wire, data, needed, commands, datagram>>

Next ==
  \/ \E x \in Streams[their_role] : Send(x)
  \/ \E n \in Pieces \cup {Len(wire)} : Recv(n)
  \/ RecvNothing
  \/ \E cs \in Datagrams[their_role] : SendDatagram(cs)
  \/ Disconnect

Spec == Init /\ [][Next]_vars
------------------------------------------------------------------------------
\* An EventCancelResponse is coded as an EventAddResponse without payload and is
\* read as one; every other command is read as the class that was sent.
ReadAs(x) == IF x.command.cls = "EventCancelResponse" THEN "EventAddResponse" ELSE x.command.cls

SameCommand(x, c) == c.cls = ReadAs(x) /\ Fields(c) = x.means

\* However the bytes of the stream are cut, and wherever the connection ends,
\* the receiver reads the commands that were sent, each with the fields its
\* sender gave it, and no piece of one: no boundary, padding, extended header
\* or empty payload shifts what follows (_commands.py, reading from the byte
\* stream).
ReadBackAsSent ==
  LET read == IF Ended THEN Front(commands) ELSE commands
  IN  /\ Len(read) <= Len(sent)
      /\ \A i \in DOMAIN read : SameCommand(sent[i], read[i])

\* The number of bytes the receiver says it misses is never more than the
\* command it waits for has left, so a caller that reads exactly that many is
\* not left waiting; and once every byte is in, every command has been read.
NeededIsDue ==
  ~Ended =>
    /\ data # <<>> => needed > 0 /\ needed <= Len(wire)
    /\ wire = <<>> => Len(commands) = Len(sent)

\* The commands of a datagram are read back in order, one for each that was
\* packed, although a datagram has no extended header and is parsed by sizes.
DatagramReadBack ==
  /\ Len(datagram.read) = Len(datagram.sent)
  /\ \A i \in DOMAIN datagram.read : SameCommand(datagram.sent[i], datagram.read[i])
==============================================================================
