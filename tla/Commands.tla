------------------------------ MODULE Commands ------------------------------
(***************************************************************************)
(* The commands of Channel Access (_commands.py): one constructor per      *)
(* class, the fields a command shows, and the reading of commands from a   *)
(* datagram and from a byte stream.  Texts, values and metadata are        *)
(* opaque; what counts is how many bytes each takes and where it lies.     *)
(***************************************************************************)
EXTENDS Headers

\* severity of each status code, 0..60 (_status.py)
CASeverity == [WARNING |-> 0, SUCCESS |-> 1, ERROR |-> 2, INFO |-> 3, FATAL |-> 6]

CAStatus == [code \in 0..60 |->
  IF code = 0 THEN CASeverity.SUCCESS
  ELSE IF code \in {1, 2, 3, 4, 13, 14, 23, 26, 30, 41, 44, 45, 48, 51, 52, 56, 57}
       THEN CASeverity.ERROR
  ELSE IF code \in {15, 16, 32, 42, 43} THEN CASeverity.INFO
  ELSE IF code \in {17, 34} THEN CASeverity.FATAL ELSE CASeverity.WARNING]

\* the code in the upper bits, the severity in the lower three
ensure_eca_value(code) == 8 * code + CAStatus[code]

eca_value_to_status(value) == CHOOSE code \in DOMAIN CAStatus : ensure_eca_value(code) = value

\* an address is four bytes
ipv4_to_int32(ip) == ((ip[1] * Byte + ip[2]) * Byte + ip[3]) * Byte + ip[4]

ipv4_from_int32(n) ==
  <<n \div (Byte * Byte * Byte), (n \div (Byte * Byte)) % Byte, (n \div Byte) % Byte, n % Byte>>

Broadcast == <<Byte - 1, Byte - 1, Byte - 1, Byte - 1>>

has_metadata(data_type) == data_type \in special_types \/ data_type # native_type(data_type)

padded_len(n) == 8 * ((n + 7) \div 8)

\* a text is [text, rec, len]: its record part and its whole length in bytes
padded_string_payload(s) == Bytes("text", s.text, s.len) \o Zeros(padded_len(s.len) - s.len)

RStrip(b) == LET text[n \in 0..Len(b)] ==
                   IF n = 0 \/ (n > 0 /\ b[n] # NUL) THEN Slice(b, 1, n) ELSE text[n - 1]
             IN  text[Len(b)]

Text(b) == IF RStrip(b) = <<>> THEN "" ELSE ReadBack("text", RStrip(b))

\* data is [v, n], n elements; None is empty
NoData     == [v |-> "none", n |-> 0]
NoMetadata == "none"

parse_metadata(metadata, data_type) ==
  IF metadata = NoMetadata THEN <<>>
  ELSE Bytes("metadata", metadata, sizeof(DBR_TYPES(data_type)))

\* metadata, data and, where the sum is no multiple of 8, padding
data_payload(data, metadata, data_type) ==
  LET md   == parse_metadata(metadata, data_type)
      body == Bytes("data", data.v, data.n * sizeof(DBR_TYPES(native_type(data_type))))
      size == Len(md) + Len(body)
  IN  <<md, body, Zeros(padded_len(size) - size)>>

\* Mutant: the padding at the end of the payload is not stripped.
from_buffer_Padded(data_type, data_count, buffer) ==
  LET md_size == IF has_metadata(data_type) THEN sizeof(DBR_TYPES(data_type)) ELSE 0
  IN  <<Slice(buffer, 1, md_size), Slice(buffer, md_size + 1, Len(buffer))>>

from_buffer(data_type, data_count, buffer) ==
  LET payload_size == data_count * sizeof(DBR_TYPES(native_type(data_type)))
      md_size == IF has_metadata(data_type) THEN sizeof(DBR_TYPES(data_type)) ELSE 0
  IN  <<Slice(buffer, 1, md_size), Slice(buffer, md_size + 1, md_size + payload_size)>>

extract_data(buffer, data_type, data_count) ==
  LET size == sizeof(DBR_TYPES(native_type(data_type)))
      len  == Len(buffer) \div size
  IN  [v |-> IF len = 0 THEN "none" ELSE ReadBack("data", buffer),
       n |-> IF data_count < len THEN data_count ELSE len]

extract_metadata(payload, data_type) ==
  IF data_type < 7 THEN NoMetadata ELSE ReadBack("metadata", payload)
------------------------------------------------------------------------------
(* A command: its class, its header and the buffers that follow it.        *)

Message(cls, header, buffers) == [cls |-> cls, header |-> header, buffers |-> buffers]

Payload(c) == FlattenSeq(c.buffers)

VersionRequest(priority, version) ==
  Message("VersionRequest", VersionRequestHeader(priority, version), <<>>)
VersionResponse(version) == Message("VersionResponse", VersionResponseHeader(version), <<>>)
SearchRequest(name, cid, version, reply) ==
  LET payload == padded_string_payload(name)
  IN  Message("SearchRequest", SearchRequestHeader(Len(payload), reply, version, cid),
              <<<<>>, payload>>)
SearchResponse(port, ip, cid, version) ==
  Message("SearchResponse", SearchResponseHeader(port, ipv4_to_int32(ip), cid),
          <<Bytes("version", version, 2) \o Zeros(6)>>)
NotFoundResponse(version, cid) ==
  Message("NotFoundResponse", NotFoundResponseHeader(DO_REPLY, version, cid), <<>>)
EchoRequest  == Message("EchoRequest", EchoRequestHeader, <<>>)
EchoResponse == Message("EchoResponse", EchoResponseHeader, <<>>)
Beacon(version, server_port, beacon_id, address) ==
  Message("Beacon", BeaconHeader(version, server_port, beacon_id, ipv4_to_int32(address)), <<>>)
RepeaterConfirmResponse(address) ==
  Message("RepeaterConfirmResponse", RepeaterConfirmResponseHeader(ipv4_to_int32(address)), <<>>)
RepeaterRegisterRequest(address) ==
  Message("RepeaterRegisterRequest", RepeaterRegisterRequestHeader(ipv4_to_int32(address)), <<>>)
EventAddRequestPayload(limits, mask) == Bytes("event", <<limits, mask>>, 16)
EventAddRequest(data_type, data_count, sid, subscriptionid, limits, mask) ==
  Message("EventAddRequest", EventAddRequestHeader(data_type, data_count, sid, subscriptionid),
          <<EventAddRequestPayload(limits, mask)>>)

\* the size in the header of a command whose payload is data with metadata
DataSize(data, metadata, data_type) == Len(FlattenSeq(data_payload(data, metadata, data_type)))

EventAddResponse(data, data_type, data_count, status, subscriptionid, metadata) ==
  Message("EventAddResponse",
    EventAddResponseHeader(DataSize(data, metadata, data_type),
      data_type, data_count, ensure_eca_value(status), subscriptionid),
    data_payload(data, metadata, data_type))
EventCancelRequest(data_type, sid, subscriptionid) ==
  Message("EventCancelRequest", EventCancelRequestHeader(data_type, 0, sid, subscriptionid), <<>>)
EventCancelResponse(data_type, sid, subscriptionid, data_count) ==
  Message("EventCancelResponse",
          EventCancelResponseHeader(data_type, data_count, sid, subscriptionid), <<>>)
ReadRequest(data_type, data_count, sid, ioid) ==
  Message("ReadRequest", ReadRequestHeader(data_type, data_count, sid, ioid), <<>>)
ReadResponse(data, data_type, data_count, sid, ioid, metadata) ==
  Message("ReadResponse",
    ReadResponseHeader(DataSize(data, metadata, data_type),
      data_type, data_count, sid, ioid),
    data_payload(data, metadata, data_type))
WriteRequest(data, data_type, data_count, sid, ioid, metadata) ==
  Message("WriteRequest",
    WriteRequestHeader(DataSize(data, metadata, data_type),
      data_type, data_count, sid, ioid),
    data_payload(data, metadata, data_type))
EventsOffRequest == Message("EventsOffRequest", EventsOffRequestHeader, <<>>)
EventsOnRequest  == Message("EventsOnRequest", EventsOnRequestHeader, <<>>)
ReadSyncRequest  == Message("ReadSyncRequest", ReadSyncRequestHeader, <<>>)
ErrorResponse(original_request, cid, status, error_message) ==
  LET payload == HeaderBytes(original_request.header) \o padded_string_payload(error_message)
  IN  Message("ErrorResponse", ErrorResponseHeader(Len(payload), cid, ensure_eca_value(status)),
              <<<<>>, payload>>)
ClearChannelRequest(sid, cid)  == Message("ClearChannelRequest", ClearChannelRequestHeader(sid, cid), <<>>)
ClearChannelResponse(sid, cid) == Message("ClearChannelResponse", ClearChannelResponseHeader(sid, cid), <<>>)
ReadNotifyRequest(data_type, data_count, sid, ioid) ==
  Message("ReadNotifyRequest", ReadNotifyRequestHeader(data_type, data_count, sid, ioid), <<>>)
ReadNotifyResponse(data, data_type, data_count, status, ioid, metadata) ==
  Message("ReadNotifyResponse",
    ReadNotifyResponseHeader(DataSize(data, metadata, data_type),
      data_type, data_count, ensure_eca_value(status), ioid),
    data_payload(data, metadata, data_type))
CreateChanRequest(name, cid, version) ==
  LET payload == padded_string_payload(name)
  IN  Message("CreateChanRequest", CreateChanRequestHeader(Len(payload), cid, version),
              <<<<>>, payload>>)
CreateChanResponse(data_type, data_count, cid, sid) ==
  Message("CreateChanResponse", CreateChanResponseHeader(data_type, data_count, cid, sid), <<>>)
WriteNotifyRequest(data, data_type, data_count, sid, ioid, metadata) ==
  Message("WriteNotifyRequest",
    WriteNotifyRequestHeader(DataSize(data, metadata, data_type),
      data_type, data_count, sid, ioid),
    data_payload(data, metadata, data_type))
WriteNotifyResponse(data_type, data_count, status, ioid) ==
  Message("WriteNotifyResponse",
          WriteNotifyResponseHeader(data_type, data_count, ensure_eca_value(status), ioid), <<>>)
ClientNameRequest(name) ==
  LET payload == padded_string_payload(name)
  IN  Message("ClientNameRequest", ClientNameRequestHeader(Len(payload)), <<<<>>, payload>>)
HostNameRequest(name) ==
  LET payload == padded_string_payload(name)
  IN  Message("HostNameRequest", HostNameRequestHeader(Len(payload)), <<<<>>, payload>>)
AccessRightsResponse(cid, access_rights) ==
  Message("AccessRightsResponse", AccessRightsResponseHeader(cid, access_rights), <<>>)
CreateChFailResponse(cid)  == Message("CreateChFailResponse", CreateChFailResponseHeader(cid), <<>>)
ServerDisconnResponse(cid) == Message("ServerDisconnResponse", ServerDisconnResponseHeader(cid), <<>>)
------------------------------------------------------------------------------
(* What a command shows of itself: the properties of its class.            *)

Data(c) == extract_data(c.buffers[2], c.header.data_type, c.header.data_count)

MetadataIn(c) == extract_metadata(c.buffers[1], c.header.data_type)

Fields(c) ==
  LET h == c.header
      Is(classes) == c.cls \in classes
  IN  CASE Is({"VersionRequest"}) -> [priority |-> h.data_type, version |-> h.data_count]
        [] Is({"VersionResponse"}) -> [version |-> h.data_count]
        [] Is({"SearchRequest"}) ->
             [reply |-> h.data_type, version |-> h.data_count, cid |-> h.parameter1,
              name |-> Text(c.buffers[2])]
        [] Is({"SearchResponse"}) ->
             [port |-> h.data_type, ip |-> ipv4_from_int32(h.parameter1), cid |-> h.parameter2,
              version |-> ReadBack("version", Slice(c.buffers[1], 1, 2))]
        [] Is({"NotFoundResponse"}) -> [version |-> h.data_count, cid |-> h.parameter1]
        [] Is({"Beacon"}) ->
             [version |-> h.data_type, server_port |-> h.data_count,
              beacon_id |-> h.parameter1, address |-> ipv4_from_int32(h.parameter2)]
        [] Is({"RepeaterConfirmResponse", "RepeaterRegisterRequest"}) ->
             [address |-> ipv4_from_int32(h.parameter2)]
        [] Is({"EventAddRequest"}) ->
             [data_type |-> h.data_type, data_count |-> h.data_count,
              sid |-> h.parameter1, subscriptionid |-> h.parameter2,
              event |-> ReadBack("event", c.buffers[1])]
        [] Is({"EventAddResponse"}) /\ c.buffers = <<>> ->
             [data_type |-> h.data_type, data_count |-> h.data_count,
              subscriptionid |-> h.parameter2]
        [] Is({"EventAddResponse"}) /\ c.buffers # <<>> ->
             [data_type |-> h.data_type, data_count |-> h.data_count,
              data |-> Data(c), metadata |-> MetadataIn(c),
              status |-> eca_value_to_status(h.parameter1), subscriptionid |-> h.parameter2]
        [] Is({"EventCancelRequest", "EventCancelResponse"}) ->
             [data_type |-> h.data_type, sid |-> h.parameter1, subscriptionid |-> h.parameter2]
        [] Is({"ReadRequest", "ReadNotifyRequest"}) ->
             [data_type |-> h.data_type, data_count |-> h.data_count,
              sid |-> h.parameter1, ioid |-> h.parameter2]
        [] Is({"ReadResponse", "WriteRequest", "WriteNotifyRequest"}) ->
             [data_type |-> h.data_type, data_count |-> h.data_count,
              data |-> Data(c), metadata |-> MetadataIn(c),
              sid |-> h.parameter1, ioid |-> h.parameter2]
        [] Is({"ReadNotifyResponse"}) ->
             [data_type |-> h.data_type, data_count |-> h.data_count,
              data |-> Data(c), metadata |-> MetadataIn(c),
              status |-> eca_value_to_status(h.parameter1), ioid |-> h.parameter2]
        [] Is({"WriteNotifyResponse"}) ->
             [data_type |-> h.data_type, data_count |-> h.data_count,
              status |-> eca_value_to_status(h.parameter1), ioid |-> h.parameter2]
        [] Is({"ErrorResponse"}) ->       \* the message as it lies there, padding and all
             [cid |-> h.parameter1, status |-> eca_value_to_status(h.parameter2),
              original_request |->
                ReadBack("header", Slice(c.buffers[2], 1, MessageHeaderSize)),
              error_message |->
                Slice(c.buffers[2], MessageHeaderSize + 1, Len(c.buffers[2]))]
        [] Is({"ClearChannelRequest", "ClearChannelResponse"}) ->
             [sid |-> h.parameter1, cid |-> h.parameter2]
        [] Is({"CreateChanRequest"}) ->
             [cid |-> h.parameter1, version |-> h.parameter2, name |-> Text(c.buffers[2])]
        [] Is({"CreateChanResponse"}) ->
             [data_type |-> h.data_type, data_count |-> h.data_count,
              cid |-> h.parameter1, sid |-> h.parameter2]
        [] Is({"ClientNameRequest", "HostNameRequest"}) -> [name |-> Text(c.buffers[2])]
        [] Is({"AccessRightsResponse"}) ->
             [cid |-> h.parameter1, access_rights |-> h.parameter2]
        [] Is({"CreateChFailResponse", "ServerDisconnResponse"}) -> [cid |-> h.parameter1]
        [] OTHER -> [none |-> 0]
------------------------------------------------------------------------------
(* The registries of commands, by the role that sends them.                *)

RequestId ==
  [VersionRequest |-> 0, EventAddRequest |-> 1, EventCancelRequest |-> 2, ReadRequest |-> 3,
   WriteRequest |-> 4, SearchRequest |-> 6, EventsOffRequest |-> 8, EventsOnRequest |-> 9,
   ReadSyncRequest |-> 10, ClearChannelRequest |-> 12, Beacon |-> 13, ReadNotifyRequest |-> 15,
   CreateChanRequest |-> 18, WriteNotifyRequest |-> 19, ClientNameRequest |-> 20,
   HostNameRequest |-> 21, EchoRequest |-> 23, RepeaterRegisterRequest |-> 24]

ResponseId ==
  [VersionResponse |-> 0, EventAddResponse |-> 1, EventCancelResponse |-> 2, ReadResponse |-> 3,
   SearchResponse |-> 6, ErrorResponse |-> 11, ClearChannelResponse |-> 12, Beacon |-> 13,
   NotFoundResponse |-> 14, ReadNotifyResponse |-> 15, RepeaterConfirmResponse |-> 17,
   CreateChanResponse |-> 18, WriteNotifyResponse |-> 19, AccessRightsResponse |-> 22,
   EchoResponse |-> 23, CreateChFailResponse |-> 26, ServerDisconnResponse |-> 27]

Ids(role) == IF role = CLIENT THEN RequestId ELSE ResponseId

CommandClasses(role, id) == {cls \in DOMAIN Ids(role) : Ids(role)[cls] = id}

HAS_PAYLOAD ==
  {"SearchRequest", "SearchResponse", "EventAddRequest", "EventAddResponse", "ReadResponse",
   "WriteRequest", "ErrorResponse", "ReadNotifyResponse", "CreateChanRequest",
   "WriteNotifyRequest", "ClientNameRequest", "HostNameRequest"}

\* what a constructor insists on
validate(role, c) ==
  IF c.cls = "ReadRequest" THEN TRUE
  ELSE IF c.cls = "VersionRequest" THEN c.header.data_type \in 0..99
  ELSE IF c.cls = "EventCancelResponse" THEN c.header.command = 1 /\ Payload(c) = <<>>
  ELSE c.header.payload_size = Len(Payload(c)) /\ c.header.command = Ids(role)[c.cls]

from_wire(cls, header, payload) ==
  Message(cls, header,
    IF cls \notin HAS_PAYLOAD \/ (cls = "EventAddResponse" /\ payload = <<>>) THEN <<>>
    ELSE IF cls = "SearchResponse" THEN <<payload>>
    ELSE IF cls = "EventAddRequest" THEN <<Slice(payload, 1, 16)>>
    ELSE IF cls \in {"SearchRequest", "ErrorResponse", "CreateChanRequest",
                     "ClientNameRequest", "HostNameRequest"} THEN <<<<>>, payload>>
    ELSE from_buffer(header.data_type, header.data_count, payload))

Unknown == 63

\* bytes that are no header read as one of no registered command
HeaderFrom(data) ==
  LET b == Slice(data, 1, MessageHeaderSize)
  IN  IF IsEncoding("header", b) THEN b[1][2] ELSE MessageHeader(Unknown, 0, 0, 0, 0, 0)

ExtendedHeaderFrom(data) ==
  LET h     == HeaderFrom(data)
      b     == Slice(data, MessageHeaderSize + 1, ExtendedMessageHeaderSize)
      sizes == IF IsEncoding("sizes", b) THEN b[1][2] ELSE <<0, 0>>
  IN  ExtendedMessageHeader(h.command, sizes[1], h.data_type, sizes[2],
                            h.parameter1, h.parameter2)

NEED_DATA     == "NEED_DATA"
ProtocolError == "RemoteProtocolError"

\* Mutant: the payload is counted behind a header of the longer kind.
bytes_needed_for_command_Long(data) ==
  IF Len(data) < MessageHeaderSize THEN <<NEED_DATA, MessageHeaderSize - Len(data)>>
  ELSE LET header == HeaderFrom(data)
           total  == ExtendedMessageHeaderSize + header.payload_size
       IN  <<header, IF Len(data) < total THEN total - Len(data) ELSE 0>>

\* the markers that stand in the short header where it has an extension
Marked(short) == short.payload_size = MAX_16BIT /\ short.data_count = 0

\* the header at the start of data, with its extension
WholeHeader(data) ==
  IF Marked(HeaderFrom(data)) THEN ExtendedHeaderFrom(data) ELSE HeaderFrom(data)

Missing(header, data) ==
  LET total == HeaderSize(header) + header.payload_size
  IN  IF Len(data) < total THEN total - Len(data) ELSE 0

\* <<the header if it is known, the number of bytes missing>>
bytes_needed_for_command(data) ==
  IF Len(data) < MessageHeaderSize THEN <<NEED_DATA, MessageHeaderSize - Len(data)>>
  ELSE IF Marked(HeaderFrom(data)) /\ Len(data) < ExtendedMessageHeaderSize
  THEN <<NEED_DATA, ExtendedMessageHeaderSize - Len(data)>>
  ELSE <<WholeHeader(data), Missing(WholeHeader(data), data)>>

\* what is read from data behind a header that is all there:
\* [data left, command or what is wrong, bytes missing]
CommandBehind(header, data, role) ==
  IF CommandClasses(role, header.command) = {}
  THEN [data |-> data, command |-> <<ProtocolError>>, needed |-> 0]
  ELSE LET cls   == CHOOSE k \in CommandClasses(role, header.command) : TRUE
           start == HeaderSize(header)
           total == start + header.payload_size
       IN  [data |-> Slice(data, total + 1, Len(data)),
            command |-> <<"command", from_wire(cls, header, Slice(data, start + 1, total))>>,
            needed |-> 0]

read_from_bytestream(data, role) ==
  LET Given(needed) ==
        IF needed[2] > 0 THEN [data |-> data, command |-> <<NEED_DATA>>, needed |-> needed[2]]
        ELSE CommandBehind(needed[1], data, role)
  IN  Given(bytes_needed_for_command(data))

\* bytes(command): the payload cut to its size and padded
CommandBytes(c) ==
  LET trimmed == Slice(Payload(c), 1, c.header.payload_size)
  IN  HeaderBytes(c.header) \o trimmed \o Zeros(padded_len(Len(trimmed)) - Len(trimmed))

\* the commands of one datagram; the extended header is unknown here, and the
\* payload is skipped only of a class that has one
read_datagram(data, role) ==
  LET read[n \in 0..Len(data)] ==          \* n bytes are left
        IF n = 0 THEN <<>>
        ELSE LET rest   == Slice(data, Len(data) - n + 1, Len(data))
                 header == HeaderFrom(rest)
                 classes == CommandClasses(role, header.command)
             IN  IF n < MessageHeaderSize \/ classes = {} THEN <<Message(ProtocolError, header, <<>>)>>
                 ELSE LET cls  == CHOOSE k \in classes : TRUE
                          size == IF cls \in HAS_PAYLOAD THEN header.payload_size ELSE 0
                          body == Slice(rest, MessageHeaderSize + 1, MessageHeaderSize + size)
                      IN  <<from_wire(cls, header, body)>>
                          \o read[n - MessageHeaderSize - Len(body)]
  IN  read[Len(data)]
==============================================================================
