------------------------------ MODULE Headers -------------------------------
(***************************************************************************)
(* The headers of Channel Access commands (_headers.py) and their bytes.   *)
(*                                                                         *)
(* A byte is <<kind, object, i>>: the i-th byte of the encoding of an      *)
(* object.  An object is read back only from exactly its own bytes, so a   *)
(* reader that starts at the wrong place, or reads too few bytes, does not *)
(* get it back.  Integers keep the width of their field; Byte is 256 in    *)
(* the code and small in a model, and with it the widths of the fields.    *)
(***************************************************************************)
EXTENDS ChannelTypes, Integers, SequencesExt

CONSTANTS
  Byte,      \* the number of values of a byte
  Garbage    \* what is read from bytes that encode nothing
ASSUME ByteAssumption == Byte \in Nat /\ Byte >= 8 /\ Byte % 2 = 0

MAX_16BIT == Byte * Byte - 1
MAX_32BIT == Byte * Byte * Byte * Byte - 1
u16(n)    == n % (MAX_16BIT + 1)
u32(n)    == n % (MAX_32BIT + 1)
U16       == 0..MAX_16BIT
U32       == 0..MAX_32BIT
MARKER1   == MAX_16BIT
MARKER2   == 0

DO_REPLY == 10
NO_REPLY == 5
MAX_RECORD_LENGTH == 59

CLIENT == "CLIENT"
SERVER == "SERVER"

Bytes(kind, object, n) == [i \in 1..n |-> <<kind, object, i>>]
NUL        == <<"nul", 0, 0>>
Zeros(n)   == [i \in 1..n |-> NUL]

\* a slice of a buffer, as Python cuts it
Slice(b, first, last) == SubSeq(b, first, IF last > Len(b) THEN Len(b) ELSE last)

IsEncoding(kind, b) ==
  /\ Len(b) > 0
  /\ \A i \in DOMAIN b : b[i][1] = kind /\ b[i][3] = i
  /\ \A i \in DOMAIN b : b[i][2] = b[1][2]

\* the object that b is the encoding of
ReadBack(kind, b) == IF IsEncoding(kind, b) THEN b[1][2] ELSE Garbage
------------------------------------------------------------------------------
(* Headers.                                                                *)

MessageHeader(command, payload_size, data_type, data_count, parameter1, parameter2) ==
  [command |-> u16(command), payload_size |-> u16(payload_size),
   data_type |-> u16(data_type), data_count |-> u16(data_count),
   parameter1 |-> u32(parameter1), parameter2 |-> u32(parameter2), extended |-> FALSE]

ExtendedMessageHeader(command, payload_size, data_type, data_count, parameter1, parameter2) ==
  [command |-> u16(command), payload_size |-> u32(payload_size),
   data_type |-> u16(data_type), data_count |-> u32(data_count),
   parameter1 |-> u32(parameter1), parameter2 |-> u32(parameter2), extended |-> TRUE]

\* the headers of 16 bytes, field by field
ShortHeaders == [command : U16, payload_size : U16, data_type : U16, data_count : U16,
                 parameter1 : U32, parameter2 : U32, extended : {FALSE}]

MessageHeaderSize         == 16
ExtendedMessageHeaderSize == 24

HeaderSize(h) == IF h.extended THEN ExtendedMessageHeaderSize ELSE MessageHeaderSize

\* the extended header has its markers where the short one has its sizes
HeaderBytes(h) ==
  IF ~h.extended THEN Bytes("header", h, MessageHeaderSize)
  ELSE Bytes("header", [h EXCEPT !.payload_size = MARKER1, !.data_count = MARKER2,
                                 !.extended = FALSE], MessageHeaderSize)
       \o Bytes("sizes", <<h.payload_size, h.data_count>>, 8)

\* "If payload_size or data_count cannot fit into a 16-bit integer, use the
\* extended header"; sizes lists what the function compares
Header(sizes, c, ps, dt, dc, p1, p2) ==
  IF \E n \in sizes : n > MAX_16BIT THEN ExtendedMessageHeader(c, ps, dt, dc, p1, p2)
                                    ELSE MessageHeader(c, ps, dt, dc, p1, p2)

VersionRequestHeader(priority, version) == MessageHeader(0, 0, priority, version, 0, 0)
VersionResponseHeader(version) == MessageHeader(0, 0, 1, version, 1, 0)
SearchRequestHeader(payload_size, reply, version, cid) ==
  Header({payload_size, version}, 6, payload_size, reply, version, cid, cid)
\* Mutant: the version in the payload is not counted.
SearchResponseHeader_NoPayload(data_type, sid, cid) == MessageHeader(6, 0, data_type, 0, sid, cid)
SearchResponseHeader(data_type, sid, cid) == MessageHeader(6, 8, data_type, 0, sid, cid)
NotFoundResponseHeader(reply_flag, version, cid) ==
  MessageHeader(14, 0, reply_flag, version, cid, cid)
EchoRequestHeader  == MessageHeader(23, 0, 0, 0, 0, 0)
EchoResponseHeader == MessageHeader(23, 0, 0, 0, 0, 0)
BeaconHeader(version, server_port, beaconid, address) ==
  MessageHeader(13, 0, version, server_port, beaconid, address)
RepeaterConfirmResponseHeader(address) == MessageHeader(17, 0, 0, 0, 0, address)
RepeaterRegisterRequestHeader(address) == MessageHeader(24, 0, 0, 0, 0, address)
EventAddRequestHeader(data_type, data_count, sid, subscriptionid) ==
  Header({16, data_count}, 1, 16, data_type, data_count, sid, subscriptionid)
EventAddResponseHeader(payload_size, data_type, data_count, status, subscriptionid) ==
  Header({payload_size, data_count}, 1, payload_size, data_type, data_count, status, subscriptionid)
EventCancelRequestHeader(data_type, data_count, sid, subscriptionid) ==
  Header({data_count}, 2, 0, data_type, data_count, sid, subscriptionid)
\* coded with the command id of EventAddResponse
EventCancelResponseHeader(data_type, data_count, sid, subscriptionid) ==
  Header({data_count}, 1, 0, data_type, data_count, sid, subscriptionid)
ReadRequestHeader(data_type, data_count, sid, ioid) ==
  Header({data_count}, 3, 0, data_type, data_count, sid, ioid)
ReadResponseHeader(payload_size, data_type, data_count, sid, ioid) ==
  Header({payload_size, data_count}, 3, payload_size, data_type, data_count, sid, ioid)
WriteRequestHeader(payload_size, data_type, data_count, sid, ioid) ==
  Header({payload_size, data_count}, 4, payload_size, data_type, data_count, sid, ioid)
EventsOffRequestHeader == MessageHeader(8, 0, 0, 0, 0, 0)
EventsOnRequestHeader  == MessageHeader(9, 0, 0, 0, 0, 0)
ReadSyncRequestHeader  == MessageHeader(10, 0, 0, 0, 0, 0)
ErrorResponseHeader(payload_size, cid, status) ==
  Header({payload_size}, 11, payload_size, 0, 0, cid, status)
ClearChannelRequestHeader(sid, cid)  == MessageHeader(12, 0, 0, 0, sid, cid)
ClearChannelResponseHeader(sid, cid) == MessageHeader(12, 0, 0, 0, sid, cid)
ReadNotifyRequestHeader(data_type, data_count, sid, ioid) ==
  Header({data_count}, 15, 0, data_type, data_count, sid, ioid)
ReadNotifyResponseHeader(payload_size, data_type, data_count, sid, ioid) ==
  Header({payload_size, data_count}, 15, payload_size, data_type, data_count, sid, ioid)
CreateChanRequestHeader(payload_size, cid, client_version) ==
  Header({payload_size}, 18, payload_size, 0, 0, cid, client_version)
CreateChanResponseHeader(data_type, data_count, cid, sid) ==
  Header({data_count}, 18, 0, data_type, data_count, cid, sid)
WriteNotifyRequestHeader(payload_size, data_type, data_count, sid, ioid) ==
  Header({payload_size, data_count}, 19, payload_size, data_type, data_count, sid, ioid)
WriteNotifyResponseHeader(data_type, data_count, status, ioid) ==
  Header({data_count}, 19, 0, data_type, data_count, status, ioid)
ClientNameRequestHeader(payload_size) == Header({payload_size}, 20, payload_size, 0, 0, 0, 0)
HostNameRequestHeader(payload_size)   == Header({payload_size}, 21, payload_size, 0, 0, 0, 0)
AccessRightsResponseHeader(cid, access_rights) == MessageHeader(22, 0, 0, 0, cid, access_rights)
CreateChFailResponseHeader(cid)  == MessageHeader(26, 0, 0, 0, cid, 0)
ServerDisconnResponseHeader(cid) == MessageHeader(27, 0, 0, 0, cid, 0)
==============================================================================
