------------------------------ MODULE Channels ------------------------------
(***************************************************************************)
(* The convenience methods of ClientChannel and ServerChannel              *)
(* (_circuit.py): the commands they compose from what the channel knows.   *)
(* A channel is [name, cid, sid, native_data_type, native_data_count,      *)
(* protocol_version, priority].  A data type is asked for as <<>> (the     *)
(* default), <<"time">> (a promotion of the native type) or <<"is", t>>;   *)
(* a count as <<>> or <<n>>.                                               *)
(***************************************************************************)
EXTENDS Commands

fill_defaults(ch, data_type, data_count) ==
  [type  |-> IF data_type = <<>> THEN ch.native_data_type
             ELSE IF Len(data_type) = 2 THEN data_type[2]
             ELSE field_types[data_type[1]][ch.native_data_type],
   count |-> IF data_count # <<>> THEN data_count[1]
             ELSE IF ch.protocol_version >= 13 THEN 0 ELSE ch.native_data_count]
------------------------------------------------------------------------------
ClientChannel_version(ch) == VersionRequest(ch.priority, ch.protocol_version)
ClientChannel_host_name(ch, host_name) == HostNameRequest(host_name)
ClientChannel_client_name(ch, client_name) == ClientNameRequest(client_name)
ClientChannel_create(ch) == CreateChanRequest(ch.name, ch.cid, ch.protocol_version)
ClientChannel_clear(ch) == ClearChannelRequest(ch.sid, ch.cid)

ClientChannel_read(ch, data_type, data_count, ioid, notify) ==
  LET d == fill_defaults(ch, data_type, data_count)
  IN  IF notify THEN ReadNotifyRequest(d.type, d.count, ch.sid, ioid)
                ELSE ReadRequest(d.type, d.count, ch.sid, ioid)

\* a count of 0 is made the count of the data
ClientChannel_write(ch, data, data_type, data_count, metadata, ioid, notify) ==
  LET d     == fill_defaults(ch, data_type, data_count)
      count == IF d.count = 0 THEN data.n ELSE d.count
  IN  IF notify THEN WriteNotifyRequest(data, d.type, count, ch.sid, ioid, metadata)
                ELSE WriteRequest(data, d.type, count, ch.sid, ioid, metadata)

ClientChannel_subscribe(ch, data_type, data_count, subscriptionid, mask) ==
  LET d == fill_defaults(ch, data_type, data_count)
      m == IF mask = <<>> THEN DBE_VALUE + DBE_ALARM + DBE_PROPERTY ELSE mask[1]
  IN  EventAddRequest(d.type, d.count, ch.sid, subscriptionid, <<0, 0, 0>>, m)

\* the command for the subscription that event_add made, if it is this channel's
ClientChannel_unsubscribe(ch, event_add) ==
  {EventCancelRequest(e.header.data_type, ch.sid, e.header.parameter2) :
     e \in {x \in event_add : x.header.parameter1 = ch.sid}}
------------------------------------------------------------------------------
ServerChannel_version(ch) == VersionResponse(ch.protocol_version)
ServerChannel_create(ch, native_data_type, native_data_count, sid) ==
  CreateChanResponse(native_data_type, native_data_count, ch.cid, sid)
ServerChannel_create_fail(ch) == CreateChFailResponse(ch.cid)

\* without notify, the status goes where ReadResponse has its sid
ServerChannel_read(ch, data, ioid, data_type, data_count, status, metadata, notify) ==
  LET d == fill_defaults(ch, data_type, data_count)
  IN  IF notify THEN ReadNotifyResponse(data, d.type, d.count, status, ioid, metadata)
                ELSE ReadResponse(data, d.type, d.count, status, ioid, metadata)

ServerChannel_write(ch, ioid, data_type, data_count, status) ==
  LET d == fill_defaults(ch, data_type, data_count)
  IN  WriteNotifyResponse(d.type, d.count, status, ioid)

ServerChannel_subscribe(ch, data, subscriptionid, data_type, data_count, status, metadata) ==
  LET d == fill_defaults(ch, data_type, data_count)
  IN  EventAddResponse(data, d.type, d.count, status, subscriptionid, metadata)

ServerChannel_unsubscribe(ch, subscriptionid, data_type, data_count) ==
  LET d == fill_defaults(ch, data_type, data_count)
  IN  EventCancelResponse(d.type, ch.sid, subscriptionid, d.count)

ServerChannel_clear(ch) == ClearChannelResponse(ch.sid, ch.cid)
ServerChannel_disconnect(ch) == ServerDisconnResponse(ch.cid)
------------------------------------------------------------------------------
\* where a search response says the server is: all ones mean its sender
extract_address(search_response, sender) ==
  <<IF search_response.header.parameter1 = MAX_32BIT THEN sender
    ELSE ipv4_from_int32(search_response.header.parameter1),
    search_response.header.data_type>>
==============================================================================
