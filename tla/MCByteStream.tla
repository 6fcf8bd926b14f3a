---------------------------- MODULE MCByteStream ----------------------------
(* Instances of ByteStream: a command of every class, with short and        *)
(* extended headers, payloads that end on a multiple of 8 and that do not.   *)
EXTENDS ByteStream

\* With Byte = 8 a header field of 16 bits holds up to 63.
Item(c, m) == [command |-> c, means |-> m]

Pv   == [text |-> "pv", rec |-> 5, len |-> 5]
Full == [text |-> "full", rec |-> 8, len |-> 8]
Long == [text |-> "long", rec |-> 59, len |-> 61]
Oops == [text |-> "oops", rec |-> 3, len |-> 3]

One   == [v |-> "one", n |-> 1]
Three == [v |-> "three", n |-> 3]
Many  == [v |-> "many", n |-> 9]

MCTexts  == {Pv, Full, Long, Oops}
MCValues == {NoData, One, Three, Many}

Ch == [name |-> Pv, cid |-> 2, sid |-> 3, native_data_type |-> DOUBLE,
       native_data_count |-> 9, protocol_version |-> 13, priority |-> 1]
Old == [Ch EXCEPT !.protocol_version = 12, !.native_data_type = CHAR, !.native_data_count = 70]

DT(t, n) == [data_type |-> t, data_count |-> n]
ReadOf(s, io) == [sid |-> s, ioid |-> io]
Holds(d, m) == [data |-> d, metadata |-> m]

Requests ==
  { Item(ClientChannel_version(Ch), [priority |-> 1, version |-> 13]),
    Item(ClientChannel_host_name(Ch, Full), [name |-> "full"]),
    Item(ClientChannel_client_name(Ch, Pv), [name |-> "pv"]),
    Item(ClientChannel_create(Ch), [cid |-> 2, version |-> 13, name |-> "pv"]),
    Item(CreateChanRequest(Long, 7, 13), [cid |-> 7, version |-> 13, name |-> "long"]),
    Item(ClientChannel_clear(Ch), [sid |-> 3, cid |-> 2]),
    Item(ClientChannel_read(Ch, <<"time">>, <<>>, 9, TRUE), DT(TIME(DOUBLE), 0) @@ ReadOf(3, 9)),
    Item(ClientChannel_read(Old, <<"control">>, <<>>, 9, TRUE), DT(CTRL(CHAR), 70) @@ ReadOf(3, 9)),
    Item(ClientChannel_read(Old, <<>>, <<5>>, 9, FALSE), DT(CHAR, 5) @@ ReadOf(3, 9)),
    Item(ClientChannel_write(Ch, Many, <<>>, <<>>, NoMetadata, 4, TRUE),
         DT(DOUBLE, 9) @@ Holds(Many, NoMetadata) @@ ReadOf(3, 4)),
    Item(ClientChannel_write(Old, Three, <<"status">>, <<3>>, "md", 4, FALSE),
         DT(STS(CHAR), 3) @@ Holds(Three, "md") @@ ReadOf(3, 4)),
    Item(ClientChannel_subscribe(Ch, <<"graphic">>, <<>>, 6, <<>>),
         DT(GR(DOUBLE), 0) @@ [sid |-> 3, subscriptionid |-> 6, event |-> <<<<0, 0, 0>>, 13>>]),
    Item(ClientChannel_subscribe(Old, <<"status">>, <<>>, 6, <<DBE_LOG>>),
         DT(STS(CHAR), 70) @@ [sid |-> 3, subscriptionid |-> 6, event |-> <<<<0, 0, 0>>, 2>>]),
    Item(CHOOSE c \in ClientChannel_unsubscribe(
                        Ch, {ClientChannel_subscribe(Ch, <<>>, <<>>, 6, <<>>)}) : TRUE,
         [data_type |-> DOUBLE, sid |-> 3, subscriptionid |-> 6]),
    Item(EventsOffRequest, [none |-> 0]), Item(EventsOnRequest, [none |-> 0]),
    Item(ReadSyncRequest, [none |-> 0]), Item(EchoRequest, [none |-> 0]) }

Responses ==
  { Item(ServerChannel_version(Ch), [version |-> 13]),
    Item(ServerChannel_create(Ch, CHAR, 70, 5), DT(CHAR, 70) @@ [cid |-> 2, sid |-> 5]),
    Item(ServerChannel_create_fail(Ch), [cid |-> 2]),
    Item(ServerChannel_read(Ch, One, 9, <<"time">>, <<1>>, 0, "md", TRUE),
         DT(TIME(DOUBLE), 1) @@ Holds(One, "md") @@ [status |-> 0, ioid |-> 9]),
    Item(ServerChannel_read(Old, Many, 9, <<"control">>, <<9>>, 46, "md", TRUE),
         DT(CTRL(CHAR), 9) @@ Holds(Many, "md") @@ [status |-> 46, ioid |-> 9]),
    Item(ServerChannel_read(Ch, One, 9, <<>>, <<1>>, 8, NoMetadata, FALSE),
         DT(DOUBLE, 1) @@ Holds(One, NoMetadata) @@ ReadOf(8, 9)),
    Item(ServerChannel_write(Ch, 9, <<>>, <<>>, 45), DT(DOUBLE, 0) @@ [status |-> 45, ioid |-> 9]),
    Item(ServerChannel_subscribe(Old, Three, 6, <<"graphic">>, <<3>>, 33, "md"),
         DT(GR(CHAR), 3) @@ Holds(Three, "md") @@ [status |-> 33, subscriptionid |-> 6]),
    Item(ServerChannel_subscribe(Ch, NoData, 6, <<>>, <<0>>, 0, NoMetadata),
         DT(DOUBLE, 0) @@ [subscriptionid |-> 6]),
    Item(ServerChannel_unsubscribe(Old, 6, <<>>, <<>>), DT(CHAR, 70) @@ [subscriptionid |-> 6]),
    Item(ServerChannel_clear(Ch), [sid |-> 3, cid |-> 2]),
    Item(ServerChannel_disconnect(Ch), [cid |-> 2]),
    Item(ErrorResponse(EchoRequest, 2, 51, Oops),
         [cid |-> 2, status |-> 51, original_request |-> EchoRequestHeader,
          error_message |-> padded_string_payload(Oops)]),
    Item(AccessRightsResponse(2, 3), [cid |-> 2, access_rights |-> 3]),
    Item(EchoResponse, [none |-> 0]) }

MCStreams == [r \in {CLIENT, SERVER} |-> IF r = CLIENT THEN Requests ELSE Responses]

Ip == <<1, 2, 3, 4>>

SearchRequests ==
  { Item(VersionRequest(0, 13), [priority |-> 0, version |-> 13]),
    Item(SearchRequest(Pv, 2, 13, NO_REPLY),
         [reply |-> NO_REPLY, version |-> 13, cid |-> 2, name |-> "pv"]),
    Item(SearchRequest(Full, 3, 13, DO_REPLY),
         [reply |-> DO_REPLY, version |-> 13, cid |-> 3, name |-> "full"]),
    Item(RepeaterRegisterRequest(Ip), [address |-> Ip]),
    Item(Beacon(13, 50, 4, Ip),
         [version |-> 13, server_port |-> 50, beacon_id |-> 4, address |-> Ip]) }

SearchResponses ==
  { Item(VersionResponse(13), [version |-> 13]),
    Item(SearchResponse(50, Ip, 2, 13), [port |-> 50, ip |-> Ip, cid |-> 2, version |-> 13]),
    Item(SearchResponse(51, Broadcast, 3, 12),
         [port |-> 51, ip |-> Broadcast, cid |-> 3, version |-> 12]),
    Item(NotFoundResponse(13, 2), [version |-> 13, cid |-> 2]),
    Item(RepeaterConfirmResponse(Ip), [address |-> Ip]),
    Item(Beacon(13, 50, 4, Ip),
         [version |-> 13, server_port |-> 50, beacon_id |-> 4, address |-> Ip]) }

MCDatagrams ==
  [r \in {CLIENT, SERVER} |->
     LET S == IF r = CLIENT THEN SearchRequests ELSE SearchResponses
     IN  {<<x>> : x \in S} \cup {<<x, y>> : x, y \in S} \cup {<<x, y, x>> : x, y \in S}]
==============================================================================
