# A verification project for caproto

caproto is an implementation of the Channel Access protocol of EPICS in Python:
a protocol core without I/O, clients (threading, asyncio, synchronous), servers
(asyncio, curio, trio over one shared implementation), a repeater, and a
framework for writing servers. This directory holds TLA+ models of its core
logic, the TLC configurations that check them, and TLAPS proofs.

`PROJECT.json` lists components, runs, mutants, the map from definitions to
source lines, findings, hazards and theorems.

## 1. Inventory

| Component | State | Operations | What is hard | What makes it correct |
|---|---|---|---|---|
| State tables (`_state.py`) | state of the client's and of the server's half of a circuit and of a channel | accept or refuse a command, move | two halves stepped one after the other | halves stay in states that belong together; a refusal changes nothing |
| Virtual circuit (`_circuit.py`) | channels by cid and by sid, pending ioids, subscriptions, pending cancellations, version, priority, byte buffer | `_process_command` for each command class, in either role; `send`, `recv` | any order of commands; late answers to closed channels; version negotiated while channels exist | the tables refer to each other consistently; no id outlives its channel |
| Wire format (`_commands.py`, `_headers.py`, `_dbr.py`, `_status.py`), `_broadcaster.py` | registration with a repeater | compose and read commands, streams and datagrams | commands cut anywhere, extended headers, padding | what is read is what was sent |
| Server circuit (`server/common.py` `VirtualCircuit`) | command queue, subscription queue, subscriptions, unexpired updates, subscriptions to resend, events on/off, write event | receive, process a command, batch and send updates, disconnect | three tasks per circuit, awaits in the middle of a command, weak references, cancellation | no update after a cancellation; latest value never lost; everything released at the end |
| Server Context (`server/common.py` `Context`) | subscriptions of all circuits, circuits, queue of updates | distribute updates, answer searches, send beacons | one loop serves all clients; bounded queues | no client can hold up or silence another |
| ChannelData, ChannelAlarm (`_data.py`) | value, metadata, alarm, cache of readings, registered queues, snapshots | write, read, publish, subscribe, unsubscribe | awaits between the parts of a write; cache | readings are current; alarm and value belong together |
| Server framework (`server/server.py`), records (`server/records/`) | PV database, fields of each record, scan tasks | put, get, putter, scan, field links | fields that write attributes, attributes that write fields, a putter that waits | a field shows what was put to it and nothing else; alarm fields follow the alarm |
| Threading client (`threading/client.py`) | PVs, circuit managers, search results, unanswered searches, ioids, callbacks | search, connect, read, write, subscribe, reconnect, go idle, watch servers | a dozen threads, locks, timeouts, lost servers | a PV reconnects; each answer reaches its own call; a search is answered |
| asyncio client (`asyncio/client.py`, `client/search_results.py`) | the same, in tasks; results by name and by address | the same | cached results, retries, tasks that end | nobody is forgotten, nobody is connected twice |
| Id counters (`_utils.py`) | last id, ids in use | next id | wrap-around, exhaustion | no id in use is handed out |
| Synchronous client, repeater, autosave | one circuit; ports; files | one request; forward; save and restore | timeouts, files | |
| Array backends, tools (command line, shark, pyepics facade, statistics, conversion) | none of their own | | | |

Interaction. A client searches by UDP, opens a TCP connection per server
address and priority, and creates channels on it; both ends keep a
`VirtualCircuit` object through which every command sent or received passes.
On the server, `tcp_handler` puts received commands on the circuit's command
queue; the command loop answers them and, for a subscription, registers the
Context's queue with the `ChannelData`. A write publishes to that queue; the
Context's loop makes one update per subscription and puts a weak reference to
it on the queue of the subscription's circuit; the circuit's subscription loop
sends batches. Servers send Beacons; clients take them, and echoes, as signs
of life, and search again for the PVs of a server that is lost.

## 2. Plan

1. Core (done): `CAState`, `VirtualCircuit`, its proofs, `ServerSubscriptions`.
2. Wire (done): the commands and the byte stream under the circuit.
3. Clients (done): search, server monitoring and PV life cycle of the threading
   client; search and reconnection of the asyncio client.
4. Data (done): a channel with its hooks, alarm and record fields.
5. Abstract specification (done): `Monitors`, implemented by
   `ServerSubscriptions`.
6. Proofs (done): every safety property that a passing run checks, of the
   circuit, the wire, the server, both clients, search, server monitoring and
   records, for any number of clients, PVs, servers, subscriptions and commands,
   and the safety half of the refinement.

## 3. Modules

| Module | Models | Composes |
|---|---|---|
| `CAState` | `_state.py` | |
| `VirtualCircuit` | `_process_command` of `_circuit.py` | extends `CAState` |
| `ChannelTypes` → `Headers` → `Commands` → `Channels` → `ByteStream` | `_dbr.py`, `_headers.py`, `_commands.py` with `_status.py`, the command constructors of `_circuit.py`, `send`/`recv` of `_circuit.py` and `_broadcaster.py` | each extends the one before |
| `Monitors` | the abstract promise of a server | |
| `ServerSubscriptions` | the tasks of `server/common.py` as `asyncio/server.py` runs them, with the publishing half of `_data.py` | instantiates `Monitors` |
| `SharedBroadcaster` | search in `threading/client.py`, with `ThreadsafeCounter` | |
| `ServerMonitor` | Beacons and the responsiveness check in `threading/client.py`, with the Beacon loop of `server/common.py` | client and server |
| `ThreadingClient` | Context, VirtualCircuitManager, PV and Subscription of `threading/client.py` | |
| `AsyncioClient` | search, connection and reconnection in `asyncio/client.py` and `client/search_results.py` | |
| `RecordFields` → `ChannelRecord` | `server/records/`, the pvproperty of `server/server.py`, `write` and alarms of `_data.py` | |
| `VirtualCircuitProofs`, `ByteStreamProofs`, `ServerSubscriptionsProofs`, `SharedBroadcasterProofs`, `ServerMonitorProofs`, `ThreadingClientProofs`, `AsyncioClientProofs`, `ChannelRecordProofs` | theorems about the module of that name | each extends its module |
| `MC...` | the instances of the runs | |

**CAState.** Python writes each state as a dict from command to next state with
every self-loop spelt out; the module has, per state, the set of accepted
commands and the few commands that move it. `get_exception` is who is blamed for
a refused command.

**VirtualCircuit** is one `caproto.VirtualCircuit`. Each action is
`_process_command` for one class of command, with its lookups, early returns and
exceptions, and nothing restricts the order of commands. A dict is a function
that is `None` off its keys; a channel object is known by its cid and its
attributes outlive its removal from `channels`, as the Python object does.
`chan_native` is the native type and count together: the channel takes them from a
CreateChanResponse before anything is checked (`_circuit.py:541-543`), so a refused
response has set them. That a server chooses a sid which is not in use is assumed
of the peer; the code does not check it.
`outcome` records how the last command ended. Abstracted: payloads (a data
count of 0 stands for "whole array"), names, the log.

**Wire modules.** A command is its class, its header fields and its payload; a
payload is a sequence of bytes of which only the ones that are read again
(padding, string ends, addresses) have a value. `Byte` scales the 16-bit fields
down so that extended headers occur with short payloads; it is even, as 256 is.
`Composed` says what may be sent: what the constructors of `_commands.py` make of
arguments that fit their fields. Each `x` that is sent has the command and what
its sender meant by it, so that reading is compared with the arguments and not
with the encoding.
`ByteStream` sends commands over a connection that delivers pieces and may end
anywhere, or as datagrams.

**ServerSubscriptions** is the path of one ChannelData's values to its
subscribers in the asyncio server. One step is the code from one await that
really waits to the next; since the Context's loop does not give way while it
distributes an update, except when a queue is full, other tasks step only when
`Yielded` holds. State and code:

| Variable | Code |
|---|---|
| `subscriptions`, `spec_keys` | values and keys of `VirtualCircuit.subscriptions` |
| `ctx_subscriptions` | `Context.subscriptions`, a deque per spec |
| `subscription_queue` | the circuit's queue of weak references; `live` is whether the update still exists |
| `batch` | `commands` in `subscription_queue_loop` |
| `to_resend`, `events_on` | `subscriptions_to_resend`, `events_on` |
| `iter` | the item the Context's loop works on; `iter.put` is an update whose `put` is blocked |
| `registered`, `content` | `ChannelData._queues`, `ChannelData._content` |
| `recv_task`, `cmd_task`, `sub_task`, `ctx_task` | what the tasks are doing; `drain` is a send that waits for the socket, `failed` a task that ended with an exception and is still referenced |
| `client`, `delivered` | what an honest client has asked for; the last version sent to a subscription |

`unexpired_updates` is not a variable: an entry of the queue is alive as long as
fewer than `max_subscription_backlog` newer updates of its subscription follow
it and EventsOff has not cleared the dict, because updates leave the queue in
the order they entered the dict. CPython frees an update when its last
reference goes and calls the weak reference's callback at once; the model relies
on that as the code does. External behaviour taken from the use the code makes
of it: asyncio queues (a full one makes `put` wait), cancellation (`await` of a
cancelled task), and iteration over a changed deque (RuntimeError).

**Monitors** says what clients may rely on: a subscription is shown newer and
newer values while it stands, nothing after it is cancelled, and the latest
value in the end. In the refinement mapping `value` is the version of the
ChannelData, `seen` what was last sent to a subscription, and `state` follows
from the circuit's table of subscriptions and its flow control.

**SharedBroadcaster.** Threads interleave at the points where `_search_lock` is
released; instants are relative to the present, so behaviours are endless in
finitely many states. Responses are lost, late and duplicated.

**ServerMonitor.** Time is in ticks. The thread's turn has two halves (`Survey`,
`Resolve`), between which answers arrive and Contexts go away. Servers speak
version 12 or later, so that a connection begins with a response.

**ThreadingClient.** One address and priority, circuits numbered as they are
made. `_disconnected`, which two threads may run, is cut into the steps between
which another thread can look (`Disconnecting`, `Clear`, `Die`, `Wake`, `Tell`);
the decorator `ensure_connected` is `Enter`, `Revive`, `Call`, `Retry`, `Finish`
around `Request` and `Woken`. A search for a PV is taken as answered, which
`SharedBroadcaster` shows.

**AsyncioClient.** A step is what one task does between two awaits that wait. The
entries of `name_to_addrs` are fresh, stale or `VALID_CHANNEL_MARKER`. `left` is a
ghost: it records which failure, that no line of the client handles, has left a
PV behind (a refused connection, a KeyError in `invalidate_by_name`, a TypeError
for the marker's age, a lost send, a channel closed by its server, a circuit
given up); the properties speak of all other PVs. A connection that times out, and
one whose first send fails, end as a refused one does.

**RecordFields** has the fields of the 36 record types and how they are tied to
their channel; **ChannelRecord** is one channel of such a type. Under asyncio a
write runs without a break except in the putter that the user supplies, so a
write of VAL is two steps, and several are suspended at once. A value is a number,
a text or bytes that nothing has decoded. The putter returns None or a value of
its own choice, raises, or skips the write; the alarm was found for the value
that was put. A put to VAL carries the metadata of its DBR type (status and
severity, limits, precision, enum strings), which `FinishWrite` applies with the
value, and which linked fields show at once. Puts to fields are of native types
and carry none. Units, timestamps and display limits, which no field shows, are
left out.

## 4. Runs

| Run | Instance | What it shows |
|---|---|---|
| `client_circuit` | client role, 2 cids, 2 sids, 1 ioid, 1 subscription id, 2 versions, 2 priorities, 2 native types | the tables of a client's circuit stay consistent whatever it sends and receives |
| `server_circuit` | server role, 1 cid, 2 sids, 2 types, 2 priorities | in a server, whose halves step in the other order and which learns the priority, the two halves stay together |
| `byte_stream` | every class of command, both directions; 2 commands in pieces of 1, 15, 24 or all bytes; datagrams of 1 to 3 commands | what is read is what was sent, also when the connection ends inside a command; the reader waits for no byte that is not due |
| `server_full_queue` | 2 clients, room for 1 update per circuit, 2 values, 2 requests each | the server implements the safety part of `Monitors`; registration and latest value survive the other client, blocking, failing loops and disconnection |
| `server_delivery` | 1 client, 2 subscriptions, 3 values, 4 requests, no full queue | the server implements all of `Monitors`; flow control loses nothing |
| `search` | 1 Context, 2 names, 2 servers, 2 searches, 1 reconnection, 1 send error | what a Context is told is true, no search is lost or answered twice, and searches are answered, retired ones too |
| `server_monitor` | 1 server, 2 Contexts, 1 restart | a restart is noticed, a server that answers is never given up, one that does not is |
| `threading_client` | 1 PV, 2 circuits, 1 error, 1 circuit given up, 2 calls | answers belong to their calls, a woken call knows why, `go_idle` waits its turn, PV and subscription come back |
| `channel_record` | all 36 record types; an ai and an mbbi with 2 writes by 2 coroutines, 5 kinds of metadata and 2 puts to fields | alarm fields follow the alarm, the alarm fits the value that was put and RVAL the value that was stored, fields are independent, transient alarms wait for acknowledgement |
| `asyncio_client` | 2 servers; one PV on both with 3 faults, one name with 2 priorities, two names | nobody is forgotten or connected twice, no result that never expires outlives its circuit, PVs come back |
| `cleared_channel` | violation | ClearChannel releases no subscription |
| `unresponsive` | violation | PVs of a server that is given up are not searched for |

Why the bounds are enough. In the circuit, every lookup concerns one id and one
channel; two cids and two sids allow a closed channel beside an open one, a cid
used again, and a sid given to another channel. One subscription id suffices
because nothing relates two. Versions 0 and 13 give both outcomes of `min`. Cids,
sids and native types are interchangeable, and so are the coroutines of
`channel_record`: these runs use symmetry, and neither checks liveness. On
the wire, two commands put any class behind any other, 1 byte cuts everywhere,
and 15 and 24 lie just short of a header and of an extended one. In the server,
two subscriptions of one spec are needed to share a registration and to be
broadcast to; a backlog of one update makes the second update of a subscription
expire the first; room for one makes the second `put` block. In the search, ids
0 and 1 are both in use at once, intervals of 1 and 2 ticks let a search be
retried, retired and retried as a retiree, and two servers with one name give
redundant answers. A Beacon period of 2 ticks lets a server settle, and
`EchoDelay` below the timeout puts the answer between the halves of a turn. In
the threading client, one PV and two circuits give every order of two losses and
a reconnection; a late answer needs two calls. Two suspended writes overlap in
every way that matters to an alarm, because a write only reads what one other
may have changed; the kinds of metadata are none, a
status, a status that is no `AlarmStatus`, limits, and enum strings. In the asyncio client, two servers of one name give redundant
and late answers, and three faults a second loss during the reconnection after
the first. All `Max...` constants, `faults` and `giveups` only bound the runs; a
deadlock there means that they are used up, so only the circuit runs check for
deadlock.

What the runs leave to each other: `server_full_queue` has no EventsOff and
EventsOn, because with a full queue they do lose the latest value, and no
ClearChannel, whose subscriptions stay (`cleared_channel`); `server_delivery` has room in the queue and tidy clients, because otherwise the
loops can end (section 7).

## 5. Fairness

- `server_delivery`: weak fairness of the Context's loop and of each circuit's
  command and subscription loops. asyncio runs every ready task in turn,
  `EventAdd` waits for a write with a timeout, and a batch is sent when the queue
  is empty or its deadline passes. That a send ends (`SubSent`, `CommandSent`)
  assumes that the client reads its socket.
- `search`: the command and retry threads run and time passes; a response to a
  request that is sent again and again gets through some day (strong fairness of
  its arrival: the retry loop sends for ever).
- `server_monitor`: the thread takes its turns, time passes, a server that is up
  sends its Beacons and answers echoes. Any Beacon may be lost.
- `threading_client`: threads that can go on do, and a circuit is not given up
  half-way.
- `asyncio_client`: ready tasks run; a search that is repeated reaches a server
  and is answered.

Nothing is assumed of users' requests, of timeouts or of failures.

## 6. Proofs

The theorems hold for all values of the constants that the named assumptions of
the modules allow; TLC evaluates the assumptions in every run. Most only give
constants their type, or say that `None` is not one of the values it stands
beside. The others are named below. Each inductive invariant was first checked
by TLC on the instances of the runs (`StreamInv`, whose quantifiers TLC cannot
enumerate, with the bytes and places written out). A proof has one lemma per
action, or per part of the state, with a lemma that says which actions touch that
part; `Next` is split once at the end. A few facts about smallest numbers, finite
sets and sequences stand at the head of each module that needs them.

**VirtualCircuitProofs**: the invariants of the circuit runs, that a refused
command leaves the tables alone (except for the native type that a
CreateChanResponse gives its channel), and that negotiation only lowers the
version;
for either role and any sets of ids, types, counts, priorities and versions.
That a sid leads to a live channel depends on the channel's two halves agreeing
(a channel that answers ClearChannel must have a sid to remove), which depends
on the circuit's own state (after DISCONNECTED every channel is closed in both
halves or never connected). So `IInv` joins the type invariant, `ObjInv` (lock
step, closed after loss, both directions of the sid index, `ClosedMeansLost`,
one version) and `IoInv` (ioids and cancellations).

**ByteStreamProofs**: `StreamReadBack`, `StreamNeeds` and `DatagramsReadBack`, for
every class of command with any arguments, streams of any number of commands in
pieces of any sizes, and datagrams of any number of commands. The argument has
three parts.

- Bytes. A command is `Sound` if its header keeps its fields, is not mistaken for
  an extended one, announces the payload behind it and names one class. From
  bytes that begin as a `Sound` command does, `bytes_needed_for_command` asks for
  no more than is missing, and `read_from_bytestream` takes that command and
  leaves what follows (`HeaderIsRead` and what is built on it). `LoopReads` says
  the same of the loop of `recv` and all commands that are whole.
- Stream. `StreamInv`: all bytes ever sent lie one behind the other in `whole`; the
  commands read are those up to the `k`-th; the buffer and the wire are the
  stretches of `whole` behind it, and the buffer is short of the next command.
  Without the place of the buffer in `whole` the property is not inductive: what
  the next piece completes depends on bytes that nobody has read yet.
- Classes. That each command is `Sound` and shows its sender's arguments when read
  (`Agreed`) is proved class by class, requests and responses, short and extended,
  and joined in `StreamsAgree`; `DatagramAgrees` is the same for `read_datagram`.

`StreamsAssumption` and `DatagramsAssumption` say that what is sent is `Composed`:
numbers fit their fields, `data_count` is the length of the data, texts and data
are short enough for the 32 bits that count them, and the request quoted in an
ErrorResponse has a short header. Commands in datagrams have short headers, since
`read_datagram` knows no others. The loops are recursive functions. The provers
cannot instantiate an induction theorem, so a property of all lengths is
shown from a smallest counterexample, as a set of numbers (`Smallest`,
`Induction`), and each function is first shown to be what its definition says.
The proof showed that the two arms for EventAddResponse in `Fields` overlapped,
which TLC does not notice; the second now has its guard. `Fields` are what the
properties of the command classes return: the message of an ErrorResponse is read
with its padding, that of other texts without.

**ServerSubscriptionsProofs**: `TypeCorrect`, `WantedRegistered`,
`ServerKeepsPromise`, `NewsKept` and `NewsKeptWhileOn`. `ServerKeepsPromise` is the refinement `Spec => KeepsPromise`: for any number of
circuits, subscriptions and data types and any size of the queues, each step of
the server is a step of `Monitors` or a stutter. Assumed: finitely many
subscriptions and data types, and that a client uses an id for one subscription
only. A batch refines `Show` because values are in order wherever they wait
(`InOrder`: the cache of readings, the Context's queue, the item its loop works
on, a circuit's queue, its batch, what was sent), and because a circuit is only
sent updates of its own client (`EachHasItsOwn`). A cancellation refines `Cancel`
because honest clients' requests meet the state they were sent for
(`ClientsAreHonest`: a request to add is queued once, before the request to
cancel, and never for a subscription that is served or was cancelled). `IInv`
joins these with the types, `AddingIsHeld` and `WantedIsRegistered`. What holds
on the way includes circuits that have ended, whose queued requests are still
processed.

`NewsKept` is `Spec /\ []PutsAreAlive => []LatestNewsIsKept`: whatever clients
request and however small the queues, the current value of each subscription is
in one of the places of `Informed` (sent, in the batch, alive in the queue, with
the Context, blocked, ahead of the loop, marked to be resent) and each step
leaves it in one. An update that expires is replaced by one of the same value,
by `InOrder`. The hypothesis excludes an EventsOff that comes while a put to that
circuit is blocked, with which the loss described in section 7 begins;
`NewsKeptWhileOn` has no such hypothesis, for clients that never turn events off
(the instance of `server_full_queue`).

**SharedBroadcasterProofs**: `SearchesConserved`, by counting, for each Context
and name, the unanswered searches and what the command thread holds; and
`ResultsReal`, from `IdsAreNew`, `IdsAreRight` (an answer that carries an id is for
the name the id was given to) and `OneServer` (the names collected from one
datagram are of one server). The latter has the hypothesis that there are no
name servers, since a bundle of one is reported with a wrong address (section
7). `IdAssumption` says that ids do not come round again.

**ServerMonitorProofs**: `LiveKept` and `RestartNoticed`. A server that answers in
time is never given up because a check that is under way either has its answer
or has time left (`ChecksAreFair`, `OnlyListeners`); `TimeoutAssumption` is what in
time means. A restart is noticed because, from the first Beacon after it, the
state of the counter is one of a few that lead to the notice
(`RestartIsUnderWay`).

**ThreadingClientProofs**: `AnswersOwn`, `WokenCallsKnow`, `IdleExcludesUsers`, the
types, and that the usage counter of a PV is the number of threads inside it
(`UsagesExact`). `IInv` orders the steps of a circuit's death (`DeathIsOrdered`),
says that an event that is set has its reason (`EventsAreHonest`) and counts
threads (`UsagesAreCounted`).

**AsyncioClientProofs**: `OneChannel`, `NobodyForgotten`, `MarkersLive` and the
types, for finitely many PVs. `IInv` has six ties between PVs, circuits and the
tables of managers (`Ties`), that the marker in the cache is held by a circuit
and found through its address (`MarkerIsHeld`, `MarkerIsIndexed`), and
`NobodyIsForgotten` itself, which is inductive beside them.

**ChannelRecordProofs**: `AlarmIsPublished`, `AlarmFits`, `FieldsIndependent`,
`TransientKept` and `RawNames`. `IInv` joins the types, among them that the name of
a state is never a number, with `AloneIsCurrent`: a write that nothing overlapped
finds what it left when its putter returns. `TableAssumption` says what the
theorems need of the tables of fields, and `MetadataAssumption` that metadata gives
each attribute a value of its kind; TLC evaluates the former for all 36 record
types.

Only model-checked: liveness under fairness, which is out of the prover's reach
(`KeepsWholePromise`, `SearchIsAnswered`, `UnresponsiveIsDisconnected`,
`PvReconnects` of both clients, `SubscriptionIsRestored`). Every invariant and
every action property of the passing runs has a theorem.

## 7. Findings

The two violation runs are disagreements between the code and what it says, each
with the quoted line in `PROJECT.json`. The models below have these behaviours
too, or they were met while reading; the properties are stated so that they hold
beside them.

Circuit:

- a late EventCancelResponse, once its channel is closed, raises KeyError
  (`_circuit.py:324`), although `_state.py:179` says it has to be tolerated;
- `_state.py:288` passes the role of the half that refuses to `get_exception`, so a
  client's own untimely EchoRequest is blamed on the server;
- a refused CreateChanResponse changes the native type and count of a channel that
  is connected (`_circuit.py:541-543`);
- the text of an ErrorResponse is returned with its terminator and padding
  (`_commands.py:1274-1277`), unlike other texts;
- `VirtualCircuit.disconnect` (`_circuit.py:449`) does nothing, and its docstring says
  it notifies all channels.

Server:

- with a full queue, EventsOff and EventsOn while a `put` is blocked lose the
  latest value of a subscription for good: its destruction is reported with
  events on, so nothing is resent (`server/common.py:1094`, against 1096-1098);
- an EventAdd queued before the connection was lost is processed after it and
  stays in `Context.subscriptions` (`server/common.py:168`);
- a subscription added or cancelled while `put` is blocked changes the deque that
  the Context's loop iterates over: RuntimeError ends the loop that serves all
  clients (`server/common.py:970`); the block itself is unexpected, 1108-1112 wait for a
  `QueueFull` that asyncio's `put` never raises;
- a client that disconnects while the subscription loop is sending stays in
  `Context.circuits` (`asyncio/server.py:107`);
- a subscription cancelled before its first update can be registered again by
  EventsOn with nobody to receive (`server/common.py:1015`);
- `ChannelData.publish` does not look at masks (`_data.py:785`); the sync filters
  `after` and `first` do not do what the comments at `_data.py:411-421` say.

Records:

- acknowledging with severity 0 clears a MAJOR alarm once the alarm is over: the
  comparison is with the current severity (`_data.py:224`, against the comment at
  222);
- a change of severity with the same status is not applied (`_data.py:992`);
- a client can set the alarm of a channel with the metadata of its put: it is only
  overridden when the check of the value has found another status
  (`_data.py:764-765`);
- the alarm is that of the value that was put, not of the one that the putter
  returned and that is stored (`_data.py:774`); limits in the metadata apply after
  the check, and the fields that show them change without an update to their own
  subscribers;
- a putter that returns another value for a put to RVAL leaves RVAL with what was
  put;
- enum strings that come with a put are stored as undecoded bytes
  (`_data.py:60-69` decodes units only): RVAL still refers to the strings before,
  reading a state string stores the text of the bytes object, and reading the
  channel with a type that has enum strings fails;
- reading the state string of the current state writes VAL and runs its putter
  (`server/records/utils.py:85`); reading one beyond the last extends
  `enum_strings`; a putter that returns None leaves RVAL behind; RVAL = -1 names the
  last state;
- a put of PREC to a record of type LONG is lost at the next read, as is one of
  NELM to a subArray.

Threading client:

- a circuit that dies between `get_circuit_manager` and the registration of the PV
  leaves the PV without a channel for good (`threading/client.py:1119-1129`): this is
  `Stranded` in `PvReconnects`;
- a refused connection ends the search thread (1119), a timeout in
  `compose_command` the activation thread (1191), an OSError in `sendto` the retry
  thread (478-482), a KeyError the monitoring thread (796);
- `write` that is woken up by `_disconnected` raises KeyError('response')
  (1501-1503); `ensure_connected` returns None after `CIRCUIT_DEATH_ATTEMPTS`;
- of a server whose version is below 12 no `last_tcp_receipt` is known before its
  first command, and `max` of None and a number ends the monitoring thread with
  TypeError (761, 1318-1319);
- a datagram that answers for several servers, as a name server's may, is reported
  with the last of their addresses (695);
- the monitor can make a PV forget a subscription when it disconnects while the
  selector tells the PV that it is connected;
- `circuit_managers.pop` uses a key under which nothing is stored (1518).

asyncio client:

- a search for a name with a result in use raises TypeError
  (`search_results.py:252`), for instance for a second priority;
- `invalidate_by_name` leaves `name_to_addrs` alone, so that a second invalidation
  raises KeyError and the PVs of the circuit are not searched for (222); the
  "expire it" of `reconnect` is not done, and another server's cached address is
  used again;
- a refused connection leaves a manager that is never dead, and its PVs with it
  (`asyncio/client.py:992`); a failed send ends `_process_search_results_loop` or
  the retry task; a channel closed by its server is not opened again (1188);
- a name asked for with two priorities and found on two servers: the loss of the
  first circuit makes `invalidate_by_name` take the name out of `addr_to_names` of
  the other server too (`search_results.py:222`), so that the loss of the second
  leaves the marker of a valid channel behind (`mark_server_disconnected`, 213);
  `MarkerMeansChannel` therefore speaks of names that are asked for once or are
  still found through the address;
- `circuit_managers.pop` has the wrong key here too (1264), `SearchResults.cancel`
  removes nothing (`search_results.py:192`), and `Context.monitor` calls `values()`
  on a list (929).

## 8. Not modelled

- curio and trio backends: the same server code over other queues.
- Of the server's commands: channel creation, reads, echo, protocol errors of
  dishonest clients, answers to searches. They touch one circuit's own tables,
  which `VirtualCircuit` covers.
- Of `_data.py`: state snapshots, masks and deadbands, conversions between types
  other than those `ChannelRecord` needs, metadata in puts to fields.
- Of the server framework: construction of classes and nested groups, start-up.
- Of the clients: user callbacks and their executors, access rights, servers whose
  version is below 12, and in the threading client a channel that its server
  closes (`threading/client.py:1470-1476`); of the
  asyncio client also reads, writes, subscriptions and idle PVs, which follow the
  threading client.
- Synchronous client (a sequential use of a circuit), repeater and autosave
  (sockets and files around a few lines of state).
- Parts without protocol state: array conversion, menus, pyepics facade,
  command-line tools, shark, statistics, conversion, benchmarks, documentation
  helpers, logging.
