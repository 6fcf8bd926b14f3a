------------------------ MODULE ServerSubscriptions ------------------------
(***************************************************************************)
(* How a caproto server (caproto/server/common.py with the asyncio backend *)
(* of caproto/asyncio/server.py) carries the values of one ChannelData to  *)
(* the clients that subscribed to it.                                      *)
(*                                                                         *)
(*    ChannelData.publish, subscribe                                       *)
(*      -> Context.subscription_queue -> Context.subscription_queue_loop   *)
(*      -> circuit.subscription_queue -> circuit.subscription_queue_loop   *)
(*      -> the client's socket                                             *)
(*                                                                         *)
(* Each circuit has three tasks: the one that receives (tcp_handler), the  *)
(* command loop and the subscription loop; the Context has one.  A task    *)
(* gives way only where it awaits something that is not ready, so a step   *)
(* below is the code from one such await to the next.                      *)
(*                                                                         *)
(* Clients are honest: they use a channel and a subscription only while    *)
(* they hold it.  The values of the ChannelData are numbered by `version'; *)
(* a SubscriptionSpec stands for a data type (masks and filters are left   *)
(* out), and the channels of a circuit have already been created.          *)
(***************************************************************************)
EXTENDS Integers, Sequences, FiniteSets, SequencesExt

CONSTANTS
  Circuits, Sids, Specs,
  Subscriptions,   \* what clients may ask for: [circuit, id, sid, spec]
  None,
  MAX_TOTAL_SUBSCRIPTION_BACKLOG,  \* room in a circuit's subscription_queue
  max_subscription_backlog,        \* updates of one subscription kept alive
  MaxVersion, MaxCommands,         \* bounds: writes; requests of one client
  ClientMay,       \* which of Requests, and "Disconnect", clients do
  TidyClients      \* clients cancel subscriptions before clearing a channel

Requests == {"EventAdd", "EventCancel", "ClearChannel", "EventsOn",
             "EventsOff", "Write"}

ASSUME SubscriptionAssumption ==
  /\ Subscriptions \subseteq [circuit : Circuits, id : Nat, sid : Sids, spec : Specs]
  /\ \A s, t \in Subscriptions : (s.circuit = t.circuit /\ s.id = t.id) => s = t
  /\ IsFiniteSet(Subscriptions) /\ IsFiniteSet(Specs)
ASSUME BacklogAssumption == /\ MAX_TOTAL_SUBSCRIPTION_BACKLOG \in Nat \ {0}
                            /\ max_subscription_backlog \in Nat \ {0}
ASSUME BoundAssumption   == MaxVersion \in Nat \ {0} /\ MaxCommands \in Nat
ASSUME ClientAssumption  == /\ ClientMay \subseteq Requests \cup {"Disconnect"}
                            /\ TidyClients \in BOOLEAN

VARIABLES
  connected, circuits,         \* circuit.connected; Context.circuits
  recv_task, cmd_task, sub_task, ctx_task,      \* what each task is doing
  command_queue, adding,       \* adding: the EventAdd awaiting write_event
  chans,                       \* sids that the sans-I/O circuit has open
  subscriptions, spec_keys,    \* circuit.subscriptions: its values, its keys
  to_resend, events_on, write_event,
  writes,                      \* write tasks that have not finished
  subscription_queue, batch,   \* circuit.subscription_queue; `commands'
  ctx_subscriptions, ctx_queue, iter, \* Context; iter: its loop's item
  registered, content, version,       \* ChannelData: _queues, _content, value
  client,                      \* what each client has asked for
  delivered                    \* last version sent to each subscription

linkVars == <<connected, circuits, recv_task>>
cmdVars  == <<cmd_task, command_queue, adding>>
circVars == <<chans, subscriptions, spec_keys>>
flowVars == <<to_resend, events_on>>
wrVars   == <<write_event, writes>>
outVars  == <<sub_task, subscription_queue, batch, delivered>>
ctxVars  == <<ctx_task, iter>>
dataVars == <<registered, content, version>>
vars == <<linkVars, cmdVars, circVars, flowVars, wrVars, outVars, ctxVars,
          ctx_subscriptions, ctx_queue, dataVars, client>>

\* delivered[s] once the response to EventCancel has been sent
Cancelled == -1

\* ref() of the weakref in a queue entry: the update, or None when expired
Entries == [sub : Subscriptions, ver : 0..MaxVersion, live : BOOLEAN]

\* An update in the Context's queue, for one new subscription or for all
Updates == [spec : Specs, ver : 0..MaxVersion, sub : Subscriptions \cup {None}]

\* What the Context's loop works on: the update for one subscription or for
\* a broadcast, the subscriptions it goes through and how far it has got
Items == [spec : Specs, ver : 0..MaxVersion, pos : Nat, put : Entries \cup {None},
          broadcast : BOOLEAN, over : Seq(Subscriptions)]

ASSUME NoneAssumption ==
  None \notin Subscriptions /\ None \notin Nat /\ None \notin Entries /\ None \notin Items

Commands == [kind : {"EventAdd", "EventCancel"}, sub : Subscriptions]
       \cup [kind : {"ClearChannel"}, sid : Sids]
       \cup [kind : {"EventsOn", "EventsOff", "Write", "DISCONNECTED"}]

TypeOK ==
  /\ connected \in [Circuits -> BOOLEAN] /\ circuits \subseteq Circuits
  /\ recv_task \in [Circuits -> {"recv", "done"}]
  /\ cmd_task \in [Circuits -> {"get", "adding", "drain", "done"}]
  /\ sub_task \in [Circuits -> {"get", "drain", "failed", "None"}]
  /\ ctx_task \in {"loop", "dead"}
  /\ command_queue \in [Circuits -> Seq(Commands)]
  /\ adding \in [Circuits -> Subscriptions \cup {None}]
  /\ chans \in [Circuits -> SUBSET Sids]
  /\ subscriptions \in [Circuits -> SUBSET Subscriptions]
  /\ spec_keys \in [Circuits -> SUBSET Specs]
  /\ to_resend \in [Circuits -> Seq(Subscriptions)]
  /\ events_on \in [Circuits -> BOOLEAN] /\ write_event \in [Circuits -> BOOLEAN]
  /\ writes \in [Circuits -> Nat]
  /\ subscription_queue \in [Circuits -> Seq(Entries)]
  /\ batch \in [Circuits -> Seq(Entries)]
  /\ ctx_subscriptions \in [Specs -> Seq(Subscriptions)]
  /\ ctx_queue \in Seq(Updates)
  /\ iter \in Items \cup {None}
  /\ registered \subseteq Specs /\ content \in [Specs -> 0..MaxVersion \cup {None}]
  /\ version \in 0..MaxVersion
  /\ delivered \in [Subscriptions -> -1..MaxVersion]
  /\ client \in [Circuits -> [sent : 0..MaxCommands, open : SUBSET Sids,
        added : SUBSET Subscriptions, held : SUBSET Subscriptions, off : BOOLEAN]]

\* Circuits that have just been accepted (tcp_handler, run) and whose
\* channels have been created; nobody has subscribed yet.
Init ==
  /\ connected = [c \in Circuits |-> TRUE] /\ circuits = Circuits
  /\ recv_task = [c \in Circuits |-> "recv"]
  /\ cmd_task = [c \in Circuits |-> "get"] /\ sub_task = [c \in Circuits |-> "get"]
  /\ ctx_task = "loop" /\ iter = None
  /\ command_queue = [c \in Circuits |-> <<>>]
  /\ adding = [c \in Circuits |-> None] /\ chans = [c \in Circuits |-> Sids]
  /\ subscriptions = [c \in Circuits |-> {}] /\ spec_keys = [c \in Circuits |-> {}]
  /\ to_resend = [c \in Circuits |-> <<>>]
  /\ events_on = [c \in Circuits |-> TRUE] /\ write_event = [c \in Circuits |-> TRUE]
  /\ writes = [c \in Circuits |-> 0]
  /\ subscription_queue = [c \in Circuits |-> <<>>] /\ batch = [c \in Circuits |-> <<>>]
  /\ ctx_subscriptions = [p \in Specs |-> <<>>] /\ ctx_queue = <<>>
  /\ registered = {} /\ content = [p \in Specs |-> None] /\ version = 1
  /\ client = [c \in Circuits |->
       [sent |-> 0, open |-> Sids, added |-> {}, held |-> {}, off |-> FALSE]]
  /\ delivered = [s \in Subscriptions |-> 0]

-----------------------------------------------------------------------------
(* asyncio runs another task only when the Context's loop gives way.       *)

\* The Context's loop is between two items, or waits for room in a queue.
Yielded == iter # None => iter.put # None

\* A list that some elements have been removed from.
Without(list, gone) ==
  LET left   == {i \in DOMAIN list : list[i] \notin gone}
      nth(k) == CHOOSE i \in left : Cardinality({j \in left : j <= i}) = k
  IN  [k \in 1..Cardinality(left) |-> list[nth(k)]]

-----------------------------------------------------------------------------
(* The data side: caproto/_data.py                                         *)

\* Mutant: the cache of readings outlives the value it was made from.
Publish_keeps_content ==
  /\ version < MaxVersion
  /\ version' = version + 1
  /\ ctx_queue' = ctx_queue \o
       SetToSeq({[spec |-> p, ver |-> version', sub |-> None] : p \in registered})
  /\ UNCHANGED <<registered, content>>

\* ChannelData.publish: one item for each data type somebody is registered
\* for; the cache of converted readings is emptied first.
Publish ==
  /\ version < MaxVersion
  /\ version' = version + 1
  /\ content' = [p \in Specs |-> None]
  /\ ctx_queue' = ctx_queue \o
       SetToSeq({[spec |-> p, ver |-> version', sub |-> None] : p \in registered})
  /\ UNCHANGED registered

\* Mutant: a cache that has been emptied is sent without a new reading.
Reading_not_made(spec) == content[spec]

\* What subscribe sends at once: the cached reading, or a new one.
Reading(spec) == IF content[spec] = None THEN version ELSE content[spec]

\* ChannelData.subscribe for each of a sequence of subscriptions in turn.
Subscribe(subs) ==
  /\ registered' = registered \cup {s.spec : s \in ToSet(subs)}
  /\ content' = [p \in Specs |-> IF \E s \in ToSet(subs) : s.spec = p
                                THEN Reading(p) ELSE content[p]]
  /\ ctx_queue' = ctx_queue \o [i \in DOMAIN subs |->
       [spec |-> subs[i].spec, ver |-> Reading(subs[i].spec), sub |-> subs[i]]]
  /\ UNCHANGED version

\* Mutant: unsubscribes without asking whether other circuits still care.
Release_without_asking(gone, specs) ==
  /\ ctx_subscriptions' = [p \in Specs |-> Without(ctx_subscriptions[p], gone)]
  /\ registered' = registered \ specs
  /\ UNCHANGED <<content, version>>

\* Take subscriptions out of Context.subscriptions, and unsubscribe the
\* Context from those of `specs' that then have nobody left.
Release(gone, specs) ==
  /\ ctx_subscriptions' = [p \in Specs |-> Without(ctx_subscriptions[p], gone)]
  /\ registered' = registered \ {p \in specs : ctx_subscriptions'[p] = <<>>}
  /\ UNCHANGED <<content, version>>

\* The program itself writes to the ChannelData (ChannelData.write).
ServerWrite ==
  /\ Yielded /\ Publish
  /\ UNCHANGED <<linkVars, cmdVars, circVars, flowVars, wrVars, outVars,
                 ctxVars, ctx_subscriptions, client>>

-----------------------------------------------------------------------------
(* The end of a circuit                                                    *)

\* _on_disconnect, by whichever task notices.  The asyncio backend then
\* cancels the subscription loop and awaits it: a loop cancelled while it
\* gets from its queue ends quietly; one that was sending, or that had
\* already ended with an exception, passes the exception on.
OnDisconnect(c) ==
  /\ connected' = [connected EXCEPT ![c] = FALSE]
  /\ IF connected[c]
     THEN /\ Release(subscriptions[c], spec_keys[c])
          /\ subscriptions' = [subscriptions EXCEPT ![c] = {}]
          /\ spec_keys' = [spec_keys EXCEPT ![c] = {}]
     ELSE UNCHANGED <<ctx_subscriptions, dataVars, subscriptions, spec_keys>>
  /\ sub_task' = [sub_task EXCEPT ![c] =
                    IF @ \in {"get", "None"} THEN "None" ELSE "failed"]

CancelRaises(c) == sub_task[c] \in {"drain", "failed"}

\* context.circuit_disconnected, unless _on_disconnect raised before it.
CircuitDisconnected(c) ==
  circuits' = IF CancelRaises(c) THEN circuits ELSE circuits \ {c}

\* tcp_handler: recv returns no bytes or fails.  DISCONNECTED joins the
\* commands that have not been processed yet, and the circuit is released
\* without waiting for them.
RecvEOF(c) ==
  /\ "Disconnect" \in ClientMay \/ ~connected[c]
  /\ Yielded /\ recv_task[c] = "recv"
  /\ command_queue' = [command_queue EXCEPT ![c] = Append(@, [kind |-> "DISCONNECTED"])]
  /\ recv_task' = [recv_task EXCEPT ![c] = "done"]
  /\ OnDisconnect(c) /\ CircuitDisconnected(c)
  /\ UNCHANGED <<cmd_task, adding, chans, flowVars, wrVars, subscription_queue,
                 batch, delivered, ctxVars, ctx_queue, client>>

-----------------------------------------------------------------------------
(* The command loop                                                        *)

\* What an honest client may send next.
HonestCommands(c) ==
  LET me == client[c] IN
       {[kind |-> "EventAdd", sub |-> s] :
          s \in {t \in Subscriptions \ me.added : t.circuit = c /\ t.sid \in me.open}}
  \cup {[kind |-> "EventCancel", sub |-> s] : s \in {t \in me.held : t.sid \in me.open}}
  \cup {[kind |-> "ClearChannel", sid |-> i] :
          i \in {j \in me.open : TidyClients => \A t \in me.held : t.sid # j}}
  \cup {[kind |-> IF me.off THEN "EventsOn" ELSE "EventsOff"], [kind |-> "Write"]}

\* What the client remembers of having sent it.
AfterSending(me, cmd) ==
  [sent  |-> me.sent + 1,
   open  |-> IF cmd.kind = "ClearChannel" THEN me.open \ {cmd.sid} ELSE me.open,
   added |-> IF cmd.kind = "EventAdd" THEN me.added \cup {cmd.sub} ELSE me.added,
   held  |-> IF cmd.kind = "EventAdd" THEN me.held \cup {cmd.sub}
             ELSE IF cmd.kind = "EventCancel" THEN me.held \ {cmd.sub} ELSE me.held,
   off   |-> IF cmd.kind \in {"EventsOn", "EventsOff"} THEN ~me.off ELSE me.off]

\* circuit.recv puts a command on the queue of the command loop.
Recv(c) ==
  /\ Yielded /\ recv_task[c] = "recv" /\ client[c].sent < MaxCommands
  /\ \E cmd \in HonestCommands(c) :
       /\ cmd.kind \in ClientMay
       /\ command_queue' = [command_queue EXCEPT ![c] = Append(@, cmd)]
       /\ client' = [client EXCEPT ![c] = AfterSending(@, cmd)]
  /\ UNCHANGED <<linkVars, cmd_task, adding, circVars, flowVars, wrVars, outVars,
                 ctxVars, ctx_subscriptions, ctx_queue, dataVars>>

\* The command loop takes a command of this kind off its queue.
Take(c, kind) ==
  /\ Yielded /\ cmd_task[c] = "get"
  /\ command_queue[c] # <<>> /\ Head(command_queue[c]).kind = kind
  /\ command_queue' = [command_queue EXCEPT ![c] = Tail(@)]

\* send() of the response, which may be empty: it does nothing on a circuit
\* known to be disconnected; otherwise the loop may wait for the socket.
Respond(c) ==
  cmd_task' \in {[cmd_task EXCEPT ![c] = t] : t \in IF connected[c] THEN {"get", "drain"} ELSE {"get"}}

\* EventAddRequest.  The subscription is entered at the circuit and at the
\* Context first; db_entry.subscribe comes after the wait for a write.
EventAdd(c) ==
  /\ Take(c, "EventAdd")
  /\ LET sub == Head(command_queue[c]).sub IN
     /\ subscriptions' = [subscriptions EXCEPT ![c] = @ \cup {sub}]
     /\ spec_keys' = [spec_keys EXCEPT ![c] = @ \cup {sub.spec}]
     /\ ctx_subscriptions' = [ctx_subscriptions EXCEPT ![sub.spec] = Append(@, sub)]
     /\ IF write_event[c]
        THEN Subscribe(<<sub>>) /\ Respond(c) /\ UNCHANGED adding
        ELSE /\ cmd_task' = [cmd_task EXCEPT ![c] = "adding"]
             /\ adding' = [adding EXCEPT ![c] = sub]
             /\ UNCHANGED <<ctx_queue, dataVars>>
  /\ UNCHANGED <<linkVars, chans, flowVars, wrVars, outVars, ctxVars, client>>

\* write_event has been set, or WRITE_LOCK_TIMEOUT has passed.
EventAddResumes(c) ==
  /\ Yielded /\ cmd_task[c] = "adding"
  /\ Subscribe(<<adding[c]>>)
  /\ Respond(c)
  /\ adding' = [adding EXCEPT ![c] = None]
  /\ UNCHANGED <<linkVars, command_queue, circVars, flowVars, wrVars, outVars,
                 ctxVars, ctx_subscriptions, client>>

\* _cull_subscriptions: forget those of the circuit's subscriptions for
\* which the caller's test holds.
CullSubscriptions(c, gone) ==
  /\ subscriptions' = [subscriptions EXCEPT ![c] = @ \ gone]
  /\ to_resend' = [to_resend EXCEPT ![c] = Without(@, gone)]
  /\ Release(gone, {s.spec : s \in gone})
  /\ UNCHANGED <<spec_keys, events_on>>

\* EventCancelRequest and its response.
EventCancel(c) ==
  /\ Take(c, "EventCancel")
  /\ LET sub == Head(command_queue[c]).sub IN
     /\ CullSubscriptions(c, {s \in subscriptions[c] : s.id = sub.id})
     /\ delivered' = IF connected[c] THEN [delivered EXCEPT ![sub] = Cancelled] ELSE delivered
  /\ Respond(c)
  /\ UNCHANGED <<linkVars, adding, chans, wrVars, sub_task, subscription_queue, batch,
                 ctxVars, ctx_queue, client>>

\* ClearChannelRequest and its response.  The test for the subscriptions of
\* the channel compares a channel object with a sid, and selects none.
ClearChannel(c) ==
  /\ Take(c, "ClearChannel")
  /\ CullSubscriptions(c, {})
  /\ chans' = [chans EXCEPT ![c] =
       IF connected[c] THEN @ \ {Head(command_queue[c]).sid} ELSE @]
  /\ Respond(c)
  /\ UNCHANGED <<linkVars, adding, wrVars, outVars, ctxVars, ctx_queue, client>>

\* Mutant: the list is cleared before it is gone through.
EventsOn_forgets(c) ==
  /\ Take(c, "EventsOn")
  /\ events_on' = [events_on EXCEPT ![c] = TRUE]
  /\ to_resend' = [to_resend EXCEPT ![c] = <<>>]
  /\ Respond(c)
  /\ UNCHANGED <<linkVars, adding, circVars, wrVars, outVars, ctxVars,
                 ctx_subscriptions, ctx_queue, dataVars, client>>

\* EventsOnRequest: everything that was marked while events were off is
\* subscribed anew, which sends its current reading.
EventsOn(c) ==
  /\ Take(c, "EventsOn")
  /\ events_on' = [events_on EXCEPT ![c] = TRUE]
  /\ to_resend' = [to_resend EXCEPT ![c] = <<>>]
  /\ Subscribe(to_resend[c])
  /\ Respond(c)
  /\ UNCHANGED <<linkVars, adding, circVars, wrVars, outVars, ctxVars,
                 ctx_subscriptions, client>>

\* Add to subscriptions_to_resend what is not there yet.
MarkToResend(marked, subs) == marked \o SetToSeq(subs \ ToSet(marked))

\* Mutant: the two clear()s swapped, so that the callbacks see events on.
EventsOff_clears_first(c) ==
  LET queue == subscription_queue[c] IN
  /\ Take(c, "EventsOff")
  /\ events_on' = [events_on EXCEPT ![c] = FALSE]
  /\ subscription_queue' = [subscription_queue EXCEPT ![c] =
       [i \in DOMAIN queue |-> [queue[i] EXCEPT !.live = FALSE]]]
  /\ Respond(c)
  /\ UNCHANGED <<linkVars, adding, circVars, wrVars, sub_task, batch, to_resend,
                 delivered, ctxVars, ctx_subscriptions, ctx_queue, dataVars, client>>

\* EventsOffRequest: events_on.clear(), then unexpired_updates.clear().  The
\* updates still in the queue die with their last reference, and the
\* callback of each weakref marks its subscription to be resent.  An update
\* whose put is blocked is still held by that call.
EventsOff(c) ==
  LET queue == subscription_queue[c]
      alive == {e \in ToSet(queue) : e.live} IN
  /\ Take(c, "EventsOff")
  /\ events_on' = [events_on EXCEPT ![c] = FALSE]
  /\ subscription_queue' = [subscription_queue EXCEPT ![c] =
       [i \in DOMAIN queue |-> [queue[i] EXCEPT !.live = FALSE]]]
  /\ to_resend' = [to_resend EXCEPT ![c] =
       MarkToResend(@, {e.sub : e \in alive})]
  /\ iter' = IF iter # None /\ iter.put # None /\ iter.put.sub.circuit = c
             THEN [iter EXCEPT !.put.live = FALSE] ELSE iter
  /\ Respond(c)
  /\ UNCHANGED <<linkVars, adding, circVars, wrVars, sub_task, batch,
                 delivered, ctx_task, ctx_subscriptions, ctx_queue, dataVars, client>>

\* Write[Notify]Request: the write becomes a task of its own.
WriteRequest(c) ==
  /\ Take(c, "Write")
  /\ write_event' = [write_event EXCEPT ![c] = FALSE]
  /\ writes' = [writes EXCEPT ![c] = @ + 1]
  /\ Respond(c)
  /\ UNCHANGED <<linkVars, adding, circVars, flowVars, outVars, ctxVars,
                 ctx_subscriptions, ctx_queue, dataVars, client>>

\* handle_write ends: the value was written and published, or the write was
\* refused; either way write_event is set.
HandleWrite(c) ==
  /\ Yielded /\ writes[c] > 0
  /\ \/ Publish
     \/ UNCHANGED <<dataVars, ctx_queue>>
  /\ writes' = [writes EXCEPT ![c] = @ - 1]
  /\ write_event' = [write_event EXCEPT ![c] = TRUE]
  /\ UNCHANGED <<linkVars, cmdVars, circVars, flowVars, outVars, ctxVars,
                 ctx_subscriptions, client>>

\* The command loop reaches DISCONNECTED and ends.
Disconnected(c) ==
  /\ Take(c, "DISCONNECTED")
  /\ OnDisconnect(c) /\ CircuitDisconnected(c)
  /\ cmd_task' = [cmd_task EXCEPT ![c] = "done"]
  /\ UNCHANGED <<recv_task, adding, chans, flowVars, wrVars, subscription_queue, batch,
                 delivered, ctxVars, ctx_queue, client>>

\* The socket has taken the response ...
CommandSent(c) ==
  /\ Yielded /\ cmd_task[c] = "drain"
  /\ cmd_task' = [cmd_task EXCEPT ![c] = "get"]
  /\ UNCHANGED <<linkVars, command_queue, adding, circVars, flowVars, wrVars, outVars,
                 ctxVars, ctx_subscriptions, ctx_queue, dataVars, client>>

\* ... or it failed (DisconnectedCircuit), which ends the command loop.
CommandSendFails(c) ==
  /\ "Disconnect" \in ClientMay
  /\ Yielded /\ cmd_task[c] = "drain"
  /\ OnDisconnect(c) /\ CircuitDisconnected(c)
  /\ cmd_task' = [cmd_task EXCEPT ![c] = "done"]
  /\ UNCHANGED <<recv_task, command_queue, adding, chans, flowVars, wrVars,
                 subscription_queue, batch, delivered, ctxVars, ctx_queue, client>>

-----------------------------------------------------------------------------
(* The Context's subscription loop                                         *)

\* subscription_queue.get(): an update for one new subscription, or one to
\* be broadcast to the deque of its spec.
CtxGet ==
  /\ ctx_task = "loop" /\ iter = None /\ ctx_queue # <<>>
  /\ LET item == Head(ctx_queue) IN
     iter' = [spec |-> item.spec, ver |-> item.ver, pos |-> 0, put |-> None,
              broadcast |-> item.sub = None,
              over |-> IF item.sub = None THEN ctx_subscriptions[item.spec]
                                          ELSE <<item.sub>>]
  /\ ctx_queue' = Tail(ctx_queue)
  /\ UNCHANGED <<linkVars, cmdVars, circVars, flowVars, wrVars, outVars, ctx_task,
                 ctx_subscriptions, dataVars, client>>

\* The deque that the loop is going through has been changed since it began.
Mutated == iter.broadcast /\ ctx_subscriptions[iter.spec] # iter.over

\* A new update enters unexpired_updates[id], a deque of bounded length: the
\* oldest update of that subscription may lose its last reference.
Expire(queue, sub) ==
  [i \in DOMAIN queue |->
     LET newer == {j \in DOMAIN queue : j > i /\ queue[j].sub = sub} IN
     IF queue[i].sub = sub /\ Cardinality(newer) >= max_subscription_backlog - 1
     THEN [queue[i] EXCEPT !.live = FALSE] ELSE queue[i]]

HasRoom(c) == Len(subscription_queue[c]) < MAX_TOTAL_SUBSCRIPTION_BACKLOG

\* _subscription_queue_send to the next subscription.  With events off it is
\* only marked.  Otherwise the update joins the circuit's queue; asyncio's
\* put() never raises QueueFull, it waits until there is room.
CtxSend ==
  /\ ctx_task = "loop" /\ iter # None /\ iter.put = None
  /\ ~Mutated /\ iter.pos < Len(iter.over)
  /\ LET sub   == iter.over[iter.pos + 1]
         c     == sub.circuit
         entry == [sub |-> sub, ver |-> iter.ver, live |-> TRUE]
         queue == Expire(subscription_queue[c], sub) IN
     \/ /\ ~events_on[c]
        /\ to_resend' = [to_resend EXCEPT ![c] = MarkToResend(@, {sub})]
        /\ iter' = [iter EXCEPT !.pos = @ + 1]
        /\ UNCHANGED subscription_queue
     \/ /\ events_on[c] /\ HasRoom(c)
        /\ subscription_queue' = [subscription_queue EXCEPT ![c] = Append(queue, entry)]
        /\ iter' = [iter EXCEPT !.pos = @ + 1]
        /\ UNCHANGED to_resend
     \/ /\ events_on[c] /\ ~HasRoom(c)
        /\ subscription_queue' = [subscription_queue EXCEPT ![c] = queue]
        /\ iter' = [iter EXCEPT !.pos = @ + 1, !.put = entry]
        /\ UNCHANGED to_resend
  /\ UNCHANGED <<linkVars, cmdVars, circVars, events_on, wrVars, sub_task, batch,
                 delivered, ctx_task, ctx_subscriptions, ctx_queue, dataVars, client>>

\* A blocked put() finds room.  If the client turned events off meanwhile,
\* the update dies when the call that held it returns.
CtxPut ==
  /\ ctx_task = "loop" /\ iter # None /\ iter.put # None
  /\ LET c == iter.put.sub.circuit IN
     /\ HasRoom(c)
     /\ subscription_queue' = [subscription_queue EXCEPT ![c] = Append(@, iter.put)]
     /\ to_resend' = IF iter.put.live \/ events_on[c] THEN to_resend
                     ELSE [to_resend EXCEPT ![c] = MarkToResend(@, {iter.put.sub})]
  /\ iter' = [iter EXCEPT !.put = None]
  /\ UNCHANGED <<linkVars, cmdVars, circVars, events_on, wrVars, sub_task, batch,
                 delivered, ctx_task, ctx_subscriptions, ctx_queue, dataVars, client>>

\* The end of the deque.
CtxNext ==
  /\ ctx_task = "loop" /\ iter # None /\ iter.put = None
  /\ ~Mutated /\ iter.pos = Len(iter.over)
  /\ iter' = None
  /\ UNCHANGED <<linkVars, cmdVars, circVars, flowVars, wrVars, outVars, ctx_task,
                 ctx_subscriptions, ctx_queue, dataVars, client>>

\* "RuntimeError: deque mutated during iteration" ends the loop, and with it
\* every further update to any client.
CtxFails ==
  /\ ctx_task = "loop" /\ iter # None /\ iter.put = None /\ Mutated
  /\ ctx_task' = "dead" /\ iter' = None
  /\ UNCHANGED <<linkVars, cmdVars, circVars, flowVars, wrVars, outVars,
                 ctx_subscriptions, ctx_queue, dataVars, client>>

-----------------------------------------------------------------------------
(* A circuit's subscription loop                                           *)

\* One turn of the batching loop: an expired update is dropped.
SubGet(c) ==
  /\ Yielded /\ sub_task[c] = "get" /\ subscription_queue[c] # <<>>
  /\ subscription_queue' = [subscription_queue EXCEPT ![c] = Tail(@)]
  /\ batch' = [batch EXCEPT ![c] =
       IF Head(subscription_queue[c]).live
       THEN Append(@, Head(subscription_queue[c])) ELSE @]
  /\ UNCHANGED <<linkVars, cmdVars, circVars, flowVars, wrVars, sub_task, delivered,
                 ctxVars, ctx_subscriptions, ctx_queue, dataVars, client>>

\* Mutant: the check at the last possible moment is missing.
Culled_not(c) == DOMAIN batch[c]

\* Where in the batch the updates are whose subscription has not been
\* cancelled since they were queued.
Culled(c) == {i \in DOMAIN batch[c] :
                batch[c][i].sub.id \in {s.id : s \in subscriptions[c]}}

\* The batch goes out (size, latency and load decide when).  circuit.send
\* fails on an update for a channel the circuit no longer has, and nothing
\* in the loop catches that.
SubSend(c) ==
  /\ Yielded /\ sub_task[c] = "get" /\ batch[c] # <<>>
  /\ LET out == Culled(c) IN
     IF \E i \in out : batch[c][i].sub.sid \notin chans[c]
     THEN /\ sub_task' = [sub_task EXCEPT ![c] = "failed"]
          /\ UNCHANGED delivered
     ELSE /\ \E t \in {"get", "drain"} : sub_task' = [sub_task EXCEPT ![c] = t]
          /\ delivered' = [s \in Subscriptions |->
               LET mine == {i \in out : batch[c][i].sub = s} IN
               IF mine = {} THEN delivered[s] ELSE batch[c][Max(mine)].ver]
  /\ batch' = [batch EXCEPT ![c] = <<>>]
  /\ UNCHANGED <<linkVars, cmdVars, circVars, flowVars, wrVars, subscription_queue,
                 ctxVars, ctx_subscriptions, ctx_queue, dataVars, client>>

\* The socket has taken the batch ...
SubSent(c) ==
  /\ Yielded /\ sub_task[c] = "drain"
  /\ sub_task' = [sub_task EXCEPT ![c] = "get"]
  /\ UNCHANGED <<linkVars, cmdVars, circVars, flowVars, wrVars, subscription_queue,
                 batch, delivered, ctxVars, ctx_subscriptions, ctx_queue, dataVars, client>>

\* ... or it failed: the loop calls _on_disconnect, which cancels and awaits
\* the very task it runs in, and gets no further.
SubSendFails(c) ==
  /\ "Disconnect" \in ClientMay
  /\ Yielded /\ sub_task[c] = "drain"
  /\ OnDisconnect(c)
  /\ UNCHANGED <<circuits, recv_task, cmdVars, chans, flowVars, wrVars, subscription_queue,
                 batch, delivered, ctxVars, ctx_queue, client>>

-----------------------------------------------------------------------------
CommandLoop(c) ==
  \/ EventAdd(c) \/ EventAddResumes(c) \/ EventCancel(c) \/ ClearChannel(c)
  \/ EventsOn(c) \/ EventsOff(c) \/ WriteRequest(c) \/ Disconnected(c)
  \/ CommandSent(c)

SubscriptionLoop(c) == SubGet(c) \/ SubSend(c) \/ SubSent(c)

ContextLoop == CtxGet \/ CtxSend \/ CtxPut \/ CtxNext \/ CtxFails

Next ==
  \/ ServerWrite \/ ContextLoop
  \/ \E c \in Circuits :
       \/ Recv(c) \/ RecvEOF(c) \/ CommandLoop(c) \/ CommandSendFails(c)
       \/ HandleWrite(c) \/ SubscriptionLoop(c) \/ SubSendFails(c)

Spec == Init /\ [][Next]_vars

\* The event loop runs every task that is ready again and again; clients
\* read their sockets.  Nothing obliges a batch to be sent while there is
\* more to get, except the limit on latency.
Fairness ==
  /\ WF_vars(ContextLoop)
  /\ \A c \in Circuits : WF_vars(CommandLoop(c)) /\ WF_vars(SubscriptionLoop(c))
FairSpec == Spec /\ Fairness

-----------------------------------------------------------------------------
(* Properties                                                              *)

\* How each subscription stands with its circuit.
Standing ==
  [s \in Subscriptions |->
     IF delivered[s] = Cancelled THEN "cancelled"
     ELSE IF s \notin subscriptions[s.circuit] THEN "idle"
     ELSE IF events_on[s.circuit] THEN "live" ELSE "paused"]

\* The server as its clients see it.
Promise == INSTANCE Monitors WITH
  value <- version, seen <- delivered, state <- Standing

\* Whatever was queued, batched or blocked when clients cancelled, turned
\* events off or disconnected, the messages that leave the server keep the
\* promise of Monitors: values go to subscriptions that stand, never
\* backwards, and no EventAddResponse follows the EventCancelResponse.
KeepsPromise == Promise!Spec

\* While no queue is full and clients are tidy, the promise includes that
\* every accepted subscription is sent the latest value in the end.
KeepsWholePromise == Promise!FairSpec

\* Is the current value on its way to s?
OnItsWay(s) ==
  LET c == s.circuit IN
  \/ \E e \in ToSet(batch[c]) : e.sub = s /\ e.ver = version
  \/ \E e \in ToSet(subscription_queue[c]) : e.sub = s /\ e.ver = version /\ e.live
  \/ \E m \in ToSet(ctx_queue) : m.ver = version /\ m.spec = s.spec /\ m.sub \in {None, s}
  \/ /\ iter # None
     /\ \/ iter.put # None /\ iter.put.sub = s /\ iter.put.ver = version
        \/ iter.ver = version /\ \E i \in DOMAIN iter.over : i > iter.pos /\ iter.over[i] = s

\* A slow client may miss old values, never the latest one: as long as the
\* loops run, a subscription that has not been sent the current value has it
\* on its way, or will be sent it when the client turns events on again.
LatestNewsIsKept ==
  \A s \in Subscriptions :
    LET c == s.circuit IN
    (s \in subscriptions[c] /\ adding[c] # s /\ connected[c]
       /\ sub_task[c] \in {"get", "drain"} /\ ctx_task = "loop")
    => \/ delivered[s] = version
       \/ OnItsWay(s)
       \/ ~events_on[c] /\ s \in ToSet(to_resend[c])

\* The Context's table has the subscriptions that circuits hold, whatever
\* other circuits cancel or close, and even for circuits that have ended; and
\* every one that has been accepted is registered with the ChannelData.
WantedIsRegistered ==
  /\ \A c \in Circuits : \A s \in subscriptions[c] :
       /\ s \in ToSet(ctx_subscriptions[s.spec])
       /\ adding[c] # s => s.spec \in registered
  /\ \A p \in Specs : \A s \in ToSet(ctx_subscriptions[p]) : s \in subscriptions[s.circuit]

(* What the repository says and the code does not do.                      *)

\* A cleared channel has no subscriptions left at the circuit.
ClearedChannelIsReleased ==
  \A c \in Circuits : \A s \in subscriptions[c] : s.sid \in chans[c]
=============================================================================
