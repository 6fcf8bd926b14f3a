-------------------------- MODULE ThreadingClient --------------------------
(***************************************************************************)
(* How the threading client (caproto/threading/client.py) keeps its PVs    *)
(* connected: Context, VirtualCircuitManager, PV and Subscription.  Its    *)
(* threads are                                                             *)
(*                                                                         *)
(*    'search'     _process_search_results_loop: circuits and channels     *)
(*    'selector'   received, _process_command, and EOF: _disconnected      *)
(*    'monitor'    the SharedBroadcaster's, which may call _disconnected   *)
(*    'activate'   _activate_subscriptions                                 *)
(*    the user's   ensure_connected read and write, go_idle, add_callback  *)
(*                                                                         *)
(* A step is what a thread does between two points where another thread    *)
(* could change what it depends on; locks are held only inside a step.     *)
(* There is one server address and one priority, so one circuit at a time  *)
(* is wanted; circuits are numbered as they are made.  A search for a PV   *)
(* that needs a circuit is answered (see SharedBroadcaster).  Every wait   *)
(* of the user's has a timeout.                                            *)
(***************************************************************************)
EXTENDS Integers, Sequences, FiniteSets

CONSTANTS
  PVs, None,
  CIRCUIT_DEATH_ATTEMPTS,
  MaxCircuits,             \* bound: circuits made
  MaxErrors,               \* bound: connections refused or broken while sending
  MaxMonitor,              \* bound: circuits the monitor gives up
  MaxCalls                 \* bound: calls of read and write, go_idle, callbacks

Circuit == 1 .. MaxCircuits
ASSUME BoundAssumption == MaxCircuits \in Nat \ {0} /\ CIRCUIT_DEATH_ATTEMPTS \in Nat \ {0}
ASSUME NoneAssumption  == None \notin Nat \X Nat      \* it is not an ioid

VARIABLES
  made,                    \* circuits made so far
  manager,                 \* Context.circuit_managers: the one last stored
  peer,                    \* circuits whose server end is open
  dead, socket,            \* per circuit: the Event; self.socket is not None
  channels,                \* per circuit: the PVs in its tables pvs and channels
  circuit_manager, channel,\* per PV: a circuit; the circuit its channel is on
  circuit_ready, channel_ready, \* per PV: the Events
  needing,                 \* pvs_needing_circuits
  searching,               \* searches under way or answered, not yet processed
  inbox,                   \* per circuit: what the server has sent
  search_thread, selector, monitor, activate,
  idle, usages,            \* per PV: _idle, _usages
  user,                    \* per PV: the thread that calls read or write
  idler,                   \* per PV: whether a thread is inside go_idle
  callbacks, needs_reactivation, to_activate, \* Subscription, Context
  subscribed,              \* per circuit: PVs the server sends updates of
  activated,               \* (ghost) PVs whose Subscription reached a server
  count

pvState  == <<circuit_manager, channel, circuit_ready, channel_ready>>
circuits == <<made, manager, peer, dead, socket, channels>>
usage    == <<idle, usages, user, idler>>
subs     == <<callbacks, needs_reactivation, to_activate, subscribed, activated>>
vars == <<circuits, pvState, needing, searching, inbox, search_thread, selector, monitor,
          activate, usage, subs, count>>

Idle == [at |-> "idle"]
Init ==
  /\ made = 0 /\ manager = None /\ peer = {}
  /\ dead = {} /\ socket = {} /\ channels = [k \in Circuit |-> {}]
  /\ circuit_manager = [p \in PVs |-> None] /\ channel = [p \in PVs |-> None]
  /\ circuit_ready = {} /\ channel_ready = {}
  /\ needing = PVs /\ searching = PVs                \* get_pvs was called
  /\ inbox = [k \in Circuit |-> <<>>]
  /\ search_thread = Idle /\ selector = Idle /\ monitor = Idle /\ activate = Idle
  /\ idle = {} /\ usages = [p \in PVs |-> 0] /\ user = [p \in PVs |-> Idle] /\ idler = {}
  /\ callbacks = {} /\ needs_reactivation = {} /\ to_activate = {}
  /\ subscribed = [k \in Circuit |-> {}] /\ activated = {}
  /\ count = [errors |-> 0, monitor |-> 0, calls |-> 0]

\* cm.send: nothing without a socket.  What reaches the server is answered.
Send(k, answers) ==
  inbox' = IF k \in socket /\ k \in peer THEN [inbox EXCEPT ![k] = @ \o answers] ELSE inbox
CreateChan(p) == <<[class |-> "CreateChan", pv |-> p]>>
Answer(p, ioid) == <<[class |-> "Answer", pv |-> p, ioid |-> ioid]>>
---------------------------------------------------------------------------
(* 'search': _process_search_results_loop *)

\* A result arrives; the PV is no longer in need of a circuit.
SearchGet(p) ==
  /\ search_thread = Idle /\ p \in searching
  /\ searching' = searching \ {p}
  /\ needing' = needing \ {p}
  /\ search_thread' = IF p \in needing THEN [at |-> "manager", pv |-> p] ELSE Idle
  /\ UNCHANGED <<circuits, pvState, inbox, selector, monitor, activate, usage, subs, count>>

\* get_circuit_manager: the one stored, unless it is dead; else a new one.
SearchManager ==
  /\ search_thread.at = "manager"
  /\ IF manager # None /\ manager \notin dead
     THEN /\ search_thread' = [at |-> "assign", pv |-> search_thread.pv, circuit |-> manager]
          /\ UNCHANGED circuits
     ELSE /\ made < MaxCircuits
          /\ made' = made + 1 /\ manager' = made'
          /\ peer' = peer \cup {made'} /\ socket' = socket \cup {made'}
          /\ search_thread' = [at |-> "assign", pv |-> search_thread.pv, circuit |-> made']
          /\ UNCHANGED <<dead, channels>>
  /\ UNCHANGED <<pvState, needing, searching, inbox, selector, monitor, activate, usage,
                 subs, count>>

\* The connection is refused or not ready in time: nobody catches that.
SearchRefused ==
  /\ search_thread.at = "manager" /\ (manager = None \/ manager \in dead)
  /\ count.errors < MaxErrors
  /\ count' = [count EXCEPT !.errors = @ + 1]
  /\ search_thread' = [at |-> "ended"]
  /\ UNCHANGED <<circuits, pvState, needing, searching, inbox, selector, monitor, activate,
                 usage, subs>>

SearchAssign ==
  /\ search_thread.at = "assign"
  /\ LET p == search_thread.pv
         k == search_thread.circuit
     IN  /\ circuit_manager' = [circuit_manager EXCEPT ![p] = k]
         /\ channels' = [channels EXCEPT ![k] = @ \cup {p}]
         /\ circuit_ready' = circuit_ready \cup {p}
         /\ search_thread' = [search_thread EXCEPT !.at = "create"]
  /\ UNCHANGED <<made, manager, peer, dead, socket, channel, channel_ready, needing, searching,
                 inbox, selector, monitor, activate, usage, subs, count>>

\* cm.send(chan.create()); a broken connection that is not yet known to be
\* dead ends the thread.
SearchCreate ==
  /\ search_thread.at = "create"
  /\ Send(search_thread.circuit, CreateChan(search_thread.pv))
  /\ \/ search_thread' = Idle /\ UNCHANGED count
     \/ /\ search_thread.circuit \notin dead \cup peer /\ count.errors < MaxErrors
        /\ search_thread' = [at |-> "ended"]
        /\ count' = [count EXCEPT !.errors = @ + 1]
  /\ UNCHANGED <<circuits, pvState, needing, searching, selector, monitor, activate, usage, subs>>
---------------------------------------------------------------------------
(* VirtualCircuitManager._disconnected, in the thread `thread' *)

\* Idempotent, if nobody else is between the test and dead.set().
Disconnecting(k) == IF k \in dead THEN Idle ELSE [at |-> "clear", circuit |-> k]

\* channel_ready.clear(), circuit_ready.clear() ...
Clear(thread) ==
  /\ thread.at = "clear"
  /\ channel_ready' = channel_ready \ channels[thread.circuit]
  /\ circuit_ready' = circuit_ready \ channels[thread.circuit]
  /\ UNCHANGED <<circuits, circuit_manager, channel, needing, searching, inbox, usage, subs>>

\* ... dead.set() ...
Die(thread) ==
  /\ thread.at = "die"
  /\ dead' = dead \cup {thread.circuit}
  /\ UNCHANGED <<made, manager, peer, socket, channels, pvState, needing, searching, inbox,
                 usage, subs>>

\* ... whoever waits for a response is woken up ...
Wake(thread) ==
  /\ thread.at = "wake"
  /\ user' = [p \in PVs |-> IF user[p].at \in {"send", "event"}
                               /\ user[p].circuit = thread.circuit
                            THEN [user[p] EXCEPT !.event = TRUE] ELSE user[p]]
  /\ UNCHANGED <<circuits, pvState, needing, searching, inbox, idle, usages, idler, subs>>

\* A mutant of Tell: subscriptions are not marked for reactivation.
Tell_Forgetful(thread) ==
  /\ thread.at = "tell"
  /\ socket' = socket \ {thread.circuit}
  /\ UNCHANGED <<made, manager, peer, dead, channels, pvState, needing, searching, inbox, usage,
                 subs>>

\* ... connection_state_changed('disconnected'), and the socket is closed.
\* circuit_managers.pop has a key that is never in the table.
Tell(thread) ==
  /\ thread.at = "tell"
  /\ needs_reactivation' = needs_reactivation \cup (channels[thread.circuit] \cap callbacks)
  /\ socket' = socket \ {thread.circuit}
  /\ UNCHANGED <<made, manager, peer, dead, channels, pvState, needing, searching, inbox, usage,
                 callbacks, to_activate, subscribed, activated>>

\* A mutant of reconnect: the PVs need circuits and nobody looks for one.
reconnect_Unsearched(thread) ==
  /\ thread.at = "reconnect"
  /\ needing' = needing \cup channels[thread.circuit]
  /\ UNCHANGED <<circuits, pvState, searching, inbox, usage, subs>>

\* Context.reconnect: all PVs of the circuit are searched for again.
reconnect(thread) ==
  /\ thread.at = "reconnect"
  /\ needing' = needing \cup channels[thread.circuit]
  /\ searching' = searching \cup channels[thread.circuit]
  /\ UNCHANGED <<circuits, pvState, inbox, usage, subs>>

\* A mutant of After: waiting calls are woken up before dead.set().
After_WakeFirst == [clear |-> "wake", wake |-> "die", die |-> "tell", tell |-> "reconnect"]

After == [clear |-> "die", die |-> "wake", wake |-> "tell", tell |-> "reconnect"]
_disconnected(thread, next) ==
  /\ thread.at \in DOMAIN After \cup {"reconnect"}
  /\ Clear(thread) \/ Die(thread) \/ Wake(thread) \/ Tell(thread) \/ reconnect(thread)
  /\ next = IF thread.at = "reconnect" THEN Idle ELSE [thread EXCEPT !.at = After[@]]
  /\ UNCHANGED <<search_thread, activate, count>>

SelectorDisconnected == _disconnected(selector, selector') /\ UNCHANGED monitor
MonitorDisconnected  == _disconnected(monitor, monitor') /\ UNCHANGED selector

\* _check_for_unresponsive_servers gives a connected circuit up.
MonitorGivesUp(k) ==
  /\ monitor = Idle /\ k \in socket /\ count.monitor < MaxMonitor
  /\ monitor' = Disconnecting(k)
  /\ count' = [count EXCEPT !.monitor = @ + 1]
  /\ UNCHANGED <<circuits, pvState, needing, searching, inbox, search_thread, selector,
                 activate, usage, subs>>
---------------------------------------------------------------------------
(* 'selector' *)

\* The server, or the network, closes a circuit.
ServerCloses(k) ==
  /\ k \in peer
  /\ peer' = peer \ {k}
  /\ subscribed' = [subscribed EXCEPT ![k] = {}]
  /\ UNCHANGED <<made, manager, dead, socket, channels, pvState, needing, searching, inbox,
                 search_thread, selector, monitor, activate, usage, callbacks,
                 needs_reactivation, to_activate, activated, count>>

\* EOF, after everything sent before it.
ReceiveEnd(k) ==
  /\ selector = Idle /\ k \in socket \ peer /\ inbox[k] = <<>>
  /\ selector' = Disconnecting(k)
  /\ UNCHANGED <<circuits, pvState, needing, searching, inbox, search_thread, monitor,
                 activate, usage, subs, count>>

\* CreateChanResponse: the PV gets its channel ...
ReceiveChannel(k) ==
  /\ selector = Idle /\ k \in socket /\ inbox[k] # <<>> /\ Head(inbox[k]).class = "CreateChan"
  /\ LET p == Head(inbox[k]).pv
     IN  /\ channel' = [channel EXCEPT ![p] = k]
         /\ channel_ready' = channel_ready \cup {p}
         /\ selector' = [at |-> "connected", pv |-> p]
  /\ inbox' = [inbox EXCEPT ![k] = Tail(@)]
  /\ UNCHANGED <<circuits, circuit_manager, circuit_ready, needing, searching, search_thread,
                 monitor, activate, usage, subs, count>>

\* ... and connection_state_changed('connected') hands its subscription to
\* the activation thread.
Connected ==
  /\ selector.at = "connected"
  /\ LET p == selector.pv
     IN  IF p \in needs_reactivation
         THEN /\ to_activate' = to_activate \cup {[circuit |-> circuit_manager[p], pv |-> p]}
              /\ needs_reactivation' = needs_reactivation \ {p}
         ELSE UNCHANGED <<to_activate, needs_reactivation>>
  /\ selector' = Idle
  /\ UNCHANGED <<circuits, pvState, needing, searching, inbox, search_thread, monitor, activate,
                 usage, callbacks, subscribed, activated, count>>

\* A mutant of Expected: any response for the PV will do.
Expected_Any(u, k, ioid) == u.at = "event" /\ u.circuit = k

\* Whether ioids has the ioid and somebody waits for it.
Expected(u, k, ioid) == u.at = "event" /\ u.circuit = k /\ u.ioid = ioid

\* ReadNotifyResponse or WriteNotifyResponse.
ReceiveAnswer(k) ==
  /\ selector = Idle /\ k \in socket /\ inbox[k] # <<>> /\ Head(inbox[k]).class = "Answer"
  /\ LET p == Head(inbox[k]).pv
         ioid == Head(inbox[k]).ioid
     IN  user' = IF Expected(user[p], k, ioid)
                 THEN [user EXCEPT ![p].event = TRUE, ![p].response = ioid] ELSE user
  /\ inbox' = [inbox EXCEPT ![k] = Tail(@)]
  /\ UNCHANGED <<circuits, pvState, needing, searching, search_thread, selector, monitor,
                 activate, idle, usages, idler, subs, count>>
---------------------------------------------------------------------------
(* The user: read and write, inside ensure_connected *)

NewCall == count.calls < MaxCalls /\ count' = [count EXCEPT !.calls = @ + 1]
Finish(p, outcome) ==   \* how it ends is nobody else's concern
  /\ user' = [user EXCEPT ![p] = Idle]
  /\ usages' = [usages EXCEPT ![p] = @ - 1]
unused == <<circuits, circuit_manager, channel, circuit_ready, needing, searching,
            search_thread, selector, monitor, activate>>

\* An idle PV gets a new channel on the circuit the Context has kept ready.
Revive(p) ==
  IF p \in idle
  THEN /\ p \in circuit_ready
       /\ channels' = [channels EXCEPT ![circuit_manager[p]] = @ \cup {p}]
       /\ Send(circuit_manager[p], CreateChan(p))
  ELSE UNCHANGED <<channels, inbox>>

Enter(p, method) ==
  /\ user[p].at = "idle" /\ NewCall
  /\ Revive(p)
  /\ idle' = idle \ {p}
  /\ usages' = [usages EXCEPT ![p] = @ + 1]
  /\ user' = [user EXCEPT ![p] = [at |-> "wait", method |-> method, attempts |-> 1]]
  /\ UNCHANGED <<made, manager, peer, dead, socket, pvState, needing, searching, search_thread,
                 selector, monitor, activate, idler, subs>>

\* channel_ready.wait() returns; the method takes the circuit and the channel
\* and registers its ioid.
Call(p) ==
  /\ user[p].at = "wait" /\ p \in channel_ready
  /\ user' = [user EXCEPT ![p] =
       [at |-> "send", method |-> user[p].method, attempts |-> user[p].attempts,
        circuit |-> circuit_manager[p], channel |-> channel[p],
        ioid |-> <<count.calls, user[p].attempts>>, event |-> FALSE, response |-> None]]
  /\ UNCHANGED <<unused, channel_ready, inbox, idle, usages, idler, subs, count>>

\* channel_ready.wait() times out.
CallTimeout(p) ==
  /\ user[p].at = "wait" /\ p \notin channel_ready
  /\ Finish(p, "timeout")
  /\ UNCHANGED <<unused, channel_ready, inbox, idle, idler, subs, count>>

\* cm.send(command): on a circuit that is dead it does nothing; a broken
\* connection may raise.
Request(p) ==
  /\ user[p].at = "send"
  /\ Send(user[p].circuit, Answer(p, user[p].ioid))
  /\ \/ user' = [user EXCEPT ![p].at = "event"] /\ UNCHANGED usages
     \/ user[p].circuit \in socket \ peer /\ Finish(p, "OSError")
  /\ UNCHANGED <<unused, channel_ready, idle, idler, subs, count>>

\* DeadCircuitError, or TimeoutError of a dead circuit: try again.  When the
\* attempts are used up the loop ends and None is returned.
Retry(p) ==
  IF user[p].attempts = CIRCUIT_DEATH_ATTEMPTS THEN Finish(p, "None")
  ELSE /\ user' = [user EXCEPT ![p] = [at |-> "wait", method |-> user[p].method,
                                       attempts |-> user[p].attempts + 1]]
       /\ UNCHANGED usages

\* event.wait() returns.  read looks whether the circuit is dead, write does
\* not: it goes straight for the response.
Woken(p) ==
  /\ user[p].at = "event" /\ user[p].event
  /\ IF user[p].method = "read" /\ user[p].circuit \in dead THEN Retry(p)
     ELSE Finish(p, IF user[p].response # None THEN user[p].response ELSE "KeyError")
  /\ UNCHANGED <<unused, channel_ready, inbox, idle, idler, subs, count>>

\* event.wait() times out.
EventTimeout(p) ==
  /\ user[p].at = "event" /\ ~user[p].event
  /\ IF user[p].circuit \in dead THEN Retry(p) ELSE Finish(p, "timeout")
  /\ UNCHANGED <<unused, channel_ready, inbox, idle, idler, subs, count>>
---------------------------------------------------------------------------
(* The user: go_idle *)

go_idle(p) ==
  /\ p \notin idler /\ p \notin callbacks /\ p \in channel_ready /\ NewCall
  /\ idler' = idler \cup {p}
  /\ UNCHANGED <<unused, channel_ready, inbox, idle, usages, user, subs>>

\* A mutant of MayClear: go_idle does not wait for the others.
MayClear_Always(p) == TRUE

MayClear(p) == usages[p] = 0

\* Once nobody uses the connection, the channel is cleared.
GoIdleClear(p) ==
  /\ p \in idler /\ MayClear(p)
  /\ idler' = idler \ {p}
  /\ channel_ready' = channel_ready \ {p}
  /\ idle' = idle \cup {p}
  /\ subscribed' = [subscribed EXCEPT ![circuit_manager[p]] = @ \ {p}]
  /\ activated' = activated \ {p}
  /\ UNCHANGED <<unused, inbox, usages, user, callbacks, needs_reactivation, to_activate, count>>
---------------------------------------------------------------------------
(* Subscriptions *)

\* The first callback of the PV's Subscription.
add_callback(p) ==
  /\ p \notin callbacks /\ NewCall
  /\ callbacks' = callbacks \cup {p}
  /\ IF circuit_manager[p] = None
     THEN needs_reactivation' = needs_reactivation \cup {p} /\ UNCHANGED to_activate
     ELSE /\ to_activate' = to_activate \cup {[circuit |-> circuit_manager[p], pv |-> p]}
          /\ UNCHANGED needs_reactivation
  /\ UNCHANGED <<unused, channel_ready, inbox, usage, subscribed, activated>>

\* The last callback goes: _unsubscribe.
remove_callback(p) ==
  /\ p \in callbacks /\ NewCall
  /\ callbacks' = callbacks \ {p}
  /\ needs_reactivation' = needs_reactivation \ {p}
  /\ subscribed' = IF circuit_manager[p] = None THEN subscribed
                   ELSE [subscribed EXCEPT ![circuit_manager[p]] = @ \ {p}]
  /\ activated' = activated \ {p}
  /\ UNCHANGED <<unused, channel_ready, inbox, usage, to_activate>>

activating == <<made, manager, peer, dead, socket, pvState, needing, searching, search_thread,
                selector, monitor, user, idler, callbacks, needs_reactivation, count>>

\* _activate_subscriptions takes what there is to activate ...
ActivateGet ==
  /\ activate = Idle /\ to_activate # {}
  /\ activate' = [at |-> "each", items |-> to_activate]
  /\ to_activate' = {}
  /\ UNCHANGED <<activating, channels, inbox, idle, usages, subscribed, activated>>

\* ... and calls compose_command for each.  It is ensure_connected, so an
\* idle PV is revived; but it is the Subscription that is marked not idle.
ActivateEnter ==
  /\ activate.at = "each"
  /\ IF activate.items = {} THEN activate' = Idle /\ UNCHANGED <<channels, inbox, usages>>
     ELSE \E it \in activate.items :
            /\ Revive(it.pv)
            /\ usages' = [usages EXCEPT ![it.pv] = @ + 1]
            /\ activate' = [at |-> "compose", items |-> activate.items \ {it}, item |-> it]
  /\ UNCHANGED <<activating, idle, to_activate, subscribed, activated>>

\* The command is composed for the PV's circuit and sent on the one the item
\* was filed under.  An error in sending is of no concern.
ActivateSend ==
  /\ activate.at = "compose" /\ activate.item.pv \in channel_ready
  /\ LET p == activate.item.pv
         k == activate.item.circuit
     IN  /\ subscribed' = IF p \in callbacks /\ k \in socket \cap peer
                          THEN [subscribed EXCEPT ![k] = @ \cup {p}] ELSE subscribed
         /\ activated' = IF subscribed' = subscribed THEN activated ELSE activated \cup {p}
         /\ usages' = [usages EXCEPT ![p] = @ - 1]
  /\ activate' = [at |-> "each", items |-> activate.items]
  /\ UNCHANGED <<activating, channels, inbox, idle, to_activate>>

\* channel_ready.wait() times out: nobody catches that either.
ActivateTimeout ==
  /\ activate.at = "compose" /\ activate.item.pv \notin channel_ready
  /\ activate' = [at |-> "ended"]
  /\ usages' = [usages EXCEPT ![activate.item.pv] = @ - 1]
  /\ UNCHANGED <<activating, channels, inbox, idle, to_activate, subscribed, activated>>
---------------------------------------------------------------------------
Search   == (\E p \in PVs : SearchGet(p)) \/ SearchManager \/ SearchAssign \/ SearchCreate
Selector == \/ SelectorDisconnected \/ Connected
            \/ \E k \in Circuit : ReceiveEnd(k) \/ ReceiveChannel(k) \/ ReceiveAnswer(k)
Activate == ActivateGet \/ ActivateEnter \/ ActivateSend
Method(p) == Call(p) \/ CallTimeout(p) \/ Request(p) \/ Woken(p) \/ EventTimeout(p)
             \/ GoIdleClear(p)

\* The last circuit that the bounds allow is a good one.
Losable == 1 .. MaxCircuits - 1
Next ==
  \/ Search \/ SearchRefused \/ Selector \/ MonitorDisconnected \/ Activate \/ ActivateTimeout
  \/ \E k \in Losable : ServerCloses(k) \/ MonitorGivesUp(k)
  \/ \E p \in PVs : \/ Enter(p, "read") \/ Enter(p, "write") \/ Method(p) \/ go_idle(p)
                    \/ add_callback(p) \/ remove_callback(p)

Spec == Init /\ [][Next]_vars
(* Threads that can go on do; a circuit that is given up is not given up   *)
(* half-way.  Nothing is assumed of servers, of users or of time-outs.     *)
FairSpec == /\ Spec /\ WF_vars(Search) /\ WF_vars(Selector) /\ WF_vars(MonitorDisconnected)
            /\ WF_vars(Activate) /\ \A p \in PVs : WF_vars(Method(p))
---------------------------------------------------------------------------
(* A call that returns a response returns the response to its own request, *)
(* not one that was late for an earlier call, whatever circuits came and   *)
(* went meanwhile.                                                         *)
AnswerIsOwn == \A p \in PVs : (user[p].at = "event" /\ user[p].response # None)
                                => user[p].response = user[p].ioid

(* A call that is woken up without a response finds its circuit dead: read *)
(* tells by that alone that it must try again, so dead.set() has to come   *)
(* before the Events.                                                      *)
WokenKnowsWhy ==
  \A p \in PVs : (user[p].at = "event" /\ user[p].event /\ user[p].response = None)
                    => user[p].circuit \in dead

(* go_idle never takes the channel away from a read, a write or an         *)
(* activation that is under way.                                           *)
IdleIsExclusive ==
  [][\A p \in PVs : (p \in idle' \ idle) =>
       user[p].at = "idle" /\ ~(activate.at = "compose" /\ activate.item.pv = p)]_vars

(* A PV that loses its circuit is connected again, whatever threads lose   *)
(* it, unless the search thread has ended of an error that nobody catches, *)
(* or the PV was given to a circuit that had just died.                    *)
Stranded(p) == circuit_manager[p] \in dead /\ p \notin needing \cup searching
PvReconnects ==
  \A p \in PVs : (p \notin channel_ready)
    ~> (p \in channel_ready \/ p \in idle \/ search_thread.at = "ended" \/ Stranded(p))

(* A subscription that had reached a server, and whose circuit the         *)
(* selector lost, is sent to the server of the next circuit that lasts.    *)
(* (The monitor, which disconnects while the selector may be telling the   *)
(* PV that it is connected, can make it forget the subscription.)          *)
Served(p) == circuit_manager[p] # None /\ p \in subscribed[circuit_manager[p]]
SubscriptionIsRestored ==
  \A p \in PVs : (p \in activated /\ ~Served(p))
    ~> \/ Served(p) \/ p \notin activated
       \/ search_thread.at = "ended" \/ activate.at = "ended" \/ Stranded(p)
       \/ count.monitor > 0
=============================================================================
