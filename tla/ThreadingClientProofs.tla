----------------------- MODULE ThreadingClientProofs -----------------------
(***************************************************************************)
(* Proofs about ThreadingClient, for any set of PVs, any number of         *)
(* circuits and any bounds on errors and calls.                            *)
(***************************************************************************)
EXTENDS ThreadingClient, TLAPS

MaybeCircuit == Circuit \cup {None}
Ioid    == Nat \X Nat
Message == [class : {"CreateChan"}, pv : PVs] \cup [class : {"Answer"}, pv : PVs, ioid : Ioid]
Item    == [circuit : MaybeCircuit, pv : PVs]

\* A thread that is not, or that is, inside _disconnected.
Disconnector == [at : {"idle"}] \cup [at : {"clear", "die", "wake", "tell", "reconnect"},
                                      circuit : Circuit]

\* A call of read or write: waiting for the channel; registered with its ioid.
Waiting == [at : {"wait"}, method : {"read", "write"}, attempts : Nat]
Registered == [at : {"send", "event"}, method : {"read", "write"}, attempts : Nat,
               circuit : MaybeCircuit, channel : MaybeCircuit, ioid : Ioid,
               event : BOOLEAN, response : Ioid \cup {None}]

TypeOK ==
  /\ made \in 0 .. MaxCircuits /\ manager \in MaybeCircuit
  /\ peer \subseteq Circuit /\ dead \subseteq Circuit /\ socket \subseteq Circuit
  /\ channels \in [Circuit -> SUBSET PVs]
  /\ circuit_manager \in [PVs -> MaybeCircuit] /\ channel \in [PVs -> MaybeCircuit]
  /\ circuit_ready \subseteq PVs /\ channel_ready \subseteq PVs
  /\ needing \subseteq PVs /\ searching \subseteq PVs
  /\ inbox \in [Circuit -> Seq(Message)]
  /\ search_thread \in [at : {"idle", "ended"}] \cup [at : {"manager"}, pv : PVs]
                       \cup [at : {"assign", "create"}, pv : PVs, circuit : Circuit]
  /\ selector \in Disconnector \cup [at : {"connected"}, pv : PVs]
  /\ monitor \in Disconnector
  /\ activate \in [at : {"idle", "ended"}] \cup [at : {"each"}, items : SUBSET Item]
                  \cup [at : {"compose"}, items : SUBSET Item, item : Item]
  /\ idle \subseteq PVs /\ idler \subseteq PVs
  /\ usages \in [PVs -> Int]
  /\ user \in [PVs -> [at : {"idle"}] \cup Waiting \cup Registered]
  /\ callbacks \subseteq PVs /\ needs_reactivation \subseteq PVs
  /\ to_activate \subseteq Item
  /\ subscribed \in [Circuit -> SUBSET PVs] /\ activated \subseteq PVs
  /\ count \in [errors : Nat, monitor : Nat, calls : Nat]

\* Once _disconnected has come to the Events, the circuit is dead.
DeadFirst(thread) == thread.at \in {"wake", "tell", "reconnect"} => thread.circuit \in dead

\* What a registered call may find when its Event is set: from the moment it
\* is registered, since it can be woken up before it has sent its request.
EventMeans(u) == /\ u.response # None => u.response = u.ioid
                 /\ u.event /\ u.response = None => u.circuit \in dead

\* _usages counts the call and the activation that are under way.
Users(p) == (IF user[p].at = "idle" THEN 0 ELSE 1)
            + (IF activate.at = "compose" /\ activate.item.pv = p THEN 1 ELSE 0)

DeathIsOrdered   == DeadFirst(selector) /\ DeadFirst(monitor)
EventsAreHonest  == \A p \in PVs : user[p].at \in {"send", "event"} => EventMeans(user[p])
UsagesAreCounted == \A p \in PVs : usages[p] = Users(p)
IInv == DeathIsOrdered /\ EventsAreHonest /\ UsagesAreCounted
---------------------------------------------------------------------------
(***************************************************************************)
(* Type correctness.                                                       *)
(***************************************************************************)
\* What is sent is answered with messages.
LEMMA SendType ==
  ASSUME TypeOK, NEW k, NEW answers \in Seq(Message), Send(k, answers)
  PROVE  inbox' \in [Circuit -> Seq(Message)]
BY DEF Send, TypeOK

LEMMA AnswersType ==
  ASSUME NEW p \in PVs
  PROVE  /\ CreateChan(p) \in Seq(Message)
         /\ \A ioid \in Ioid : Answer(p, ioid) \in Seq(Message)
BY DEF CreateChan, Answer, Message

LEMMA ReviveType ==
  ASSUME TypeOK, NEW p \in PVs, Revive(p)
  PROVE  /\ inbox' \in [Circuit -> Seq(Message)]
         /\ channels' \in [Circuit -> SUBSET PVs]
<1>1. CASE p \in idle
  <2>1. inbox' \in [Circuit -> Seq(Message)]
    BY <1>1, SendType, AnswersType DEF Revive
  <2>2. channels' = [channels EXCEPT ![circuit_manager[p]] = @ \cup {p}]
    BY <1>1 DEF Revive
  <2>3. channels \in [Circuit -> SUBSET PVs]
    BY DEF TypeOK
  <2>4. channels' \in [Circuit -> SUBSET PVs]
    BY <2>2, <2>3
  <2>. QED  BY <2>1, <2>4
<1>2. CASE p \notin idle
  BY <1>2 DEF Revive, TypeOK
<1>. QED  BY <1>1, <1>2

LEMMA InitType == Init => TypeOK
BY BoundAssumption DEF Init, TypeOK, Circuit, MaybeCircuit, Message, Disconnector, Idle

LEMMA CountType ==
  ASSUME TypeOK, \/ UNCHANGED count
                 \/ count' = [count EXCEPT !.errors = @ + 1]
                 \/ count' = [count EXCEPT !.monitor = @ + 1]
                 \/ count' = [count EXCEPT !.calls = @ + 1]
  PROVE  count' \in [errors : Nat, monitor : Nat, calls : Nat]
<1>. count \in [errors : Nat, monitor : Nat, calls : Nat]
  BY DEF TypeOK
<1>. QED  OBVIOUS

\* The search thread's steps.
LEMMA SearchType ==
  ASSUME TypeOK, Search \/ SearchRefused
  PROVE  TypeOK'
<1>. USE DEF circuits, pvState, usage, subs
<1>1. ASSUME NEW p \in PVs, SearchGet(p) PROVE TypeOK'
  BY <1>1 DEF SearchGet, TypeOK, Idle
<1>2. CASE SearchManager
  <2>1. CASE manager # None /\ manager \notin dead
    BY <1>2, <2>1 DEF SearchManager, TypeOK, MaybeCircuit
  <2>2. CASE ~(manager # None /\ manager \notin dead)
    <3>1. made' \in Circuit /\ made' \in 0 .. MaxCircuits
      BY <1>2, <2>2, BoundAssumption DEF SearchManager, TypeOK, Circuit
    <3>2. search_thread' \in [at : {"assign", "create"}, pv : PVs, circuit : Circuit]
      BY <1>2, <2>2, <3>1 DEF SearchManager, TypeOK
    <3>3. manager' \in MaybeCircuit /\ peer' \subseteq Circuit /\ socket' \subseteq Circuit
      <4>1. manager' = made' /\ peer' = peer \cup {made'} /\ socket' = socket \cup {made'}
        BY <1>2, <2>2 DEF SearchManager
      <4>. QED  BY <3>1, <4>1 DEF TypeOK, MaybeCircuit
    <3>. QED  BY <1>2, <2>2, <3>1, <3>2, <3>3 DEF SearchManager, TypeOK
  <2>. QED  BY <2>1, <2>2
<1>3. CASE SearchRefused
  BY <1>3, CountType DEF SearchRefused, TypeOK
<1>4. CASE SearchAssign
  BY <1>4 DEF SearchAssign, TypeOK, MaybeCircuit
<1>5. CASE SearchCreate
  <2>1. search_thread.pv \in PVs
    BY <1>5 DEF SearchCreate, TypeOK
  <2>2. inbox' \in [Circuit -> Seq(Message)]
    BY <1>5, <2>1, SendType, AnswersType DEF SearchCreate
  <2>3. count' \in [errors : Nat, monitor : Nat, calls : Nat]
    BY <1>5, CountType DEF SearchCreate
  <2>. QED  BY <1>5, <2>2, <2>3 DEF SearchCreate, TypeOK, Idle
<1>. QED  BY <1>1, <1>2, <1>3, <1>4, <1>5 DEF Search

\* A step of _disconnected, in the thread that takes it.
LEMMA DisconnectedType ==
  ASSUME TypeOK, NEW thread \in Disconnector \cup [at : {"connected"}, pv : PVs], NEW next,
         _disconnected(thread, next),
         \/ thread = selector /\ next = selector' /\ UNCHANGED monitor
         \/ thread = monitor /\ next = monitor' /\ UNCHANGED selector
  PROVE  TypeOK'
<1>. USE DEF circuits, pvState, usage, subs
<1>1. thread \in Disconnector /\ thread.at \in {"clear", "die", "wake", "tell", "reconnect"}
  BY DEF _disconnected, After, Disconnector
<1>2. next \in Disconnector
  BY <1>1 DEF _disconnected, After, Disconnector, Idle
<1>3. selector' \in Disconnector \cup [at : {"connected"}, pv : PVs] /\ monitor' \in Disconnector
  BY <1>2 DEF TypeOK
<1>4. thread.circuit \in Circuit
  BY <1>1 DEF Disconnector
<1>5. UNCHANGED <<search_thread, activate, count>>
  BY DEF _disconnected
<1>6. CASE Clear(thread)
  BY <1>3, <1>5, <1>6 DEF Clear, TypeOK
<1>7. CASE Die(thread)
  BY <1>3, <1>4, <1>5, <1>7 DEF Die, TypeOK
<1>8. CASE Wake(thread)
  <2>1. user' \in [PVs -> [at : {"idle"}] \cup Waiting \cup Registered]
    <3>1. ASSUME NEW p \in PVs, user[p].at \in {"send", "event"}
          PROVE  user[p] \in Registered /\ [user[p] EXCEPT !.event = TRUE] \in Registered
      <4>1. user[p] \in Registered
        BY <3>1 DEF TypeOK, Waiting
      <4>. QED  BY <4>1 DEF Registered
    <3>. QED  BY <1>8, <3>1 DEF Wake, TypeOK
  <2>. QED  BY <1>3, <1>5, <1>8, <2>1 DEF Wake, TypeOK
<1>9. CASE Tell(thread)
  BY <1>3, <1>4, <1>5, <1>9 DEF Tell, TypeOK
<1>10. CASE reconnect(thread)
  BY <1>3, <1>4, <1>5, <1>10 DEF reconnect, TypeOK
<1>. QED  BY <1>6, <1>7, <1>8, <1>9, <1>10 DEF _disconnected

\* The selector's steps, the monitor's and the server's.
LEMMA SelectorType ==
  ASSUME TypeOK,
         \/ Selector \/ MonitorDisconnected
         \/ \E k \in Losable : ServerCloses(k) \/ MonitorGivesUp(k)
  PROVE  TypeOK'
<1>. USE DEF circuits, pvState, usage, subs
<1>1. CASE SelectorDisconnected
  BY <1>1, DisconnectedType DEF SelectorDisconnected, TypeOK
<1>2. CASE MonitorDisconnected
  BY <1>2, DisconnectedType DEF MonitorDisconnected, TypeOK
<1>3. CASE Connected
  BY <1>3 DEF Connected, TypeOK, Item, Disconnector, Idle
<1>4. ASSUME NEW k \in Circuit, ReceiveEnd(k) PROVE TypeOK'
  BY <1>4 DEF ReceiveEnd, TypeOK, Disconnecting, Disconnector, Idle
<1>5. ASSUME NEW k \in Circuit, inbox[k] # <<>>, inbox' = [inbox EXCEPT ![k] = Tail(@)]
      PROVE  inbox' \in [Circuit -> Seq(Message)] /\ Head(inbox[k]) \in Message
  BY <1>5 DEF TypeOK
<1>6. ASSUME NEW k \in Circuit, ReceiveChannel(k) PROVE TypeOK'
  <2>1. inbox' \in [Circuit -> Seq(Message)] /\ Head(inbox[k]).pv \in PVs
    BY <1>5, <1>6 DEF ReceiveChannel, Message
  <2>. QED  BY <1>6, <2>1 DEF ReceiveChannel, TypeOK, MaybeCircuit
<1>7. ASSUME NEW k \in Circuit, ReceiveAnswer(k) PROVE TypeOK'
  <2>. DEFINE p == Head(inbox[k]).pv
              ioid == Head(inbox[k]).ioid
  <2>1. inbox' \in [Circuit -> Seq(Message)] /\ p \in PVs /\ ioid \in Ioid
    BY <1>5, <1>7 DEF ReceiveAnswer, Message
  <2>2. user' \in [PVs -> [at : {"idle"}] \cup Waiting \cup Registered]
    <3>1. CASE Expected(user[p], k, ioid)
      <4>1. user[p] \in Registered
        BY <2>1, <3>1 DEF TypeOK, Expected, Waiting
      <4>2. user' = [user EXCEPT ![p].event = TRUE, ![p].response = ioid]
        BY <1>7, <3>1 DEF ReceiveAnswer
      <4>. QED  BY <2>1, <4>1, <4>2 DEF TypeOK, Registered
    <3>2. CASE ~Expected(user[p], k, ioid)
      BY <1>7, <3>2 DEF ReceiveAnswer, TypeOK
    <3>. QED  BY <3>1, <3>2
  <2>. QED  BY <1>7, <2>1, <2>2 DEF ReceiveAnswer, TypeOK
<1>8. ASSUME NEW k \in Losable, ServerCloses(k) PROVE TypeOK'
  BY <1>8 DEF ServerCloses, TypeOK
<1>9. ASSUME NEW k \in Losable, MonitorGivesUp(k) PROVE TypeOK'
  BY <1>9, CountType DEF MonitorGivesUp, TypeOK, Disconnecting, Disconnector, Idle, Losable, Circuit
<1>. QED  BY <1>1, <1>2, <1>3, <1>4, <1>6, <1>7, <1>8, <1>9 DEF Selector

\* The steps of a user inside read, write or go_idle.
LEMMA RegisteredType ==
  ASSUME TypeOK, NEW p \in PVs, user[p].at \in {"send", "event"}
  PROVE  user[p] \in Registered
BY DEF TypeOK, Waiting

LEMMA FinishType ==
  ASSUME TypeOK, NEW p \in PVs, NEW outcome, Finish(p, outcome)
  PROVE  /\ user' \in [PVs -> [at : {"idle"}] \cup Waiting \cup Registered]
         /\ usages' \in [PVs -> Int]
BY DEF Finish, TypeOK, Idle

LEMMA RetryType ==
  ASSUME TypeOK, NEW p \in PVs, user[p] \in Registered, Retry(p)
  PROVE  /\ user' \in [PVs -> [at : {"idle"}] \cup Waiting \cup Registered]
         /\ usages' \in [PVs -> Int]
<1>1. CASE Finish(p, "None")
  BY <1>1, FinishType
<1>2. CASE ~Finish(p, "None")
  <2>1. [at |-> "wait", method |-> user[p].method, attempts |-> user[p].attempts + 1] \in Waiting
    BY DEF Registered, Waiting
  <2>2. /\ user' = [user EXCEPT ![p] = [at |-> "wait", method |-> user[p].method,
                                        attempts |-> user[p].attempts + 1]]
        /\ usages' = usages
    BY <1>2 DEF Retry
  <2>. QED  BY <2>1, <2>2 DEF TypeOK
<1>. QED  BY <1>1, <1>2

LEMMA EnterType ==
  ASSUME TypeOK, NEW p \in PVs, NEW method \in {"read", "write"}, Enter(p, method)
  PROVE  TypeOK'
<1>1. inbox' \in [Circuit -> Seq(Message)] /\ channels' \in [Circuit -> SUBSET PVs]
  BY ReviveType DEF Enter
<1>2. count' \in [errors : Nat, monitor : Nat, calls : Nat]
  BY CountType DEF Enter, NewCall
<1>3. [at |-> "wait", method |-> method, attempts |-> 1] \in Waiting
  BY DEF Waiting
<1>. QED  BY <1>1, <1>2, <1>3 DEF Enter, TypeOK, pvState, subs

LEMMA MethodType ==
  ASSUME TypeOK, NEW p \in PVs, Method(p)
  PROVE  TypeOK'
<1>. USE DEF unused, circuits, subs
<1>1. CASE Call(p)
  <2>1. user[p] \in Waiting
    BY <1>1 DEF Call, TypeOK, Registered
  <2>2. circuit_manager[p] \in MaybeCircuit /\ channel[p] \in MaybeCircuit /\ count.calls \in Nat
    BY DEF TypeOK
  <2>3. [at |-> "send", method |-> user[p].method, attempts |-> user[p].attempts,
         circuit |-> circuit_manager[p], channel |-> channel[p],
         ioid |-> <<count.calls, user[p].attempts>>, event |-> FALSE, response |-> None]
        \in Registered
    BY <2>1, <2>2 DEF Waiting, Registered, Ioid
  <2>. QED  BY <1>1, <2>3 DEF Call, TypeOK
<1>2. CASE CallTimeout(p)
  BY <1>2, FinishType DEF CallTimeout, TypeOK
<1>3. CASE Request(p)
  <2>1. user[p] \in Registered
    BY <1>3, RegisteredType DEF Request
  <2>2. inbox' \in [Circuit -> Seq(Message)]
    BY <1>3, <2>1, SendType, AnswersType DEF Request, Registered
  <2>3. [user[p] EXCEPT !.at = "event"] \in Registered
    BY <2>1 DEF Registered
  <2>4. /\ user' \in [PVs -> [at : {"idle"}] \cup Waiting \cup Registered]
        /\ usages' \in [PVs -> Int]
    <3>1. CASE user' = [user EXCEPT ![p].at = "event"] /\ UNCHANGED usages
      BY <2>3, <3>1 DEF TypeOK
    <3>2. CASE Finish(p, "OSError")
      BY <3>2, FinishType
    <3>. QED  BY <1>3, <3>1, <3>2 DEF Request
  <2>. QED  BY <1>3, <2>2, <2>4 DEF Request, TypeOK
<1>4. CASE Woken(p)
  <2>1. user[p] \in Registered
    BY <1>4, RegisteredType DEF Woken
  <2>2. Retry(p) \/ Finish(p, user[p].response) \/ Finish(p, "KeyError")
    BY <1>4 DEF Woken
  <2>3. /\ user' \in [PVs -> [at : {"idle"}] \cup Waiting \cup Registered]
        /\ usages' \in [PVs -> Int]
    BY <2>1, <2>2, RetryType, FinishType
  <2>. QED  BY <1>4, <2>3 DEF Woken, TypeOK
<1>5. CASE EventTimeout(p)
  <2>1. user[p] \in Registered
    BY <1>5, RegisteredType DEF EventTimeout
  <2>2. /\ user' \in [PVs -> [at : {"idle"}] \cup Waiting \cup Registered]
        /\ usages' \in [PVs -> Int]
    BY <1>5, <2>1, RetryType, FinishType DEF EventTimeout
  <2>. QED  BY <1>5, <2>2 DEF EventTimeout, TypeOK
<1>6. CASE GoIdleClear(p)
  BY <1>6 DEF GoIdleClear, TypeOK
<1>. QED  BY <1>1, <1>2, <1>3, <1>4, <1>5, <1>6 DEF Method

\* The steps that are about subscriptions, and the start of go_idle.
LEMMA CallbackType ==
  ASSUME TypeOK, NEW p \in PVs, go_idle(p) \/ add_callback(p) \/ remove_callback(p)
  PROVE  TypeOK'
<1>. USE DEF unused, circuits, usage, subs
<1>1. count' \in [errors : Nat, monitor : Nat, calls : Nat]
  BY CountType DEF go_idle, add_callback, remove_callback, NewCall
<1>2. CASE go_idle(p)
  BY <1>1, <1>2 DEF go_idle, TypeOK
<1>3. CASE add_callback(p)
  BY <1>1, <1>3 DEF add_callback, TypeOK, Item
<1>4. CASE remove_callback(p)
  BY <1>1, <1>4 DEF remove_callback, TypeOK
<1>. QED  BY <1>2, <1>3, <1>4

LEMMA ActivateType ==
  ASSUME TypeOK, Activate \/ ActivateTimeout
  PROVE  TypeOK'
<1>. USE DEF activating, pvState
<1>1. CASE ActivateGet
  BY <1>1 DEF ActivateGet, TypeOK
<1>2. CASE ActivateEnter
  <2>1. CASE activate.items = {}
    BY <1>2, <2>1 DEF ActivateEnter, TypeOK, Idle
  <2>2. CASE activate.items # {}
    <3>1. PICK it \in activate.items :
            /\ Revive(it.pv)
            /\ usages' = [usages EXCEPT ![it.pv] = @ + 1]
            /\ activate' = [at |-> "compose", items |-> activate.items \ {it}, item |-> it]
      BY <1>2, <2>2 DEF ActivateEnter
    <3>2. activate.items \in SUBSET Item /\ it \in Item
      BY <1>2 DEF ActivateEnter, TypeOK
    <3>3. it.pv \in PVs
      BY <3>2 DEF Item
    <3>4. inbox' \in [Circuit -> Seq(Message)] /\ channels' \in [Circuit -> SUBSET PVs]
      BY <3>1, <3>3, ReviveType
    <3>5. activate' \in [at : {"compose"}, items : SUBSET Item, item : Item]
      BY <3>1, <3>2
    <3>6. usages' \in [PVs -> Int]
      BY <3>1, <3>3 DEF TypeOK
    <3>. QED  BY <1>2, <3>4, <3>5, <3>6 DEF ActivateEnter, TypeOK
  <2>. QED  BY <2>1, <2>2
<1>3. CASE ActivateSend
  <2>1. activate.item.pv \in PVs /\ activate.items \in SUBSET Item
    BY <1>3 DEF ActivateSend, TypeOK, Item
  <2>2. subscribed' \in [Circuit -> SUBSET PVs] /\ activated' \subseteq PVs
    BY <1>3, <2>1 DEF ActivateSend, TypeOK
  <2>. QED  BY <1>3, <2>1, <2>2 DEF ActivateSend, TypeOK
<1>4. CASE ActivateTimeout
  <2>1. usages' \in [PVs -> Int]
    <3>1. activate.item.pv \in PVs
      BY <1>4 DEF ActivateTimeout, TypeOK, Item
    <3>. QED  BY <1>4, <3>1 DEF ActivateTimeout, TypeOK
  <2>. QED  BY <1>4, <2>1 DEF ActivateTimeout, TypeOK
<1>. QED  BY <1>1, <1>2, <1>3, <1>4 DEF Activate

LEMMA NextType == TypeOK /\ [Next]_vars => TypeOK'
<1>. SUFFICES ASSUME TypeOK, [Next]_vars PROVE TypeOK'
  OBVIOUS
<1>1. CASE UNCHANGED vars
  BY <1>1 DEF vars, circuits, pvState, usage, subs, TypeOK
<1>. QED  BY <1>1, SearchType, SelectorType, EnterType, MethodType, CallbackType, ActivateType
          DEF Next

\* Every variable keeps its type: in particular a call is registered with a
\* circuit, a channel and an ioid, whatever circuits come and go.
THEOREM TypeCorrect == Spec => []TypeOK
BY InitType, NextType, PTL DEF Spec
---------------------------------------------------------------------------
(***************************************************************************)
(* _disconnected sets `dead' before it wakes anybody up.                   *)
(***************************************************************************)
\* What the other threads leave alone.
LEMMA BystandersOfDeath ==
  ASSUME \/ Search \/ SearchRefused \/ Activate \/ ActivateTimeout
         \/ \E k \in Losable : ServerCloses(k)
         \/ \E p \in PVs : \/ Enter(p, "read") \/ Enter(p, "write") \/ Method(p) \/ go_idle(p)
                           \/ add_callback(p) \/ remove_callback(p)
         \/ UNCHANGED vars
  PROVE  UNCHANGED <<dead, selector, monitor>>
<1>. USE DEF circuits
<1>1. CASE Search \/ SearchRefused
  BY <1>1 DEF Search, SearchRefused, SearchGet, SearchManager, SearchAssign, SearchCreate
<1>2. CASE Activate \/ ActivateTimeout
  BY <1>2 DEF Activate, ActivateTimeout, ActivateGet, ActivateEnter, ActivateSend, activating
<1>3. ASSUME NEW k \in Losable, ServerCloses(k) PROVE UNCHANGED <<dead, selector, monitor>>
  BY <1>3 DEF ServerCloses
<1>4. ASSUME NEW p \in PVs, Enter(p, "read") \/ Enter(p, "write")
      PROVE  UNCHANGED <<dead, selector, monitor>>
  BY <1>4 DEF Enter
<1>5. ASSUME NEW p \in PVs, Method(p) PROVE UNCHANGED <<dead, selector, monitor>>
  BY <1>5 DEF Method, Call, CallTimeout, Request, Woken, EventTimeout, GoIdleClear, unused
<1>6. ASSUME NEW p \in PVs, go_idle(p) \/ add_callback(p) \/ remove_callback(p)
      PROVE  UNCHANGED <<dead, selector, monitor>>
  BY <1>6 DEF go_idle, add_callback, remove_callback, unused
<1>7. CASE UNCHANGED vars
  BY <1>7 DEF vars
<1>. QED  BY <1>1, <1>2, <1>3, <1>4, <1>5, <1>6, <1>7

\* A step of _disconnected: only Die adds to `dead', and a thread that comes
\* after it has its circuit there.
LEMMA DisconnectedOrder ==
  ASSUME TypeOK, NEW thread, DeadFirst(thread), NEW next, _disconnected(thread, next)
  PROVE  /\ dead \subseteq dead'
         /\ next.at \in {"wake", "tell", "reconnect"} => next.circuit \in dead'
         /\ Wake(thread) \/ UNCHANGED user
         /\ UNCHANGED <<activate, usages>>
<1>. USE DEF circuits, usage
<1>1. CASE Clear(thread)
  BY <1>1 DEF Clear, _disconnected, After
<1>2. CASE Die(thread)
  BY <1>2 DEF Die, _disconnected, After
<1>3. CASE Wake(thread)
  BY <1>3 DEF Wake, _disconnected, After, DeadFirst
<1>4. CASE Tell(thread)
  BY <1>4 DEF Tell, _disconnected, After, DeadFirst
<1>5. CASE reconnect(thread)
  BY <1>5 DEF reconnect, _disconnected, After, Idle
<1>. QED  BY <1>1, <1>2, <1>3, <1>4, <1>5 DEF _disconnected

LEMMA DeathStep ==
  ASSUME TypeOK, DeathIsOrdered, [Next]_vars
  PROVE  dead \subseteq dead' /\ DeathIsOrdered'
<1>. USE DEF DeathIsOrdered
<1>1. CASE SelectorDisconnected
  <2>1. dead \subseteq dead' /\ DeadFirst(selector)'
    BY <1>1, DisconnectedOrder DEF SelectorDisconnected, DeadFirst
  <2>. QED  BY <1>1, <2>1 DEF SelectorDisconnected, DeadFirst
<1>2. CASE MonitorDisconnected
  <2>1. dead \subseteq dead' /\ DeadFirst(monitor)'
    BY <1>2, DisconnectedOrder DEF MonitorDisconnected, DeadFirst
  <2>. QED  BY <1>2, <2>1 DEF MonitorDisconnected, DeadFirst
<1>3. CASE Connected
  BY <1>3 DEF Connected, circuits, DeadFirst, Idle
<1>4. ASSUME NEW k \in Circuit, ReceiveEnd(k) PROVE dead \subseteq dead' /\ DeathIsOrdered'
  BY <1>4 DEF ReceiveEnd, circuits, DeadFirst, Disconnecting, Idle
<1>5. ASSUME NEW k \in Circuit, ReceiveChannel(k) PROVE dead \subseteq dead' /\ DeathIsOrdered'
  BY <1>5 DEF ReceiveChannel, circuits, DeadFirst
<1>6. ASSUME NEW k \in Circuit, ReceiveAnswer(k) PROVE dead \subseteq dead' /\ DeathIsOrdered'
  BY <1>6 DEF ReceiveAnswer, circuits, DeadFirst
<1>7. ASSUME NEW k \in Losable, MonitorGivesUp(k) PROVE dead \subseteq dead' /\ DeathIsOrdered'
  BY <1>7 DEF MonitorGivesUp, circuits, DeadFirst, Disconnecting, Idle
<1>8. CASE UNCHANGED <<dead, selector, monitor>>
  BY <1>8 DEF DeadFirst
<1>. QED  BY <1>1, <1>2, <1>3, <1>4, <1>5, <1>6, <1>7, <1>8, BystandersOfDeath
          DEF Next, Selector
---------------------------------------------------------------------------
(***************************************************************************)
(* What a registered call may find when its Event is set.                  *)
(***************************************************************************)
\* Who else leaves the calls alone.
LEMMA BystandersOfCalls ==
  ASSUME \/ Search \/ SearchRefused \/ Activate \/ ActivateTimeout \/ Connected
         \/ \E k \in Circuit : ReceiveEnd(k) \/ ReceiveChannel(k)
         \/ \E k \in Losable : ServerCloses(k) \/ MonitorGivesUp(k)
         \/ \E p \in PVs : GoIdleClear(p) \/ go_idle(p) \/ add_callback(p) \/ remove_callback(p)
         \/ UNCHANGED vars
  PROVE  UNCHANGED user
<1>. USE DEF usage
<1>1. CASE Search \/ SearchRefused
  BY <1>1 DEF Search, SearchRefused, SearchGet, SearchManager, SearchAssign, SearchCreate
<1>2. CASE Activate \/ ActivateTimeout
  BY <1>2 DEF Activate, ActivateTimeout, ActivateGet, ActivateEnter, ActivateSend, activating
<1>3. CASE Connected \/ \E k \in Circuit : ReceiveEnd(k) \/ ReceiveChannel(k)
  BY <1>3 DEF Connected, ReceiveEnd, ReceiveChannel
<1>4. CASE \E k \in Losable : ServerCloses(k) \/ MonitorGivesUp(k)
  BY <1>4 DEF ServerCloses, MonitorGivesUp
<1>5. CASE \E p \in PVs : GoIdleClear(p) \/ go_idle(p) \/ add_callback(p) \/ remove_callback(p)
  BY <1>5 DEF GoIdleClear, go_idle, add_callback, remove_callback
<1>6. CASE UNCHANGED vars
  BY <1>6 DEF vars
<1>. QED  BY <1>1, <1>2, <1>3, <1>4, <1>5, <1>6

\* A call that ends, or goes back to waiting for its channel.
LEMMA Unregistered ==
  ASSUME EventsAreHonest, dead \subseteq dead', NEW p \in PVs, NEW u, TypeOK,
         u.at \notin {"send", "event"}, user' = [user EXCEPT ![p] = u]
  PROVE  EventsAreHonest'
<1>. SUFFICES ASSUME NEW q \in PVs, user'[q].at \in {"send", "event"}
              PROVE  EventMeans(user[q])'
  BY DEF EventsAreHonest
<1>1. q # p /\ user'[q] = user[q]
  BY DEF TypeOK
<1>. QED  BY <1>1 DEF EventsAreHonest, EventMeans

LEMMA FinishEvents ==
  ASSUME TypeOK, EventsAreHonest, dead \subseteq dead', NEW p \in PVs, NEW outcome,
         Finish(p, outcome) \/ Retry(p)
  PROVE  EventsAreHonest'
<1>1. CASE Finish(p, outcome) \/ Finish(p, "None")
  BY <1>1, Unregistered DEF Finish, Idle
<1>2. CASE Retry(p) /\ ~Finish(p, "None")
  <2>1. user' = [user EXCEPT ![p] = [at |-> "wait", method |-> user[p].method,
                                     attempts |-> user[p].attempts + 1]]
    BY <1>2 DEF Retry
  <2>. QED  BY <2>1, Unregistered
<1>. QED  BY <1>1, <1>2

LEMMA WakeEvents ==
  ASSUME TypeOK, EventsAreHonest, dead \subseteq dead', NEW thread, DeadFirst(thread), Wake(thread)
  PROVE  EventsAreHonest'
<1>. SUFFICES ASSUME NEW q \in PVs, user'[q].at \in {"send", "event"}
              PROVE  EventMeans(user[q])'
  BY DEF EventsAreHonest
<1>1. thread.circuit \in dead'
  BY DEF Wake, DeadFirst
<1>2. CASE user[q].at \in {"send", "event"} /\ user[q].circuit = thread.circuit
  <2>1. user[q] \in Registered /\ user'[q] = [user[q] EXCEPT !.event = TRUE]
    BY <1>2, RegisteredType DEF Wake
  <2>2. /\ user'[q].response = user[q].response /\ user'[q].ioid = user[q].ioid
        /\ user'[q].circuit = user[q].circuit
    BY <2>1 DEF Registered
  <2>. QED  BY <1>1, <1>2, <2>2 DEF EventsAreHonest, EventMeans
<1>3. CASE ~(user[q].at \in {"send", "event"} /\ user[q].circuit = thread.circuit)
  <2>1. user'[q] = user[q]
    BY <1>3 DEF Wake
  <2>. QED  BY <2>1 DEF EventsAreHonest, EventMeans
<1>. QED  BY <1>2, <1>3

LEMMA AnswerEvents ==
  ASSUME TypeOK, EventsAreHonest, dead \subseteq dead', NEW k \in Circuit, ReceiveAnswer(k)
  PROVE  EventsAreHonest'
<1>. SUFFICES ASSUME NEW q \in PVs, user'[q].at \in {"send", "event"}
              PROVE  EventMeans(user[q])'
  BY DEF EventsAreHonest
<1>. DEFINE p == Head(inbox[k]).pv
            ioid == Head(inbox[k]).ioid
<1>1. p \in PVs
  <2>1. Head(inbox[k]) \in Message
    BY DEF ReceiveAnswer, TypeOK
  <2>. QED  BY <2>1 DEF Message
<1>2. CASE Expected(user[p], k, ioid) /\ q = p
  <2>1. user[q] \in Registered
    BY <1>2, RegisteredType DEF Expected
  <2>2. user' = [user EXCEPT ![p].event = TRUE, ![p].response = ioid]
    BY <1>2 DEF ReceiveAnswer
  <2>3. user'[q] = [[user[q] EXCEPT !.event = TRUE] EXCEPT !.response = ioid]
    BY <1>1, <1>2, <2>2 DEF TypeOK
  <2>4. user'[q].response = ioid /\ user'[q].ioid = ioid /\ ioid \in Ioid
    BY <1>2, <2>1, <2>3 DEF Registered, Expected
  <2>5. ioid # None
    BY <2>4, NoneAssumption DEF Ioid
  <2>. QED  BY <2>4, <2>5 DEF EventMeans
<1>3. CASE ~(Expected(user[p], k, ioid) /\ q = p)
  <2>1. user'[q] = user[q]
    BY <1>1, <1>3 DEF ReceiveAnswer, TypeOK
  <2>. QED  BY <2>1 DEF EventsAreHonest, EventMeans
<1>. QED  BY <1>2, <1>3

LEMMA EventsStep ==
  ASSUME TypeOK, DeathIsOrdered, EventsAreHonest, [Next]_vars
  PROVE  EventsAreHonest'
<1>0. dead \subseteq dead'
  BY DeathStep
<1>1. CASE UNCHANGED user
  BY <1>0, <1>1 DEF EventsAreHonest, EventMeans
<1>2. CASE SelectorDisconnected
  <2>1. Wake(selector) \/ UNCHANGED user
    BY <1>2, DisconnectedOrder DEF SelectorDisconnected, DeathIsOrdered
  <2>. QED  BY <1>0, <1>1, <2>1, WakeEvents DEF DeathIsOrdered
<1>3. CASE MonitorDisconnected
  <2>1. Wake(monitor) \/ UNCHANGED user
    BY <1>3, DisconnectedOrder DEF MonitorDisconnected, DeathIsOrdered
  <2>. QED  BY <1>0, <1>1, <2>1, WakeEvents DEF DeathIsOrdered
<1>4. ASSUME NEW k \in Circuit, ReceiveAnswer(k) PROVE EventsAreHonest'
  BY <1>0, <1>4, AnswerEvents
<1>5. ASSUME NEW p \in PVs, NEW method \in {"read", "write"}, Enter(p, method)
      PROVE  EventsAreHonest'
  BY <1>0, <1>5, Unregistered DEF Enter
<1>6. ASSUME NEW p \in PVs, Call(p) PROVE EventsAreHonest'
  <2>. SUFFICES ASSUME NEW q \in PVs, user'[q].at \in {"send", "event"}
                PROVE  EventMeans(user[q])'
    BY DEF EventsAreHonest
  <2>1. CASE q = p
    <3>1. user'[q].event = FALSE /\ user'[q].response = None
      BY <1>6, <2>1 DEF Call, TypeOK
    <3>. QED  BY <3>1 DEF EventMeans
  <2>2. CASE q # p
    <3>1. user'[q] = user[q]
      BY <1>6, <2>2 DEF Call, TypeOK
    <3>. QED  BY <1>0, <3>1 DEF EventsAreHonest, EventMeans
  <2>. QED  BY <2>1, <2>2
<1>7. ASSUME NEW p \in PVs, CallTimeout(p) PROVE EventsAreHonest'
  BY <1>0, <1>7, FinishEvents DEF CallTimeout
<1>8. ASSUME NEW p \in PVs, Request(p) PROVE EventsAreHonest'
  <2>1. CASE Finish(p, "OSError")
    BY <1>0, <2>1, FinishEvents
  <2>2. CASE user' = [user EXCEPT ![p].at = "event"]
    <3>. SUFFICES ASSUME NEW q \in PVs, user'[q].at \in {"send", "event"}
                  PROVE  EventMeans(user[q])'
      BY DEF EventsAreHonest
    <3>1. CASE q = p
      <4>1. user[q] \in Registered /\ user'[q] = [user[q] EXCEPT !.at = "event"]
        BY <1>8, <2>2, <3>1, RegisteredType DEF Request, TypeOK
      <4>2. /\ user'[q].response = user[q].response /\ user'[q].ioid = user[q].ioid
            /\ user'[q].circuit = user[q].circuit /\ user'[q].event = user[q].event
        BY <4>1 DEF Registered
      <4>. QED  BY <1>0, <1>8, <3>1, <4>2 DEF Request, EventsAreHonest, EventMeans
    <3>2. CASE q # p
      <4>1. user'[q] = user[q]
        BY <2>2, <3>2 DEF TypeOK
      <4>. QED  BY <1>0, <4>1 DEF EventsAreHonest, EventMeans
    <3>. QED  BY <3>1, <3>2
  <2>. QED  BY <1>8, <2>1, <2>2 DEF Request
<1>9. ASSUME NEW p \in PVs, Woken(p) \/ EventTimeout(p) PROVE EventsAreHonest'
  <2>1. Retry(p) \/ \E outcome : Finish(p, outcome)
    BY <1>9 DEF Woken, EventTimeout
  <2>. QED  BY <1>0, <2>1, FinishEvents
<1>. QED  BY <1>1, <1>2, <1>3, <1>4, <1>5, <1>6, <1>7, <1>8, <1>9, BystandersOfCalls
          DEF Next, Selector, Method
---------------------------------------------------------------------------
(***************************************************************************)
(* _usages counts the call and the activation that are under way.          *)
(***************************************************************************)
\* Nothing that counts changes: no call begins or ends, no activation either.
LEMMA SameUsers ==
  ASSUME UsagesAreCounted, UNCHANGED <<usages, activate>>,
         \A p \in PVs : user'[p].at = "idle" <=> user[p].at = "idle"
  PROVE  UsagesAreCounted'
BY DEF UsagesAreCounted, Users

LEMMA FinishUsages ==
  ASSUME TypeOK, UsagesAreCounted, NEW p \in PVs, user[p].at # "idle", NEW outcome,
         Finish(p, outcome), UNCHANGED activate
  PROVE  UsagesAreCounted'
<1>. SUFFICES ASSUME NEW q \in PVs PROVE usages'[q] = Users(q)'
  BY DEF UsagesAreCounted
<1>1. usages[q] \in Int /\ usages[q] = Users(q)
  BY DEF TypeOK, UsagesAreCounted
<1>2. CASE q = p
  <2>1. usages'[q] = usages[q] - 1 /\ user'[q] = Idle
    BY <1>2 DEF Finish, TypeOK
  <2>. QED  BY <1>1, <1>2, <2>1 DEF Users, Idle
<1>3. CASE q # p
  <2>1. usages'[q] = usages[q] /\ user'[q] = user[q]
    BY <1>3 DEF Finish, TypeOK
  <2>. QED  BY <1>1, <2>1 DEF Users
<1>. QED  BY <1>2, <1>3

LEMMA RetryUsages ==
  ASSUME TypeOK, UsagesAreCounted, NEW p \in PVs, user[p].at # "idle", Retry(p),
         UNCHANGED activate
  PROVE  UsagesAreCounted'
<1>1. CASE Finish(p, "None")
  BY <1>1, FinishUsages
<1>2. CASE ~Finish(p, "None")
  <2>1. /\ user' = [user EXCEPT ![p] = [at |-> "wait", method |-> user[p].method,
                                        attempts |-> user[p].attempts + 1]]
        /\ UNCHANGED usages
    BY <1>2 DEF Retry
  <2>2. \A q \in PVs : user'[q].at = "idle" <=> user[q].at = "idle"
    BY <2>1 DEF TypeOK
  <2>. QED  BY <2>1, <2>2, SameUsers
<1>. QED  BY <1>1, <1>2

\* Who else leaves both counts and counted alone.
LEMMA BystandersOfUsages ==
  ASSUME \/ Search \/ SearchRefused \/ Connected
         \/ \E k \in Circuit : ReceiveEnd(k) \/ ReceiveChannel(k)
         \/ \E k \in Losable : ServerCloses(k) \/ MonitorGivesUp(k)
         \/ \E p \in PVs : GoIdleClear(p) \/ go_idle(p) \/ add_callback(p) \/ remove_callback(p)
         \/ UNCHANGED vars
  PROVE  UNCHANGED <<user, usages, activate>>
<1>. USE DEF usage
<1>1. CASE Search \/ SearchRefused
  BY <1>1 DEF Search, SearchRefused, SearchGet, SearchManager, SearchAssign, SearchCreate
<1>2. CASE Connected \/ \E k \in Circuit : ReceiveEnd(k) \/ ReceiveChannel(k)
  BY <1>2 DEF Connected, ReceiveEnd, ReceiveChannel
<1>3. CASE \E k \in Losable : ServerCloses(k) \/ MonitorGivesUp(k)
  BY <1>3 DEF ServerCloses, MonitorGivesUp
<1>4. CASE \E p \in PVs : GoIdleClear(p) \/ go_idle(p) \/ add_callback(p) \/ remove_callback(p)
  BY <1>4 DEF GoIdleClear, go_idle, add_callback, remove_callback, unused
<1>5. CASE UNCHANGED vars
  BY <1>5 DEF vars
<1>. QED  BY <1>1, <1>2, <1>3, <1>4, <1>5

LEMMA MethodUsages ==
  ASSUME TypeOK, UsagesAreCounted, NEW p \in PVs,
         Call(p) \/ CallTimeout(p) \/ Request(p) \/ Woken(p) \/ EventTimeout(p)
  PROVE  UsagesAreCounted'
<1>. UNCHANGED activate
  BY DEF Call, CallTimeout, Request, Woken, EventTimeout, unused
<1>1. CASE Call(p)
  <2>1. \A q \in PVs : user'[q].at = "idle" <=> user[q].at = "idle"
    BY <1>1 DEF Call, TypeOK
  <2>. QED  BY <1>1, <2>1, SameUsers DEF Call
<1>2. CASE CallTimeout(p)
  BY <1>2, FinishUsages DEF CallTimeout
<1>3. CASE Request(p)
  <2>1. CASE Finish(p, "OSError")
    BY <1>3, <2>1, FinishUsages DEF Request
  <2>2. CASE user' = [user EXCEPT ![p].at = "event"] /\ UNCHANGED usages
    <3>1. user[p] \in Registered
      BY <1>3, RegisteredType DEF Request
    <3>2. user'[p] = [user[p] EXCEPT !.at = "event"]
      BY <2>2 DEF TypeOK
    <3>3. user'[p].at = "event"
      BY <3>1, <3>2 DEF Registered
    <3>4. \A q \in PVs : user'[q].at = "idle" <=> user[q].at = "idle"
      BY <1>3, <2>2, <3>3 DEF Request, TypeOK
    <3>. QED  BY <2>2, <3>4, SameUsers
  <2>. QED  BY <1>3, <2>1, <2>2 DEF Request
<1>4. CASE Woken(p) \/ EventTimeout(p)
  <2>1. Retry(p) \/ \E outcome : Finish(p, outcome)
    BY <1>4 DEF Woken, EventTimeout
  <2>2. user[p].at # "idle"
    BY <1>4 DEF Woken, EventTimeout
  <2>. QED  BY <2>1, <2>2, FinishUsages, RetryUsages
<1>. QED  BY <1>1, <1>2, <1>3, <1>4

LEMMA EnterUsages ==
  ASSUME TypeOK, UsagesAreCounted, NEW p \in PVs, NEW method, Enter(p, method)
  PROVE  UsagesAreCounted'
<1>. SUFFICES ASSUME NEW q \in PVs PROVE usages'[q] = Users(q)'
  BY DEF UsagesAreCounted
<1>1. usages[q] \in Int /\ usages[q] = Users(q) /\ UNCHANGED activate
  BY DEF TypeOK, UsagesAreCounted, Enter
<1>2. CASE q = p
  <2>1. usages'[q] = usages[q] + 1 /\ user'[q].at = "wait" /\ user[q].at = "idle"
    BY <1>2 DEF Enter, TypeOK
  <2>. QED  BY <1>1, <2>1 DEF Users
<1>3. CASE q # p
  <2>1. usages'[q] = usages[q] /\ user'[q] = user[q]
    BY <1>3 DEF Enter, TypeOK
  <2>. QED  BY <1>1, <2>1 DEF Users
<1>. QED  BY <1>2, <1>3

LEMMA ActivateUsages ==
  ASSUME TypeOK, UsagesAreCounted, Activate \/ ActivateTimeout
  PROVE  UsagesAreCounted'
<1>. SUFFICES ASSUME NEW q \in PVs PROVE usages'[q] = Users(q)'
  BY DEF UsagesAreCounted
<1>1. usages \in [PVs -> Int] /\ usages[q] = Users(q)
  BY DEF TypeOK, UsagesAreCounted
<1>2. UNCHANGED user
  BY BystandersOfCalls
<1>3. CASE ActivateGet
  BY <1>1, <1>2, <1>3 DEF ActivateGet, Users, Idle
<1>4. CASE ActivateEnter
  <2>1. CASE activate.items = {}
    BY <1>1, <1>2, <1>4, <2>1 DEF ActivateEnter, Users, Idle
  <2>2. CASE activate.items # {}
    <3>1. PICK it \in activate.items :
            /\ usages' = [usages EXCEPT ![it.pv] = @ + 1]
            /\ activate' = [at |-> "compose", items |-> activate.items \ {it}, item |-> it]
      BY <1>4, <2>2 DEF ActivateEnter
    <3>2. activate.at = "each"
      BY <1>4 DEF ActivateEnter
    <3>3. CASE q = it.pv
      BY <1>1, <1>2, <3>1, <3>2, <3>3 DEF Users
    <3>4. CASE q # it.pv
      BY <1>1, <1>2, <3>1, <3>2, <3>4 DEF Users
    <3>. QED  BY <3>3, <3>4
  <2>. QED  BY <2>1, <2>2
<1>5. CASE ActivateSend \/ ActivateTimeout
  <2>1. /\ activate.at = "compose" /\ activate'.at # "compose"
        /\ usages' = [usages EXCEPT ![activate.item.pv] = @ - 1]
    BY <1>5 DEF ActivateSend, ActivateTimeout
  <2>2. CASE q = activate.item.pv
    BY <1>1, <1>2, <2>1, <2>2 DEF Users
  <2>3. CASE q # activate.item.pv
    BY <1>1, <1>2, <2>1, <2>3 DEF Users
  <2>. QED  BY <2>2, <2>3
<1>. QED  BY <1>3, <1>4, <1>5 DEF Activate

LEMMA UsagesStep ==
  ASSUME TypeOK, DeathIsOrdered, UsagesAreCounted, [Next]_vars
  PROVE  UsagesAreCounted'
<1>1. ASSUME UNCHANGED <<user, usages, activate>> PROVE UsagesAreCounted'
  BY <1>1, SameUsers
<1>2. ASSUME NEW thread, Wake(thread), UNCHANGED <<usages, activate>> PROVE UsagesAreCounted'
  <2>1. ASSUME NEW q \in PVs PROVE user'[q].at = "idle" <=> user[q].at = "idle"
    <3>1. CASE user[q].at \in {"send", "event"} /\ user[q].circuit = thread.circuit
      <4>1. user[q] \in Registered /\ user'[q] = [user[q] EXCEPT !.event = TRUE]
        BY <1>2, <3>1, RegisteredType DEF Wake
      <4>. QED  BY <4>1 DEF Registered
    <3>2. CASE ~(user[q].at \in {"send", "event"} /\ user[q].circuit = thread.circuit)
      BY <1>2, <3>2 DEF Wake
    <3>. QED  BY <3>1, <3>2
  <2>. QED  BY <1>2, <2>1, SameUsers
<1>3. CASE SelectorDisconnected
  <2>1. (Wake(selector) \/ UNCHANGED user) /\ UNCHANGED <<usages, activate>>
    BY <1>3, DisconnectedOrder DEF SelectorDisconnected, DeathIsOrdered
  <2>. QED  BY <1>1, <1>2, <2>1
<1>4. CASE MonitorDisconnected
  <2>1. (Wake(monitor) \/ UNCHANGED user) /\ UNCHANGED <<usages, activate>>
    BY <1>4, DisconnectedOrder DEF MonitorDisconnected, DeathIsOrdered
  <2>. QED  BY <1>1, <1>2, <2>1
<1>5. ASSUME NEW k \in Circuit, ReceiveAnswer(k) PROVE UsagesAreCounted'
  <2>. DEFINE p == Head(inbox[k]).pv
              ioid == Head(inbox[k]).ioid
  <2>1. ASSUME NEW q \in PVs PROVE user'[q].at = "idle" <=> user[q].at = "idle"
    <3>1. CASE Expected(user[p], k, ioid) /\ q = p
      <4>1. user[q] \in Registered
        BY <3>1, RegisteredType DEF Expected
      <4>2. user'[q] = [[user[q] EXCEPT !.event = TRUE] EXCEPT !.response = ioid]
        BY <1>5, <3>1 DEF ReceiveAnswer, TypeOK
      <4>. QED  BY <4>1, <4>2 DEF Registered
    <3>2. CASE ~(Expected(user[p], k, ioid) /\ q = p)
      BY <1>5, <3>2 DEF ReceiveAnswer, TypeOK
    <3>. QED  BY <3>1, <3>2
  <2>. QED  BY <1>5, <2>1, SameUsers DEF ReceiveAnswer
<1>. QED  BY <1>1, <1>3, <1>4, <1>5, BystandersOfUsages, MethodUsages, EnterUsages, ActivateUsages
          DEF Next, Selector, Method
---------------------------------------------------------------------------
LEMMA Inductive == /\ Init => IInv
                   /\ TypeOK /\ IInv /\ [Next]_vars => IInv'
<1>1. Init => IInv
  BY DEF Init, IInv, DeathIsOrdered, DeadFirst, EventsAreHonest, UsagesAreCounted, Users, Idle
<1>2. TypeOK /\ IInv /\ [Next]_vars => IInv'
  BY DeathStep, EventsStep, UsagesStep DEF IInv
<1>. QED  BY <1>1, <1>2

\* A call of read or write that returns a response returns the response to
\* its own ioid, never one that was late for an earlier call.
THEOREM AnswersOwn == Spec => []AnswerIsOwn
<1>1. IInv => AnswerIsOwn
  BY DEF IInv, EventsAreHonest, EventMeans, AnswerIsOwn
<1>. QED  BY <1>1, InitType, NextType, Inductive, PTL DEF Spec

\* _disconnected sets `dead' before the Events, so a call that is woken up
\* without a response finds its circuit dead, in whichever of two threads
\* (or in both at once) the circuit is being given up.
THEOREM WokenCallsKnow == Spec => []WokenKnowsWhy
<1>1. IInv => WokenKnowsWhy
  BY DEF IInv, EventsAreHonest, EventMeans, WokenKnowsWhy
<1>. QED  BY <1>1, InitType, NextType, Inductive, PTL DEF Spec

\* _usages, which ensure_connected and compose_command raise and lower on
\* every way out (a response, a timeout, an error, the last attempt), is
\* exactly the number of those that are inside.
THEOREM UsagesExact == Spec => []UsagesAreCounted
<1>1. IInv => UsagesAreCounted
  BY DEF IInv
<1>. QED  BY <1>1, InitType, NextType, Inductive, PTL DEF Spec

\* go_idle clears the channel of no PV that a read, a write or an activation
\* is using: what it waits for, _usages = 0, is an exact count of them.
THEOREM IdleExcludesUsers == Spec => IdleIsExclusive
<1>1. TypeOK /\ IInv /\ [Next]_vars =>
        [\A p \in PVs : (p \in idle' \ idle) =>
           user[p].at = "idle" /\ ~(activate.at = "compose" /\ activate.item.pv = p)]_vars
  <2>. SUFFICES ASSUME TypeOK, IInv, [Next]_vars, NEW p \in PVs, p \in idle' \ idle
                PROVE  user[p].at = "idle" /\ ~(activate.at = "compose" /\ activate.item.pv = p)
    OBVIOUS
  <2>1. GoIdleClear(p)
    <3>. USE DEF usage
    <3>1. ~(Search \/ SearchRefused)
      BY DEF Search, SearchRefused, SearchGet, SearchManager, SearchAssign, SearchCreate
    <3>2. ~SelectorDisconnected /\ ~MonitorDisconnected
      BY DEF SelectorDisconnected, MonitorDisconnected, _disconnected, Clear, Die, Wake, Tell,
             reconnect
    <3>3. ~Connected /\ \A k \in Circuit : ~(ReceiveEnd(k) \/ ReceiveChannel(k) \/ ReceiveAnswer(k))
      BY DEF Connected, ReceiveEnd, ReceiveChannel, ReceiveAnswer
    <3>4. ~(Activate \/ ActivateTimeout)
      BY DEF Activate, ActivateTimeout, ActivateGet, ActivateEnter, ActivateSend
    <3>5. \A k \in Losable : ~(ServerCloses(k) \/ MonitorGivesUp(k))
      BY DEF ServerCloses, MonitorGivesUp
    <3>6. \A q \in PVs : ~(Enter(q, "read") \/ Enter(q, "write"))
      BY DEF Enter
    <3>7. \A q \in PVs : Method(q) => GoIdleClear(q) /\ q = p
      BY DEF Method, Call, CallTimeout, Request, Woken, EventTimeout, GoIdleClear
    <3>8. \A q \in PVs : ~(go_idle(q) \/ add_callback(q) \/ remove_callback(q))
      BY DEF go_idle, add_callback, remove_callback
    <3>9. ~UNCHANGED vars
      BY DEF vars
    <3>. QED  BY <3>1, <3>2, <3>3, <3>4, <3>5, <3>6, <3>7, <3>8, <3>9 DEF Next, Selector
  <2>2. Users(p) = 0
    BY <2>1 DEF GoIdleClear, MayClear, IInv, UsagesAreCounted
  <2>. QED  BY <2>2 DEF Users
<1>. QED  BY <1>1, InitType, NextType, Inductive, PTL DEF Spec, IdleIsExclusive
=============================================================================
