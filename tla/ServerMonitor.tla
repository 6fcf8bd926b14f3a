--------------------------- MODULE ServerMonitor ---------------------------
(***************************************************************************)
(* How the threading client notices that a server has gone or come back:   *)
(* the Beacons in SharedBroadcaster.command_loop, and the thread           *)
(* _check_for_unresponsive_servers, in caproto/threading/client.py.  On    *)
(* the other side is Context.broadcast_beacon_loop of server/common.py.    *)
(*                                                                         *)
(* Instants are relative to the present, in ticks (see SharedBroadcaster); *)
(* the thread takes one turn a tick (it sleeps half a second).  A server   *)
(* that is up answers an EchoRequest within EchoDelay.                     *)
(***************************************************************************)
EXTENDS Integers, FiniteSets

CONSTANTS
  Addresses, Contexts,
  ShortPeriods,            \* how many beacon_periods are shorter than a tick
  EPICS_CAS_BEACON_PERIOD,
  EPICS_CA_CONN_TMO, MARGIN, RESPONSIVENESS_TIMEOUT, EchoDelay,
  BeaconAge,               \* intervals are told apart up to this
  MaxRestarts,             \* bound: servers coming back
  MaxContextsLost,         \* bound: Contexts disconnected by the user
  None

ASSUME PeriodAssumption ==
  /\ ShortPeriods \in Nat \ {0} /\ EPICS_CAS_BEACON_PERIOD \in Nat \ {0}
  /\ BeaconAge \in Nat /\ EPICS_CAS_BEACON_PERIOD <= BeaconAge
ASSUME TimeoutAssumption ==    \* MARGIN alone is two ticks
  /\ EchoDelay \in Nat /\ RESPONSIVENESS_TIMEOUT \in Nat /\ EchoDelay < RESPONSIVENESS_TIMEOUT
  /\ EPICS_CA_CONN_TMO \in Nat /\ MARGIN \in Nat /\ EPICS_CA_CONN_TMO + MARGIN > 1
ASSUME NoneAssumption == None \notin Int

VARIABLES
  up, period, due,         \* each server; which beacon_period it is in, time left
  last_beacon, last_beacon_interval,
  manager,                 \* circuit_managers: [state, heard, echo, seen]
  listeners,
  monitor,                 \* the thread: what it does, and whether in this tick
  checking,                \* address -> time left until its deadline
  last_heard,              \* address -> age, as the thread last saw it
  restarts,
  unnoticed                \* (ghost) Beacons since a restart nobody noticed

server == <<up, period, due>>
vars == <<server, last_beacon, last_beacon_interval, manager, listeners, monitor,
          checking, last_heard, restarts, unnoticed>>

Without(f, S) == [x \in DOMAIN f \ S |-> f[x]]
With(f, x, v) == [y \in DOMAIN f \cup {x} |-> IF y = x THEN v ELSE f[y]]
Least(a, b) == IF a < b THEN a ELSE b

\* Not heard from for longer than this: `cutoff'.
Cutoff == EPICS_CA_CONN_TMO + MARGIN
NoManager == [state |-> "none", heard |-> 0, echo |-> None, seen |-> FALSE]

Init ==
  /\ up = [a \in Addresses |-> TRUE]
  /\ period = [a \in Addresses |-> 1] /\ due = [a \in Addresses |-> 0]
  /\ last_beacon = <<>> /\ last_beacon_interval = <<>>
  /\ manager = [c \in Contexts |-> [a \in Addresses |-> NoManager]]
  /\ listeners = Contexts
  /\ monitor = [at |-> "survey", done |-> FALSE]
  /\ checking = <<>> /\ last_heard = <<>>
  /\ restarts = 0 /\ unnoticed = [a \in Addresses |-> None]
---------------------------------------------------------------------------
(* The server *)

\* A mutant of Faster: Beacons that come four times slower are the anomaly.
Faster_Slower(interval, last) == interval > 4 * last

Faster(interval, last) == 4 * interval < last

\* command_loop on a Beacon of a: _new_server_found if the server is new, or
\* if Beacons come four times faster than before: it may have restarted.
Observe(a) ==
  LET last == IF a \in DOMAIN last_beacon_interval THEN last_beacon_interval[a] ELSE 0
      found == a \in DOMAIN last_beacon => Faster(last_beacon[a], last)
  IN  /\ last_beacon' = With(last_beacon, a, 0)
      /\ last_beacon_interval' = IF a \in DOMAIN last_beacon
                                 THEN With(last_beacon_interval, a, last_beacon[a])
                                 ELSE last_beacon_interval
      /\ unnoticed' = [unnoticed EXCEPT ![a] =
                         IF found \/ @ = None THEN None ELSE @ + 1]

\* The k-th beacon_period: from MIN_BEACON_PERIOD they double to the longest.
beacon_period(k) ==
  IF k <= ShortPeriods THEN 0
  ELSE Least(2 ^ (k - ShortPeriods - 1), EPICS_CAS_BEACON_PERIOD)

\* One turn of broadcast_beacon_loop.  The Beacon arrives or is lost; then
\* nothing is promised about the restart it might have told of.
broadcast_beacon(a) ==
  /\ up[a] /\ due[a] = 0
  /\ due' = [due EXCEPT ![a] = beacon_period(period[a])]
  /\ period' = [period EXCEPT ![a] = IF due'[a] = EPICS_CAS_BEACON_PERIOD THEN @ ELSE @ + 1]
  /\ \/ Observe(a)
     \/ /\ unnoticed' = [unnoticed EXCEPT ![a] = None]
        /\ UNCHANGED <<last_beacon, last_beacon_interval>>
  /\ UNCHANGED <<up, manager, listeners, monitor, checking, last_heard, restarts>>

\* The server hangs, or its host is gone: nothing comes from it any more.
Hang(a) ==
  /\ up[a]
  /\ up' = [up EXCEPT ![a] = FALSE]
  /\ UNCHANGED <<period, due, last_beacon, last_beacon_interval, manager, listeners,
                 monitor, checking, last_heard, restarts, unnoticed>>

\* It starts again: old circuits are reset and the Beacons begin anew.
Restart(a) ==
  /\ ~up[a] /\ restarts < MaxRestarts
  /\ up' = [up EXCEPT ![a] = TRUE]
  /\ period' = [period EXCEPT ![a] = 1] /\ due' = [due EXCEPT ![a] = 0]
  /\ manager' = [c \in Contexts |-> [manager[c] EXCEPT ![a] =
                   IF @.state = "connected" THEN [@ EXCEPT !.state = "dead", !.echo = None]
                   ELSE @]]
  /\ restarts' = restarts + 1
  /\ unnoticed' = [unnoticed EXCEPT ![a] =
       IF a \in DOMAIN last_beacon_interval /\ last_beacon_interval[a] > 0 THEN 0 ELSE None]
  /\ UNCHANGED <<last_beacon, last_beacon_interval, listeners, monitor, checking,
                 last_heard>>
---------------------------------------------------------------------------
(* The Contexts' circuits *)

\* get_circuit_manager: a new one takes the place of a dead one.  It has just
\* received the VersionResponse.  (A server of a version below 12 sends none:
\* its circuit is ready with no time of receipt, of which max() in the check
\* then raises TypeError.  The servers here are of version 12 or later.)
connect(c, a) ==
  /\ c \in listeners /\ up[a] /\ manager[c][a].state # "connected"
  /\ manager' = [manager EXCEPT ![c][a] = [NoManager EXCEPT !.state = "connected"]]
  /\ UNCHANGED <<server, last_beacon, last_beacon_interval, listeners, monitor, checking,
                 last_heard, restarts, unnoticed>>

\* VirtualCircuitManager.received: an EchoResponse, or anything else.
received(c, a) ==
  /\ up[a] /\ manager[c][a].state = "connected"
  /\ manager' = [manager EXCEPT ![c][a] = [@ EXCEPT !.heard = 0, !.echo = None]]
  /\ UNCHANGED <<server, last_beacon, last_beacon_interval, listeners, monitor, checking,
                 last_heard, restarts, unnoticed>>

\* Context.disconnect: its circuits are disconnected and forgotten.  The last
\* Context ends the thread, which is not of interest here.
disconnect(c) ==
  /\ c \in listeners /\ listeners # {c}
  /\ Cardinality(Contexts \ listeners) < MaxContextsLost
  /\ listeners' = listeners \ {c}
  /\ manager' = [manager EXCEPT ![c] = [a \in Addresses |-> NoManager]]
  /\ UNCHANGED <<server, last_beacon, last_beacon_interval, monitor, checking, last_heard,
                 restarts, unnoticed>>
---------------------------------------------------------------------------
(* The thread _check_for_unresponsive_servers *)

Circuits(a) == {c \in listeners : manager[c][a].state # "none"}
servers == {a \in Addresses : Circuits(a) # {}}
LastHeard(a) ==
  LET ages == {manager[c][a].heard : c \in Circuits(a)}
                \cup (IF a \in DOMAIN last_beacon THEN {last_beacon[a]} ELSE {Cutoff + 1})
  IN  CHOOSE x \in ages : \A y \in ages : x <= y

\* A mutant of StartsChecking: also servers that are being checked already.
StartsChecking_Again(a) == LastHeard(a) > Cutoff

StartsChecking(a) == LastHeard(a) > Cutoff /\ a \notin DOMAIN checking

\* The first half of a turn: who was heard from, and Echoes to those who were
\* not, on every circuit that has a socket.
Survey ==
  /\ monitor = [at |-> "survey", done |-> FALSE]
  /\ LET now == {a \in servers : StartsChecking(a)}
     IN  /\ checking' = [a \in DOMAIN checking \cup now |->
                           IF a \in now THEN RESPONSIVENESS_TIMEOUT ELSE checking[a]]
         /\ manager' = [c \in Contexts |-> [a \in Addresses |->
              [manager[c][a] EXCEPT
                 !.seen = c \in Circuits(a),
                 !.echo = IF a \in now /\ manager[c][a].state = "connected" /\ @ = None
                          THEN 0 ELSE @]]]
  /\ last_heard' = [a \in servers |-> LastHeard(a)]
  /\ monitor' = [monitor EXCEPT !.at = "resolve"]
  /\ UNCHANGED <<server, last_beacon, last_beacon_interval, listeners, restarts, unnoticed>>

Alive(a) == a \in DOMAIN last_heard /\ last_heard[a] < Cutoff

\* A mutant of Unresponsive: what was heard since the check began is ignored.
Unresponsive_Deaf(a) == a \in DOMAIN checking /\ checking[a] < 0

Unresponsive(a) == a \in DOMAIN checking /\ ~Alive(a) /\ checking[a] < 0

\* The second half: checks that have resolved are over, and circuits of the
\* servers that failed them are disconnected (see ThreadingClient), those
\* that the first half saw.
Resolve ==
  /\ monitor.at = "resolve" /\ DOMAIN checking \subseteq DOMAIN last_heard
  /\ LET gone == {a \in Addresses : Unresponsive(a)}
     IN  /\ checking' = Without(checking, gone \cup {a \in DOMAIN checking : Alive(a)})
         /\ manager' = [c \in Contexts |-> [a \in Addresses |->
              IF a \in gone /\ manager[c][a].seen /\ manager[c][a].state = "connected"
              THEN [manager[c][a] EXCEPT !.state = "dead", !.echo = None, !.seen = FALSE]
              ELSE [manager[c][a] EXCEPT !.seen = FALSE]]]
  /\ monitor' = [at |-> "survey", done |-> TRUE]
  /\ last_heard' = <<>>
  /\ UNCHANGED <<server, last_beacon, last_beacon_interval, listeners, restarts, unnoticed>>

\* last_heard[address] raises KeyError when the last circuit of a server
\* under check has gone with its Context: nobody catches it, the thread ends.
ResolveKeyError ==
  /\ monitor.at = "resolve" /\ ~(DOMAIN checking \subseteq DOMAIN last_heard)
  /\ monitor' = [monitor EXCEPT !.at = "dead"]
  /\ UNCHANGED <<server, last_beacon, last_beacon_interval, manager, listeners, checking,
                 last_heard, restarts, unnoticed>>
---------------------------------------------------------------------------
\* Time passes when Beacons and Echoes that are due are out and the thread
\* has had its turn.
Tick ==
  /\ monitor.at = "dead" \/ monitor = [at |-> "survey", done |-> TRUE]
  /\ \A a \in Addresses : up[a] =>
       /\ due[a] > 0
       /\ \A c \in Contexts : manager[c][a].echo # None => manager[c][a].echo < EchoDelay
  /\ due' = [a \in Addresses |-> IF up[a] THEN due[a] - 1 ELSE due[a]]
  /\ last_beacon' = [a \in DOMAIN last_beacon |-> Least(last_beacon[a] + 1, BeaconAge)]
  /\ manager' = [c \in Contexts |-> [a \in Addresses |->
       IF manager[c][a].state = "none" THEN manager[c][a]
       ELSE [manager[c][a] EXCEPT
               !.heard = Least(@ + 1, Cutoff + 1),
               !.echo = IF @ = None THEN None ELSE Least(@ + 1, EchoDelay)]]]
  /\ checking' = [a \in DOMAIN checking |-> IF checking[a] < 0 THEN -1 ELSE checking[a] - 1]
  /\ monitor' = [monitor EXCEPT !.done = FALSE]
  /\ UNCHANGED <<up, period, last_beacon_interval, listeners, last_heard, restarts, unnoticed>>

Turn == Survey \/ Resolve \/ ResolveKeyError
Next == \/ \E a \in Addresses : broadcast_beacon(a) \/ Hang(a) \/ Restart(a)
        \/ \E c \in Contexts, a \in Addresses : connect(c, a) \/ received(c, a)
        \/ \E c \in Contexts : disconnect(c)
        \/ Turn \/ Tick

Spec == Init /\ [][Next]_vars
(* The thread keeps taking turns, a server that is up sends its Beacons and *)
(* answers, and time passes.                                               *)
FairSpec == /\ Spec /\ WF_vars(Turn) /\ WF_vars(Tick)
            /\ \A a \in Addresses : WF_vars(broadcast_beacon(a))
            /\ \A c \in Contexts, a \in Addresses :
                 WF_vars(manager[c][a].echo # None /\ received(c, a))
---------------------------------------------------------------------------
(* A server that is up and answers an EchoRequest in time is never given   *)
(* up, even if every Beacon is lost and the answer comes between the two   *)
(* halves of a turn: only what nobody answers for is disconnected.         *)
LiveStaysConnected ==
  [][Resolve => \A c \in Contexts, a \in Addresses :
       (up[a] /\ manager[c][a].state = "connected") => manager'[c][a].state = "connected"]_vars

(* All circuits to a server that no longer answers are disconnected in the *)
(* end, unless the server comes back or the thread has died of KeyError.   *)
UnresponsiveIsDisconnected ==
  \A c \in Contexts, a \in Addresses :
    (~up[a] /\ manager[c][a].state = "connected")
      ~> (up[a] \/ manager[c][a].state # "connected" \/ monitor.at = "dead")

(* A server that had settled into its rhythm and restarts is noticed by    *)
(* its second Beacon, when none of them is lost.                           *)
RestartIsNoticed == \A a \in Addresses : unnoticed[a] # None => unnoticed[a] < 2
=============================================================================
