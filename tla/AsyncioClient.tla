--------------------------- MODULE AsyncioClient ---------------------------
(***************************************************************************)
(* How the asyncio client (caproto/asyncio/client.py) finds the servers of *)
(* its PVs and connects them again when a server is lost, with the tables  *)
(* of caproto/client/search_results.py.                                    *)
(*                                                                         *)
(*    get_pvs, reconnect -> SearchResults.search -> retry loop             *)
(*      -> servers -> receive loop -> Context._search_results_queue        *)
(*      -> _process_search_results_loop -> VirtualCircuitManager           *)
(*                                                                         *)
(* The tasks of one event loop take turns at their awaits; a step is what  *)
(* one of them does in its turn.  UDP messages get lost, late and twice.   *)
(* A circuit's messages arrive in order, then its end.  Left out: reading, *)
(* writing, subscriptions and idle PVs (ThreadingClient has their twins),  *)
(* and the lengths of times: a result is fresh or stale, and a search that *)
(* is retired is retried like any other, only later.                       *)
(***************************************************************************)
EXTENDS Integers, Sequences, FiniteSets, SequencesExt

CONSTANTS
  PVs,        \* [name, priority]
  Addrs,      \* addresses of servers
  Worlds,     \* what is asked for, who has it, what goes wrong: see World
  None

Names == {p.name : p \in PVs}
Priorities == {p.priority : p \in PVs}

ASSUME PvAssumption ==
  /\ PVs = [name : Names, priority : Priorities] \cap PVs
  /\ IsFiniteSet(PVs) /\ None \notin PVs

\* wanted: the PVs that get_pvs is called for; hosts: the servers of a name;
\* faults bounds crashes, connections and channels closed by a server, and
\* datagrams that come twice; giveups, circuits whose server does not answer.
World == [wanted : SUBSET PVs, hosts : [Names -> SUBSET Addrs], faults : Nat, giveups : Nat]
ASSUME WorldAssumption == Worlds \subseteq World

VARIABLES
  known, needing,       \* Context.pvs, pvs_needing_circuits
  results, search_loop, \* _search_results_queue; _process_search_results_loop
  name_to_addrs, addr_to_names, \* SearchResults
  searches,             \* _searches, by id; open: in _unanswered_searches too
  answers,              \* SearchResponses on their way
  circuits,             \* every VirtualCircuitManager made, see Circuit
  circuit_manager,      \* of each PV: a position in circuits
  channel,              \* of each PV: the circuit on which its channel is open
  world,                \* one of Worlds, for good
  up,                   \* servers that run
  faults, giveups,      \* that may still happen
  left                  \* (ghost) PVs that a failure left behind, and which

tables == <<name_to_addrs, addr_to_names>>
ctx    == <<known, needing, results, search_loop>>
udp    == <<searches, answers>>
pvs    == <<circuit_manager, channel>>
env    == <<world, up, faults, giveups>>
vars   == <<ctx, tables, udp, circuits, pvs, env, left>>

\* An entry of name_to_addrs[name]: its age, or VALID_CHANNEL_MARKER.
Ages == {"none", "fresh", "stale", "VALID"}

\* Why a PV is neither connected nor being connected.
Failures == {"refused", "given up", "KeyError", "TypeError", "unsent", "closed"}
ASSUME NoneAssumption  == None \notin Failures

\* state: of _connect; peer: the server's end is open; channels: cm.channels in
\* order; queued: _send_on_connection; inbox: received, not processed.
Messages == [class : {"Version"}] \cup [class : {"CreateChan", "ServerDisconn"}, pv : PVs]
Circuit == [addr : Addrs, priority : Priorities,
            state : {"connecting", "open", "ready", "failed", "dead"}, peer : BOOLEAN,
            channels : Seq(PVs), queued : SUBSET PVs, inbox : Seq(Messages)]

TypeOK ==
  /\ known \subseteq PVs /\ needing \subseteq known
  /\ results \in Seq([addr : Addrs, name : Names]) /\ search_loop \in {"run", "ended"}
  /\ name_to_addrs \in [Names -> [Addrs -> Ages]] /\ addr_to_names \in [Addrs -> SUBSET Names]
  /\ searches \in Seq([name : Names, open : BOOLEAN])
  /\ answers \subseteq [id : 1..Len(searches), addr : Addrs]
  /\ circuits \in Seq(Circuit)
  /\ circuit_manager \in [PVs -> 0..Len(circuits)] /\ channel \in [PVs -> 0..Len(circuits)]
  /\ world \in Worlds /\ up \subseteq Addrs
  /\ faults \in 0..world.faults /\ giveups \in 0..world.giveups
  /\ left \in [PVs -> Failures \cup {None}]

Init ==
  /\ known = {} /\ needing = {} /\ results = <<>> /\ search_loop = "run"
  /\ name_to_addrs = [n \in Names |-> [a \in Addrs |-> "none"]]
  /\ addr_to_names = [a \in Addrs |-> {}]
  /\ searches = <<>> /\ answers = {} /\ circuits = <<>>
  /\ circuit_manager = [p \in PVs |-> 0] /\ channel = [p \in PVs |-> 0]
  /\ world \in Worlds /\ up = Addrs /\ faults = world.faults /\ giveups = world.giveups
  /\ left = [p \in PVs |-> None]
\* Something goes wrong out there.
Fault == faults > 0 /\ faults' = faults - 1
---------------------------------------------------------------------------
(* SearchResults.search, behind SharedBroadcaster.search *)

\* The addresses cached for a name.
Cached(table, n) == {a \in Addrs : table[n][a] # "none"}
Fresh(table, n)  == {a \in Addrs : table[n][a] = "fresh"}

\* get_cached_search_result computes the age of every entry first, and the
\* marker has none: that is a TypeError, which nobody expects.
Raises(table, n) == \E a \in Addrs : table[n][a] = "VALID"

\* Expired entries are dropped on the way.
WithoutStale(table, ns) ==
  [n \in Names |-> IF n \notin ns THEN table[n]
                   ELSE [a \in Addrs |-> IF table[n][a] = "stale" THEN "none" ELSE table[n][a]]]

\* search(names), with the tables as they are then: names with a fresh result
\* get it at once, the others a search of their own.
Search(table, ns) ==
  IF \E n \in ns : Raises(table, n)
  THEN /\ \E cleaned \in SUBSET ns : name_to_addrs' = WithoutStale(table, cleaned)
       /\ UNCHANGED <<results, searches>>
  ELSE LET hit == {n \in ns : Fresh(table, n) # {}} IN
       /\ name_to_addrs' = WithoutStale(table, ns)
       /\ \E pick \in [hit -> Addrs] :
            /\ \A n \in hit : pick[n] \in Fresh(table, n)
            /\ results' = results \o SetToSeq({[addr |-> pick[n], name |-> n] : n \in hit})
       /\ searches' = searches \o SetToSeq({[name |-> n, open |-> TRUE] : n \in ns \ hit})

\* Mutant: a PV is entered for a circuit, but not in Context.pvs.
GetPv_unknown(p) ==
  /\ p \in world.wanted \ known
  /\ needing' = needing \cup {p}
  /\ Search(name_to_addrs, {p.name})
  /\ UNCHANGED <<known, search_loop, addr_to_names, answers, circuits, pvs, env, left>>

\* Context.get_pvs, for one name at a time: the names of one call share a
\* single search, but are entered and answered each for itself.
GetPv(p) ==
  /\ p \in world.wanted \ known
  /\ known' = known \cup {p} /\ needing' = needing \cup {p}
  /\ Search(name_to_addrs, {p.name})
  /\ left' = [left EXCEPT ![p] = IF Raises(name_to_addrs, p.name) THEN "TypeError" ELSE None]
  /\ UNCHANGED <<search_loop, addr_to_names, answers, circuits, pvs, env>>
---------------------------------------------------------------------------
(* The broadcaster's loops and the network *)

\* _retry_unanswered_searches sends the search again, and some of the
\* servers that run and have the name get it and answer.
Retry(i) ==
  /\ searches[i].open
  /\ \E S \in SUBSET (up \cap world.hosts[searches[i].name]) :
       /\ S # {}
       /\ answers' = answers \cup {[id |-> i, addr |-> a] : a \in S}
  /\ UNCHANGED <<ctx, tables, searches, circuits, pvs, env, left>>

\* received_search_response.  The first answer goes to the Context's queue;
\* any other is only noted.  The datagram may come again.
SearchResponse(r) ==
  LET n == searches[r.id].name IN
  /\ \/ answers' = answers \ {r} /\ UNCHANGED faults
     \/ answers' = answers /\ Fault
  /\ name_to_addrs' = [name_to_addrs EXCEPT ![n][r.addr] = "fresh"]
  /\ addr_to_names' = [addr_to_names EXCEPT ![r.addr] = @ \cup {n}]
  /\ searches' = [searches EXCEPT ![r.id].open = FALSE]
  /\ results' = IF searches[r.id].open
                THEN Append(results, [addr |-> r.addr, name |-> n]) ELSE results
  /\ UNCHANGED <<known, needing, search_loop, circuits, pvs, world, up, giveups, left>>

\* mark_server_alive: the results of a server that sends beacons are fresh,
\* also the ones that had the marker or were dropped.
Beacon(a) ==
  /\ a \in up /\ addr_to_names[a] # {}
  /\ name_to_addrs' = [n \in Names |-> IF n \in addr_to_names[a]
                         THEN [name_to_addrs[n] EXCEPT ![a] = "fresh"] ELSE name_to_addrs[n]]
  /\ UNCHANGED <<ctx, addr_to_names, udp, circuits, pvs, env, left>>

\* STALE_SEARCH_EXPIRATION passes.
Expire(n, a) ==
  /\ name_to_addrs[n][a] = "fresh"
  /\ name_to_addrs' = [name_to_addrs EXCEPT ![n][a] = "stale"]
  /\ UNCHANGED <<ctx, addr_to_names, udp, circuits, pvs, env, left>>
---------------------------------------------------------------------------
(* Context._process_search_results_loop *)

\* get_circuit_manager: the last one made for this address and priority,
\* unless it is dead.
Stored(a, priority) ==
  {k \in DOMAIN circuits : circuits[k].addr = a /\ circuits[k].priority = priority
                           /\ circuits[k].state # "dead"}

NewCircuit(a, priority) ==
  [addr |-> a, priority |-> priority, state |-> "connecting", peer |-> FALSE,
   channels |-> <<>>, queued |-> {}, inbox |-> <<>>]

\* cm.send(chan.create()): kept until there is a transport; a server whose
\* end is open answers.
SendCreate(cm, p) ==
  IF cm.state \in {"connecting", "failed"} THEN [cm EXCEPT !.queued = @ \cup {p}]
  ELSE IF cm.peer THEN [cm EXCEPT !.inbox = Append(@, [class |-> "CreateChan", pv |-> p])]
  ELSE cm

\* Mutant: the PVs of the name are looked up, not taken.
StillNeeding_all(served) == needing

\* pvs_needing_circuits.pop(name): the PVs a result is for are taken out.
StillNeeding(served) == needing \ served

\* Every PV of the name that needs a circuit gets one, and a channel on it.
\* Sending on a connection that is lost, but not yet known to be, may raise,
\* which ends the loop before the remaining requests are sent.
ProcessResult ==
  /\ search_loop = "run" /\ results # <<>>
  /\ results' = Tail(results)
  /\ LET a     == Head(results).addr
         mine  == {p \in needing : p.name = Head(results).name}
         new   == SetToSeq({p \in mine : Stored(a, p.priority) = {}})
         all   == circuits \o [i \in DOMAIN new |-> NewCircuit(a, new[i].priority)]
         Of(p) == CHOOSE k \in DOMAIN all : all[k].addr = a /\ all[k].priority = p.priority
                                            /\ all[k].state # "dead"
         Lost(p) == all[Of(p)].state \in {"open", "ready"} /\ ~all[Of(p)].peer
         Assigned(k, sent) ==
           LET who == {p \in mine : Of(p) = k} IN
           IF who = {} THEN all[k]
           ELSE LET p == CHOOSE q \in who : TRUE
                    cm == IF p \in sent THEN SendCreate(all[k], p) ELSE all[k]
                IN  [cm EXCEPT !.channels = Append(@, p)]
     IN  /\ needing' = StillNeeding(mine)
         /\ circuit_manager' = [p \in PVs |-> IF p \in mine THEN Of(p) ELSE circuit_manager[p]]
         /\ \E sent \in SUBSET mine :
              /\ \/ sent = mine /\ search_loop' = "run"
                 \/ (\E p \in mine \ sent : Lost(p)) /\ search_loop' = "ended"
              /\ circuits' = [k \in DOMAIN all |-> Assigned(k, sent)]
              /\ left' = [p \in PVs |->
                   IF p \notin mine THEN left[p]
                   ELSE IF all[Of(p)].state = "failed" THEN "refused"
                   ELSE IF p \notin sent /\ ~Lost(p) THEN "unsent" ELSE None]
  /\ UNCHANGED <<known, tables, udp, channel, env>>
---------------------------------------------------------------------------
(* VirtualCircuitManager *)

\* _connect.  A connection that is refused, or not made in time, ends the
\* task that makes it; the manager stays where it is.  A failing send of the
\* first requests, or a VersionResponse that does not come in time, ends it
\* the same way and is not a case of its own.  The servers send one, as those
\* of version 12 and later do.
Connect(k) ==
  /\ circuits[k].state = "connecting"
  /\ LET open == circuits[k].addr \in up IN
     /\ circuits' = [circuits EXCEPT ![k].state = IF open THEN "open" ELSE "failed",
                       ![k].peer = open,
                       ![k].inbox = IF open THEN <<[class |-> "Version"]>> ELSE <<>>]
     /\ left' = [p \in PVs |-> IF ~open /\ circuit_manager[p] = k THEN "refused" ELSE left[p]]
  /\ UNCHANGED <<ctx, tables, udp, pvs, env>>

\* The command loop takes the next message.
Received(k, class) ==
  /\ circuits[k].state \in {"open", "ready"} /\ circuits[k].inbox # <<>>
  /\ Head(circuits[k].inbox).class = class

\* Mutant: what was kept is cleared before it is copied.
VersionResponse_forgets(k) ==
  /\ Received(k, "Version")
  /\ circuits' = [circuits EXCEPT ![k].state = "ready", ![k].queued = {}, ![k].inbox = Tail(@)]
  /\ UNCHANGED <<ctx, tables, udp, pvs, env, left>>

\* VersionResponse: _connection_ready_hook sends what was kept.
VersionResponse(k) ==
  /\ Received(k, "Version")
  /\ LET cm == circuits[k]
         replies == SetToSeq({[class |-> "CreateChan", pv |-> p] : p \in cm.queued}) IN
     circuits' = [circuits EXCEPT ![k].state = "ready", ![k].queued = {},
                    ![k].inbox = Tail(@) \o IF cm.peer THEN replies ELSE <<>>]
  /\ UNCHANGED <<ctx, tables, udp, pvs, env, left>>

\* CreateChanResponse: mark_channel_created, and the PV has a channel.
CreateChanResponse(k) ==
  /\ Received(k, "CreateChan")
  /\ LET p == Head(circuits[k].inbox).pv
         a == circuits[k].addr IN
     /\ name_to_addrs' = [name_to_addrs EXCEPT ![p.name][a] = "VALID"]
     /\ addr_to_names' = [addr_to_names EXCEPT ![a] = @ \cup {p.name}]
     /\ channel' = [channel EXCEPT ![p] = k]
  /\ circuits' = [circuits EXCEPT ![k].inbox = Tail(@)]
  /\ UNCHANGED <<ctx, udp, circuit_manager, env, left>>

\* ServerDisconnResponse: the channel is closed, and nobody opens another.
ServerDisconnResponse(k) ==
  /\ Received(k, "ServerDisconn")
  /\ LET p == Head(circuits[k].inbox).pv IN
     /\ channel' = [channel EXCEPT ![p] = 0]
     /\ left' = [left EXCEPT ![p] = "closed"]
  /\ circuits' = [circuits EXCEPT ![k].inbox = Tail(@)]
  /\ UNCHANGED <<ctx, tables, udp, circuit_manager, env>>

\* The start of _disconnected: the circuit is dead, its PVs have no channel,
\* and mark_server_disconnected drops the results of its server.  The tables
\* of a dead manager are not read again.
Die(k) ==
  /\ circuits' = [circuits EXCEPT ![k] = [@ EXCEPT !.state = "dead", !.peer = FALSE,
                    !.channels = <<>>, !.queued = {}, !.inbox = <<>>]]
  /\ channel' = [p \in PVs |-> IF channel[p] = k THEN 0 ELSE channel[p]]

\* Mutant: results in use are not dropped.
Dropped_keeps_marker(a) ==
  [n \in Names |-> IF n \in addr_to_names[a] /\ name_to_addrs[n][a] # "VALID"
                   THEN [name_to_addrs[n] EXCEPT ![a] = "none"] ELSE name_to_addrs[n]]

Dropped(a) ==
  [n \in Names |-> IF n \in addr_to_names[a]
                   THEN [name_to_addrs[n] EXCEPT ![a] = "none"] ELSE name_to_addrs[n]]

\* Mutant: PVs whose search is answered from the cache are not entered.
Reconnect_without_entering(k, table, index) ==
  LET done == ToSet(circuits[k].channels)
      ns   == {p.name : p \in done} IN
  /\ Search(table, ns)
  /\ needing' = needing \cup {p \in done : Fresh(table, p.name) = {}}
  /\ addr_to_names' = [a \in Addrs |-> index[a] \ ns]
  /\ UNCHANGED left

\* Context.reconnect.  invalidate_by_name takes a name out of addr_to_names
\* for each address that name_to_addrs still has (and leaves those there); a
\* name that is not in the set is a KeyError, after which nothing is searched.
Reconnect(k, table, index) ==
  LET chans  == circuits[k].channels
      Bad(i) == \E a \in Cached(table, chans[i].name) : chans[i].name \notin index[a]
      bad    == {i \in DOMAIN chans : Bad(i)}
      until  == IF bad = {} THEN Len(chans) ELSE (CHOOSE i \in bad : \A j \in bad : i <= j) - 1
      done   == {chans[i] : i \in 1..until}
      ns     == {p.name : p \in done}
      Gone(n, a) == n \in ns /\ a \in Cached(table, n)
  IN  /\ needing' = needing \cup done
      /\ IF bad = {}
         THEN /\ addr_to_names' = [a \in Addrs |-> {n \in index[a] : ~Gone(n, a)}]
              /\ Search(table, ns)
              /\ left' = [p \in PVs |->
                   IF p \notin done THEN left[p]
                   ELSE IF \E n \in ns : Raises(table, n) THEN "TypeError" ELSE None]
         ELSE /\ \E some \in SUBSET Cached(table, chans[until + 1].name) :
                   addr_to_names' = [a \in Addrs |->
                     {n \in index[a] : ~Gone(n, a) /\ ~(a \in some /\ n = chans[until + 1].name)}]
              /\ name_to_addrs' = table
              /\ left' = [p \in PVs |-> IF p \in ToSet(chans) THEN "KeyError" ELSE left[p]]
              /\ UNCHANGED <<results, searches>>

\* DISCONNECTED: the connection has ended and its messages are processed.
Disconnected(k) ==
  /\ circuits[k].state \in {"open", "ready"} /\ circuits[k].inbox = <<>> /\ ~circuits[k].peer
  /\ Die(k)
  /\ LET a == circuits[k].addr IN
     Reconnect(k, Dropped(a), [addr_to_names EXCEPT ![a] = {}])
  /\ UNCHANGED <<known, search_loop, answers, circuit_manager, env>>

\* _check_for_unresponsive_servers_loop: no beacon, no answer to the echo, so
\* the circuit is disconnected, with reconnect=False.  The loop goes through
\* all circuits of the server and waits for each: this is one of them.
GiveUp(k) ==
  /\ circuits[k].state = "ready" /\ giveups > 0
  /\ giveups' = giveups - 1
  /\ Die(k)
  /\ LET a == circuits[k].addr IN
     /\ name_to_addrs' = Dropped(a)
     /\ addr_to_names' = [addr_to_names EXCEPT ![a] = {}]
  /\ left' = [p \in PVs |-> IF circuit_manager[p] = k THEN "given up" ELSE left[p]]
  /\ UNCHANGED <<ctx, udp, circuit_manager, world, up, faults>>
---------------------------------------------------------------------------
(* Servers *)

Crash(a) ==
  /\ a \in up /\ Fault
  /\ up' = up \ {a}
  /\ circuits' = [k \in DOMAIN circuits |->
       IF circuits[k].addr = a THEN [circuits[k] EXCEPT !.peer = FALSE] ELSE circuits[k]]
  /\ UNCHANGED <<ctx, tables, udp, pvs, world, giveups, left>>

Restart(a) ==
  /\ a \notin up /\ up' = up \cup {a}
  /\ UNCHANGED <<ctx, tables, udp, circuits, pvs, world, faults, giveups, left>>

\* One connection is lost, or one channel closed, by a server that runs on.
CloseCircuit(k) ==
  /\ circuits[k].peer /\ circuits[k].state # "dead" /\ Fault
  /\ circuits' = [circuits EXCEPT ![k].peer = FALSE]
  /\ UNCHANGED <<ctx, tables, udp, pvs, world, up, giveups, left>>

CloseChannel(p) ==
  /\ channel[p] # 0 /\ circuits[channel[p]].peer /\ circuits[channel[p]].inbox = <<>> /\ Fault
  /\ circuits' = [circuits EXCEPT ![channel[p]].inbox =
                    Append(@, [class |-> "ServerDisconn", pv |-> p])]
  /\ UNCHANGED <<ctx, tables, udp, pvs, world, up, giveups, left>>
---------------------------------------------------------------------------
RetryOf(n) == \E i \in DOMAIN searches : searches[i].name = n /\ Retry(i)
FirstAnswerTo(n) == \E r \in answers : searches[r.id].open /\ searches[r.id].name = n
                                       /\ SearchResponse(r)
CommandLoop(k) == \/ VersionResponse(k) \/ CreateChanResponse(k) \/ ServerDisconnResponse(k)
                  \/ Disconnected(k)

Next ==
  \/ \E p \in PVs : GetPv(p) \/ CloseChannel(p)
  \/ \E n \in Names : RetryOf(n)
  \/ \E r \in answers : SearchResponse(r)
  \/ \E a \in Addrs : Beacon(a) \/ Crash(a) \/ Restart(a) \/ \E n \in Names : Expire(n, a)
  \/ ProcessResult
  \/ \E k \in DOMAIN circuits : Connect(k) \/ CommandLoop(k) \/ GiveUp(k) \/ CloseCircuit(k)

Spec == Init /\ [][Next]_vars

\* Ready tasks run.  A search that is sent again and again reaches a server
\* that has the name, and one of the answers reaches the client.
Fairness ==
  /\ WF_vars(ProcessResult)
  /\ WF_vars(\E k \in DOMAIN circuits : Connect(k) \/ CommandLoop(k))
  /\ \A n \in Names : WF_vars(RetryOf(n)) /\ WF_vars(FirstAnswerTo(n))
FairSpec == Spec /\ Fairness
---------------------------------------------------------------------------
(* Properties *)

\* Is somebody at work to give p a channel?
Attended(p) ==
  LET k == circuit_manager[p] IN
  \/ p \in needing /\ \E i \in DOMAIN searches : searches[i].open /\ searches[i].name = p.name
  \/ p \in needing /\ search_loop = "run" /\ \E i \in DOMAIN results : results[i].name = p.name
  \/ /\ p \notin needing /\ k # 0
     /\ \/ circuits[k].state \in {"connecting", "open"} /\ p \in circuits[k].queued
        \/ [class |-> "CreateChan", pv |-> p] \in ToSet(circuits[k].inbox)
        \/ circuits[k].state \in {"open", "ready"} /\ ~circuits[k].peer

\* Whatever servers crash, answer late or answer twice, every PV that has no
\* channel is being searched for, has a result waiting, or sits on a circuit
\* that is coming up or about to be found dead; except after one of the
\* failures that nobody in the client handles.
NobodyIsForgotten ==
  \A p \in known :
    \/ channel[p] # 0 \/ Attended(p) \/ left[p] # None
    \/ search_loop = "ended" /\ p \in needing

\* However late the answers of several servers come, a PV has a channel (or
\* the request for one) on one living circuit only: the one it refers to.
OneChannelPerPv ==
  \A k \in DOMAIN circuits : \A i \in DOMAIN circuits[k].channels :
    LET p == circuits[k].channels[i] IN
    circuits[k].state # "dead"
      => circuit_manager[p] = k /\ p \notin needing
         /\ \A j \in DOMAIN circuits[k].channels : circuits[k].channels[j] = p => i = j

\* Is there at most one PV of this name?
AskedOnce(n) == \A p, q \in known : p.name = n /\ q.name = n => p = q

\* A result with the marker, which never expires, belongs to a circuit that
\* is not dead: a server that is gone can be offered only until its result
\* is stale.
\* Only a name that was asked for with two priorities, and found on two
\* servers, leaves one behind: reconnect takes it out of addr_to_names for
\* both when the first of them is lost, so the loss of the second misses it.
MarkerMeansChannel ==
  \A n \in Names : \A a \in Addrs :
    name_to_addrs[n][a] = "VALID" /\ (n \in addr_to_names[a] \/ AskedOnce(n))
      => \E k \in DOMAIN circuits :
           circuits[k].addr = a /\ circuits[k].state # "dead"
           /\ \E i \in DOMAIN circuits[k].channels : circuits[k].channels[i].name = n

\* A PV that was asked for is connected again after every loss, once the
\* servers stay up, unless one of the unhandled failures met it.
PvReconnects ==
  \A p \in PVs :
    <>[](up = Addrs) => []<>(p \in known => channel[p] # 0 \/ left[p] # None
                                            \/ search_loop = "ended")

\* "PVs will automatically begin attempting to reconnect to a responsive
\* server" when a server has stopped answering.
DeadCircuitIsLeft ==
  \A p \in known :
    LET k == circuit_manager[p] IN k # 0 /\ circuits[k].state = "dead" => p \in needing
=============================================================================
