------------------------- MODULE SharedBroadcaster -------------------------
(***************************************************************************)
(* How the threading client finds the servers of its PVs: the search half  *)
(* of SharedBroadcaster in caproto/threading/client.py.  Its threads are   *)
(*                                                                         *)
(*    the user's threads     search, cancel, and a Context's reconnect     *)
(*    the selector, 'command'  received, command_loop: datagrams -> queues *)
(*    'retry'                _retry_unanswered_searches                    *)
(*                                                                         *)
(* and what they share is guarded by _search_lock piece by piece, not as a *)
(* whole.  Requests and responses travel by UDP: they are lost, delayed    *)
(* and duplicated.                                                         *)
(*                                                                         *)
(* Instants are kept relative to the present, so that a behaviour can go   *)
(* on for ever in finitely many states: the `age' of something is how long *)
(* ago it happened, what is `left' is how long until it is due.  An age is *)
(* no longer counted once nothing can tell it from a greater one.  One     *)
(* turn of a thread takes less than a tick, so what happened k ticks ago   *)
(* happened a little more than k ago.                                      *)
(*                                                                         *)
(* Logging is left out, and with it results_by_cid, which only decides     *)
(* what is logged about a redundant response.  So is registering with the  *)
(* repeater, on which no search waits.                                     *)
(***************************************************************************)
EXTENDS Integers, Sequences, FiniteSets, SequencesExt

CONSTANTS
  Contexts, Names, Addresses,
  Has,                     \* Has[a]: the names the server at address a has
  MAX_ID,                  \* ids are 0 .. MAX_ID - 1
  MIN_RETRY_SEARCHES_INTERVAL, MAX_RETRY_SEARCHES_INTERVAL,
  SEARCH_RETIREMENT_AGE, RETRY_RETIRED_SEARCHES_INTERVAL,
  STALE_SEARCH_EXPIRATION,
  MaxSearches,             \* bound: names searched for
  MaxReconnects,           \* bound: circuits lost
  MaxSendErrors,           \* bound: sendto raising OSError
  MaxDatagram,             \* responses in one datagram
  NameServers,             \* datagrams may answer for several servers
  None

ASSUME HasAssumption == Has \in [Addresses -> SUBSET Names] /\ IsFiniteSet(Addresses)
ASSUME IntervalAssumption ==
  /\ MIN_RETRY_SEARCHES_INTERVAL \in Nat \ {0}
  /\ MAX_RETRY_SEARCHES_INTERVAL \in Nat \ {0}
  /\ SEARCH_RETIREMENT_AGE \in Nat
  /\ RETRY_RETIRED_SEARCHES_INTERVAL \in Nat \ {0}
  /\ STALE_SEARCH_EXPIRATION \in Nat
ASSUME IdAssumption ==     \* no id comes round again
  MAX_ID \in Nat \ {0} /\ MaxSearches \in Nat /\ MaxSearches <= MAX_ID

VARIABLES
  unanswered_searches,     \* id -> [name, queue, age, left]
  search_results,          \* name -> [address, age]
  server_protocol_versions,\* the addresses whose version is known
  last_id,                 \* _id_counter.value
  search_now,              \* the Event
  listeners, closed,       \* the WeakSet; _close_event
  command,                 \* the command thread and its bundle
  retry,                   \* the retry thread
  results,                 \* what each Context was told: name -> address
  net,                     \* responses under way: [cid, address]
  count,                   \* what the bounds bound
  owed                     \* (ghost) answers each Context has yet to get

vars == <<unanswered_searches, search_results, server_protocol_versions,
          last_id, search_now, listeners, closed,
          command, retry, results,
          net, count, owed>>

table    == <<unanswered_searches, search_results, server_protocol_versions, last_id>>
session  == <<listeners, closed>>
---------------------------------------------------------------------------
Least(a, b) == IF a < b THEN a ELSE b
Most(a, b)  == IF a > b THEN a ELSE b
Without(f, S) == [x \in DOMAIN f \ S |-> f[x]]
Times(q, x) == Cardinality({i \in DOMAIN q : q[i] = x})
With(f, x, v) == [y \in DOMAIN f \cup {x} |-> IF y = x THEN v ELSE f[y]]

\* last_search_time 0 is long ago: every interval has passed since.
LongAgo == MAX_RETRY_SEARCHES_INTERVAL

\* A mutant of new_id: the lowest free id, where late responses still answer
\* the search that had it before.
new_id_Lowest(last, inUse) ==
  CHOOSE i \in 0 .. MAX_ID : i \notin inUse /\ \A j \in 0 .. i - 1 : j \in inUse

\* ThreadsafeCounter.__call__: the next id that is not in use, going round.
new_id(last, inUse) ==
  LET steps == {k \in 1..MAX_ID : (last + k) % MAX_ID \notin inUse}
      first == CHOOSE k \in steps : \A j \in steps : k <= j
  IN  (last + first) % MAX_ID

Init ==
  /\ unanswered_searches = <<>> /\ search_results = <<>>
  /\ server_protocol_versions = {} /\ last_id = MAX_ID - 1
  /\ search_now = FALSE
  /\ listeners = Contexts /\ closed = FALSE
  /\ command = [at |-> "get", bundle |-> <<>>, popped |-> None,
                address |-> None, queues |-> [c \in Contexts |-> <<>>]]
  /\ retry = [at |-> "clear", items |-> {}, elapsed |-> 0,
              interval |-> MIN_RETRY_SEARCHES_INTERVAL,
              retirees |-> RETRY_RETIRED_SEARCHES_INTERVAL]
  /\ results = [c \in Contexts |-> <<>>]
  /\ net = {}
  /\ count = [searches |-> 0, reconnects |-> 0, errors |-> 0]
  /\ owed = [c \in Contexts |-> [n \in Names |-> 0]]
---------------------------------------------------------------------------
(* The user's threads *)

\* Whether the cached result of a name may still be used: it is young, or a
\* connected circuit of some listener has created a channel of that name.  A
\* Context that was told of a name has connected it, or is about to.
get_cached_search_result(cache, n, created) ==
  n \in DOMAIN cache /\ (cache[n].age > STALE_SEARCH_EXPIRATION => created)
MayBeCreated(n) == {FALSE, \E c \in listeners : n \in DOMAIN results[c]}

\* search(results_queue, {n}) given the cache as it is at that moment.
Search(c, n, cache, told, created) ==
  /\ IF get_cached_search_result(cache, n, created)
     THEN /\ results' = [results EXCEPT ![c] = With(told, n, cache[n].address)]
          /\ search_results' = IF cache[n].age > STALE_SEARCH_EXPIRATION
                               THEN [cache EXCEPT ![n].age = 0] ELSE cache
          /\ UNCHANGED <<unanswered_searches, last_id, owed>>
     ELSE LET id == new_id(last_id, DOMAIN unanswered_searches)
          IN  /\ unanswered_searches' =
                   With(unanswered_searches, id,
                        [name |-> n, queue |-> c, age |-> LongAgo,
                         left |-> SEARCH_RETIREMENT_AGE])
              /\ last_id' = id
              /\ search_results' = Without(cache, {n})
              /\ owed' = [owed EXCEPT ![c][n] = @ + 1]
              /\ results' = [results EXCEPT ![c] = told]
  /\ search_now' = TRUE

\* Context.get_pvs of a name it is not connected to.
search(c, n) ==
  /\ c \in listeners /\ count.searches < MaxSearches
  /\ n \notin DOMAIN results[c]
  /\ \E created \in MayBeCreated(n) : Search(c, n, search_results, results[c], created)
  /\ count' = [count EXCEPT !.searches = @ + 1]
  /\ UNCHANGED <<server_protocol_versions, session, command, retry, net>>

\* Context.reconnect after VirtualCircuitManager._disconnected: the circuit
\* that had n is lost, the cached result goes, and n is searched for again.
reconnect(c, n) ==
  /\ c \in listeners /\ n \in DOMAIN results[c]
  /\ count.reconnects < MaxReconnects /\ count.searches < MaxSearches
  /\ Search(c, n, Without(search_results, {n}), Without(results[c], {n}), FALSE)
  /\ count' = [count EXCEPT !.searches = @ + 1, !.reconnects = @ + 1]
  /\ UNCHANGED <<server_protocol_versions, session, command, retry, net>>

\* The searches for n, of every Context, are forgotten.
cancel(n) ==
  LET ids == {i \in DOMAIN unanswered_searches : unanswered_searches[i].name = n}
  IN  /\ ids # {}
      /\ unanswered_searches' = Without(unanswered_searches, ids)
      /\ owed' = [c \in Contexts |-> [owed[c] EXCEPT ![n] =
                     @ - Cardinality({i \in ids : unanswered_searches[i].queue = c})]]
      /\ UNCHANGED <<search_results, server_protocol_versions, last_id, search_now,
                     session, command, retry, results, net, count>>

\* A Context goes away; the last one takes the broadcaster with it.
remove_listener(c) ==
  /\ c \in listeners
  /\ listeners' = listeners \ {c}
  /\ results' = [results EXCEPT ![c] = <<>>]
  /\ IF listeners' = {}
     THEN closed' = TRUE /\ search_results' = <<>>
     ELSE UNCHANGED <<closed, search_results>>
  /\ UNCHANGED <<unanswered_searches, server_protocol_versions, last_id, search_now,
                 command, retry, net, count, owed>>
---------------------------------------------------------------------------
(* A datagram arrives *)

\* The selector hands the datagram to the command thread: a bundle that waits
\* in command_bundle_queue might as well still be under way.
CommandGet(bundle) ==
  /\ command.at = "get" /\ ~closed
  /\ command' = [command EXCEPT !.at = "each", !.bundle = bundle]

\* Responses of one server, or of several where a name server answers; each
\* may arrive again.
received(ms) ==
  /\ ms # {} /\ Cardinality(ms) <= MaxDatagram
  /\ NameServers \/ Cardinality({m.address : m \in ms}) = 1
  /\ \E order \in SetToSeqs(ms) : CommandGet(order)
  /\ UNCHANGED <<table, search_now, session, retry, results, net,
                 count, owed>>

\* Or it does not; that, too, comes out when the command thread is free.
Lose(m) ==
  /\ command.at = "get"
  /\ net' = net \ {m}
  /\ UNCHANGED <<table, search_now, session, command, retry,
                 results, count, owed>>
---------------------------------------------------------------------------
(* The command thread *)

\* A Beacon of a new server, or of one that may have restarted (see
\* ServerMonitor), brings the unanswered searches out of retirement.
_new_server_found ==
  /\ command.at = "get" /\ ~closed
  /\ unanswered_searches' = [i \in DOMAIN unanswered_searches |->
       [unanswered_searches[i] EXCEPT !.left = SEARCH_RETIREMENT_AGE]]
  /\ UNCHANGED <<search_results, server_protocol_versions, last_id, search_now, session,
                 command, retry, results, net, count, owed>>

\* The first half of a SearchResponse, under the lock: whose search is it?
\* A redundant response is ignored.
CommandPop ==
  /\ command.at = "each" /\ command.bundle # <<>>
  /\ LET cid == Head(command.bundle).cid
     IN  IF cid \in DOMAIN unanswered_searches
         THEN /\ command' = [command EXCEPT !.at = "cache",
                                            !.popped = unanswered_searches[cid]]
              /\ unanswered_searches' = Without(unanswered_searches, {cid})
         ELSE /\ command' = [command EXCEPT !.bundle = Tail(@)]
              /\ UNCHANGED unanswered_searches
  /\ UNCHANGED <<search_results, server_protocol_versions, last_id, search_now, session,
                 retry, results, net, count, owed>>

\* The second half, after the lock was free for a while.
CommandCache ==
  /\ command.at = "cache"
  /\ LET a == Head(command.bundle).address
         s == command.popped
     IN  /\ command' = [command EXCEPT !.at = "each", !.bundle = Tail(@), !.popped = None,
                                       !.address = a,
                                       !.queues[s.queue] = Append(@, s.name)]
         /\ search_results' = With(search_results, s.name, [address |-> a, age |-> 0])
         /\ server_protocol_versions' = server_protocol_versions \cup {a}
  /\ UNCHANGED <<unanswered_searches, last_id, search_now, session,
                 retry, results, net, count, owed>>

\* What is told about a bundle: to each queue its names, with the address
\* last seen.
Report ==
  /\ command.at = "each" /\ command.bundle = <<>>
  /\ results' = [c \in Contexts |->
                   [n \in DOMAIN results[c] \cup ToSet(command.queues[c]) |->
                      IF n \in ToSet(command.queues[c]) THEN command.address
                      ELSE results[c][n]]]
  /\ owed' = [c \in Contexts |-> [n \in Names |->
                owed[c][n] - Times(command.queues[c], n)]]
  /\ UNCHANGED <<table, search_now, session, retry, net, count>>

\* A mutant of CommandReport: `queues' is not cleared for the next bundle.
CommandReport_Uncleared ==
  Report /\ command' = [command EXCEPT !.at = "get", !.address = None]

CommandReport ==
  Report /\ command' = [command EXCEPT !.at = "get", !.address = None,
                                       !.queues = [c \in Contexts |-> <<>>]]
---------------------------------------------------------------------------
(* The retry thread *)

\* A mutant of Due: searches past their deadline are never looked at again.
Due_NoRetirees(s, all) == s.left > 0

\* Which searches are considered at all ...
Due(s, all) == all \/ s.left > 0

\* ... and which of them go out: those not sent for an interval.  Before,
\* _search_now.clear(), also when it was set after wait() returned.
RetrySelect ==
  /\ retry.at = "clear" /\ ~closed
  /\ search_now' = FALSE
  /\ LET all == retry.retirees <= 0
         ids == {i \in DOMAIN unanswered_searches :
                   /\ Due(unanswered_searches[i], all)
                   /\ unanswered_searches[i].age >= retry.interval}
     IN  retry' = [retry EXCEPT
           !.at = "send", !.items = {[id |-> i, name |-> unanswered_searches[i].name] : i \in ids},
           !.elapsed = 0,
           !.retirees = IF all THEN @ + RETRY_RETIRED_SEARCHES_INTERVAL ELSE @]
  /\ UNCHANGED <<table, session, command, results, net, count, owed>>

\* The requests go out, also those answered or cancelled in the meantime.
\* Every server that has the name responds.  Without a socket send() returns.
RetrySend ==
  /\ retry.at = "send"
  /\ unanswered_searches' = [i \in DOMAIN unanswered_searches |->
       IF \E it \in retry.items : it.id = i THEN [unanswered_searches[i] EXCEPT !.age = 0]
       ELSE unanswered_searches[i]]
  /\ net' = IF closed THEN net
            ELSE net \cup {m \in [cid : {it.id : it \in retry.items}, address : Addresses] :
                             \E it \in retry.items : it.id = m.cid /\ it.name \in Has[m.address]}
  /\ retry' = [retry EXCEPT !.at = "wait", !.items = {}]
  /\ UNCHANGED <<search_results, server_protocol_versions, last_id, search_now, session,
                 command, results, count, owed>>

\* sendto raises OSError: send() raises, nobody catches it, the thread ends.
RetrySendError ==
  /\ retry.at = "send" /\ retry.items # {} /\ ~closed
  /\ count.errors < MaxSendErrors
  /\ count' = [count EXCEPT !.errors = @ + 1]
  /\ retry' = [retry EXCEPT !.at = "dead", !.items = {}]
  /\ UNCHANGED <<table, search_now, session, command, results, net, owed>>

\* _search_now.wait(interval) returns, because of the Event or of the time.
RetryWake ==
  /\ retry.at = "wait"
  /\ \/ /\ search_now
        /\ retry' = [retry EXCEPT !.at = "clear", !.retirees = -retry.elapsed,
                                  !.interval = MIN_RETRY_SEARCHES_INTERVAL]
     \/ /\ ~search_now /\ retry.elapsed = retry.interval
        /\ retry' = [retry EXCEPT !.at = "clear",
                                  !.interval = Least(2 * @, MAX_RETRY_SEARCHES_INTERVAL)]
  /\ UNCHANGED <<table, search_now, session, command, results, net, count, owed>>

---------------------------------------------------------------------------
\* Time passes, while the retry thread sleeps or has ended.
Tick ==
  /\ ~closed
  /\ \/ retry.at = "wait" /\ retry.elapsed < retry.interval
     \/ retry.at = "dead"
  /\ unanswered_searches' = [i \in DOMAIN unanswered_searches |->
       [unanswered_searches[i] EXCEPT !.age = Least(@ + 1, LongAgo),
                                      !.left = Most(@ - 1, 0)]]
  /\ search_results' = [n \in DOMAIN search_results |->
       [search_results[n] EXCEPT !.age = Least(@ + 1, STALE_SEARCH_EXPIRATION + 1)]]
  /\ retry' = IF retry.at = "wait"
              THEN [retry EXCEPT !.elapsed = @ + 1,
                                 !.retirees = Most(@ - 1, -RETRY_RETIRED_SEARCHES_INTERVAL)]
              ELSE retry
  /\ UNCHANGED <<server_protocol_versions, last_id, search_now, session,
                 command, results, net,
                 count, owed>>

Command == CommandPop \/ CommandCache \/ CommandReport
Retry   == RetrySelect \/ RetrySend \/ RetryWake

Next ==
  \/ \E c \in Contexts, n \in Names : search(c, n) \/ reconnect(c, n)
  \/ \E c \in Contexts : remove_listener(c)
  \/ \E n \in Names : cancel(n)
  \/ \E ms \in SUBSET net : received(ms)
  \/ \E m \in net : Lose(m)
  \/ _new_server_found \/ Command \/ Retry \/ RetrySendError \/ Tick

Spec == Init /\ [][Next]_vars

(* Threads keep running and time keeps passing.  A response to a request    *)
(* that is sent again and again gets through some day.                     *)
Messages == [cid : 0 .. MAX_ID - 1, address : Addresses]
Arrives(m) == m \in net /\ received({m})
FairSpec == /\ Spec /\ WF_vars(Command) /\ WF_vars(Retry) /\ WF_vars(Tick)
            /\ \A m \in Messages : SF_vars(Arrives(m))
---------------------------------------------------------------------------
(* Whoever is told where a name is, by a queue or by the cache, is told an *)
(* address whose server has that name: responses are matched to searches   *)
(* by cid across threads that come and go between request and response.    *)
ResultsAreReal ==
  /\ \A n \in DOMAIN search_results : n \in Has[search_results[n].address]
  /\ \A c \in Contexts : \A n \in DOMAIN results[c] : n \in Has[results[c][n]]

(* No search is lost and none is answered twice: what a Context has yet to *)
(* be told is still unanswered or in the command thread's hands, whatever  *)
(* responses are duplicated, late or redundant.                            *)
Unanswered(c, n) ==
  {i \in DOMAIN unanswered_searches :
     unanswered_searches[i].queue = c /\ unanswered_searches[i].name = n}
Popped(c, n) == command.at = "cache" /\ command.popped.queue = c /\ command.popped.name = n
SearchesAreConserved ==
  \A c \in Contexts, n \in Names :
    owed[c][n] = Cardinality(Unanswered(c, n)) + (IF Popped(c, n) THEN 1 ELSE 0)
                   + Times(command.queues[c], n)

(* A search for a name that some server has is answered in the end, also   *)
(* one that was retired, whatever is lost, unless it is cancelled, the     *)
(* broadcaster is closed or the retry thread has died of a network error.  *)
Found(i) == \E a \in Addresses : unanswered_searches[i].name \in Has[a]
SearchIsAnswered ==
  \A i \in 0 .. MAX_ID - 1 :
    (i \in DOMAIN unanswered_searches /\ Found(i))
      ~> (i \notin DOMAIN unanswered_searches \/ closed \/ retry.at = "dead")

=============================================================================
