---------------------- MODULE SharedBroadcasterProofs ----------------------
(***************************************************************************)
(* Proofs about SharedBroadcaster, for any contexts, names, servers, ids,  *)
(* intervals and bounds.                                                   *)
(***************************************************************************)
EXTENDS SharedBroadcaster, FiniteSetTheorems, TLAPS

Ids   == 0 .. MAX_ID - 1
Entry == [name : Names, queue : Contexts, age : Int, left : Int]
CommandType == [at : {"get", "each", "cache"}, bundle : Seq(Messages),
                popped : Entry \cup {None}, address : Addresses \cup {None},
                queues : [Contexts -> Seq(Names)]]
RetryType == [at : {"clear", "send", "wait", "dead"}, items : SUBSET [id : Ids, name : Names],
              elapsed : Int, interval : Int, retirees : Int]
TypeOK ==
  /\ DOMAIN unanswered_searches \subseteq Ids
  /\ unanswered_searches \in [DOMAIN unanswered_searches -> Entry]
  /\ DOMAIN search_results \subseteq Names
  /\ search_results \in [DOMAIN search_results -> [address : Addresses, age : Int]]
  /\ server_protocol_versions \subseteq Addresses
  /\ last_id \in Ids /\ search_now \in BOOLEAN
  /\ listeners \subseteq Contexts /\ closed \in BOOLEAN
  /\ command \in CommandType
  /\ retry \in RetryType
  /\ DOMAIN results = Contexts
  /\ \A c \in Contexts : /\ DOMAIN results[c] \subseteq Names
                        /\ results[c] \in [DOMAIN results[c] -> Addresses \cup {None}]
  /\ net \subseteq Messages
  /\ count \in [searches : 0 .. MaxSearches, reconnects : Nat, errors : Nat]
  /\ owed \in [Contexts -> [Names -> Int]]

\* What the command thread has in hand at each of its stations.
CommandOK ==
  /\ command.at = "get" => /\ command.bundle = <<>>
                           /\ command.queues = [c \in Contexts |-> <<>>]
  /\ command.at = "cache" => command.popped \in Entry /\ command.bundle # <<>>

\* The first k ids have been given out, and no other is known to anybody.
KnownIds == DOMAIN unanswered_searches \cup {it.id : it \in retry.items} \cup {m.cid : m \in net}
              \cup {command.bundle[i].cid : i \in DOMAIN command.bundle}
Issued(k) ==
  /\ last_id = IF k = 0 THEN MAX_ID - 1 ELSE k - 1
  /\ KnownIds \subseteq 0 .. k - 1
IdsAreNew == \E k \in 0 .. count.searches : Issued(k)

\* A request or a response with the id of a search that is still unanswered
\* is one about the name of that search.
About(m) == m.cid \in DOMAIN unanswered_searches
              => unanswered_searches[m.cid].name \in Has[m.address]
IdsAreRight ==
  /\ \A it \in retry.items : it.id \in DOMAIN unanswered_searches
                               => unanswered_searches[it.id].name = it.name
  /\ \A m \in net : About(m)
  /\ \A i \in DOMAIN command.bundle : About(command.bundle[i])
  /\ command.at = "cache" => command.popped.name \in Has[Head(command.bundle).address]

\* A bundle comes from one server, which is the one to be reported.
OneServer ==
  /\ \A i, j \in DOMAIN command.bundle : command.bundle[i].address = command.bundle[j].address
  /\ \A c \in Contexts : \A i \in DOMAIN command.queues[c] :
       /\ command.address \in Addresses /\ command.queues[c][i] \in Has[command.address]
       /\ \A j \in DOMAIN command.bundle : command.bundle[j].address = command.address

IInv == IdsAreNew /\ IdsAreRight /\ OneServer /\ ResultsAreReal

\* As long as ids do not come round, the next one is the successor of the last.
LEMMA NextId ==
  ASSUME NEW k \in 0 .. MAX_ID - 1, NEW inUse \in SUBSET (0 .. k - 1)
  PROVE  new_id(IF k = 0 THEN MAX_ID - 1 ELSE k - 1, inUse) = k
<1>. DEFINE last == IF k = 0 THEN MAX_ID - 1 ELSE k - 1
            steps == {i \in 1 .. MAX_ID : (last + i) % MAX_ID \notin inUse}
            first == CHOOSE i \in steps : \A j \in steps : i <= j
<1>1. (last + 1) % MAX_ID = k
  <2>1. CASE k = 0
    <3>1. last + 1 = MAX_ID /\ MAX_ID \in Nat \ {0}
      BY <2>1, IdAssumption
    <3>. QED  BY <2>1, <3>1
  <2>2. CASE k # 0
    <3>1. last + 1 = k /\ MAX_ID \in Nat \ {0} /\ k < MAX_ID
      BY <2>2, IdAssumption
    <3>. QED  BY <2>2, <3>1
  <2>. QED  BY <2>1, <2>2
<1>2. 1 \in steps /\ \A j \in steps : 1 <= j
  BY <1>1, IdAssumption
<1>3. first = 1
  BY <1>2
<1>. QED  BY <1>1, <1>3 DEF new_id
---------------------------------------------------------------------------
(***************************************************************************)
(* Type correctness.                                                       *)
(***************************************************************************)
LEMMA InitBase == Init => TypeOK /\ CommandOK /\ IdsAreNew
<1>. SUFFICES ASSUME Init PROVE TypeOK /\ CommandOK /\ IdsAreNew
  OBVIOUS
<1>1. TypeOK
  <2>1. /\ DOMAIN unanswered_searches \subseteq Ids
        /\ unanswered_searches \in [DOMAIN unanswered_searches -> Entry]
        /\ DOMAIN search_results \subseteq Names
        /\ search_results \in [DOMAIN search_results -> [address : Addresses, age : Int]]
    BY DEF Init
  <2>2. last_id \in Ids /\ count \in [searches : 0 .. MaxSearches, reconnects : Nat, errors : Nat]
    BY IdAssumption DEF Init, Ids
  <2>3. command \in CommandType
    BY DEF Init, CommandType
  <2>4. retry \in RetryType
    BY IntervalAssumption DEF Init, RetryType
  <2>5. \A c \in Contexts : /\ DOMAIN results[c] \subseteq Names
                          /\ results[c] \in [DOMAIN results[c] -> Addresses \cup {None}]
    BY DEF Init
  <2>6. owed \in [Contexts -> [Names -> Int]] /\ DOMAIN results = Contexts
    BY DEF Init
  <2>7. /\ server_protocol_versions \subseteq Addresses /\ search_now \in BOOLEAN
        /\ listeners \subseteq Contexts /\ closed \in BOOLEAN /\ net \subseteq Messages
    BY DEF Init
  <2>. QED  BY <2>1, <2>2, <2>3, <2>4, <2>5, <2>6, <2>7 DEF TypeOK
<1>2. CommandOK
  BY DEF Init, CommandOK
<1>3. IdsAreNew
  <2>1. Issued(0)
    BY DEF Init, Issued, KnownIds
  <2>2. 0 \in 0 .. count.searches
    BY DEF Init
  <2>. QED  BY <2>1, <2>2 DEF IdsAreNew
<1>. QED  BY <1>1, <1>2, <1>3

\* Where a search gets its id.
LEMMA IdOfSearch ==
  ASSUME TypeOK, IdsAreNew, count.searches < MaxSearches
  PROVE  \E k \in 0 .. count.searches :
           /\ Issued(k) /\ k \in Ids /\ new_id(last_id, DOMAIN unanswered_searches) = k
           /\ k \notin DOMAIN unanswered_searches
<1>1. PICK k \in 0 .. count.searches : Issued(k)
  BY DEF IdsAreNew
<1>2. k \in 0 .. MAX_ID - 1
  BY IdAssumption DEF TypeOK
<1>3. new_id(last_id, DOMAIN unanswered_searches) = k
  BY <1>1, <1>2, NextId DEF Issued, KnownIds
<1>. QED  BY <1>1, <1>2, <1>3 DEF Ids, Issued, KnownIds

LEMMA CountType ==
  ASSUME TypeOK, \/ /\ count.searches < MaxSearches
                    /\ \/ count' = [count EXCEPT !.searches = @ + 1]
                       \/ count' = [count EXCEPT !.searches = @ + 1, !.reconnects = @ + 1]
                 \/ count' = [count EXCEPT !.errors = @ + 1]
  PROVE  /\ count' \in [searches : 0 .. MaxSearches, reconnects : Nat, errors : Nat]
         /\ count'.searches >= count.searches
<1>1. /\ count \in [searches : 0 .. MaxSearches, reconnects : Nat, errors : Nat]
      /\ MaxSearches \in Nat
  BY IdAssumption DEF TypeOK
<1>2. CASE count.searches < MaxSearches /\ count' = [count EXCEPT !.searches = @ + 1]
  BY <1>1, <1>2
<1>3. CASE count.searches < MaxSearches
           /\ count' = [count EXCEPT !.searches = @ + 1, !.reconnects = @ + 1]
  <2>1. count' = [searches |-> count.searches + 1, reconnects |-> count.reconnects + 1,
                  errors |-> count.errors]
    BY <1>1, <1>3
  <2>. QED  BY <1>1, <1>3, <2>1
<1>4. CASE count' = [count EXCEPT !.errors = @ + 1]
  BY <1>1, <1>4
<1>. QED  BY <1>2, <1>3, <1>4

\* A search, from get_pvs or after a circuit was lost.
SearchTyped ==
  /\ DOMAIN unanswered_searches' \subseteq Ids
  /\ unanswered_searches' \in [DOMAIN unanswered_searches' -> Entry]
  /\ DOMAIN search_results' \subseteq Names
  /\ search_results' \in [DOMAIN search_results' -> [address : Addresses, age : Int]]
  /\ last_id' \in Ids /\ search_now' \in BOOLEAN
  /\ DOMAIN results' = Contexts
  /\ \A d \in Contexts : /\ DOMAIN results'[d] \subseteq Names
                        /\ results'[d] \in [DOMAIN results'[d] -> Addresses \cup {None}]
  /\ owed' \in [Contexts -> [Names -> Int]]

LEMMA SearchTypes ==
  ASSUME TypeOK, IdsAreNew, count.searches < MaxSearches,
         NEW c \in Contexts, NEW n \in Names, NEW cache, NEW told, NEW created,
         DOMAIN cache \subseteq Names,
         cache \in [DOMAIN cache -> [address : Addresses, age : Int]],
         DOMAIN told \subseteq Names, told \in [DOMAIN told -> Addresses \cup {None}],
         Search(c, n, cache, told, created)
  PROVE  SearchTyped
<1>. USE DEF SearchTyped
<1>1. CASE get_cached_search_result(cache, n, created)
  <2>1. n \in DOMAIN cache /\ cache[n].address \in Addresses
    BY <1>1 DEF get_cached_search_result
  <2>2. /\ results' = [results EXCEPT ![c] = With(told, n, cache[n].address)]
        /\ search_results' = IF cache[n].age > STALE_SEARCH_EXPIRATION
                             THEN [cache EXCEPT ![n].age = 0] ELSE cache
        /\ UNCHANGED <<unanswered_searches, last_id, owed>>
        /\ search_now' = TRUE
    BY <1>1 DEF Search
  <2>. DEFINE new == With(told, n, cache[n].address)
  <2>3. DOMAIN new \subseteq Names /\ new \in [DOMAIN new -> Addresses \cup {None}]
    BY <2>1 DEF With
  <2>. HIDE DEF new
  <2>4. /\ DOMAIN results' = Contexts
        /\ \A d \in Contexts : /\ DOMAIN results'[d] \subseteq Names
                              /\ results'[d] \in [DOMAIN results'[d] -> Addresses \cup {None}]
    BY <2>2, <2>3 DEF TypeOK, new
  <2>5. /\ DOMAIN search_results' \subseteq Names
        /\ search_results' \in [DOMAIN search_results' -> [address : Addresses, age : Int]]
    BY <2>1, <2>2
  <2>. QED  BY <2>2, <2>4, <2>5 DEF TypeOK
<1>2. CASE ~get_cached_search_result(cache, n, created)
  <2>1. PICK k \in Ids : k = new_id(last_id, DOMAIN unanswered_searches)
    BY IdOfSearch
  <2>. DEFINE e == [name |-> n, queue |-> c, age |-> LongAgo, left |-> SEARCH_RETIREMENT_AGE]
  <2>2. e \in Entry
    BY IntervalAssumption DEF Entry, LongAgo
  <2>3. /\ unanswered_searches' = With(unanswered_searches, k, e)
        /\ last_id' = k
        /\ search_results' = Without(cache, {n})
        /\ owed' = [owed EXCEPT ![c][n] = @ + 1]
        /\ results' = [results EXCEPT ![c] = told]
        /\ search_now' = TRUE
    BY <1>2, <2>1 DEF Search
  <2>. HIDE DEF e
  <2>4. /\ DOMAIN unanswered_searches' \subseteq Ids
        /\ unanswered_searches' \in [DOMAIN unanswered_searches' -> Entry]
    <3>1. unanswered_searches \in [DOMAIN unanswered_searches -> Entry]
      BY DEF TypeOK
    <3>2. DOMAIN unanswered_searches' = DOMAIN unanswered_searches \cup {k}
      BY <2>3 DEF With
    <3>. QED  BY <2>1, <2>2, <2>3, <3>1, <3>2 DEF TypeOK, With
  <2>5. /\ DOMAIN search_results' \subseteq Names
        /\ search_results' \in [DOMAIN search_results' -> [address : Addresses, age : Int]]
    BY <2>3 DEF Without
  <2>6. owed' \in [Contexts -> [Names -> Int]]
    BY <2>3 DEF TypeOK
  <2>7. /\ DOMAIN results' = Contexts
        /\ \A d \in Contexts : /\ DOMAIN results'[d] \subseteq Names
                              /\ results'[d] \in [DOMAIN results'[d] -> Addresses \cup {None}]
    BY <2>3 DEF TypeOK
  <2>. QED  BY <2>1, <2>3, <2>4, <2>5, <2>6, <2>7
<1>. QED  BY <1>1, <1>2

LEMMA UserType ==
  ASSUME TypeOK, IdsAreNew,
         \/ \E c \in Contexts, n \in Names : search(c, n) \/ reconnect(c, n)
         \/ \E c \in Contexts : remove_listener(c)
         \/ \E n \in Names : cancel(n)
  PROVE  TypeOK'
<1>. USE DEF session
<1>1. ASSUME NEW c \in Contexts, NEW n \in Names, search(c, n) PROVE TypeOK'
  <2>1. PICK created : Search(c, n, search_results, results[c], created)
    BY <1>1 DEF search
  <2>2. count' \in [searches : 0 .. MaxSearches, reconnects : Nat, errors : Nat]
    BY <1>1, CountType DEF search
  <2>3. count.searches < MaxSearches
    BY <1>1 DEF search
  <2>4. /\ DOMAIN search_results \subseteq Names
        /\ search_results \in [DOMAIN search_results -> [address : Addresses, age : Int]]
        /\ DOMAIN results[c] \subseteq Names
        /\ results[c] \in [DOMAIN results[c] -> Addresses \cup {None}]
    BY DEF TypeOK
  <2>5. UNCHANGED <<server_protocol_versions, session, command, retry, net>>
    BY <1>1 DEF search
  <2>6. SearchTyped
    BY <2>1, <2>3, <2>4, SearchTypes
  <2>. QED  BY <2>2, <2>5, <2>6 DEF TypeOK, SearchTyped
<1>2. ASSUME NEW c \in Contexts, NEW n \in Names, reconnect(c, n) PROVE TypeOK'
  <2>. DEFINE cache == Without(search_results, {n})
              told == Without(results[c], {n})
  <2>1. PICK created : Search(c, n, cache, told, created)
    BY <1>2 DEF reconnect
  <2>2. count' \in [searches : 0 .. MaxSearches, reconnects : Nat, errors : Nat]
    BY <1>2, CountType DEF reconnect
  <2>3. count.searches < MaxSearches
    BY <1>2 DEF reconnect
  <2>4. /\ DOMAIN cache \subseteq Names
        /\ cache \in [DOMAIN cache -> [address : Addresses, age : Int]]
    BY DEF TypeOK, Without
  <2>5. /\ DOMAIN told \subseteq Names
        /\ told \in [DOMAIN told -> Addresses \cup {None}]
    BY DEF TypeOK, Without
  <2>6. UNCHANGED <<server_protocol_versions, session, command, retry, net>>
    BY <1>2 DEF reconnect
  <2>. HIDE DEF cache, told
  <2>7. SearchTyped
    BY <2>1, <2>3, <2>4, <2>5, SearchTypes
  <2>. QED  BY <2>2, <2>6, <2>7 DEF TypeOK, SearchTyped
<1>3. ASSUME NEW c \in Contexts, remove_listener(c) PROVE TypeOK'
  <2>1. \A d \in Contexts :
          /\ DOMAIN results'[d] \subseteq Names
          /\ results'[d] \in [DOMAIN results'[d] -> Addresses \cup {None}]
    <3>. SUFFICES ASSUME NEW d \in Contexts
                  PROVE  /\ DOMAIN results'[d] \subseteq Names
                         /\ results'[d] \in [DOMAIN results'[d] -> Addresses \cup {None}]
      OBVIOUS
    <3>1. results'[d] = IF d = c THEN <<>> ELSE results[d]
      BY <1>3 DEF remove_listener, TypeOK
    <3>. QED  BY <3>1 DEF TypeOK
  <2>2. /\ DOMAIN search_results' \subseteq Names
        /\ search_results' \in [DOMAIN search_results' -> [address : Addresses, age : Int]]
    <3>1. search_results' = <<>> \/ search_results' = search_results
      BY <1>3 DEF remove_listener
    <3>2. CASE search_results' = <<>>
      BY <3>2
    <3>3. CASE search_results' = search_results
      BY <3>3 DEF TypeOK
    <3>. QED  BY <3>1, <3>2, <3>3
  <2>. QED  BY <1>3, <2>1, <2>2 DEF remove_listener, TypeOK
<1>4. ASSUME NEW n \in Names, cancel(n) PROVE TypeOK'
  <2>. DEFINE ids == {i \in DOMAIN unanswered_searches : unanswered_searches[i].name = n}
              Of(c) == {i \in ids : unanswered_searches[i].queue = c}
  <2>1. \A c \in Contexts : Cardinality(Of(c)) \in Nat
    <3>1. IsFiniteSet(Ids)
      BY FS_Interval, IdAssumption DEF Ids
    <3>2. \A c : Of(c) \subseteq Ids
      BY DEF TypeOK
    <3>. QED  BY <3>1, <3>2, FS_Subset, FS_CardinalityType
  <2>2. owed' = [c \in Contexts |-> [owed[c] EXCEPT ![n] = @ - Cardinality(Of(c))]]
    BY <1>4 DEF cancel
  <2>. HIDE DEF Of
  <2>3. owed' \in [Contexts -> [Names -> Int]]
    BY <2>1, <2>2 DEF TypeOK
  <2>4. unanswered_searches' = Without(unanswered_searches, ids)
    BY <1>4 DEF cancel
  <2>5. /\ DOMAIN unanswered_searches' \subseteq Ids
        /\ unanswered_searches' \in [DOMAIN unanswered_searches' -> Entry]
    <3>1. DOMAIN unanswered_searches' = DOMAIN unanswered_searches \ ids
      BY <2>4 DEF Without
    <3>2. \A i \in DOMAIN unanswered_searches \ ids : unanswered_searches'[i] = unanswered_searches[i]
      BY <2>4 DEF Without
    <3>3. unanswered_searches' = [i \in DOMAIN unanswered_searches' |-> unanswered_searches'[i]]
      BY <2>4 DEF Without
    <3>. QED  BY <3>1, <3>2, <3>3 DEF TypeOK
  <2>. QED  BY <1>4, <2>3, <2>5 DEF cancel, TypeOK
<1>. QED  BY <1>1, <1>2, <1>3, <1>4

\* What the retry thread and time do to the entries of unanswered_searches:
\* they are the same searches, only sent and aged.
SameSearches ==
  /\ DOMAIN unanswered_searches' = DOMAIN unanswered_searches
  /\ unanswered_searches' \in [DOMAIN unanswered_searches -> Entry]
  /\ \A i \in DOMAIN unanswered_searches :
       /\ unanswered_searches'[i].name = unanswered_searches[i].name
       /\ unanswered_searches'[i].queue = unanswered_searches[i].queue

LEMMA Touched ==
  ASSUME TypeOK, _new_server_found \/ RetrySend \/ Tick
  PROVE  SameSearches
<1>1. ASSUME NEW i \in DOMAIN unanswered_searches
      PROVE  unanswered_searches[i] \in Entry
  BY DEF TypeOK
<1>2. CASE _new_server_found
  <2>1. ASSUME NEW i \in DOMAIN unanswered_searches
        PROVE  LET e == [unanswered_searches[i] EXCEPT !.left = SEARCH_RETIREMENT_AGE]
               IN  /\ e \in Entry /\ e.name = unanswered_searches[i].name
                   /\ e.queue = unanswered_searches[i].queue
    BY <1>1, IntervalAssumption DEF Entry
  <2>. QED  BY <1>2, <2>1 DEF _new_server_found, SameSearches
<1>3. CASE RetrySend
  <2>1. ASSUME NEW i \in DOMAIN unanswered_searches
        PROVE  LET e == [unanswered_searches[i] EXCEPT !.age = 0]
               IN  /\ e \in Entry /\ e.name = unanswered_searches[i].name
                   /\ e.queue = unanswered_searches[i].queue
    BY <1>1 DEF Entry
  <2>. QED  BY <1>1, <1>3, <2>1 DEF RetrySend, SameSearches
<1>4. CASE Tick
  <2>1. ASSUME NEW i \in DOMAIN unanswered_searches
        PROVE  LET e == [unanswered_searches[i] EXCEPT !.age = Least(@ + 1, LongAgo),
                                                       !.left = Most(@ - 1, 0)]
               IN  /\ e \in Entry /\ e.name = unanswered_searches[i].name
                   /\ e.queue = unanswered_searches[i].queue
    <3>1. /\ unanswered_searches[i] \in Entry
          /\ Least(unanswered_searches[i].age + 1, LongAgo) \in Int
          /\ Most(unanswered_searches[i].left - 1, 0) \in Int
      BY <1>1, IntervalAssumption DEF Entry, Least, Most, LongAgo
    <3>. DEFINE x == Least(unanswered_searches[i].age + 1, LongAgo)
                y == Most(unanswered_searches[i].left - 1, 0)
    <3>2. x \in Int /\ y \in Int
      BY <3>1
    <3>. HIDE DEF x, y
    <3>3. LET e == [unanswered_searches[i] EXCEPT !.age = x, !.left = y]
          IN  /\ e \in Entry /\ e.name = unanswered_searches[i].name
              /\ e.queue = unanswered_searches[i].queue
      BY <3>1, <3>2 DEF Entry
    <3>. QED  BY <3>3 DEF x, y
  <2>. QED  BY <1>4, <2>1 DEF Tick, SameSearches
<1>. QED  BY <1>2, <1>3, <1>4

\* A datagram reaches the command thread, or gets lost.
LEMMA BundleType ==
  ASSUME TypeOK, NEW ms \in SUBSET net, received(ms)
  PROVE  \E order \in Seq(ms) :
           /\ command' = [command EXCEPT !.at = "each", !.bundle = order]
           /\ command.at = "get"
<1>1. PICK order \in SetToSeqs(ms) : CommandGet(order)
  BY DEF received
<1>2. order \in [1 .. Cardinality(ms) -> ms] /\ Cardinality(ms) \in Nat
  <2>1. order \in [1 .. Cardinality(ms) -> ms]
    BY <1>1 DEF SetToSeqs
  <2>2. IsFiniteSet(Messages)
    <3>1. IsFiniteSet(Ids \X Addresses)
      <4>1. IsFiniteSet(Ids)
        BY FS_Interval, IdAssumption DEF Ids
      <4>. QED  BY <4>1, FS_Product, HasAssumption
    <3>. DEFINE f == [x \in Ids \X Addresses |-> [cid |-> x[1], address |-> x[2]]]
    <3>2. \A m \in Messages : \E x \in Ids \X Addresses : f[x] = m
      <4>. SUFFICES ASSUME NEW m \in Messages PROVE \E x \in Ids \X Addresses : f[x] = m
        OBVIOUS
      <4>1. <<m.cid, m.address>> \in Ids \X Addresses /\ m = [cid |-> m.cid, address |-> m.address]
        BY DEF Messages, Ids
      <4>. QED  BY <4>1
    <3>3. f \in Surjection(Ids \X Addresses, Messages)
      BY <3>2 DEF Surjection, Messages, Ids
    <3>. QED  BY <3>1, <3>3, FS_Surjection
  <2>3. IsFiniteSet(ms)
    BY <2>2, FS_Subset DEF TypeOK
  <2>. QED  BY <2>1, <2>3, FS_CardinalityType
<1>3. order \in Seq(ms)
  BY <1>2
<1>. QED  BY <1>1, <1>3 DEF CommandGet

LEMMA ReceivedFacts ==
  ASSUME TypeOK, NEW ms \in SUBSET net, received(ms)
  PROVE  \E order \in Seq(ms) :
           /\ command.at = "get" /\ order \in Seq(Messages)
           /\ command' = [at |-> "each", bundle |-> order, popped |-> command.popped,
                          address |-> command.address, queues |-> command.queues]
<1>1. PICK order \in Seq(ms) : /\ command' = [command EXCEPT !.at = "each", !.bundle = order]
                               /\ command.at = "get"
  BY BundleType
<1>2. command \in CommandType
  BY DEF TypeOK
<1>3. command' = [at |-> "each", bundle |-> order, popped |-> command.popped,
                  address |-> command.address, queues |-> command.queues]
  BY <1>1, <1>2 DEF CommandType
<1>4. order \in Seq(Messages)
  BY DEF TypeOK
<1>. QED  BY <1>1, <1>3, <1>4

LEMMA PopFacts ==
  ASSUME TypeOK, CommandPop
  PROVE  /\ command.at = "each" /\ command.bundle # <<>> /\ Head(command.bundle) \in Messages
         /\ LET cid == Head(command.bundle).cid IN
            \/ /\ cid \in DOMAIN unanswered_searches
               /\ command' = [at |-> "cache", bundle |-> command.bundle,
                              popped |-> unanswered_searches[cid],
                              address |-> command.address, queues |-> command.queues]
               /\ unanswered_searches' = Without(unanswered_searches, {cid})
            \/ /\ command' = [at |-> "each", bundle |-> Tail(command.bundle),
                              popped |-> command.popped,
                              address |-> command.address, queues |-> command.queues]
               /\ UNCHANGED unanswered_searches
<1>1. command \in CommandType
  BY DEF TypeOK
<1>2. command.at = "each" /\ command.bundle # <<>> /\ Head(command.bundle) \in Messages
  BY <1>1 DEF CommandPop, CommandType
<1>3. CASE Head(command.bundle).cid \in DOMAIN unanswered_searches
  <2>1. /\ command' = [command EXCEPT !.at = "cache",
                            !.popped = unanswered_searches[Head(command.bundle).cid]]
        /\ unanswered_searches' = Without(unanswered_searches, {Head(command.bundle).cid})
    BY <1>3 DEF CommandPop
  <2>. QED  BY <1>1, <1>2, <1>3, <2>1 DEF CommandType
<1>4. CASE Head(command.bundle).cid \notin DOMAIN unanswered_searches
  <2>1. command' = [command EXCEPT !.bundle = Tail(@)] /\ UNCHANGED unanswered_searches
    BY <1>4 DEF CommandPop
  <2>2. command' = [at |-> "each", bundle |-> Tail(command.bundle), popped |-> command.popped,
                    address |-> command.address, queues |-> command.queues]
    BY <1>1, <1>2, <2>1 DEF CommandType
  <2>. QED  BY <1>2, <2>1, <2>2
<1>. QED  BY <1>3, <1>4

LEMMA CacheFacts ==
  ASSUME TypeOK, CommandOK, CommandCache
  PROVE  /\ command.at = "cache" /\ command.popped \in Entry /\ command.bundle # <<>>
         /\ Head(command.bundle) \in Messages
         /\ command' = [at |-> "each", bundle |-> Tail(command.bundle), popped |-> None,
                        address |-> Head(command.bundle).address,
                        queues |-> [command.queues EXCEPT ![command.popped.queue] =
                                      Append(@, command.popped.name)]]
<1>1. command \in CommandType
  BY DEF TypeOK
<1>2. /\ command.at = "cache" /\ command.popped \in Entry /\ command.bundle # <<>>
      /\ Head(command.bundle) \in Messages
  BY <1>1 DEF CommandCache, CommandOK, CommandType
<1>3. command' = [command EXCEPT !.at = "each", !.bundle = Tail(@), !.popped = None,
                    !.address = Head(command.bundle).address,
                    !.queues[command.popped.queue] = Append(@, command.popped.name)]
  BY DEF CommandCache
<1>4. command' = [at |-> "each", bundle |-> Tail(command.bundle), popped |-> None,
                  address |-> Head(command.bundle).address,
                  queues |-> [command.queues EXCEPT ![command.popped.queue] =
                                Append(@, command.popped.name)]]
  BY <1>1, <1>3 DEF CommandType
<1>. QED  BY <1>2, <1>4

LEMMA ReportFacts ==
  ASSUME TypeOK, CommandReport
  PROVE  /\ command.at = "each" /\ command.bundle = <<>>
         /\ command' = [at |-> "get", bundle |-> <<>>, popped |-> command.popped,
                        address |-> None, queues |-> [c \in Contexts |-> <<>>]]
<1>1. command \in CommandType
  BY DEF TypeOK
<1>2. command.at = "each" /\ command.bundle = <<>>
  BY DEF CommandReport, Report
<1>3. command' = [command EXCEPT !.at = "get", !.address = None,
                                 !.queues = [c \in Contexts |-> <<>>]]
  BY DEF CommandReport
<1>. QED  BY <1>1, <1>2, <1>3 DEF CommandType

\* No queue names more than it has.
LEMMA TimesType ==
  ASSUME NEW S, NEW q \in Seq(S), NEW x
  PROVE  Times(q, x) \in Nat /\ IsFiniteSet({i \in DOMAIN q : q[i] = x})
<1>1. IsFiniteSet(1 .. Len(q))
  BY FS_Interval
<1>2. {i \in DOMAIN q : q[i] = x} \subseteq 1 .. Len(q)
  OBVIOUS
<1>. QED  BY <1>1, <1>2, FS_Subset, FS_CardinalityType DEF Times

LEMMA CommandStepType ==
  ASSUME TypeOK, CommandOK,
         \/ Command \/ _new_server_found
         \/ \E ms \in SUBSET net : received(ms)
         \/ \E m \in net : Lose(m)
  PROVE  TypeOK'
<1>. USE DEF session, table
<1>1. ASSUME NEW ms \in SUBSET net, received(ms) PROVE TypeOK'
  <2>1. command' \in CommandType
    BY <1>1, ReceivedFacts DEF TypeOK, CommandType
  <2>. QED  BY <1>1, <2>1 DEF received, TypeOK
<1>2. ASSUME NEW m \in net, Lose(m) PROVE TypeOK'
  BY <1>2 DEF Lose, TypeOK
<1>3. CASE _new_server_found
  BY <1>3, Touched DEF _new_server_found, SameSearches, TypeOK
<1>4. CASE CommandPop
  <2>1. command' \in CommandType
    <3>1. command \in CommandType
      BY DEF TypeOK
    <3>2. \A i \in DOMAIN unanswered_searches : unanswered_searches[i] \in Entry
      BY DEF TypeOK
    <3>3. Tail(command.bundle) \in Seq(Messages)
      BY <1>4, <3>1, PopFacts DEF CommandType
    <3>. DEFINE cid == Head(command.bundle).cid
    <3>4. CASE /\ cid \in DOMAIN unanswered_searches
               /\ command' = [at |-> "cache", bundle |-> command.bundle,
                              popped |-> unanswered_searches[cid],
                              address |-> command.address, queues |-> command.queues]
      BY <3>1, <3>2, <3>4 DEF CommandType
    <3>5. CASE command' = [at |-> "each", bundle |-> Tail(command.bundle),
                           popped |-> command.popped,
                           address |-> command.address, queues |-> command.queues]
      BY <3>1, <3>3, <3>5 DEF CommandType
    <3>. QED  BY <1>4, <3>4, <3>5, PopFacts
  <2>2. /\ DOMAIN unanswered_searches' \subseteq Ids
        /\ unanswered_searches' \in [DOMAIN unanswered_searches' -> Entry]
    <3>1. PICK X : unanswered_searches' = Without(unanswered_searches, X)
                   \/ unanswered_searches' = unanswered_searches
      BY <1>4, PopFacts
    <3>. QED  BY <3>1 DEF Without, TypeOK
  <2>. QED  BY <1>4, <2>1, <2>2 DEF CommandPop, TypeOK
<1>5. CASE CommandCache
  <2>. DEFINE a == Head(command.bundle).address
  <2>1. command \in CommandType
    BY DEF TypeOK
  <2>2. a \in Addresses /\ command.popped.name \in Names /\ command.popped.queue \in Contexts
    BY <1>5, CacheFacts DEF Messages, Entry
  <2>3. command' \in CommandType
    <3>. DEFINE queues == [command.queues EXCEPT ![command.popped.queue] =
                             Append(@, command.popped.name)]
    <3>1. queues \in [Contexts -> Seq(Names)]
      BY <2>1, <2>2 DEF CommandType
    <3>2. Tail(command.bundle) \in Seq(Messages)
      BY <1>5, <2>1, CacheFacts DEF CommandType
    <3>3. command' = [at |-> "each", bundle |-> Tail(command.bundle), popped |-> None,
                      address |-> a, queues |-> queues]
      BY <1>5, CacheFacts
    <3>. QED  BY <2>2, <3>1, <3>2, <3>3 DEF CommandType
  <2>4. search_results' = With(search_results, command.popped.name, [address |-> a, age |-> 0])
    BY <1>5 DEF CommandCache
  <2>5. /\ DOMAIN search_results' \subseteq Names
        /\ search_results' \in [DOMAIN search_results' -> [address : Addresses, age : Int]]
    BY <2>2, <2>4 DEF With, TypeOK
  <2>. QED  BY <1>5, <2>2, <2>3, <2>5 DEF CommandCache, TypeOK
<1>6. CASE CommandReport
  <2>1. command \in CommandType
    BY DEF TypeOK
  <2>2. command' \in CommandType
    BY <1>6, <2>1, ReportFacts DEF CommandType
  <2>3. \A c \in Contexts : ToSet(command.queues[c]) \subseteq Names
    BY <2>1 DEF ToSet, CommandType
  <2>4. /\ DOMAIN results' = Contexts
        /\ \A c \in Contexts : /\ DOMAIN results'[c] \subseteq Names
                              /\ results'[c] \in [DOMAIN results'[c] -> Addresses \cup {None}]
    BY <1>6, <2>1, <2>3 DEF CommandReport, Report, TypeOK, CommandType
  <2>5. \A c \in Contexts, n \in Names : Times(command.queues[c], n) \in Nat
    BY <2>1, TimesType DEF CommandType
  <2>6. owed' \in [Contexts -> [Names -> Int]]
    BY <1>6, <2>5 DEF CommandReport, Report, TypeOK
  <2>. QED  BY <1>6, <2>2, <2>4, <2>6 DEF CommandReport, Report, TypeOK
<1>. QED  BY <1>1, <1>2, <1>3, <1>4, <1>5, <1>6 DEF Command

LEMMA RetryStepType ==
  ASSUME TypeOK, Retry \/ RetrySendError \/ Tick
  PROVE  TypeOK'
<1>. USE DEF session, table
<1>0. retry \in RetryType
  BY DEF TypeOK
<1>1. CASE RetrySelect
  <2>1. PICK all \in BOOLEAN, ids \in SUBSET DOMAIN unanswered_searches :
          retry' = [retry EXCEPT
           !.at = "send", !.items = {[id |-> i, name |-> unanswered_searches[i].name] : i \in ids},
           !.elapsed = 0,
           !.retirees = IF all THEN @ + RETRY_RETIRED_SEARCHES_INTERVAL ELSE @]
    BY <1>1 DEF RetrySelect
  <2>. DEFINE items == {[id |-> i, name |-> unanswered_searches[i].name] : i \in ids}
  <2>2. items \in SUBSET [id : Ids, name : Names]
    <3>1. \A i \in ids : i \in Ids /\ unanswered_searches[i].name \in Names
      BY DEF TypeOK, Entry
    <3>. QED  BY <3>1
  <2>. HIDE DEF items
  <2>3. retry' \in RetryType
    <3>. DEFINE x == IF all THEN retry.retirees + RETRY_RETIRED_SEARCHES_INTERVAL ELSE retry.retirees
    <3>1. x \in Int
      BY <1>0, IntervalAssumption DEF RetryType
    <3>2. retry' = [at |-> "send", items |-> items, elapsed |-> 0, interval |-> retry.interval,
                    retirees |-> x]
      BY <1>0, <2>1 DEF RetryType, items
    <3>. HIDE DEF x
    <3>. QED  BY <1>0, <2>2, <3>1, <3>2 DEF RetryType
  <2>. QED  BY <1>1, <2>3 DEF RetrySelect, TypeOK
<1>2. CASE RetrySend
  <2>1. retry' \in RetryType
    BY <1>0, <1>2 DEF RetrySend, RetryType
  <2>2. net' \subseteq Messages
    BY <1>0, <1>2 DEF RetrySend, TypeOK, RetryType, Messages, Ids
  <2>3. SameSearches
    BY <1>2, Touched
  <2>. QED  BY <1>2, <2>1, <2>2, <2>3 DEF RetrySend, SameSearches, TypeOK
<1>3. CASE RetrySendError
  <2>1. retry' \in RetryType
    BY <1>0, <1>3 DEF RetrySendError, RetryType
  <2>2. count' \in [searches : 0 .. MaxSearches, reconnects : Nat, errors : Nat]
    BY <1>3, CountType DEF RetrySendError
  <2>. QED  BY <1>3, <2>1, <2>2 DEF RetrySendError, TypeOK
<1>4. CASE RetryWake
  <2>1. retry' \in RetryType
    <3>1. CASE retry' = [retry EXCEPT !.at = "clear", !.retirees = -retry.elapsed,
                                      !.interval = MIN_RETRY_SEARCHES_INTERVAL]
      <4>1. retry' = [at |-> "clear", items |-> retry.items, elapsed |-> retry.elapsed,
                      interval |-> MIN_RETRY_SEARCHES_INTERVAL, retirees |-> -retry.elapsed]
        BY <1>0, <3>1 DEF RetryType
      <4>2. -retry.elapsed \in Int /\ MIN_RETRY_SEARCHES_INTERVAL \in Int
        BY <1>0, IntervalAssumption DEF RetryType
      <4>. QED  BY <1>0, <4>1, <4>2 DEF RetryType
    <3>2. CASE retry' = [retry EXCEPT !.at = "clear",
                                      !.interval = Least(2 * @, MAX_RETRY_SEARCHES_INTERVAL)]
      <4>1. Least(2 * retry.interval, MAX_RETRY_SEARCHES_INTERVAL) \in Int
        BY <1>0, IntervalAssumption DEF RetryType, Least
      <4>. QED  BY <1>0, <3>2, <4>1 DEF RetryType
    <3>. QED  BY <1>4, <3>1, <3>2 DEF RetryWake
  <2>. QED  BY <1>4, <2>1 DEF RetryWake, TypeOK
<1>5. CASE Tick
  <2>1. retry' \in RetryType
    <3>1. CASE retry' = [retry EXCEPT !.elapsed = @ + 1,
                           !.retirees = Most(@ - 1, -RETRY_RETIRED_SEARCHES_INTERVAL)]
      <4>1. /\ Most(retry.retirees - 1, -RETRY_RETIRED_SEARCHES_INTERVAL) \in Int
            /\ retry.elapsed + 1 \in Int
        BY <1>0, IntervalAssumption DEF RetryType, Most
      <4>2. retry' = [at |-> retry.at, items |-> retry.items, elapsed |-> retry.elapsed + 1,
                      interval |-> retry.interval,
                      retirees |-> Most(retry.retirees - 1, -RETRY_RETIRED_SEARCHES_INTERVAL)]
        BY <1>0, <3>1 DEF RetryType
      <4>. QED  BY <1>0, <4>1, <4>2 DEF RetryType
    <3>2. CASE retry' = retry
      BY <1>0, <3>2
    <3>. QED  BY <1>5, <3>1, <3>2 DEF Tick
  <2>2. SameSearches
    BY <1>5, Touched
  <2>3. search_results' \in [DOMAIN search_results' -> [address : Addresses, age : Int]]
        /\ DOMAIN search_results' = DOMAIN search_results
    <3>1. ASSUME NEW n \in DOMAIN search_results
          PROVE  [search_results[n] EXCEPT !.age = Least(@ + 1, STALE_SEARCH_EXPIRATION + 1)]
                   \in [address : Addresses, age : Int]
      <4>1. search_results[n] \in [address : Addresses, age : Int]
        BY DEF TypeOK
      <4>. QED  BY <4>1, IntervalAssumption DEF Least
    <3>. QED  BY <1>5, <3>1 DEF Tick
  <2>. QED  BY <1>5, <2>1, <2>2, <2>3 DEF Tick, SameSearches, TypeOK
<1>. QED  BY <1>1, <1>2, <1>3, <1>4, <1>5 DEF Retry

LEMMA NextType == TypeOK /\ CommandOK /\ IdsAreNew /\ [Next]_vars => TypeOK'
<1>. SUFFICES ASSUME TypeOK, CommandOK, IdsAreNew, [Next]_vars PROVE TypeOK'
  OBVIOUS
<1>1. CASE UNCHANGED vars
  BY <1>1 DEF vars, TypeOK
<1>. QED  BY <1>1, UserType, CommandStepType, RetryStepType DEF Next

\* What is not the command thread's business.
LEMMA CommandIdle ==
  ASSUME \/ \E c \in Contexts, n \in Names : search(c, n) \/ reconnect(c, n)
         \/ \E c \in Contexts : remove_listener(c)
         \/ \E n \in Names : cancel(n)
         \/ \E m \in net : Lose(m)
         \/ _new_server_found \/ Retry \/ RetrySendError \/ Tick
         \/ UNCHANGED vars
  PROVE  UNCHANGED command
BY DEF search, reconnect, remove_listener, cancel, Lose, _new_server_found, Retry, RetrySelect,
       RetrySend, RetryWake, RetrySendError, Tick, vars

LEMMA NextCommand == TypeOK /\ CommandOK /\ [Next]_vars => CommandOK'
<1>. SUFFICES ASSUME TypeOK, CommandOK, [Next]_vars PROVE CommandOK'
  OBVIOUS
<1>1. CASE UNCHANGED command
  BY <1>1 DEF CommandOK
<1>2. ASSUME NEW ms \in SUBSET net, received(ms) PROVE CommandOK'
  BY <1>2, ReceivedFacts DEF CommandOK
<1>3. CASE CommandPop
  <2>1. \A i \in DOMAIN unanswered_searches : unanswered_searches[i] \in Entry
    BY DEF TypeOK
  <2>. QED  BY <1>3, <2>1, PopFacts DEF CommandOK
<1>4. CASE CommandCache
  BY <1>4, CacheFacts DEF CommandOK
<1>5. CASE CommandReport
  BY <1>5, ReportFacts DEF CommandOK
<1>. QED  BY <1>1, <1>2, <1>3, <1>4, <1>5, CommandIdle DEF Next, Command

\* The bundle only gets shorter until the next datagram.
LEMMA BundleShrinks ==
  ASSUME TypeOK, CommandOK, Command
  PROVE  \A i \in DOMAIN command'.bundle : \E j \in DOMAIN command.bundle :
           command'.bundle[i] = command.bundle[j]
<1>1. command.bundle \in Seq(Messages)
  BY DEF TypeOK, CommandType
<1>2. CASE command'.bundle = Tail(command.bundle) /\ command.bundle # <<>>
  <2>1. ASSUME NEW i \in DOMAIN Tail(command.bundle)
        PROVE  i + 1 \in DOMAIN command.bundle /\ Tail(command.bundle)[i] = command.bundle[i + 1]
    BY <1>1, <1>2
  <2>. QED  BY <1>2, <2>1
<1>3. CASE CommandPop
  <2>. DEFINE cid == Head(command.bundle).cid
  <2>1. CASE command' = [at |-> "cache", bundle |-> command.bundle,
                         popped |-> unanswered_searches[cid],
                         address |-> command.address, queues |-> command.queues]
    BY <2>1
  <2>2. CASE command' = [at |-> "each", bundle |-> Tail(command.bundle),
                         popped |-> command.popped,
                         address |-> command.address, queues |-> command.queues]
    BY <1>2, <1>3, <2>2, PopFacts
  <2>. QED  BY <1>3, <2>1, <2>2, PopFacts
<1>4. CASE CommandCache
  BY <1>2, <1>4, CacheFacts
<1>5. CASE CommandReport
  BY <1>5, ReportFacts
<1>. QED  BY <1>3, <1>4, <1>5 DEF Command

\* Ids travel, from the table to requests, responses and bundles, and back;
\* only a search brings a new one.
LEMMA IdsTravel ==
  ASSUME TypeOK, CommandOK, [Next]_vars,
         ~\E c \in Contexts, n \in Names : search(c, n) \/ reconnect(c, n)
  PROVE  KnownIds' \subseteq KnownIds /\ last_id' = last_id /\ count'.searches >= count.searches
<1>. USE DEF session, table, KnownIds
<1>0. count.searches \in Int
  BY DEF TypeOK
<1>1. ASSUME NEW c \in Contexts, remove_listener(c)
      PROVE  KnownIds' \subseteq KnownIds /\ last_id' = last_id /\ count'.searches >= count.searches
  BY <1>0, <1>1 DEF remove_listener
<1>2. ASSUME NEW n \in Names, cancel(n)
      PROVE  KnownIds' \subseteq KnownIds /\ last_id' = last_id /\ count'.searches >= count.searches
  BY <1>0, <1>2 DEF cancel, Without
<1>3. ASSUME NEW ms \in SUBSET net, received(ms)
      PROVE  KnownIds' \subseteq KnownIds /\ last_id' = last_id /\ count'.searches >= count.searches
  <2>1. PICK order \in Seq(ms) : command'.bundle = order
    BY <1>3, ReceivedFacts
  <2>2. \A i \in DOMAIN command'.bundle : command'.bundle[i] \in net
    BY <2>1
  <2>. QED  BY <1>0, <1>3, <2>2 DEF received
<1>4. ASSUME NEW m \in net, Lose(m)
      PROVE  KnownIds' \subseteq KnownIds /\ last_id' = last_id /\ count'.searches >= count.searches
  BY <1>0, <1>4 DEF Lose
<1>5. CASE _new_server_found
  BY <1>0, <1>5 DEF _new_server_found
<1>6. CASE CommandPop
  <2>1. DOMAIN unanswered_searches' \subseteq DOMAIN unanswered_searches
    BY <1>6, PopFacts DEF Without
  <2>2. \A i \in DOMAIN command'.bundle : \E j \in DOMAIN command.bundle :
          command'.bundle[i] = command.bundle[j]
    BY <1>6, BundleShrinks DEF Command
  <2>. QED  BY <1>0, <1>6, <2>1, <2>2 DEF CommandPop
<1>7. CASE CommandCache
  <2>1. \A i \in DOMAIN command'.bundle : \E j \in DOMAIN command.bundle :
          command'.bundle[i] = command.bundle[j]
    BY <1>7, BundleShrinks DEF Command
  <2>. QED  BY <1>0, <1>7, <2>1 DEF CommandCache
<1>8. CASE CommandReport
  BY <1>0, <1>8, ReportFacts DEF CommandReport, Report
<1>9. CASE RetrySelect
  <2>1. retry'.items \subseteq {[id |-> i, name |-> unanswered_searches[i].name] :
                                i \in DOMAIN unanswered_searches}
    BY <1>9 DEF RetrySelect, TypeOK, RetryType
  <2>2. \A it \in retry'.items : it.id \in DOMAIN unanswered_searches
    BY <2>1
  <2>. QED  BY <1>0, <1>9, <2>2 DEF RetrySelect
<1>10. CASE RetrySend
  <2>1. retry'.items = {} /\ DOMAIN unanswered_searches' = DOMAIN unanswered_searches
    BY <1>10 DEF RetrySend, TypeOK, RetryType
  <2>2. \A m \in net' : m \in net \/ \E it \in retry.items : it.id = m.cid
    BY <1>10 DEF RetrySend
  <2>. QED  BY <1>0, <1>10, <2>1, <2>2 DEF RetrySend
<1>11. CASE RetrySendError
  <2>1. retry'.items = {}
    BY <1>11 DEF RetrySendError, TypeOK, RetryType
  <2>2. count'.searches = count.searches
    BY <1>11 DEF RetrySendError, TypeOK
  <2>. QED  BY <1>0, <1>11, <2>1, <2>2 DEF RetrySendError
<1>12. CASE RetryWake
  <2>1. retry'.items = retry.items
    BY <1>12 DEF RetryWake, TypeOK, RetryType
  <2>. QED  BY <1>0, <1>12, <2>1 DEF RetryWake
<1>13. CASE Tick
  <2>1. retry'.items = retry.items
    BY <1>13 DEF Tick, TypeOK, RetryType
  <2>2. DOMAIN unanswered_searches' = DOMAIN unanswered_searches
    BY <1>13 DEF Tick
  <2>3. UNCHANGED <<command, net, last_id, count>>
    BY <1>13 DEF Tick
  <2>. QED  BY <1>0, <2>1, <2>2, <2>3
<1>14. CASE UNCHANGED vars
  BY <1>0, <1>14 DEF vars
<1>. QED  BY <1>1, <1>2, <1>3, <1>4, <1>5, <1>6, <1>7, <1>8, <1>9, <1>10, <1>11, <1>12, <1>13, <1>14
          DEF Next, Command, Retry

\* What a search does to the ids: nothing, or the next one is given out to a
\* search for this name, of which nobody has heard before.
LEMMA SearchIds ==
  ASSUME TypeOK, IdsAreNew, NEW c \in Contexts, NEW n \in Names,
         search(c, n) \/ reconnect(c, n)
  PROVE  \/ /\ UNCHANGED <<unanswered_searches, last_id, owed>>
            /\ count'.searches = count.searches + 1
         \/ \E k \in 0 .. count.searches :
              /\ Issued(k) /\ last_id' = k /\ count'.searches = count.searches + 1
              /\ k \in Ids /\ k \notin DOMAIN unanswered_searches
              /\ unanswered_searches' =
                   With(unanswered_searches, k, [name |-> n, queue |-> c, age |-> LongAgo,
                                                 left |-> SEARCH_RETIREMENT_AGE])
              /\ owed' = [owed EXCEPT ![c][n] = @ + 1]
<1>1. count.searches < MaxSearches /\ count'.searches = count.searches + 1
  BY DEF search, reconnect, TypeOK
<1>2. \E cache, told, created : Search(c, n, cache, told, created)
  BY DEF search, reconnect
<1>3. PICK k \in 0 .. count.searches :
           /\ Issued(k) /\ k \in Ids /\ new_id(last_id, DOMAIN unanswered_searches) = k
           /\ k \notin DOMAIN unanswered_searches
  BY <1>1, IdOfSearch
<1>. QED  BY <1>1, <1>2, <1>3 DEF Search

LEMMA NextIds == TypeOK /\ CommandOK /\ IdsAreNew /\ [Next]_vars => IdsAreNew'
<1>. SUFFICES ASSUME TypeOK, CommandOK, IdsAreNew, [Next]_vars PROVE IdsAreNew'
  OBVIOUS
<1>0. count.searches \in Nat
  BY IdAssumption DEF TypeOK
<1>1. ASSUME NEW c \in Contexts, NEW n \in Names, search(c, n) \/ reconnect(c, n)
      PROVE  IdsAreNew'
  <2>1. UNCHANGED <<retry, net, command>>
    BY <1>1 DEF search, reconnect
  <2>2. CASE UNCHANGED <<unanswered_searches, last_id>> /\ count'.searches = count.searches + 1
    <3>1. PICK k \in 0 .. count.searches : Issued(k)
      BY DEF IdsAreNew
    <3>2. k \in 0 .. count'.searches /\ Issued(k)'
      BY <1>0, <2>1, <2>2, <3>1 DEF Issued, KnownIds
    <3>. QED  BY <3>2 DEF IdsAreNew
  <2>3. ASSUME NEW k \in 0 .. count.searches, NEW e, Issued(k), last_id' = k,
               count'.searches = count.searches + 1,
               unanswered_searches' = With(unanswered_searches, k, e)
        PROVE  IdsAreNew'
    <3>1. k + 1 \in 0 .. count'.searches /\ last_id' = (k + 1) - 1 /\ k + 1 # 0
      BY <1>0, <2>3
    <3>2. DOMAIN unanswered_searches' = DOMAIN unanswered_searches \cup {k}
      BY <2>3 DEF With
    <3>3. KnownIds' \subseteq KnownIds \cup {k}
      BY <2>1, <3>2 DEF KnownIds
    <3>4. KnownIds' \subseteq 0 .. (k + 1) - 1
      BY <1>0, <2>3, <3>3 DEF Issued
    <3>5. Issued(k + 1)'
      BY <3>1, <3>4 DEF Issued
    <3>. QED  BY <3>1, <3>5 DEF IdsAreNew
  <2>. QED  BY <1>1, <2>2, <2>3, SearchIds
<1>2. CASE ~\E c \in Contexts, n \in Names : search(c, n) \/ reconnect(c, n)
  <2>1. KnownIds' \subseteq KnownIds /\ last_id' = last_id /\ count'.searches >= count.searches
    BY <1>2, IdsTravel
  <2>2. PICK k \in 0 .. count.searches : Issued(k)
    BY DEF IdsAreNew
  <2>3. Issued(k)'
    BY <2>1, <2>2 DEF Issued
  <2>4. count'.searches \in Nat
    BY NextType, IdAssumption DEF TypeOK
  <2>. QED  BY <1>0, <2>1, <2>3, <2>4 DEF IdsAreNew
<1>. QED  BY <1>1, <1>2

\* Every variable keeps its type, also while ids are given out by wrapping
\* around and skipping those in use: new_id always finds one.
THEOREM TypeCorrect == Spec => []TypeOK
BY InitBase, NextType, NextCommand, NextIds, PTL DEF Spec
---------------------------------------------------------------------------
(***************************************************************************)
(* Whoever is told where a name is is told the truth.                      *)
(***************************************************************************)
\* Searches only ever leave the table, or stay what they are, when nobody
\* searches.
Shrunk ==
  /\ DOMAIN unanswered_searches' \subseteq DOMAIN unanswered_searches
  /\ \A i \in DOMAIN unanswered_searches' :
       unanswered_searches'[i].name = unanswered_searches[i].name

LEMMA TableShrinks ==
  ASSUME TypeOK, [Next]_vars,
         ~\E c \in Contexts, n \in Names : search(c, n) \/ reconnect(c, n)
  PROVE  Shrunk
<1>. USE DEF table
<1>1. CASE UNCHANGED unanswered_searches
  BY <1>1 DEF Shrunk
<1>2. ASSUME NEW X, unanswered_searches' = Without(unanswered_searches, X) PROVE Shrunk
  BY <1>2 DEF Shrunk, Without
<1>3. ASSUME NEW n \in Names, cancel(n) PROVE Shrunk
  BY <1>2, <1>3 DEF cancel
<1>4. CASE CommandPop
  BY <1>1, <1>2, <1>4, PopFacts
<1>5. CASE _new_server_found \/ RetrySend \/ Tick
  BY <1>5, Touched DEF SameSearches, Shrunk
<1>6. CASE \/ \E c \in Contexts : remove_listener(c)
           \/ \E ms \in SUBSET net : received(ms)
           \/ \E m \in net : Lose(m)
           \/ CommandCache \/ CommandReport \/ RetrySelect \/ RetryWake \/ RetrySendError
           \/ UNCHANGED vars
  <2>1. UNCHANGED unanswered_searches
    BY <1>6 DEF remove_listener, received, Lose, CommandCache, CommandReport, Report, RetrySelect,
                RetryWake, RetrySendError, vars
  <2>. QED  BY <1>1, <2>1
<1>. QED  BY <1>3, <1>4, <1>5, <1>6 DEF Next, Command, Retry

\* So what was right about a request or a response stays right.
RightItem(it) == it.id \in DOMAIN unanswered_searches
                   => unanswered_searches[it.id].name = it.name
LEMMA StillRight ==
  ASSUME Shrunk,
         \A it \in retry'.items : RightItem(it),
         \A m \in net' : About(m),
         \A i \in DOMAIN command'.bundle : About(command'.bundle[i]),
         command'.at = "cache" => command'.popped.name \in Has[Head(command'.bundle).address]
  PROVE  IdsAreRight'
<1>1. ASSUME NEW it \in retry'.items PROVE RightItem(it)'
  BY DEF Shrunk, RightItem
<1>2. ASSUME NEW m, About(m) PROVE (m.cid \in DOMAIN unanswered_searches
              => unanswered_searches[m.cid].name \in Has[m.address])'
  BY <1>2 DEF Shrunk, About
<1>. QED  BY <1>1, <1>2 DEF IdsAreRight, RightItem, About

\* What is not the retry thread's business.
LEMMA RetryIdle ==
  ASSUME \/ \E c \in Contexts, n \in Names : search(c, n) \/ reconnect(c, n)
         \/ \E c \in Contexts : remove_listener(c)
         \/ \E n \in Names : cancel(n)
         \/ \E ms \in SUBSET net : received(ms)
         \/ \E m \in net : Lose(m)
         \/ _new_server_found \/ Command
         \/ UNCHANGED vars
  PROVE  UNCHANGED retry
BY DEF search, reconnect, remove_listener, cancel, received, Lose, _new_server_found, Command,
       CommandPop, CommandCache, CommandReport, Report, vars

\* Responses come from requests.
LEMMA NetIdle ==
  ASSUME [Next]_vars, ~RetrySend
  PROVE  net' \subseteq net
<1>. USE DEF table
<1>1. ASSUME NEW c \in Contexts, NEW n \in Names, search(c, n) \/ reconnect(c, n) PROVE net' \subseteq net
  BY <1>1 DEF search, reconnect
<1>2. CASE Command
  BY <1>2 DEF Command, CommandPop, CommandCache, CommandReport, Report
<1>3. CASE RetrySelect \/ RetryWake \/ RetrySendError \/ Tick
  BY <1>3 DEF RetrySelect, RetryWake, RetrySendError, Tick
<1>4. CASE UNCHANGED vars
  BY <1>4 DEF vars
<1>. QED  BY <1>1, <1>2, <1>3, <1>4 DEF Next, Retry, remove_listener, cancel, received, Lose, _new_server_found

LEMMA NextRight ==
  TypeOK /\ CommandOK /\ IdsAreNew /\ IdsAreRight /\ [Next]_vars => IdsAreRight'
<1>. SUFFICES ASSUME TypeOK, CommandOK, IdsAreNew, IdsAreRight, [Next]_vars PROVE IdsAreRight'
  OBVIOUS
<1>1. ASSUME NEW c \in Contexts, NEW n \in Names, search(c, n) \/ reconnect(c, n)
      PROVE  IdsAreRight'
  <2>1. UNCHANGED <<retry, net, command>>
    BY <1>1 DEF search, reconnect
  <2>2. CASE UNCHANGED unanswered_searches
    BY <2>1, <2>2 DEF IdsAreRight, About
  <2>3. ASSUME NEW k \in 0 .. count.searches, NEW e, Issued(k),
               unanswered_searches' = With(unanswered_searches, k, e)
        PROVE  IdsAreRight'
    <3>1. k \notin KnownIds
      BY <2>3 DEF Issued
    <3>2. \A i \in KnownIds : i \in DOMAIN unanswered_searches'
                                => /\ i \in DOMAIN unanswered_searches
                                   /\ unanswered_searches'[i] = unanswered_searches[i]
      BY <2>3, <3>1 DEF With
    <3>3. /\ \A it \in retry.items : it.id \in KnownIds
          /\ \A m \in net : m.cid \in KnownIds
          /\ \A i \in DOMAIN command.bundle : command.bundle[i].cid \in KnownIds
      BY DEF KnownIds
    <3>. QED  BY <2>1, <3>2, <3>3 DEF IdsAreRight, About
  <2>. QED  BY <1>1, <2>2, <2>3, SearchIds
<1>2. CASE ~\E c \in Contexts, n \in Names : search(c, n) \/ reconnect(c, n)
  <2>1. Shrunk
    BY <1>2, TableShrinks
  <2>2. \A it \in retry'.items : RightItem(it)
    <3>1. CASE retry'.items \subseteq retry.items
      BY <3>1 DEF IdsAreRight, RightItem
    <3>2. CASE RetrySelect
      <4>1. retry'.items \subseteq {[id |-> i, name |-> unanswered_searches[i].name] :
                                i \in DOMAIN unanswered_searches}
        BY <3>2 DEF RetrySelect, TypeOK, RetryType
      <4>. QED  BY <4>1 DEF RightItem
    <3>3. CASE RetrySend \/ RetrySendError
      BY <3>1, <3>3 DEF RetrySend, RetrySendError, TypeOK, RetryType
    <3>4. CASE RetryWake
      BY <3>1, <3>4 DEF RetryWake, TypeOK, RetryType
    <3>5. CASE Tick
      BY <3>1, <3>5 DEF Tick, TypeOK, RetryType
    <3>. QED  BY <3>1, <3>2, <3>3, <3>4, <3>5, RetryIdle DEF Next, Retry
  <2>3. \A m \in net' : About(m)
    <3>1. CASE RetrySend
      <4>1. ASSUME NEW m \in net', m \notin net
            PROVE  \E it \in retry.items : it.id = m.cid /\ it.name \in Has[m.address]
        BY <3>1, <4>1 DEF RetrySend
      <4>2. \A it \in retry.items : RightItem(it)
        BY DEF IdsAreRight, RightItem
      <4>. QED  BY <4>1, <4>2 DEF IdsAreRight, About, RightItem
    <3>2. CASE ~RetrySend
      BY <3>2, NetIdle DEF IdsAreRight
    <3>. QED  BY <3>1, <3>2
  <2>4. \A i \in DOMAIN command'.bundle : About(command'.bundle[i])
    <3>1. CASE UNCHANGED command
      BY <3>1 DEF IdsAreRight
    <3>2. CASE Command
      BY <3>2, BundleShrinks DEF IdsAreRight
    <3>3. ASSUME NEW ms \in SUBSET net, received(ms) PROVE \A i \in DOMAIN command'.bundle : About(command'.bundle[i])
      <4>1. PICK order \in Seq(ms) : command'.bundle = order
        BY <3>3, ReceivedFacts
      <4>2. \A i \in DOMAIN command'.bundle : command'.bundle[i] \in net
        BY <4>1
      <4>. QED  BY <4>2 DEF IdsAreRight
    <3>. QED  BY <1>2, <3>1, <3>2, <3>3, CommandIdle DEF Next
  <2>5. command'.at = "cache" => command'.popped.name \in Has[Head(command'.bundle).address]
    <3>1. CASE UNCHANGED command
      BY <3>1 DEF IdsAreRight
    <3>2. ASSUME NEW ms \in SUBSET net, received(ms) PROVE command'.at # "cache"
      BY <3>2, ReceivedFacts
    <3>3. CASE CommandPop
      <4>. DEFINE cid == Head(command.bundle).cid
      <4>1. CASE /\ cid \in DOMAIN unanswered_searches
                 /\ command' = [at |-> "cache", bundle |-> command.bundle,
                             popped |-> unanswered_searches[cid],
                             address |-> command.address, queues |-> command.queues]
        <5>1. command.bundle \in Seq(Messages) /\ command.bundle # <<>>
          BY <3>3, PopFacts DEF TypeOK, CommandType
        <5>2. 1 \in DOMAIN command.bundle /\ Head(command.bundle) = command.bundle[1]
          BY <5>1
        <5>3. About(Head(command.bundle))
          BY <5>2 DEF IdsAreRight
        <5>. QED  BY <4>1, <5>3 DEF About
      <4>2. CASE command' = [at |-> "each", bundle |-> Tail(command.bundle),
                             popped |-> command.popped,
                             address |-> command.address, queues |-> command.queues]
        BY <4>2
      <4>. QED  BY <3>3, <4>1, <4>2, PopFacts
    <3>4. CASE CommandCache
      BY <3>4, CacheFacts
    <3>5. CASE CommandReport
      BY <3>5, ReportFacts
    <3>. QED  BY <1>2, <3>1, <3>2, <3>3, <3>4, <3>5, CommandIdle DEF Next, Command
  <2>. QED  BY <2>1, <2>2, <2>3, <2>4, <2>5, StillRight
<1>. QED  BY <1>1, <1>2

\* Unless name servers answer, all responses in a datagram have one address.
LEMMA OneAddress ==
  ASSUME NameServers = FALSE, TypeOK, NEW ms \in SUBSET net, received(ms)
  PROVE  \A m1, m2 \in ms : m1.address = m2.address
<1>. DEFINE As == {m.address : m \in ms}
<1>1. Cardinality(As) = 1
  BY DEF received
<1>2. IsFiniteSet(As)
  <2>1. As \subseteq Addresses
    BY DEF TypeOK, Messages
  <2>. QED  BY <2>1, HasAssumption, FS_Subset
<1>3. \E a : As = {a}
  BY <1>1, <1>2, FS_Singleton
<1>. QED  BY <1>3

LEMMA NextOneServer ==
  ASSUME NameServers = FALSE, TypeOK, CommandOK, IdsAreRight, OneServer, [Next]_vars
  PROVE  OneServer'
<1>. DEFINE One(b) == \A i, j \in DOMAIN b : b[i].address = b[j].address
<1>0. /\ command \in CommandType
      /\ command.bundle \in Seq(Messages) /\ command.queues \in [Contexts -> Seq(Names)]
  BY DEF TypeOK, CommandType
<1>1. CASE UNCHANGED command
  BY <1>1 DEF OneServer
<1>2. ASSUME NEW ms \in SUBSET net, received(ms) PROVE OneServer'
  <2>1. PICK order \in Seq(ms) :
           /\ command.at = "get"
           /\ command' = [at |-> "each", bundle |-> order, popped |-> command.popped,
                          address |-> command.address, queues |-> command.queues]
    BY <1>2, ReceivedFacts
  <2>2. One(order)
    <3>1. \A i \in DOMAIN order : order[i] \in ms
      OBVIOUS
    <3>. QED  BY <1>2, <3>1, OneAddress
  <2>3. command.queues = [c \in Contexts |-> <<>>]
    BY <2>1 DEF CommandOK
  <2>. QED  BY <2>1, <2>2, <2>3 DEF OneServer
<1>3. CASE CommandPop
  <2>1. \A i \in DOMAIN command'.bundle : \E j \in DOMAIN command.bundle :
           command'.bundle[i] = command.bundle[j]
    BY <1>3, BundleShrinks DEF Command
  <2>2. UNCHANGED <<command.address, command.queues>>
    <3>. DEFINE cid == Head(command.bundle).cid
    <3>1. CASE command' = [at |-> "cache", bundle |-> command.bundle,
                           popped |-> unanswered_searches[cid],
                           address |-> command.address, queues |-> command.queues]
      BY <3>1
    <3>2. CASE command' = [at |-> "each", bundle |-> Tail(command.bundle),
                           popped |-> command.popped,
                           address |-> command.address, queues |-> command.queues]
      BY <3>2
    <3>. QED  BY <1>3, <3>1, <3>2, PopFacts
  <2>. QED  BY <2>1, <2>2 DEF OneServer
<1>4. CASE CommandCache
  <2>. DEFINE a == Head(command.bundle).address
              s == command.popped
  <2>1. /\ s \in Entry /\ command.at = "cache" /\ command.bundle # <<>> /\ a \in Addresses
        /\ command' = [at |-> "each", bundle |-> Tail(command.bundle), popped |-> None,
                       address |-> a,
                       queues |-> [command.queues EXCEPT ![s.queue] = Append(@, s.name)]]
    BY <1>4, CacheFacts DEF Messages
  <2>2. s.name \in Has[a] /\ s.queue \in Contexts /\ s.name \in Names
    BY <2>1 DEF IdsAreRight, Entry
  <2>3. 1 \in DOMAIN command.bundle /\ Head(command.bundle) = command.bundle[1]
    BY <1>0, <2>1
  <2>4. \A j \in DOMAIN command.bundle : command.bundle[j].address = a
    BY <2>3 DEF OneServer
  <2>5. \A i \in DOMAIN command'.bundle : command'.bundle[i].address = a
    BY <1>4, <2>4, BundleShrinks DEF Command
  <2>6. \A c \in Contexts : \A i \in DOMAIN command.queues[c] : command.queues[c][i] \in Has[a]
    BY <2>3 DEF OneServer
  <2>7. \A c \in Contexts : \A i \in DOMAIN command'.queues[c] : command'.queues[c][i] \in Has[a]
    <3>. SUFFICES ASSUME NEW c \in Contexts, NEW i \in DOMAIN command'.queues[c]
                  PROVE  command'.queues[c][i] \in Has[a]
      OBVIOUS
    <3>1. command'.queues[c] = IF c = s.queue THEN Append(command.queues[c], s.name)
                               ELSE command.queues[c]
      BY <1>0, <2>1, <2>2
    <3>2. command.queues[c] \in Seq(Names)
      BY <1>0
    <3>. QED  BY <2>2, <2>6, <3>1, <3>2
  <2>8. command'.address = a
    BY <2>1
  <2>. QED  BY <2>1, <2>5, <2>7, <2>8 DEF OneServer
<1>5. CASE CommandReport
  BY <1>5, ReportFacts DEF OneServer
<1>. QED  BY <1>1, <1>2, <1>3, <1>4, <1>5, CommandIdle DEF Next, Command

\* What a Context is told when it searches, it is told from the cache.
LEMMA SearchReal ==
  ASSUME TypeOK, ResultsAreReal,
         NEW c \in Contexts, NEW n \in Names, NEW cache, NEW told, NEW created,
         \A x \in DOMAIN cache : x \in Has[cache[x].address],
         cache \in [DOMAIN cache -> [address : Addresses, age : Int]],
         \A x \in DOMAIN told : x \in Has[told[x]],
         Search(c, n, cache, told, created)
  PROVE  ResultsAreReal'
<1>0. DOMAIN results = Contexts
  BY DEF TypeOK
<1>1. CASE get_cached_search_result(cache, n, created)
  <2>. DEFINE new == With(told, n, cache[n].address)
  <2>1. n \in DOMAIN cache
    BY <1>1 DEF get_cached_search_result
  <2>2. /\ results' = [results EXCEPT ![c] = new]
        /\ search_results' = IF cache[n].age > STALE_SEARCH_EXPIRATION
                             THEN [cache EXCEPT ![n].age = 0] ELSE cache
    BY <1>1 DEF Search
  <2>3. \A x \in DOMAIN new : x \in Has[new[x]]
    BY <2>1 DEF With
  <2>. HIDE DEF new
  <2>4. \A x \in DOMAIN search_results' : x \in Has[search_results'[x].address]
    BY <2>1, <2>2
  <2>. QED  BY <1>0, <2>2, <2>3, <2>4 DEF ResultsAreReal
<1>2. CASE ~get_cached_search_result(cache, n, created)
  <2>1. search_results' = Without(cache, {n}) /\ results' = [results EXCEPT ![c] = told]
    BY <1>2 DEF Search
  <2>2. \A x \in DOMAIN search_results' : x \in Has[search_results'[x].address]
    BY <2>1 DEF Without
  <2>. QED  BY <1>0, <2>1, <2>2 DEF ResultsAreReal
<1>. QED  BY <1>1, <1>2

LEMMA NextReal ==
  ASSUME NameServers = FALSE, TypeOK, CommandOK, IdsAreRight, OneServer, ResultsAreReal, [Next]_vars
  PROVE  ResultsAreReal'
<1>. USE DEF table
<1>1. CASE UNCHANGED <<search_results, results>>
  BY <1>1 DEF ResultsAreReal
<1>2. ASSUME NEW c \in Contexts, NEW n \in Names, search(c, n) PROVE ResultsAreReal'
  <2>1. PICK created : Search(c, n, search_results, results[c], created)
    BY <1>2 DEF search
  <2>2. search_results \in [DOMAIN search_results -> [address : Addresses, age : Int]]
    BY DEF TypeOK
  <2>3. /\ \A x \in DOMAIN search_results : x \in Has[search_results[x].address]
        /\ \A x \in DOMAIN results[c] : x \in Has[results[c][x]]
    BY DEF ResultsAreReal
  <2>. QED  BY <2>1, <2>2, <2>3, SearchReal
<1>3. ASSUME NEW c \in Contexts, NEW n \in Names, reconnect(c, n) PROVE ResultsAreReal'
  <2>. DEFINE cache == Without(search_results, {n})
              told == Without(results[c], {n})
  <2>1. PICK created : Search(c, n, cache, told, created)
    BY <1>3 DEF reconnect
  <2>2. cache \in [DOMAIN cache -> [address : Addresses, age : Int]]
    BY DEF TypeOK, Without
  <2>3. \A x \in DOMAIN cache : x \in Has[cache[x].address]
    BY DEF ResultsAreReal, Without
  <2>4. \A x \in DOMAIN told : x \in Has[told[x]]
    BY DEF ResultsAreReal, Without
  <2>. HIDE DEF cache, told
  <2>. QED  BY <2>1, <2>2, <2>3, <2>4, SearchReal
<1>4. ASSUME NEW c \in Contexts, remove_listener(c) PROVE ResultsAreReal'
  <2>1. search_results' = <<>> \/ search_results' = search_results
    BY <1>4 DEF remove_listener
  <2>2. results' = [results EXCEPT ![c] = <<>>] /\ DOMAIN results = Contexts
    BY <1>4 DEF remove_listener, TypeOK
  <2>3. \A x \in DOMAIN search_results' : x \in Has[search_results'[x].address]
    BY <2>1 DEF ResultsAreReal
  <2>4. \A d \in Contexts : \A x \in DOMAIN results'[d] : x \in Has[results'[d][x]]
    BY <2>2 DEF ResultsAreReal
  <2>. QED  BY <2>3, <2>4 DEF ResultsAreReal
<1>5. CASE CommandCache
  <2>. DEFINE a == Head(command.bundle).address
  <2>1. command.popped.name \in Has[a]
    BY <1>5, CacheFacts DEF IdsAreRight
  <2>2. /\ search_results' = With(search_results, command.popped.name, [address |-> a, age |-> 0])
        /\ UNCHANGED results
    BY <1>5 DEF CommandCache
  <2>. QED  BY <2>1, <2>2 DEF ResultsAreReal, With
<1>6. CASE CommandReport
  <2>1. UNCHANGED search_results
    BY <1>6 DEF CommandReport, Report
  <2>2. ASSUME NEW c \in Contexts, NEW n \in DOMAIN results'[c] PROVE n \in Has[results'[c][n]]
    <3>1. results'[c] = [x \in DOMAIN results[c] \cup ToSet(command.queues[c]) |->
                      IF x \in ToSet(command.queues[c]) THEN command.address
                      ELSE results[c][x]]
      BY <1>6 DEF CommandReport, Report
    <3>2. CASE n \in ToSet(command.queues[c])
      <4>1. PICK i \in DOMAIN command.queues[c] : command.queues[c][i] = n
        BY <3>2 DEF ToSet
      <4>. QED  BY <3>1, <3>2, <4>1 DEF OneServer
    <3>3. CASE n \notin ToSet(command.queues[c])
      BY <3>1, <3>3 DEF ResultsAreReal
    <3>. QED  BY <3>2, <3>3
  <2>. QED  BY <2>1, <2>2 DEF ResultsAreReal
<1>7. CASE Tick
  <2>1. search_results' = [n \in DOMAIN search_results |->
          [search_results[n] EXCEPT !.age = Least(@ + 1, STALE_SEARCH_EXPIRATION + 1)]]
    BY <1>7 DEF Tick
  <2>2. \A n \in DOMAIN search_results : search_results[n] \in [address : Addresses, age : Int]
    BY DEF TypeOK
  <2>3. /\ DOMAIN search_results' = DOMAIN search_results
        /\ \A n \in DOMAIN search_results : search_results'[n].address = search_results[n].address
    BY <2>1, <2>2
  <2>4. UNCHANGED results
    BY <1>7 DEF Tick
  <2>. QED  BY <2>3, <2>4 DEF ResultsAreReal
<1>8. CASE \/ \E n \in Names : cancel(n)
           \/ \E ms \in SUBSET net : received(ms)
           \/ \E m \in net : Lose(m)
           \/ _new_server_found \/ CommandPop \/ Retry \/ RetrySendError
           \/ UNCHANGED vars
  <2>1. UNCHANGED <<search_results, results>>
    BY <1>8 DEF cancel, received, Lose, _new_server_found, CommandPop, Retry, RetrySelect, RetrySend,
                RetryWake, RetrySendError, vars
  <2>. QED  BY <1>1, <2>1
<1>. QED  BY <1>2, <1>3, <1>4, <1>5, <1>6, <1>7, <1>8 DEF Next, Command

\* As long as no name server answers for others, every result, in a queue or
\* in the cache, is the address of a server that has the name: a response is
\* matched to its search by the cid alone, in a thread of its own, while
\* searches are sent, cancelled, repeated and answered by others.
THEOREM ResultsReal ==
  ASSUME NameServers = FALSE
  PROVE  Spec => []ResultsAreReal
<1>. DEFINE Inv == TypeOK /\ CommandOK /\ IInv
<1>1. Init => Inv
  <2>1. Init => TypeOK /\ CommandOK /\ IdsAreNew
    BY InitBase
  <2>2. Init => IdsAreRight /\ OneServer /\ ResultsAreReal
    BY DEF Init, IdsAreRight, OneServer, ResultsAreReal
  <2>. QED  BY <2>1, <2>2 DEF IInv
<1>2. Inv /\ [Next]_vars => Inv'
  BY NextType, NextCommand, NextIds, NextRight, NextOneServer, NextReal DEF IInv
<1>3. Inv => ResultsAreReal
  BY DEF IInv
<1>. QED  BY <1>1, <1>2, <1>3, PTL DEF Spec
---------------------------------------------------------------------------
(***************************************************************************)
(* No search is lost and none is answered twice.                           *)
(***************************************************************************)
LEMMA UnansweredFinite ==
  ASSUME TypeOK, NEW c, NEW n
  PROVE  IsFiniteSet(Unanswered(c, n)) /\ Cardinality(Unanswered(c, n)) \in Nat
<1>1. IsFiniteSet(Ids)
  BY FS_Interval, IdAssumption DEF Ids
<1>2. Unanswered(c, n) \subseteq Ids
  BY DEF Unanswered, TypeOK
<1>. QED  BY <1>1, <1>2, FS_Subset, FS_CardinalityType

\* A name that is put into a queue is there once more.
LEMMA TimesAppend ==
  ASSUME NEW S, NEW q \in Seq(S), NEW x \in S, NEW y \in S
  PROVE  Times(Append(q, y), x) = Times(q, x) + (IF x = y THEN 1 ELSE 0)
<1>. DEFINE at(s) == {i \in DOMAIN s : s[i] = x}
<1>1. IsFiniteSet(at(q)) /\ Len(q) + 1 \notin at(q) /\ Cardinality(at(q)) \in Nat
  <2>1. IsFiniteSet(at(q))
    BY TimesType
  <2>2. Len(q) + 1 \notin at(q)
    OBVIOUS
  <2>. QED  BY <2>1, <2>2, FS_CardinalityType
<1>2. Times(q, x) = Cardinality(at(q)) /\ Times(Append(q, y), x) = Cardinality(at(Append(q, y)))
  BY DEF Times
<1>3. CASE x = y
  <2>1. at(Append(q, y)) = at(q) \cup {Len(q) + 1}
    BY <1>3
  <2>. HIDE DEF at
  <2>2. Cardinality(at(Append(q, y))) = Cardinality(at(q)) + 1
    BY <1>1, <2>1, FS_AddElement
  <2>. QED  BY <1>1, <1>3, <1>2, <2>2
<1>4. CASE x # y
  <2>1. at(Append(q, y)) = at(q)
    BY <1>4
  <2>. HIDE DEF at
  <2>. QED  BY <1>1, <1>4, <1>2, <2>1
<1>. QED  BY <1>3, <1>4

LEMMA NextConserved ==
  TypeOK /\ CommandOK /\ IdsAreNew /\ SearchesAreConserved /\ [Next]_vars => SearchesAreConserved'
<1>. SUFFICES ASSUME TypeOK, CommandOK, IdsAreNew, SearchesAreConserved, [Next]_vars,
                     NEW c \in Contexts, NEW n \in Names
              PROVE  owed'[c][n] = Cardinality(Unanswered(c, n)')
                                     + (IF Popped(c, n)' THEN 1 ELSE 0)
                                     + Times(command'.queues[c], n)
  BY DEF SearchesAreConserved
<1>. USE DEF table
<1>. DEFINE P == IF Popped(c, n) THEN 1 ELSE 0
            Goal == owed'[c][n] = Cardinality(Unanswered(c, n)')
                                     + (IF Popped(c, n)' THEN 1 ELSE 0)
                                     + Times(command'.queues[c], n)
<1>0. /\ IsFiniteSet(Unanswered(c, n)) /\ Cardinality(Unanswered(c, n)) \in Nat
      /\ P \in Nat /\ Times(command.queues[c], n) \in Nat
      /\ owed[c][n] = Cardinality(Unanswered(c, n)) + P + Times(command.queues[c], n)
      /\ owed \in [Contexts -> [Names -> Int]]
      /\ command \in CommandType /\ command.queues[c] \in Seq(Names)
  <2>1. command \in CommandType /\ command.queues[c] \in Seq(Names)
    BY DEF TypeOK, CommandType
  <2>2. Times(command.queues[c], n) \in Nat
    BY <2>1, TimesType
  <2>. QED  BY <2>1, <2>2, UnansweredFinite DEF SearchesAreConserved, TypeOK
<1>1. CASE UNCHANGED <<unanswered_searches, command, owed>>
  BY <1>1, <1>0 DEF Unanswered, Popped
<1>2. CASE SameSearches /\ UNCHANGED <<command, owed>>
  <2>1. Unanswered(c, n)' = Unanswered(c, n)
    BY <1>2 DEF SameSearches, Unanswered
  <2>. QED  BY <1>0, <1>2, <2>1 DEF Popped
<1>3. ASSUME NEW d \in Contexts, NEW x \in Names, search(d, x) \/ reconnect(d, x)
      PROVE  Goal
  <2>1. UNCHANGED command
    BY <1>3 DEF search, reconnect
  <2>2. CASE UNCHANGED <<unanswered_searches, owed>>
    BY <1>1, <2>1, <2>2
  <2>3. ASSUME NEW k, k \notin DOMAIN unanswered_searches,
               unanswered_searches' =
                   With(unanswered_searches, k, [name |-> x, queue |-> d, age |-> LongAgo,
                                                 left |-> SEARCH_RETIREMENT_AGE]),
               owed' = [owed EXCEPT ![d][x] = @ + 1]
        PROVE  Goal
    <3>1. Unanswered(c, n)' = IF c = d /\ n = x THEN Unanswered(c, n) \cup {k} ELSE Unanswered(c, n)
      BY <2>3 DEF With, Unanswered
    <3>2. k \notin Unanswered(c, n)
      BY <2>3 DEF Unanswered
    <3>3. owed'[c][n] = IF c = d /\ n = x THEN owed[c][n] + 1 ELSE owed[c][n]
      BY <1>0, <2>3
    <3>4. Cardinality(Unanswered(c, n)') = IF c = d /\ n = x THEN Cardinality(Unanswered(c, n)) + 1
                                           ELSE Cardinality(Unanswered(c, n))
      BY <1>0, <3>1, <3>2, FS_AddElement
    <3>5. Popped(c, n)' = Popped(c, n)
      BY <2>1 DEF Popped
    <3>. QED  BY <1>0, <2>1, <3>3, <3>4, <3>5
  <2>. QED  BY <1>3, <2>2, <2>3, SearchIds
<1>4. ASSUME NEW x \in Names, cancel(x) PROVE Goal
  <2>. DEFINE ids == {i \in DOMAIN unanswered_searches : unanswered_searches[i].name = x}
  <2>1. UNCHANGED command
    BY <1>4 DEF cancel
  <2>2. owed'[c][n] = IF n = x
                      THEN owed[c][n] - Cardinality({i \in ids : unanswered_searches[i].queue = c})
                      ELSE owed[c][n]
    BY <1>0, <1>4 DEF cancel
  <2>3. n = x => {i \in ids : unanswered_searches[i].queue = c} = Unanswered(c, n)
    BY DEF Unanswered
  <2>4. unanswered_searches' = Without(unanswered_searches, ids)
    BY <1>4 DEF cancel
  <2>5. Unanswered(c, n)' = IF n = x THEN {} ELSE Unanswered(c, n)
    BY <2>4 DEF Unanswered, Without
  <2>6. Popped(c, n)' = Popped(c, n)
    BY <2>1 DEF Popped
  <2>7. CASE n = x
    <3>1. Cardinality(Unanswered(c, n)') = 0
      BY <2>5, <2>7, FS_EmptySet
    <3>2. owed'[c][n] = owed[c][n] - Cardinality(Unanswered(c, n))
      BY <2>2, <2>3, <2>7
    <3>. QED  BY <1>0, <2>1, <2>6, <3>1, <3>2
  <2>8. CASE n # x
    BY <1>0, <2>1, <2>2, <2>5, <2>6, <2>8
  <2>. QED  BY <2>7, <2>8
<1>5. ASSUME NEW ms \in SUBSET net, received(ms) PROVE Goal
  <2>1. command.at = "get" /\ command'.at = "each" /\ UNCHANGED command.queues
    BY <1>5, ReceivedFacts
  <2>2. UNCHANGED <<unanswered_searches, owed>>
    BY <1>5 DEF received
  <2>. QED  BY <1>0, <2>1, <2>2 DEF Popped, Unanswered
<1>6. CASE CommandPop
  <2>. DEFINE cid == Head(command.bundle).cid
  <2>0. UNCHANGED owed /\ ~Popped(c, n)
    BY <1>6 DEF CommandPop, Popped
  <2>1. CASE /\ cid \in DOMAIN unanswered_searches
             /\ command' = [at |-> "cache", bundle |-> command.bundle,
                            popped |-> unanswered_searches[cid],
                            address |-> command.address, queues |-> command.queues]
             /\ unanswered_searches' = Without(unanswered_searches, {cid})
    <3>1. Unanswered(c, n)' = Unanswered(c, n) \ {cid}
      BY <2>1 DEF Unanswered, Without
    <3>2. Popped(c, n)' <=> cid \in Unanswered(c, n)
      BY <2>1 DEF Unanswered, Popped
    <3>3. Cardinality(Unanswered(c, n)') = IF cid \in Unanswered(c, n)
                                           THEN Cardinality(Unanswered(c, n)) - 1
                                           ELSE Cardinality(Unanswered(c, n))
      BY <1>0, <3>1, FS_RemoveElement
    <3>4. command'.queues = command.queues
      BY <2>1
    <3>5. P = 0
      BY <2>0
    <3>. HIDE DEF P, cid
    <3>. QED  BY <1>0, <2>0, <3>2, <3>3, <3>4, <3>5
  <2>2. CASE /\ command' = [at |-> "each", bundle |-> Tail(command.bundle),
                            popped |-> command.popped,
                            address |-> command.address, queues |-> command.queues]
             /\ UNCHANGED unanswered_searches
    BY <1>0, <2>0, <2>2 DEF Popped, Unanswered
  <2>. QED  BY <1>6, <2>1, <2>2, PopFacts
<1>7. CASE CommandCache
  <2>. DEFINE s == command.popped
  <2>1. /\ s \in Entry /\ command.at = "cache"
        /\ command' = [at |-> "each", bundle |-> Tail(command.bundle), popped |-> None,
                       address |-> Head(command.bundle).address,
                       queues |-> [command.queues EXCEPT ![s.queue] = Append(@, s.name)]]
    BY <1>7, CacheFacts
  <2>2. UNCHANGED <<unanswered_searches, owed>>
    BY <1>7 DEF CommandCache
  <2>3. s.queue \in Contexts /\ s.name \in Names
    BY <2>1 DEF Entry
  <2>4. command'.queues[c] = IF c = s.queue THEN Append(command.queues[c], s.name)
                             ELSE command.queues[c]
    BY <1>0, <2>1, <2>3 DEF CommandType
  <2>5. Times(command'.queues[c], n) = Times(command.queues[c], n) + P
    <3>1. Times(Append(command.queues[c], s.name), n)
            = Times(command.queues[c], n) + (IF n = s.name THEN 1 ELSE 0)
      BY <1>0, <2>3, TimesAppend
    <3>. QED  BY <1>0, <2>1, <2>4, <3>1 DEF Popped
  <2>6. ~Popped(c, n)' /\ Unanswered(c, n)' = Unanswered(c, n)
    BY <2>1, <2>2 DEF Popped, Unanswered
  <2>. QED  BY <1>0, <2>2, <2>5, <2>6
<1>8. CASE CommandReport
  <2>1. command.at = "each" /\ command'.at = "get" /\ command'.queues[c] = <<>>
    BY <1>8, ReportFacts
  <2>2. Times(<<>>, n) = 0
    BY FS_EmptySet DEF Times
  <2>3. owed'[c][n] = owed[c][n] - Times(command.queues[c], n)
    BY <1>8 DEF CommandReport, Report
  <2>4. UNCHANGED unanswered_searches
    BY <1>8 DEF CommandReport, Report
  <2>5. ~Popped(c, n)' /\ ~Popped(c, n) /\ Unanswered(c, n)' = Unanswered(c, n)
    BY <2>1, <2>4 DEF Popped, Unanswered
  <2>. QED  BY <1>0, <2>1, <2>2, <2>3, <2>5
<1>9. CASE _new_server_found \/ RetrySend \/ Tick
  BY <1>2, <1>9, Touched DEF _new_server_found, RetrySend, Tick
<1>10. CASE \/ \E d \in Contexts : remove_listener(d)
            \/ \E m \in net : Lose(m)
            \/ RetrySelect \/ RetryWake \/ RetrySendError \/ UNCHANGED vars
  <2>1. UNCHANGED <<unanswered_searches, command, owed>>
    BY <1>10 DEF remove_listener, Lose, RetrySelect, RetryWake, RetrySendError, vars
  <2>. QED  BY <1>1, <2>1
<1>. QED  BY <1>3, <1>4, <1>5, <1>6, <1>7, <1>8, <1>9, <1>10 DEF Next, Command, Retry

\* What a Context has yet to be told is still unanswered or in the command
\* thread's hands, however requests and responses are repeated, lost, late
\* or redundant, with name servers or without.
THEOREM SearchesConserved == Spec => []SearchesAreConserved
<1>. DEFINE Inv == TypeOK /\ CommandOK /\ IdsAreNew /\ SearchesAreConserved
<1>1. Init => Inv
  <2>. SUFFICES ASSUME Init, NEW c \in Contexts, NEW n \in Names
                PROVE  owed[c][n] = Cardinality(Unanswered(c, n)) + (IF Popped(c, n) THEN 1 ELSE 0)
                                     + Times(command.queues[c], n)
    BY InitBase DEF SearchesAreConserved
  <2>1. Unanswered(c, n) = {} /\ ~Popped(c, n) /\ command.queues[c] = <<>> /\ owed[c][n] = 0
    BY DEF Init, Unanswered, Popped
  <2>2. Times(<<>>, n) = 0
    BY FS_EmptySet DEF Times
  <2>. QED  BY <2>1, <2>2, FS_EmptySet
<1>2. Inv /\ [Next]_vars => Inv'
  BY NextType, NextCommand, NextIds, NextConserved
<1>. QED  BY <1>1, <1>2, PTL DEF Spec
=============================================================================
