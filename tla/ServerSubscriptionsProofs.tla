--------------------- MODULE ServerSubscriptionsProofs ---------------------
(***************************************************************************)
(* Theorems about ServerSubscriptions, for any number of clients and       *)
(* subscriptions, any size of the queues and whatever clients may do:      *)
(* every subscription that a circuit holds is known to the Context and     *)
(* registered with the ChannelData, what leaves the server keeps the       *)
(* promise of Monitors, and the latest value is not lost on the way.       *)
(***************************************************************************)
EXTENDS ServerSubscriptions, FiniteSetTheorems, WellFoundedInduction, TLAPS

\* The order of the natural numbers as a relation.
Below == {p \in Nat \X Nat : p[1] < p[2]}

\* A set of natural numbers has a smallest element.
LEMMA Smallest ==
  ASSUME NEW S \in SUBSET Nat, S # {}
  PROVE  \E x \in S : \A y \in S : x <= y
<1>1. IsWellFoundedOn(Below, Nat)
  BY NatLessThanWellFounded DEF OpToRel, Below
<1>2. PICK x \in S : \A y \in S : ~(<<y, x>> \in Below)
  BY <1>1, WFMin
<1>3. \A y \in S : x <= y
  <2>. SUFFICES ASSUME NEW y \in S, y < x PROVE FALSE
    OBVIOUS
  <2>1. <<y, x>> \in Below
    BY DEF Below
  <2>. QED  BY <1>2, <2>1
<1>. QED  BY <1>3

\* The image of a finite set is finite.
LEMMA FiniteImage ==
  ASSUME NEW S, IsFiniteSet(S), NEW T, NEW f \in [S -> T], \A t \in T : \E x \in S : f[x] = t
  PROVE  IsFiniteSet(T)
<1>1. f \in Surjection(S, T)
  BY DEF Surjection
<1>. QED  BY <1>1, FS_Surjection

\* SetToSeq lists the elements of a finite set, each once.
LEMMA Listed ==
  ASSUME NEW S, IsFiniteSet(S)
  PROVE  /\ SetToSeq(S) \in Seq(S)
         /\ ToSet(SetToSeq(S)) = S
         /\ \A i, j \in DOMAIN SetToSeq(S) : SetToSeq(S)[i] = SetToSeq(S)[j] => i = j
<1>. DEFINE n == Cardinality(S)
            list == SetToSeq(S)
<1>1. n \in Nat /\ ExistsBijection(1..n, S)
  BY FS_CardinalityType
<1>2. PICK f \in Bijection(1..n, S) : TRUE
  BY <1>1 DEF ExistsBijection
<1>3. f \in [1..n -> S] /\ IsInjective(f)
  BY <1>2 DEF Bijection, Injection
<1>4. list \in [1..n -> S] /\ IsInjective(list)
  BY <1>3 DEF SetToSeq
<1>5. list \in Injection(1..n, S)
  BY <1>4 DEF Injection
<1>6. IsFiniteSet(1..n) /\ Cardinality(1..n) = n
  BY <1>1, FS_Interval
<1>7. list \in Surjection(1..n, S)
  BY <1>5, <1>6, FS_Injection
<1>. HIDE DEF n, list
<1>8. list \in Seq(S)
  BY <1>1, <1>4
<1>9. ToSet(list) = S
  BY <1>4, <1>7 DEF ToSet, Surjection
<1>10. \A i, j \in DOMAIN list : list[i] = list[j] => i = j
  BY <1>4 DEF IsInjective
<1>. QED  BY <1>8, <1>9, <1>10 DEF list

\* The end of a sequence leaves its beginning alone.
LEMMA Extended ==
  ASSUME NEW S, NEW s \in Seq(S), NEW t \in Seq(S)
  PROVE  /\ s \o t \in Seq(S) /\ Len(s \o t) = Len(s) + Len(t)
         /\ \A i \in DOMAIN s : i \in DOMAIN (s \o t) /\ (s \o t)[i] = s[i]
         /\ \A i \in DOMAIN t : Len(s) + i \in DOMAIN (s \o t) /\ (s \o t)[Len(s) + i] = t[i]
         /\ ToSet(s \o t) = ToSet(s) \cup ToSet(t)
<1>1. /\ s \o t \in Seq(S) /\ Len(s \o t) = Len(s) + Len(t)
      /\ \A i \in DOMAIN s : i \in DOMAIN (s \o t) /\ (s \o t)[i] = s[i]
      /\ \A i \in DOMAIN t : Len(s) + i \in DOMAIN (s \o t) /\ (s \o t)[Len(s) + i] = t[i]
  OBVIOUS
<1>2. \A i \in DOMAIN (s \o t) : i \in DOMAIN s \/ (i - Len(s) \in DOMAIN t /\ (s \o t)[i] = t[i - Len(s)])
  OBVIOUS
<1>3. ASSUME NEW x \in ToSet(s \o t) PROVE x \in ToSet(s) \cup ToSet(t)
  <2>1. PICK i \in DOMAIN (s \o t) : x = (s \o t)[i]
    BY <1>3 DEF ToSet
  <2>2. CASE i \in DOMAIN s
    BY <1>1, <2>1, <2>2 DEF ToSet
  <2>3. CASE i \notin DOMAIN s
    <3>1. i - Len(s) \in DOMAIN t /\ x = t[i - Len(s)]
      BY <1>2, <2>1, <2>3
    <3>. QED  BY <3>1 DEF ToSet
  <2>. QED  BY <2>2, <2>3
<1>4. ASSUME NEW x \in ToSet(s) \cup ToSet(t) PROVE x \in ToSet(s \o t)
  BY <1>1, <1>4 DEF ToSet
<1>. QED  BY <1>1, <1>3, <1>4

\* One more element.
LEMMA Appended ==
  ASSUME NEW S, NEW s \in Seq(S), NEW e \in S
  PROVE  /\ Append(s, e) \in Seq(S) /\ Len(Append(s, e)) = Len(s) + 1
         /\ DOMAIN Append(s, e) = DOMAIN s \cup {Len(s) + 1} /\ Len(s) + 1 \notin DOMAIN s
         /\ \A i \in DOMAIN s : Append(s, e)[i] = s[i]
         /\ Append(s, e)[Len(s) + 1] = e
         /\ ToSet(Append(s, e)) = ToSet(s) \cup {e}
<1>1. /\ Append(s, e) \in Seq(S) /\ Len(Append(s, e)) = Len(s) + 1
      /\ DOMAIN Append(s, e) = DOMAIN s \cup {Len(s) + 1} /\ Len(s) + 1 \notin DOMAIN s
      /\ \A i \in DOMAIN s : Append(s, e)[i] = s[i]
      /\ Append(s, e)[Len(s) + 1] = e
  OBVIOUS
<1>. QED  BY <1>1 DEF ToSet

\* The first element and the others.
LEMMA HeadAndTail ==
  ASSUME NEW S, NEW s \in Seq(S), s # <<>>
  PROVE  /\ Head(s) \in S /\ Tail(s) \in Seq(S)
         /\ Head(s) = s[1] /\ 1 \in DOMAIN s
         /\ \A i \in DOMAIN s : i # 1 => i - 1 \in DOMAIN Tail(s) /\ Tail(s)[i - 1] = s[i]
         /\ ToSet(s) = {Head(s)} \cup ToSet(Tail(s))
<1>1. /\ Head(s) \in S /\ Tail(s) \in Seq(S)
      /\ Head(s) = s[1] /\ 1 \in DOMAIN s
      /\ \A i \in DOMAIN s : i # 1 => i - 1 \in DOMAIN Tail(s) /\ Tail(s)[i - 1] = s[i]
  OBVIOUS
<1>2. \A i \in DOMAIN Tail(s) : i + 1 \in DOMAIN s /\ Tail(s)[i] = s[i + 1]
  OBVIOUS
<1>3. ASSUME NEW x \in ToSet(s) PROVE x \in {Head(s)} \cup ToSet(Tail(s))
  <2>1. PICK i \in DOMAIN s : x = s[i]
    BY <1>3 DEF ToSet
  <2>. QED  BY <1>1, <2>1 DEF ToSet
<1>4. ASSUME NEW x \in {Head(s)} \cup ToSet(Tail(s)) PROVE x \in ToSet(s)
  BY <1>1, <1>2, <1>4 DEF ToSet
<1>. QED  BY <1>1, <1>3, <1>4

\* A list of elements of a set is a list of elements of a larger one.
LEMMA Widened ==
  ASSUME NEW S, NEW T, S \subseteq T, NEW s \in Seq(S)
  PROVE  s \in Seq(T)
<1>. QED  OBVIOUS

(***************************************************************************)
(* The inductive invariant.                                                *)
(***************************************************************************)

\* The command loop waits for a write exactly while it holds an EventAdd.
AddingIsHeld ==
  \A c \in Circuits : IF cmd_task[c] = "adding" THEN adding[c] \in Subscriptions
                                                ELSE adding[c] = None

\* What a circuit is asked, holds and is about to send is its own client's.
OwnCommands(c) ==
  \A i \in DOMAIN command_queue[c] : LET cmd == command_queue[c][i] IN
    cmd.kind \in {"EventAdd", "EventCancel"} => cmd.sub.circuit = c
OwnUpdates(c) ==
  \A e \in ToSet(batch[c]) \cup ToSet(subscription_queue[c]) : e.sub.circuit = c
OwnSubscriptions(c) ==
  \A s \in subscriptions[c] \cup client[c].added : s.circuit = c
EachHasItsOwn ==
  \A c \in Circuits : OwnCommands(c) /\ OwnUpdates(c) /\ OwnSubscriptions(c)

\* The i-th command that waits for the command loop of c is such a request.
Asks(c, i, kind, s) ==
  /\ i \in DOMAIN command_queue[c]
  /\ command_queue[c][i].kind = kind /\ command_queue[c][i].sub = s

\* An honest client asks for a subscription once ...
AddsAreNew(c) ==
  \A s \in Subscriptions, i \in DOMAIN command_queue[c] : Asks(c, i, "EventAdd", s) =>
    /\ s \in client[c].added /\ s \notin subscriptions[c] /\ delivered[s] # Cancelled
    /\ \A j \in DOMAIN command_queue[c] : Asks(c, j, "EventAdd", s) => j = i

\* ... and cancels it once, after it asked for it.
CancelsAreLate(c) ==
  \A s \in Subscriptions, i \in DOMAIN command_queue[c] : Asks(c, i, "EventCancel", s) =>
    /\ s \in client[c].added /\ s \notin client[c].held /\ delivered[s] # Cancelled
    /\ \A j \in DOMAIN command_queue[c] : Asks(c, j, "EventCancel", s) => j = i
    /\ connected[c] => \/ s \in subscriptions[c]
                       \/ \E j \in DOMAIN command_queue[c] : j < i /\ Asks(c, j, "EventAdd", s)

\* What a client holds is at the circuit or will be.
HeldIsServed(c) ==
  \A s \in client[c].held :
    /\ s \in client[c].added /\ delivered[s] # Cancelled
    /\ connected[c] => \/ s \in subscriptions[c]
                       \/ \E j \in DOMAIN command_queue[c] : Asks(c, j, "EventAdd", s)

\* A subscription at the circuit was asked for; a cancelled one has left it.
ServedIsHeld(c) ==
  \A s \in subscriptions[c] : s \in client[c].added /\ delivered[s] # Cancelled
CancelledIsOver ==
  \A s \in Subscriptions : delivered[s] = Cancelled => s \in client[s.circuit].added

ClientsAreHonest ==
  /\ \A c \in Circuits : AddsAreNew(c) /\ CancelsAreLate(c) /\ HeldIsServed(c) /\ ServedIsHeld(c)
  /\ CancelledIsOver

\* No value that is still to be distributed is older than v.
NotAfter(v) ==
  /\ v <= version
  /\ \A i \in DOMAIN ctx_queue : v <= ctx_queue[i].ver
  /\ iter # None => v <= iter.ver

Ascending(list) == \A i, j \in DOMAIN list : i <= j => list[i].ver <= list[j].ver

\* Values overtake each other nowhere on their way: in the cache, in the
\* Context's queue and loop ...
ContextInOrder ==
  /\ \A p \in Specs : content[p] # None => content[p] = version
  /\ Ascending(ctx_queue) /\ \A i \in DOMAIN ctx_queue : ctx_queue[i].ver <= version
  /\ iter # None => NotAfter(iter.ver) /\ (iter.put # None => iter.put.ver = iter.ver)

\* ... in the queue and the batch of a circuit ...
CircuitInOrder(c) ==
  /\ \A e \in ToSet(batch[c]) \cup ToSet(subscription_queue[c]) : NotAfter(e.ver)
  /\ Ascending(batch[c]) /\ Ascending(subscription_queue[c])
  /\ \A e \in ToSet(batch[c]), f \in ToSet(subscription_queue[c]) : e.ver <= f.ver

\* ... and on the socket.
SentInOrder(s) ==
  /\ NotAfter(delivered[s])
  /\ \A e \in ToSet(batch[s.circuit]) \cup ToSet(subscription_queue[s.circuit]) :
       delivered[s] <= e.ver

InOrder ==
  /\ ContextInOrder
  /\ \A c \in Circuits : CircuitInOrder(c)
  /\ \A s \in Subscriptions : SentInOrder(s)

IInv == /\ TypeOK /\ AddingIsHeld /\ EachHasItsOwn /\ WantedIsRegistered
        /\ ClientsAreHonest /\ InOrder

(***************************************************************************)
(* Lists and requests.                                                     *)
(***************************************************************************)

\* In a finite set of numbers every rank up to its size is somebody's.
LEMMA Ranked ==
  ASSUME NEW P \in SUBSET Nat, IsFiniteSet(P), NEW k \in 1..Cardinality(P)
  PROVE  \E i \in P : Cardinality({j \in P : j <= i}) = k
<1>. DEFINE under(i) == {j \in P : j <= i}
            rank == [i \in P |-> Cardinality(under(i))]
            n == Cardinality(P)
<1>1. \A i \in P : under(i) \subseteq P /\ IsFiniteSet(under(i)) /\ i \in under(i)
  BY FS_Subset
<1>2. n \in Nat /\ \A i \in P : Cardinality(under(i)) \in Nat /\ Cardinality(under(i)) <= n
  BY <1>1, FS_Subset, FS_CardinalityType
<1>3. \A i \in P : Cardinality(under(i)) # 0
  BY <1>1, FS_EmptySet
<1>4. rank \in [P -> 1..n]
  BY <1>2, <1>3
<1>5. ASSUME NEW i \in P, NEW j \in P, i < j PROVE rank[i] < rank[j]
  <2>1. \A x \in P : x <= i => x <= j
    BY <1>5
  <2>2. under(i) \subseteq under(j) /\ j \notin under(i) /\ j \in under(j)
    <3>1. ~(j <= i) /\ j <= j
      BY <1>5
    <3>2. under(i) \subseteq under(j)
      BY <2>1
    <3>. QED  BY <3>1, <3>2
  <2>3. Cardinality(under(i)) <= Cardinality(under(j)) /\
        (Cardinality(under(i)) = Cardinality(under(j)) => under(i) = under(j))
    BY <1>1, <2>2, FS_Subset
  <2>. QED  BY <1>2, <2>2, <2>3
<1>6. rank \in Injection(P, 1..n)
  <2>1. ASSUME NEW i \in P, NEW j \in P, rank[i] = rank[j] PROVE i = j
    <3>1. ~(i < j) /\ ~(j < i)
      BY <1>2, <1>5, <2>1
    <3>. QED  BY <3>1
  <2>. HIDE DEF rank
  <2>2. IsInjective(rank)
    BY <1>4, <2>1 DEF IsInjective
  <2>. QED  BY <1>4, <2>2 DEF Injection
<1>7. IsFiniteSet(1..n) /\ Cardinality(1..n) = n
  BY <1>2, FS_Interval
<1>8. rank \in Surjection(P, 1..n)
  <2>. HIDE DEF rank
  <2>. QED  BY <1>6, <1>7, FS_Injection
<1>9. PICK i \in P : rank[i] = k
  BY <1>8 DEF Surjection
<1>. QED  BY <1>9

\* The others remain.
LEMMA Removed ==
  ASSUME NEW S, NEW list \in Seq(S), NEW gone
  PROVE  /\ Without(list, gone) \in Seq(S)
         /\ ToSet(Without(list, gone)) = ToSet(list) \ gone
<1>. DEFINE left == {i \in DOMAIN list : list[i] \notin gone}
            n == Cardinality(left)
            rank(i) == Cardinality({j \in left : j <= i})
            nth(k) == CHOOSE i \in left : rank(i) = k
<1>1. left \in SUBSET Nat /\ left \subseteq 1..Len(list) /\ IsFiniteSet(left) /\ n \in Nat
  <2>1. IsFiniteSet(1..Len(list))
    BY FS_Interval
  <2>2. left \subseteq 1..Len(list)
    OBVIOUS
  <2>3. IsFiniteSet(left) /\ n \in Nat
    BY <2>1, <2>2, FS_Subset, FS_CardinalityType
  <2>. QED  BY <2>2, <2>3
<1>2. Without(list, gone) = [k \in 1..n |-> list[nth(k)]]
  BY DEF Without
<1>3. ASSUME NEW k \in 1..n PROVE nth(k) \in left /\ rank(nth(k)) = k
  <2>1. \E i \in left : rank(i) = k
    BY <1>1, Ranked
  <2>. HIDE DEF rank, left
  <2>. QED  BY <2>1
<1>4. ASSUME NEW i \in left PROVE rank(i) \in 1..n /\ nth(rank(i)) = i
  <2>. DEFINE under(a) == {j \in left : j <= a}
  <2>1. \A a \in left : under(a) \subseteq left /\ a \in under(a)
    BY <1>1
  <2>2. \A a \in left : IsFiniteSet(under(a)) /\ rank(a) \in Nat /\ rank(a) <= n
    BY <1>1, <2>1, FS_Subset, FS_CardinalityType
  <2>3. \A a \in left : rank(a) # 0
    BY <2>1, <2>2, FS_EmptySet
  <2>4. rank(i) \in 1..n
    <3>. DEFINE r == rank(i)
    <3>1. r \in Nat /\ r <= n /\ r # 0
      BY <2>2, <2>3
    <3>. HIDE DEF r, n
    <3>2. r \in 1..n
      BY <1>1, <3>1
    <3>. QED  BY <3>2 DEF r
  <2>5. PICK k \in 1..n : k = rank(i)
    BY <2>4
  <2>6. nth(k) \in left /\ rank(nth(k)) = k
    BY <1>3
  <2>7. PICK a \in left : a = nth(k) /\ rank(a) = k
    BY <2>6
  <2>8. a <= i \/ i <= a
    BY <1>1
  <2>9. under(a) = under(i)
    <3>1. CASE a <= i
      <4>1. under(a) \subseteq under(i)
        BY <1>1, <3>1
      <4>. QED  BY <2>2, <2>5, <2>7, <4>1, FS_Subset
    <3>2. CASE i <= a
      <4>1. under(i) \subseteq under(a)
        BY <1>1, <3>2
      <4>. QED  BY <2>2, <2>5, <2>7, <4>1, FS_Subset
    <3>. QED  BY <2>8, <3>1, <3>2
  <2>10. a = i
    BY <1>1, <2>1, <2>9
  <2>. QED  BY <2>4, <2>5, <2>7, <2>10
<1>. HIDE DEF n, nth, rank
<1>5. \A k \in 1..n : list[nth(k)] \in S /\ list[nth(k)] \in ToSet(list) \ gone
  BY <1>3 DEF ToSet
<1>6. [k \in 1..n |-> list[nth(k)]] \in Seq(S)
  BY <1>1, <1>5
<1>7. ASSUME NEW x \in ToSet(list) \ gone PROVE x \in ToSet([k \in 1..n |-> list[nth(k)]])
  <2>1. PICK i \in DOMAIN list : x = list[i]
    BY <1>7 DEF ToSet
  <2>2. i \in left
    BY <1>7, <2>1
  <2>3. rank(i) \in 1..n /\ nth(rank(i)) = i
    BY <1>4, <2>2
  <2>. QED  BY <2>1, <2>3 DEF ToSet
<1>8. ASSUME NEW x \in ToSet([k \in 1..n |-> list[nth(k)]]) PROVE x \in ToSet(list) \ gone
  <2>1. PICK k \in 1..n : x = list[nth(k)]
    BY <1>8 DEF ToSet
  <2>. QED  BY <1>5, <2>1
<1>. QED  BY <1>2, <1>6, <1>7, <1>8

\* Max finds the last of some places of a list.
LEMMA Latest ==
  ASSUME NEW n \in Nat, NEW P \in SUBSET (1..n), P # {}
  PROVE  Max(P) \in P /\ \A i \in P : i <= Max(P)
<1>1. \E x \in P : \A y \in P : x >= y
  <2>. DEFINE Q == {n - x : x \in P}
  <2>1. Q \in SUBSET Nat /\ Q # {}
    <3>1. \A x \in P : n - x \in Nat
      OBVIOUS
    <3>. QED  BY <3>1
  <2>2. PICK q \in Q : \A y \in Q : q <= y
    BY <2>1, Smallest
  <2>3. PICK x \in P : q = n - x
    BY <2>2
  <2>4. \A y \in P : n - x <= n - y
    BY <2>2, <2>3
  <2>. QED  BY <2>4
<1>2. Max(P) \in P /\ \A y \in P : Max(P) >= y
  BY <1>1 DEF Max
<1>. QED  BY <1>2

\* Requests carry what their kind needs.
LEMMA CommandFields ==
  ASSUME NEW cmd \in Commands
  PROVE  /\ cmd.kind \in {"EventAdd", "EventCancel"} => cmd.sub \in Subscriptions
         /\ cmd.kind = "ClearChannel" => cmd.sid \in Sids
<1>. QED  BY DEF Commands

\* A request leaves the queue at its head.
LEMMA TakeFields ==
  ASSUME TypeOK, NEW c \in Circuits, NEW k, Take(c, k)
  PROVE  /\ cmd_task[c] = "get" /\ Yielded
         /\ command_queue[c] \in Seq(Commands) /\ command_queue[c] # <<>>
         /\ Head(command_queue[c]) \in Commands /\ Head(command_queue[c]).kind = k
         /\ Head(command_queue[c]) = command_queue[c][1] /\ 1 \in DOMAIN command_queue[c]
         /\ command_queue' \in [Circuits -> Seq(Commands)]
         /\ command_queue'[c] = Tail(command_queue[c])
         /\ \A d \in Circuits : d # c => command_queue'[d] = command_queue[d]
<1>1. /\ command_queue \in [Circuits -> Seq(Commands)]
      /\ command_queue[c] # <<>> /\ command_queue[c] \in Seq(Commands)
      /\ Head(command_queue[c]).kind = k /\ cmd_task[c] = "get" /\ Yielded
      /\ command_queue' = [command_queue EXCEPT ![c] = Tail(command_queue[c])]
  BY DEF Take, TypeOK
<1>2. /\ Head(command_queue[c]) \in Commands /\ Tail(command_queue[c]) \in Seq(Commands)
      /\ Head(command_queue[c]) = command_queue[c][1] /\ 1 \in DOMAIN command_queue[c]
  BY <1>1, HeadAndTail
<1>. QED  BY <1>1, <1>2

\* A response leaves the command loop ready or waiting for the socket.
LEMMA RespondFields ==
  ASSUME TypeOK, NEW c \in Circuits, Respond(c)
  PROVE  /\ cmd_task' \in [Circuits -> {"get", "adding", "drain", "done"}]
         /\ cmd_task'[c] \in {"get", "drain"}
         /\ \A d \in Circuits : d # c => cmd_task'[d] = cmd_task[d]
<1>1. PICK t \in {"get", "drain"} : cmd_task' = [cmd_task EXCEPT ![c] = t]
  BY DEF Respond
<1>. QED  BY <1>1 DEF TypeOK

\* The items that a write makes.
LEMMA PublishFields ==
  ASSUME TypeOK, Publish
  PROVE  \E list \in Seq(Updates) :
           /\ \A i \in DOMAIN list : list[i].ver = version + 1
           /\ ctx_queue' = ctx_queue \o list
           /\ ctx_queue' \in Seq(Updates)
           /\ version' = version + 1 /\ version' \in 0..MaxVersion
           /\ content' = [p \in Specs |-> None] /\ UNCHANGED registered
<1>. DEFINE make == [p \in registered |-> [spec |-> p, ver |-> version + 1, sub |-> None]]
            all == {[spec |-> p, ver |-> version + 1, sub |-> None] : p \in registered}
            list == SetToSeq(all)
<1>1. /\ version' = version + 1 /\ version' \in 0..MaxVersion
      /\ content' = [p \in Specs |-> None] /\ UNCHANGED registered
  BY BoundAssumption DEF Publish, TypeOK
<1>2. ctx_queue' = ctx_queue \o list
  BY <1>1 DEF Publish
<1>3. all \subseteq Updates /\ \A m \in all : m.ver = version + 1
  BY <1>1 DEF Updates, TypeOK
<1>4. IsFiniteSet(all)
  <2>1. IsFiniteSet(registered)
    BY SubscriptionAssumption, FS_Subset DEF TypeOK
  <2>2. make \in [registered -> all] /\ \A t \in all : \E p \in registered : make[p] = t
    OBVIOUS
  <2>. HIDE DEF make, all
  <2>. QED  BY <2>1, <2>2, FiniteImage
<1>. HIDE DEF all
<1>5. list \in Seq(all) /\ ToSet(list) = all
  BY <1>4, Listed
<1>. HIDE DEF list
<1>6. list \in Seq(Updates)
  BY <1>3, <1>5, Widened
<1>7. \A i \in DOMAIN list : list[i].ver = version + 1
  BY <1>3, <1>5
<1>8. ctx_queue' \in Seq(Updates)
  BY <1>2, <1>6, Extended DEF TypeOK
<1>. QED  BY <1>1, <1>2, <1>6, <1>7, <1>8

\* The items that subscribing makes: one for each subscription.
LEMMA SubscribeFields ==
  ASSUME TypeOK, ContextInOrder, NEW subs \in Seq(Subscriptions), Subscribe(subs)
  PROVE  \E list \in Seq(Updates) :
           /\ \A i \in DOMAIN list : list[i].ver = version
           /\ ctx_queue' = ctx_queue \o list
           /\ ctx_queue' \in Seq(Updates)
           /\ UNCHANGED version
           /\ content' \in [Specs -> 0..MaxVersion \cup {None}]
           /\ \A p \in Specs : content'[p] # None => content'[p] = version
           /\ registered' = registered \cup {s.spec : s \in ToSet(subs)}
           /\ registered' \subseteq Specs
<1>. DEFINE list == [i \in DOMAIN subs |->
              [spec |-> subs[i].spec, ver |-> Reading(subs[i].spec), sub |-> subs[i]]]
<1>1. \A s \in Subscriptions : s.spec \in Specs
  BY SubscriptionAssumption
<1>2. \A p \in Specs : Reading(p) = version
  BY DEF ContextInOrder, Reading
<1>3. \A i \in DOMAIN subs : subs[i] \in Subscriptions /\ subs[i].spec \in Specs
  BY <1>1
<1>4. version \in 0..MaxVersion
  BY DEF TypeOK
<1>5. list \in Seq(Updates)
  <2>1. \A i \in DOMAIN subs : list[i] \in Updates
    BY <1>2, <1>3, <1>4 DEF Updates
  <2>2. DOMAIN list = 1..Len(subs) /\ Len(subs) \in Nat
    OBVIOUS
  <2>. QED  BY <2>1, <2>2
<1>6. \A i \in DOMAIN list : list[i].ver = version
  BY <1>2, <1>3
<1>7. ctx_queue' = ctx_queue \o list /\ UNCHANGED version
  BY DEF Subscribe
<1>. HIDE DEF list
<1>8. ctx_queue' \in Seq(Updates)
  BY <1>5, <1>7, Extended DEF TypeOK
<1>9. \A s \in ToSet(subs) : s \in Subscriptions
  BY <1>3 DEF ToSet
<1>10. registered' = registered \cup {s.spec : s \in ToSet(subs)} /\ registered' \subseteq Specs
  BY <1>1, <1>9 DEF Subscribe, TypeOK
<1>11. content' = [p \in Specs |-> IF \E s \in ToSet(subs) : s.spec = p
                                  THEN Reading(p) ELSE content[p]]
  BY DEF Subscribe
<1>12. /\ content' \in [Specs -> 0..MaxVersion \cup {None}]
       /\ \A p \in Specs : content'[p] # None => content'[p] = version
  BY <1>2, <1>4, <1>11 DEF TypeOK, ContextInOrder
<1>. QED  BY <1>5, <1>6, <1>7, <1>8, <1>10, <1>12

\* What is left of the Context's table.
LEMMA ReleaseFields ==
  ASSUME TypeOK, NEW gone, NEW specs, Release(gone, specs)
  PROVE  /\ ctx_subscriptions' \in [Specs -> Seq(Subscriptions)]
         /\ \A p \in Specs : ToSet(ctx_subscriptions'[p]) = ToSet(ctx_subscriptions[p]) \ gone
         /\ registered' \subseteq registered
         /\ \A p \in registered : ToSet(ctx_subscriptions'[p]) # {} => p \in registered'
         /\ UNCHANGED <<content, version>>
<1>1. ctx_subscriptions' = [p \in Specs |-> Without(ctx_subscriptions[p], gone)]
  BY DEF Release
<1>2. \A p \in Specs : /\ Without(ctx_subscriptions[p], gone) \in Seq(Subscriptions)
                       /\ ToSet(Without(ctx_subscriptions[p], gone)) = ToSet(ctx_subscriptions[p]) \ gone
  <2>1. \A p \in Specs : ctx_subscriptions[p] \in Seq(Subscriptions)
    BY DEF TypeOK
  <2>. QED  BY <2>1, Removed
<1>3. \A p \in Specs : ToSet(ctx_subscriptions'[p]) # {} => ctx_subscriptions'[p] # <<>>
  BY DEF ToSet
<1>4. registered' = registered \ {p \in specs : ctx_subscriptions'[p] = <<>>}
  BY DEF Release
<1>5. registered \subseteq Specs
  BY DEF TypeOK
<1>. QED  BY <1>1, <1>2, <1>3, <1>4, <1>5 DEF Release

\* A circuit that has ended is out of the tables.
LEMMA OnDisconnectFields ==
  ASSUME TypeOK, NEW c \in Circuits, OnDisconnect(c)
  PROVE  /\ connected' = [connected EXCEPT ![c] = FALSE]
         /\ sub_task' \in [Circuits -> {"get", "drain", "failed", "None"}]
         /\ connected[c] => subscriptions' = [subscriptions EXCEPT ![c] = {}]
         /\ ~connected[c] => UNCHANGED <<subscriptions, ctx_subscriptions>>
         /\ subscriptions' \in [Circuits -> SUBSET Subscriptions]
         /\ spec_keys' \in [Circuits -> SUBSET Specs]
         /\ ctx_subscriptions' \in [Specs -> Seq(Subscriptions)]
         /\ connected[c] => \A p \in Specs :
              ToSet(ctx_subscriptions'[p]) = ToSet(ctx_subscriptions[p]) \ subscriptions[c]
         /\ registered' \subseteq registered
         /\ \A p \in registered :
              p \in registered' \/ (connected[c] /\ ToSet(ctx_subscriptions'[p]) = {})
         /\ UNCHANGED <<content, version>>
<1>1. connected' = [connected EXCEPT ![c] = FALSE]
  BY DEF OnDisconnect
<1>2. sub_task' \in [Circuits -> {"get", "drain", "failed", "None"}]
  <2>1. PICK t \in {"failed", "None"} : sub_task' = [sub_task EXCEPT ![c] = t]
    BY DEF OnDisconnect
  <2>. QED  BY <2>1 DEF TypeOK
<1>3. CASE connected[c]
  <2>1. Release(subscriptions[c], spec_keys[c])
    BY <1>3 DEF OnDisconnect
  <2>2. /\ ctx_subscriptions' \in [Specs -> Seq(Subscriptions)]
        /\ \A p \in Specs : ToSet(ctx_subscriptions'[p]) = ToSet(ctx_subscriptions[p]) \ subscriptions[c]
        /\ registered' \subseteq registered
        /\ \A p \in registered : ToSet(ctx_subscriptions'[p]) # {} => p \in registered'
        /\ UNCHANGED <<content, version>>
    BY <2>1, ReleaseFields
  <2>3. /\ subscriptions' = [subscriptions EXCEPT ![c] = {}]
        /\ spec_keys' = [spec_keys EXCEPT ![c] = {}]
    BY <1>3 DEF OnDisconnect
  <2>4. spec_keys' \in [Circuits -> SUBSET Specs] /\ subscriptions' \in [Circuits -> SUBSET Subscriptions]
    BY <2>3 DEF TypeOK
  <2>. QED  BY <1>1, <1>2, <1>3, <2>2, <2>3, <2>4
<1>4. CASE ~connected[c]
  <2>1. UNCHANGED <<ctx_subscriptions, dataVars, subscriptions, spec_keys>>
    BY <1>4 DEF OnDisconnect
  <2>. QED  BY <1>1, <1>2, <1>4, <2>1 DEF dataVars, TypeOK
<1>. QED  BY <1>3, <1>4

---------------------------------------------------------------------------
(***************************************************************************)
(* Types.                                                                  *)
(***************************************************************************)

\* The program's writes and those of clients.
LEMMA WriteType ==
  ASSUME TypeOK, ServerWrite \/ \E c \in Circuits : HandleWrite(c)
  PROVE  TypeOK'
<1>. USE DEF linkVars, cmdVars, circVars, flowVars, wrVars, outVars, ctxVars, dataVars
<1>1. ctx_queue' \in Seq(Updates) /\ registered' \subseteq Specs
      /\ content' \in [Specs -> 0..MaxVersion \cup {None}] /\ version' \in 0..MaxVersion
  <2>1. CASE Publish
    BY <2>1, PublishFields DEF TypeOK
  <2>2. CASE UNCHANGED <<dataVars, ctx_queue>>
    BY <2>2 DEF TypeOK
  <2>. QED  BY <2>1, <2>2 DEF ServerWrite, HandleWrite
<1>2. CASE ServerWrite
  BY <1>1, <1>2 DEF ServerWrite, TypeOK
<1>3. ASSUME NEW c \in Circuits, HandleWrite(c) PROVE TypeOK'
  <2>1. writes' \in [Circuits -> Nat] /\ write_event' \in [Circuits -> BOOLEAN]
    BY <1>3 DEF HandleWrite, TypeOK
  <2>. QED  BY <1>1, <1>3, <2>1 DEF HandleWrite, TypeOK
<1>. QED  BY <1>2, <1>3

\* What a client remembers of its requests.
LEMMA HonestFields ==
  ASSUME TypeOK, NEW c \in Circuits, NEW cmd \in HonestCommands(c), client[c].sent < MaxCommands
  PROVE  /\ cmd \in Commands
         /\ AfterSending(client[c], cmd) \in [sent : 0..MaxCommands, open : SUBSET Sids,
              added : SUBSET Subscriptions, held : SUBSET Subscriptions, off : BOOLEAN]
<1>. DEFINE me == client[c]
<1>1. /\ me.sent \in 0..MaxCommands /\ me.open \subseteq Sids
      /\ me.added \subseteq Subscriptions /\ me.held \subseteq Subscriptions /\ me.off \in BOOLEAN
  BY DEF TypeOK
<1>2. cmd \in Commands
  <2>1. CASE \E s \in Subscriptions : cmd = [kind |-> "EventAdd", sub |-> s]
    BY <2>1 DEF Commands
  <2>2. CASE \E s \in me.held : cmd = [kind |-> "EventCancel", sub |-> s]
    BY <1>1, <2>2 DEF Commands
  <2>3. CASE \E i \in me.open : cmd = [kind |-> "ClearChannel", sid |-> i]
    BY <1>1, <2>3 DEF Commands
  <2>4. CASE cmd \in {[kind |-> "EventsOn"], [kind |-> "EventsOff"], [kind |-> "Write"]}
    BY <2>4 DEF Commands
  <2>. QED  BY <2>1, <2>2, <2>3, <2>4 DEF HonestCommands
<1>3. /\ cmd.kind \in {"EventAdd", "EventCancel"} => cmd.sub \in Subscriptions
      /\ cmd.kind = "ClearChannel" => cmd.sid \in Sids
  BY <1>2, CommandFields
<1>4. me.sent + 1 \in 0..MaxCommands
  BY <1>1, BoundAssumption
<1>. HIDE DEF me
<1>5. AfterSending(me, cmd) \in [sent : 0..MaxCommands, open : SUBSET Sids,
        added : SUBSET Subscriptions, held : SUBSET Subscriptions, off : BOOLEAN]
  <2>1. (IF cmd.kind \in {"EventsOn", "EventsOff"} THEN ~me.off ELSE me.off) \in BOOLEAN
    BY <1>1
  <2>2. (IF cmd.kind = "ClearChannel" THEN me.open \ {cmd.sid} ELSE me.open) \in SUBSET Sids
    BY <1>1
  <2>3. (IF cmd.kind = "EventAdd" THEN me.added \cup {cmd.sub} ELSE me.added) \in SUBSET Subscriptions
    BY <1>1, <1>3
  <2>4. (IF cmd.kind = "EventAdd" THEN me.held \cup {cmd.sub}
         ELSE IF cmd.kind = "EventCancel" THEN me.held \ {cmd.sub} ELSE me.held) \in SUBSET Subscriptions
    BY <1>1, <1>3
  <2>. QED  BY <1>4, <2>1, <2>2, <2>3, <2>4 DEF AfterSending
<1>. QED  BY <1>2, <1>5 DEF me

\* The receiving task.
LEMMA RecvType ==
  ASSUME TypeOK, NEW c \in Circuits, Recv(c) \/ RecvEOF(c)
  PROVE  TypeOK'
<1>. USE DEF linkVars, cmdVars, circVars, flowVars, wrVars, outVars, ctxVars, dataVars
<1>0. command_queue \in [Circuits -> Seq(Commands)] /\ command_queue[c] \in Seq(Commands)
  BY DEF TypeOK
<1>1. CASE Recv(c)
  <2>1. PICK cmd \in HonestCommands(c) :
          /\ command_queue' = [command_queue EXCEPT ![c] = Append(@, cmd)]
          /\ client' = [client EXCEPT ![c] = AfterSending(@, cmd)]
    BY <1>1 DEF Recv
  <2>2. /\ cmd \in Commands
        /\ AfterSending(client[c], cmd) \in [sent : 0..MaxCommands, open : SUBSET Sids,
              added : SUBSET Subscriptions, held : SUBSET Subscriptions, off : BOOLEAN]
    BY <1>1, HonestFields DEF Recv
  <2>3. Append(command_queue[c], cmd) \in Seq(Commands)
    BY <1>0, <2>2, Appended
  <2>4. command_queue' \in [Circuits -> Seq(Commands)]
    BY <1>0, <2>1, <2>3
  <2>5. client' \in [Circuits -> [sent : 0..MaxCommands, open : SUBSET Sids,
              added : SUBSET Subscriptions, held : SUBSET Subscriptions, off : BOOLEAN]]
    BY <2>1, <2>2 DEF TypeOK
  <2>. QED  BY <1>1, <2>4, <2>5 DEF Recv, TypeOK
<1>2. CASE RecvEOF(c)
  <2>1. [kind |-> "DISCONNECTED"] \in Commands
    BY DEF Commands
  <2>2. Append(command_queue[c], [kind |-> "DISCONNECTED"]) \in Seq(Commands)
    BY <1>0, <2>1, Appended
  <2>3. command_queue' \in [Circuits -> Seq(Commands)]
    BY <1>0, <1>2, <2>2 DEF RecvEOF
  <2>4. /\ connected' \in [Circuits -> BOOLEAN] /\ circuits' \subseteq Circuits
        /\ recv_task' \in [Circuits -> {"recv", "done"}]
    BY <1>2 DEF RecvEOF, OnDisconnect, CircuitDisconnected, TypeOK
  <2>5. /\ sub_task' \in [Circuits -> {"get", "drain", "failed", "None"}]
        /\ subscriptions' \in [Circuits -> SUBSET Subscriptions]
        /\ spec_keys' \in [Circuits -> SUBSET Specs]
        /\ ctx_subscriptions' \in [Specs -> Seq(Subscriptions)]
        /\ registered' \subseteq registered
        /\ UNCHANGED <<content, version>>
    BY <1>2, OnDisconnectFields DEF RecvEOF
  <2>. QED  BY <1>2, <2>3, <2>4, <2>5 DEF RecvEOF, TypeOK
<1>. QED  BY <1>1, <1>2

\* Marking adds subscriptions to the list.
LEMMA MarkFields ==
  ASSUME NEW list \in Seq(Subscriptions), NEW S \in SUBSET Subscriptions
  PROVE  MarkToResend(list, S) \in Seq(Subscriptions)
<1>. DEFINE new == S \ ToSet(list)
<1>1. new \subseteq Subscriptions /\ IsFiniteSet(new)
  BY SubscriptionAssumption, FS_Subset
<1>. HIDE DEF new
<1>2. SetToSeq(new) \in Seq(new)
  BY <1>1, Listed
<1>3. SetToSeq(new) \in Seq(Subscriptions)
  BY <1>1, <1>2, Widened
<1>4. list \o SetToSeq(new) \in Seq(Subscriptions)
  BY <1>3, Extended
<1>. QED  BY <1>4 DEF new, MarkToResend

\* The same updates in the same places, though some may have expired.
SameUpdates(list, queue) ==
  /\ list \in Seq(Entries) /\ DOMAIN list = DOMAIN queue
  /\ \A i \in DOMAIN queue : list[i].sub = queue[i].sub /\ list[i].ver = queue[i].ver

\* An update that has expired is still an update.
LEMMA DeadEntry ==
  ASSUME NEW e \in Entries, NEW d, d = [e EXCEPT !.live = FALSE]
  PROVE  d \in Entries /\ d.sub = e.sub /\ d.ver = e.ver
<1>. QED  BY DEF Entries

\* A queue of updates by its elements.
LEMMA QueueOf ==
  ASSUME NEW queue \in Seq(Entries), NEW list, DOMAIN list = DOMAIN queue,
         list = [i \in DOMAIN list |-> list[i]],
         \A i \in DOMAIN queue : /\ list[i] \in Entries
                                 /\ list[i].sub = queue[i].sub /\ list[i].ver = queue[i].ver
  PROVE  SameUpdates(list, queue)
<1>1. DOMAIN queue = 1..Len(queue) /\ Len(queue) \in Nat
  OBVIOUS
<1>2. list \in Seq(Entries)
  BY <1>1
<1>. QED  BY <1>2 DEF SameUpdates

\* A new update may make an old one of its subscription expire.
LEMMA ExpireFields ==
  ASSUME NEW queue \in Seq(Entries), NEW sub
  PROVE  SameUpdates(Expire(queue, sub), queue)
<1>. DEFINE newer(i) == {j \in DOMAIN queue : j > i /\ queue[j].sub = sub}
            old(i) == queue[i].sub = sub /\ Cardinality(newer(i)) >= max_subscription_backlog - 1
            list == [i \in DOMAIN queue |->
                       IF old(i) THEN [queue[i] EXCEPT !.live = FALSE] ELSE queue[i]]
<1>1. Expire(queue, sub) = list
  BY DEF Expire
<1>. HIDE DEF old
<1>2. \A i \in DOMAIN queue : /\ list[i] \in Entries
                              /\ list[i].sub = queue[i].sub /\ list[i].ver = queue[i].ver
  <2>. SUFFICES ASSUME NEW i \in DOMAIN queue
                PROVE  list[i] \in Entries /\ list[i].sub = queue[i].sub /\ list[i].ver = queue[i].ver
    OBVIOUS
  <2>1. queue[i] \in Entries
    OBVIOUS
  <2>2. list[i] = queue[i] \/ list[i] = [queue[i] EXCEPT !.live = FALSE]
    OBVIOUS
  <2>. HIDE DEF list
  <2>. QED  BY <2>1, <2>2, DeadEntry
<1>3. DOMAIN list = DOMAIN queue /\ list = [i \in DOMAIN list |-> list[i]]
  OBVIOUS
<1>. HIDE DEF list
<1>. QED  BY <1>1, <1>2, <1>3, QueueOf

\* EventsOff makes all of them expire.
LEMMA ClearFields ==
  ASSUME NEW queue \in Seq(Entries), NEW list,
         list = [i \in DOMAIN queue |-> [queue[i] EXCEPT !.live = FALSE]]
  PROVE  SameUpdates(list, queue)
<1>1. \A i \in DOMAIN queue : /\ list[i] \in Entries
                              /\ list[i].sub = queue[i].sub /\ list[i].ver = queue[i].ver
  <2>. SUFFICES ASSUME NEW i \in DOMAIN queue
                PROVE  list[i] \in Entries /\ list[i].sub = queue[i].sub /\ list[i].ver = queue[i].ver
    OBVIOUS
  <2>1. queue[i] \in Entries
    OBVIOUS
  <2>2. list[i] = [queue[i] EXCEPT !.live = FALSE]
    OBVIOUS
  <2>. QED  BY <2>1, <2>2, DeadEntry
<1>. QED  BY <1>1, QueueOf

\* The item of the Context's loop, made by its parts.
LEMMA ItemFields ==
  ASSUME NEW it \in Items
  PROVE  /\ it.spec \in Specs /\ it.ver \in 0..MaxVersion /\ it.pos \in Nat
         /\ it.put \in Entries \cup {None} /\ it.over \in Seq(Subscriptions)
         /\ it # None
<1>. QED  BY NoneAssumption DEF Items

\* A blocked update that expires.
LEMMA DeadPut ==
  ASSUME NEW it \in Items, it.put # None, NEW new, new = [it EXCEPT !.put.live = FALSE]
  PROVE  /\ new \in Items /\ new.ver = it.ver /\ new.put # None
         /\ new.put.ver = it.put.ver /\ new.put.sub = it.put.sub
<1>1. it.put \in Entries
  BY ItemFields
<1>2. PICK d : d = [it.put EXCEPT !.live = FALSE]
  OBVIOUS
<1>3. d \in Entries /\ d.sub = it.put.sub /\ d.ver = it.put.ver
  BY <1>1, <1>2, DeadEntry
<1>4. new = [it EXCEPT !.put = d]
  BY <1>2
<1>5. new \in Items /\ new.ver = it.ver /\ new.put = d
  BY <1>3, <1>4 DEF Items
<1>. QED  BY <1>3, <1>5, NoneAssumption

\* The next position, perhaps with a blocked update.
LEMMA NextItem ==
  ASSUME NEW it \in Items, NEW put \in Entries \cup {None}, NEW new,
         new = [spec |-> it.spec, ver |-> it.ver, pos |-> it.pos + 1, put |-> put,
                broadcast |-> it.broadcast, over |-> it.over]
  PROVE  new \in Items /\ new.ver = it.ver /\ new.put = put
<1>1. it.spec \in Specs /\ it.ver \in 0..MaxVersion /\ it.broadcast \in BOOLEAN
  BY DEF Items
<1>2. it.pos + 1 \in Nat /\ it.over \in Seq(Subscriptions)
  BY DEF Items
<1>3. new \in Items
  BY <1>1, <1>2 DEF Items
<1>. QED  BY <1>3

\* A list of one subscription.
LEMMA Single ==
  ASSUME NEW s \in Subscriptions
  PROVE  <<s>> \in Seq(Subscriptions) /\ ToSet(<<s>>) = {s}
<1>. QED  BY DEF ToSet

\* Adding a subscription.
LEMMA EventAddType ==
  ASSUME TypeOK, AddingIsHeld, ContextInOrder, NEW c \in Circuits, EventAdd(c) \/ EventAddResumes(c)
  PROVE  TypeOK' /\ AddingIsHeld'
<1>. USE DEF linkVars, cmdVars, circVars, flowVars, wrVars, outVars, ctxVars, dataVars
<1>1. CASE EventAdd(c)
  <2>. DEFINE sub == Head(command_queue[c]).sub
  <2>1. Take(c, "EventAdd")
    BY <1>1 DEF EventAdd
  <2>2. /\ sub \in Subscriptions /\ sub.spec \in Specs /\ cmd_task[c] = "get"
        /\ command_queue' \in [Circuits -> Seq(Commands)]
    BY <2>1, TakeFields, CommandFields, SubscriptionAssumption
  <2>3. /\ subscriptions' = [subscriptions EXCEPT ![c] = subscriptions[c] \cup {sub}]
        /\ spec_keys' = [spec_keys EXCEPT ![c] = spec_keys[c] \cup {sub.spec}]
        /\ ctx_subscriptions' = [ctx_subscriptions EXCEPT ![sub.spec] =
                                   Append(ctx_subscriptions[sub.spec], sub)]
        /\ IF write_event[c]
           THEN Subscribe(<<sub>>) /\ Respond(c) /\ UNCHANGED adding
           ELSE /\ cmd_task' = [cmd_task EXCEPT ![c] = "adding"]
                /\ adding' = [adding EXCEPT ![c] = sub]
                /\ UNCHANGED <<ctx_queue, dataVars>>
    BY <1>1 DEF EventAdd
  <2>. HIDE DEF sub
  <2>4. /\ subscriptions' \in [Circuits -> SUBSET Subscriptions]
        /\ spec_keys' \in [Circuits -> SUBSET Specs]
    BY <2>2, <2>3 DEF TypeOK
  <2>5. ctx_subscriptions' \in [Specs -> Seq(Subscriptions)]
    BY <2>2, <2>3 DEF TypeOK
  <2>6. /\ ctx_queue' \in Seq(Updates) /\ registered' \subseteq Specs
        /\ content' \in [Specs -> 0..MaxVersion \cup {None}] /\ version' \in 0..MaxVersion
        /\ cmd_task' \in [Circuits -> {"get", "adding", "drain", "done"}]
        /\ adding' \in [Circuits -> Subscriptions \cup {None}]
        /\ AddingIsHeld'
    <3>1. CASE write_event[c]
      <4>1. Subscribe(<<sub>>) /\ Respond(c) /\ UNCHANGED adding
        BY <2>3, <3>1
      <4>2. /\ ctx_queue' \in Seq(Updates) /\ registered' \subseteq Specs
            /\ content' \in [Specs -> 0..MaxVersion \cup {None}] /\ UNCHANGED version
        BY <2>2, <4>1, Single, SubscribeFields
      <4>3. /\ cmd_task' \in [Circuits -> {"get", "adding", "drain", "done"}]
            /\ cmd_task'[c] \in {"get", "drain"}
            /\ \A d \in Circuits : d # c => cmd_task'[d] = cmd_task[d]
        BY <4>1, RespondFields
      <4>4. AddingIsHeld'
        BY <2>2, <4>1, <4>3 DEF AddingIsHeld
      <4>. QED  BY <4>1, <4>2, <4>3, <4>4 DEF TypeOK
    <3>2. CASE ~write_event[c]
      <4>1. /\ cmd_task' = [cmd_task EXCEPT ![c] = "adding"]
            /\ adding' = [adding EXCEPT ![c] = sub]
            /\ UNCHANGED <<ctx_queue, dataVars>>
        BY <2>3, <3>2
      <4>2. AddingIsHeld'
        BY <2>2, <4>1 DEF AddingIsHeld, TypeOK
      <4>. QED  BY <2>2, <4>1, <4>2 DEF TypeOK
    <3>. QED  BY <3>1, <3>2
  <2>7. UNCHANGED <<linkVars, chans, flowVars, wrVars, outVars, ctxVars, client>>
    BY <1>1 DEF EventAdd
  <2>. QED  BY <2>2, <2>4, <2>5, <2>6, <2>7 DEF TypeOK
<1>2. CASE EventAddResumes(c)
  <2>1. /\ cmd_task[c] = "adding" /\ Subscribe(<<adding[c]>>) /\ Respond(c)
        /\ adding' = [adding EXCEPT ![c] = None]
    BY <1>2 DEF EventAddResumes
  <2>2. adding[c] \in Subscriptions
    BY <2>1 DEF AddingIsHeld
  <2>3. /\ ctx_queue' \in Seq(Updates) /\ registered' \subseteq Specs
        /\ content' \in [Specs -> 0..MaxVersion \cup {None}] /\ UNCHANGED version
    BY <2>1, <2>2, Single, SubscribeFields
  <2>4. /\ cmd_task' \in [Circuits -> {"get", "adding", "drain", "done"}]
        /\ cmd_task'[c] \in {"get", "drain"}
        /\ \A d \in Circuits : d # c => cmd_task'[d] = cmd_task[d]
    BY <2>1, RespondFields
  <2>5. adding' \in [Circuits -> Subscriptions \cup {None}] /\ AddingIsHeld'
    BY <2>1, <2>4 DEF AddingIsHeld, TypeOK
  <2>. QED  BY <1>2, <2>3, <2>4, <2>5 DEF EventAddResumes, TypeOK
<1>. QED  BY <1>1, <1>2

\* Answers that leave `adding' alone.
LEMMA AddingKept ==
  ASSUME TypeOK, AddingIsHeld, NEW c \in Circuits, cmd_task[c] # "adding", UNCHANGED adding,
         cmd_task'[c] # "adding", \A d \in Circuits : d # c => cmd_task'[d] = cmd_task[d]
  PROVE  AddingIsHeld'
<1>. QED  BY DEF AddingIsHeld

\* Cancelling and clearing.
LEMMA CancelType ==
  ASSUME TypeOK, AddingIsHeld, NEW c \in Circuits, EventCancel(c) \/ ClearChannel(c)
  PROVE  TypeOK' /\ AddingIsHeld'
<1>. USE DEF linkVars, cmdVars, circVars, flowVars, wrVars, outVars, ctxVars, dataVars
<1>1. PICK gone \in SUBSET subscriptions[c] : CullSubscriptions(c, gone)
  BY DEF EventCancel, ClearChannel
<1>2. PICK k \in {"EventCancel", "ClearChannel"} : Take(c, k)
  BY DEF EventCancel, ClearChannel
<1>3. /\ command_queue' \in [Circuits -> Seq(Commands)] /\ cmd_task[c] = "get"
      /\ Head(command_queue[c]) \in Commands /\ Head(command_queue[c]).kind = k
  BY <1>2, TakeFields
<1>4. Respond(c) /\ UNCHANGED adding
  BY DEF EventCancel, ClearChannel
<1>5. /\ cmd_task' \in [Circuits -> {"get", "adding", "drain", "done"}]
      /\ cmd_task'[c] \in {"get", "drain"}
      /\ \A d \in Circuits : d # c => cmd_task'[d] = cmd_task[d]
  BY <1>4, RespondFields
<1>6. AddingIsHeld'
  BY <1>3, <1>4, <1>5, AddingKept
<1>7. /\ subscriptions' = [subscriptions EXCEPT ![c] = subscriptions[c] \ gone]
      /\ to_resend' = [to_resend EXCEPT ![c] = Without(to_resend[c], gone)]
      /\ UNCHANGED <<spec_keys, events_on>>
      /\ Release(gone, {s.spec : s \in gone})
  BY <1>1 DEF CullSubscriptions
<1>8. /\ ctx_subscriptions' \in [Specs -> Seq(Subscriptions)]
      /\ registered' \subseteq registered /\ UNCHANGED <<content, version>>
  BY <1>7, ReleaseFields
<1>9. to_resend' \in [Circuits -> Seq(Subscriptions)]
  <2>1. to_resend[c] \in Seq(Subscriptions)
    BY DEF TypeOK
  <2>2. Without(to_resend[c], gone) \in Seq(Subscriptions)
    BY <2>1, Removed
  <2>. QED  BY <1>7, <2>2 DEF TypeOK
<1>10. subscriptions' \in [Circuits -> SUBSET Subscriptions]
  BY <1>7 DEF TypeOK
<1>11. UNCHANGED <<linkVars, wrVars, sub_task, subscription_queue, batch, ctxVars, ctx_queue, client>>
  BY DEF EventCancel, ClearChannel
<1>12. CASE EventCancel(c)
  <2>1. UNCHANGED chans
    BY <1>12 DEF EventCancel
  <2>2. delivered' \in [Subscriptions -> -1..MaxVersion]
    <3>. DEFINE sub == Head(command_queue[c]).sub
    <3>1. delivered' = IF connected[c] THEN [delivered EXCEPT ![sub] = Cancelled] ELSE delivered
      BY <1>12 DEF EventCancel
    <3>. HIDE DEF sub
    <3>2. Cancelled \in -1..MaxVersion
      BY BoundAssumption DEF Cancelled
    <3>. QED  BY <3>1, <3>2 DEF TypeOK
  <2>. QED  BY <1>3, <1>4, <1>5, <1>6, <1>7, <1>8, <1>9, <1>10, <1>11, <2>1, <2>2 DEF TypeOK
<1>13. CASE ClearChannel(c)
  <2>1. UNCHANGED delivered
    BY <1>13 DEF ClearChannel
  <2>2. chans' \in [Circuits -> SUBSET Sids]
    BY <1>13 DEF ClearChannel, TypeOK
  <2>. QED  BY <1>3, <1>4, <1>5, <1>6, <1>7, <1>8, <1>9, <1>10, <1>11, <2>1, <2>2 DEF TypeOK
<1>. QED  BY <1>12, <1>13

\* Flow control, and the start of a write.
LEMMA FlowType ==
  ASSUME TypeOK, AddingIsHeld, ContextInOrder, NEW c \in Circuits,
         EventsOn(c) \/ EventsOff(c) \/ WriteRequest(c)
  PROVE  TypeOK' /\ AddingIsHeld'
<1>. USE DEF linkVars, cmdVars, circVars, flowVars, wrVars, outVars, ctxVars, dataVars
<1>1. PICK k \in {"EventsOn", "EventsOff", "Write"} : Take(c, k)
  BY DEF EventsOn, EventsOff, WriteRequest
<1>2. command_queue' \in [Circuits -> Seq(Commands)] /\ cmd_task[c] = "get"
  BY <1>1, TakeFields
<1>3. Respond(c) /\ UNCHANGED adding
  BY DEF EventsOn, EventsOff, WriteRequest
<1>4. /\ cmd_task' \in [Circuits -> {"get", "adding", "drain", "done"}]
      /\ cmd_task'[c] \in {"get", "drain"}
      /\ \A d \in Circuits : d # c => cmd_task'[d] = cmd_task[d]
  BY <1>3, RespondFields
<1>5. AddingIsHeld'
  BY <1>2, <1>3, <1>4, AddingKept
<1>6. to_resend[c] \in Seq(Subscriptions) /\ subscription_queue[c] \in Seq(Entries)
  BY DEF TypeOK
<1>7. CASE EventsOn(c)
  <2>1. /\ ctx_queue' \in Seq(Updates) /\ registered' \subseteq Specs
        /\ content' \in [Specs -> 0..MaxVersion \cup {None}] /\ UNCHANGED version
    <3>1. Subscribe(to_resend[c])
      BY <1>7 DEF EventsOn
    <3>. QED  BY <1>6, <3>1, SubscribeFields
  <2>2. to_resend' \in [Circuits -> Seq(Subscriptions)] /\ events_on' \in [Circuits -> BOOLEAN]
    BY <1>7 DEF EventsOn, TypeOK
  <2>3. UNCHANGED <<linkVars, circVars, wrVars, outVars, ctxVars, ctx_subscriptions, client>>
    BY <1>7 DEF EventsOn
  <2>. QED  BY <1>2, <1>3, <1>4, <1>5, <2>1, <2>2, <2>3 DEF TypeOK
<1>8. CASE EventsOff(c)
  <2>. DEFINE queue == subscription_queue[c]
              subs == {e.sub : e \in {f \in ToSet(queue) : f.live}}
              cleared == [i \in DOMAIN queue |-> [queue[i] EXCEPT !.live = FALSE]]
  <2>1. /\ events_on' = [events_on EXCEPT ![c] = FALSE]
        /\ subscription_queue' = [subscription_queue EXCEPT ![c] = cleared]
        /\ to_resend' = [to_resend EXCEPT ![c] = MarkToResend(to_resend[c], subs)]
        /\ iter' = IF iter # None /\ iter.put # None /\ iter.put.sub.circuit = c
                   THEN [iter EXCEPT !.put.live = FALSE] ELSE iter
        /\ UNCHANGED <<linkVars, circVars, wrVars, sub_task, batch, delivered, ctx_task,
                       ctx_subscriptions, ctx_queue, dataVars, client>>
    BY <1>8 DEF EventsOff
  <2>2. subs \subseteq Subscriptions
    <3>1. \A e \in ToSet(queue) : e \in Entries
      BY <1>6 DEF ToSet
    <3>. QED  BY <3>1 DEF Entries
  <2>3. cleared \in Seq(Entries)
    <3>1. PICK list : list = cleared
      OBVIOUS
    <3>2. SameUpdates(list, queue)
      BY <1>6, <3>1, ClearFields
    <3>. QED  BY <3>1, <3>2 DEF SameUpdates
  <2>. HIDE DEF subs, cleared
  <2>4. MarkToResend(to_resend[c], subs) \in Seq(Subscriptions)
    BY <1>6, <2>2, MarkFields
  <2>5. /\ to_resend' \in [Circuits -> Seq(Subscriptions)]
        /\ subscription_queue' \in [Circuits -> Seq(Entries)]
        /\ events_on' \in [Circuits -> BOOLEAN]
    BY <2>1, <2>3, <2>4 DEF TypeOK
  <2>6. iter' \in Items \cup {None}
    <3>1. iter \in Items \cup {None}
      BY DEF TypeOK
    <3>2. CASE iter # None /\ iter.put # None /\ iter.put.sub.circuit = c
      <4>1. iter' = [iter EXCEPT !.put.live = FALSE]
        BY <2>1, <3>2
      <4>. QED  BY <3>1, <3>2, <4>1, DeadPut
    <3>3. CASE ~(iter # None /\ iter.put # None /\ iter.put.sub.circuit = c)
      BY <2>1, <3>1, <3>3
    <3>. QED  BY <3>2, <3>3
  <2>. QED  BY <1>2, <1>3, <1>4, <1>5, <2>1, <2>5, <2>6 DEF TypeOK
<1>9. CASE WriteRequest(c)
  <2>1. write_event' \in [Circuits -> BOOLEAN] /\ writes' \in [Circuits -> Nat]
    BY <1>9 DEF WriteRequest, TypeOK
  <2>2. UNCHANGED <<linkVars, circVars, flowVars, outVars, ctxVars, ctx_subscriptions, ctx_queue,
                    dataVars, client>>
    BY <1>9 DEF WriteRequest
  <2>. QED  BY <1>2, <1>3, <1>4, <1>5, <2>1, <2>2 DEF TypeOK
<1>. QED  BY <1>7, <1>8, <1>9

\* The end of a circuit, and of a send.
LEMMA EndType ==
  ASSUME TypeOK, AddingIsHeld, NEW c \in Circuits,
         Disconnected(c) \/ CommandSendFails(c) \/ SubSendFails(c) \/ CommandSent(c)
  PROVE  TypeOK' /\ AddingIsHeld'
<1>. USE DEF linkVars, cmdVars, circVars, flowVars, wrVars, outVars, ctxVars, dataVars
<1>1. CASE CommandSent(c)
  <2>1. cmd_task' \in [Circuits -> {"get", "adding", "drain", "done"}]
    BY <1>1 DEF CommandSent, TypeOK
  <2>2. AddingIsHeld'
    BY <1>1 DEF CommandSent, TypeOK, AddingIsHeld
  <2>. QED  BY <1>1, <2>1, <2>2 DEF CommandSent, TypeOK
<1>2. CASE Disconnected(c) \/ CommandSendFails(c) \/ SubSendFails(c)
  <2>1. OnDisconnect(c)
    BY <1>2 DEF Disconnected, CommandSendFails, SubSendFails
  <2>2. /\ connected' = [connected EXCEPT ![c] = FALSE]
        /\ sub_task' \in [Circuits -> {"get", "drain", "failed", "None"}]
        /\ subscriptions' \in [Circuits -> SUBSET Subscriptions]
        /\ spec_keys' \in [Circuits -> SUBSET Specs]
        /\ ctx_subscriptions' \in [Specs -> Seq(Subscriptions)]
        /\ registered' \subseteq registered /\ UNCHANGED <<content, version>>
    BY <2>1, OnDisconnectFields
  <2>3. circuits' \subseteq Circuits
    BY <1>2 DEF Disconnected, CommandSendFails, SubSendFails, CircuitDisconnected, TypeOK
  <2>4. UNCHANGED <<recv_task, adding, chans, flowVars, wrVars, subscription_queue, batch,
                    delivered, ctxVars, ctx_queue, client>>
    BY <1>2 DEF Disconnected, CommandSendFails, SubSendFails
  <2>5. command_queue' \in [Circuits -> Seq(Commands)]
    <3>1. CASE Disconnected(c)
      BY <3>1, TakeFields DEF Disconnected
    <3>2. CASE CommandSendFails(c) \/ SubSendFails(c)
      BY <3>2 DEF CommandSendFails, SubSendFails, TypeOK
    <3>. QED  BY <1>2, <3>1, <3>2
  <2>6. cmd_task' \in [Circuits -> {"get", "adding", "drain", "done"}] /\ AddingIsHeld'
    <3>1. CASE Disconnected(c) \/ CommandSendFails(c)
      <4>1. cmd_task[c] # "adding" /\ cmd_task' = [cmd_task EXCEPT ![c] = "done"]
        BY <3>1 DEF Disconnected, CommandSendFails, Take
      <4>. QED  BY <2>4, <4>1, AddingKept DEF TypeOK
    <3>2. CASE SubSendFails(c)
      BY <3>2 DEF SubSendFails, TypeOK, AddingIsHeld
    <3>. QED  BY <1>2, <3>1, <3>2
  <2>7. connected' \in [Circuits -> BOOLEAN]
    BY <2>2 DEF TypeOK
  <2>. QED  BY <2>2, <2>3, <2>4, <2>5, <2>6, <2>7 DEF TypeOK
<1>. QED  BY <1>1, <1>2

\* One step along the deque, with nothing blocked.
LEMMA StepItem ==
  ASSUME NEW it \in Items, it.put = None, NEW new, new = [it EXCEPT !.pos = it.pos + 1]
  PROVE  new \in Items /\ new.ver = it.ver /\ new.put = None
<1>1. it = [spec |-> it.spec, ver |-> it.ver, pos |-> it.pos, put |-> None,
            broadcast |-> it.broadcast, over |-> it.over]
  BY DEF Items
<1>2. new = [spec |-> it.spec, ver |-> it.ver, pos |-> it.pos + 1, put |-> None,
             broadcast |-> it.broadcast, over |-> it.over]
  BY <1>1
<1>. QED  BY <1>2, NextItem

\* The Context's loop takes the oldest item.
LEMMA CtxGetFields ==
  ASSUME TypeOK, CtxGet
  PROVE  /\ iter = None /\ ctx_queue # <<>> /\ ctx_queue' = Tail(ctx_queue)
         /\ ctx_queue' \in Seq(Updates)
         /\ iter' \in Items /\ iter'.ver = Head(ctx_queue).ver /\ iter'.put = None
<1>1. ctx_queue \in Seq(Updates)
  BY DEF TypeOK
<1>2. iter = None /\ ctx_queue # <<>> /\ ctx_queue' = Tail(ctx_queue)
  BY DEF CtxGet
<1>3. PICK item : item = Head(ctx_queue)
  OBVIOUS
<1>4. item \in Updates /\ ctx_queue' \in Seq(Updates)
  BY <1>1, <1>2, <1>3, HeadAndTail
<1>5. PICK over : over = IF item.sub = None THEN ctx_subscriptions[item.spec] ELSE <<item.sub>>
  OBVIOUS
<1>6. item.spec \in Specs /\ item.ver \in 0..MaxVersion /\ item.sub \in Subscriptions \cup {None}
  BY <1>4 DEF Updates
<1>7. over \in Seq(Subscriptions)
  <2>1. ctx_subscriptions[item.spec] \in Seq(Subscriptions)
    BY <1>6 DEF TypeOK
  <2>2. item.sub # None => <<item.sub>> \in Seq(Subscriptions)
    BY <1>6, Single
  <2>. QED  BY <1>5, <2>1, <2>2
<1>8. PICK all \in BOOLEAN : all = (item.sub = None)
  OBVIOUS
<1>9. iter' = [spec |-> item.spec, ver |-> item.ver, pos |-> 0, put |-> None,
               broadcast |-> all, over |-> over]
  BY <1>3, <1>5, <1>8 DEF CtxGet
<1>10. iter' \in Items /\ iter'.ver = item.ver /\ iter'.put = None
  BY <1>6, <1>7, <1>9 DEF Items
<1>. QED  BY <1>2, <1>3, <1>4, <1>10

\* One subscription of the deque: it is marked, served or waited for.
LEMMA CtxSendFields ==
  ASSUME TypeOK, CtxSend
  PROVE  \E c \in Circuits, list, queue \in Seq(Entries) :
           /\ iter \in Items /\ iter' \in Items /\ iter'.ver = iter.ver
           /\ iter'.put # None => iter'.put.ver = iter.ver
           /\ SameUpdates(list, subscription_queue[c])
           /\ \/ queue = list
              \/ \E e \in Entries : queue = Append(list, e) /\ e.ver = iter.ver /\ e.sub.circuit = c
           /\ subscription_queue' = [subscription_queue EXCEPT ![c] = queue]
           /\ to_resend' \in [Circuits -> Seq(Subscriptions)]
<1>1. iter \in Items /\ iter # None /\ iter.put = None /\ iter.pos < Len(iter.over)
  BY DEF CtxSend, TypeOK
<1>2. PICK sub : sub = iter.over[iter.pos + 1]
  OBVIOUS
<1>3. sub \in Subscriptions
  <2>1. iter.over \in Seq(Subscriptions) /\ iter.pos \in Nat
    BY <1>1, ItemFields
  <2>2. iter.pos + 1 \in DOMAIN iter.over
    BY <1>1, <2>1
  <2>. QED  BY <1>2, <2>1, <2>2
<1>4. PICK c \in Circuits : c = sub.circuit
  BY <1>3, SubscriptionAssumption
<1>5. PICK entry : entry = [sub |-> sub, ver |-> iter.ver, live |-> TRUE]
  OBVIOUS
<1>6. iter.ver \in 0..MaxVersion
  BY <1>1, ItemFields
<1>7. entry \in Entries /\ entry.ver = iter.ver /\ entry.sub.circuit = c
  BY <1>3, <1>4, <1>5, <1>6 DEF Entries
<1>8. subscription_queue[c] \in Seq(Entries) /\ to_resend[c] \in Seq(Subscriptions)
  BY DEF TypeOK
<1>9. PICK list : list = Expire(subscription_queue[c], sub)
  OBVIOUS
<1>10. SameUpdates(list, subscription_queue[c])
  BY <1>8, <1>9, ExpireFields
<1>11. SameUpdates(subscription_queue[c], subscription_queue[c])
  BY <1>8 DEF SameUpdates
<1>12. \/ /\ to_resend' = [to_resend EXCEPT ![c] = MarkToResend(to_resend[c], {sub})]
          /\ iter' = [iter EXCEPT !.pos = iter.pos + 1] /\ UNCHANGED subscription_queue
       \/ /\ subscription_queue' = [subscription_queue EXCEPT ![c] = Append(list, entry)]
          /\ iter' = [iter EXCEPT !.pos = iter.pos + 1] /\ UNCHANGED to_resend
       \/ /\ subscription_queue' = [subscription_queue EXCEPT ![c] = list]
          /\ iter' = [iter EXCEPT !.pos = iter.pos + 1, !.put = entry] /\ UNCHANGED to_resend
  BY <1>2, <1>4, <1>5, <1>9 DEF CtxSend
<1>13. CASE /\ to_resend' = [to_resend EXCEPT ![c] = MarkToResend(to_resend[c], {sub})]
            /\ iter' = [iter EXCEPT !.pos = iter.pos + 1] /\ UNCHANGED subscription_queue
  <2>1. MarkToResend(to_resend[c], {sub}) \in Seq(Subscriptions)
    BY <1>3, <1>8, MarkFields
  <2>2. to_resend' \in [Circuits -> Seq(Subscriptions)]
    BY <1>13, <2>1 DEF TypeOK
  <2>3. iter' \in Items /\ iter'.ver = iter.ver /\ iter'.put = None
    BY <1>1, <1>13, StepItem
  <2>4. subscription_queue' = [subscription_queue EXCEPT ![c] = subscription_queue[c]]
    BY <1>13 DEF TypeOK
  <2>. QED  BY <1>1, <1>8, <1>11, <2>2, <2>3, <2>4
<1>14. CASE /\ subscription_queue' = [subscription_queue EXCEPT ![c] = Append(list, entry)]
            /\ iter' = [iter EXCEPT !.pos = iter.pos + 1] /\ UNCHANGED to_resend
  <2>1. iter' \in Items /\ iter'.ver = iter.ver /\ iter'.put = None
    BY <1>1, <1>14, StepItem
  <2>2. to_resend' \in [Circuits -> Seq(Subscriptions)]
    BY <1>14 DEF TypeOK
  <2>3. list \in Seq(Entries)
    BY <1>10 DEF SameUpdates
  <2>4. PICK queue \in Seq(Entries) : queue = Append(list, entry)
    <3>1. Append(list, entry) \in Seq(Entries)
      BY <1>7, <2>3, Appended
    <3>. QED  BY <3>1
  <2>. QED  BY <1>1, <1>7, <1>10, <1>14, <2>1, <2>2, <2>3, <2>4
<1>15. CASE /\ subscription_queue' = [subscription_queue EXCEPT ![c] = list]
            /\ iter' = [iter EXCEPT !.pos = iter.pos + 1, !.put = entry] /\ UNCHANGED to_resend
  <2>1. iter' \in Items /\ iter'.ver = iter.ver /\ iter'.put = entry
    <3>1. iter = [spec |-> iter.spec, ver |-> iter.ver, pos |-> iter.pos, put |-> iter.put,
                  broadcast |-> iter.broadcast, over |-> iter.over]
      BY <1>1 DEF Items
    <3>2. iter' = [spec |-> iter.spec, ver |-> iter.ver, pos |-> iter.pos + 1, put |-> entry,
                   broadcast |-> iter.broadcast, over |-> iter.over]
      BY <1>15, <3>1
    <3>. QED  BY <1>1, <1>7, <3>2, NextItem
  <2>2. to_resend' \in [Circuits -> Seq(Subscriptions)]
    BY <1>15 DEF TypeOK
  <2>3. list \in Seq(Entries)
    BY <1>10 DEF SameUpdates
  <2>. QED  BY <1>1, <1>7, <1>10, <1>15, <2>1, <2>2, <2>3
<1>. QED  BY <1>12, <1>13, <1>14, <1>15

\* A blocked put goes through.
LEMMA CtxPutFields ==
  ASSUME TypeOK, CtxPut
  PROVE  \E c \in Circuits :
           /\ iter \in Items /\ iter' \in Items /\ iter'.ver = iter.ver /\ iter'.put = None
           /\ iter.put # None /\ iter.put \in Entries /\ iter.put.sub.circuit = c
           /\ subscription_queue' =
                [subscription_queue EXCEPT ![c] = Append(subscription_queue[c], iter.put)]
           /\ to_resend' \in [Circuits -> Seq(Subscriptions)]
<1>1. iter \in Items /\ iter # None /\ iter.put # None
  BY DEF CtxPut, TypeOK
<1>2. PICK e \in Entries : e = iter.put
  BY <1>1, ItemFields
<1>3. e.sub \in Subscriptions
  BY DEF Entries
<1>4. PICK c \in Circuits : c = e.sub.circuit
  BY <1>3, SubscriptionAssumption
<1>5. /\ subscription_queue' = [subscription_queue EXCEPT ![c] = Append(subscription_queue[c], e)]
      /\ \/ UNCHANGED to_resend
         \/ to_resend' = [to_resend EXCEPT ![c] = MarkToResend(to_resend[c], {e.sub})]
      /\ iter' = [iter EXCEPT !.put = None]
  BY <1>2, <1>4 DEF CtxPut
<1>6. iter' \in Items /\ iter'.ver = iter.ver /\ iter'.put = None
  BY <1>1, <1>5 DEF Items
<1>7. to_resend' \in [Circuits -> Seq(Subscriptions)]
  <2>1. to_resend[c] \in Seq(Subscriptions)
    BY DEF TypeOK
  <2>2. MarkToResend(to_resend[c], {e.sub}) \in Seq(Subscriptions)
    BY <1>3, <2>1, MarkFields
  <2>. QED  BY <1>5, <2>2 DEF TypeOK
<1>. QED  BY <1>1, <1>2, <1>4, <1>5, <1>6, <1>7

\* The Context's loop.
LEMMA ContextType ==
  ASSUME TypeOK, AddingIsHeld, ContextLoop
  PROVE  TypeOK' /\ AddingIsHeld'
<1>. USE DEF linkVars, cmdVars, circVars, flowVars, wrVars, outVars, ctxVars, dataVars
<1>1. CASE CtxGet
  <2>1. iter' \in Items /\ ctx_queue' \in Seq(Updates)
    BY <1>1, CtxGetFields
  <2>. QED  BY <1>1, <2>1 DEF CtxGet, TypeOK, AddingIsHeld
<1>2. CASE CtxSend
  <2>1. PICK c \in Circuits, list, queue \in Seq(Entries) :
           /\ iter' \in Items
           /\ SameUpdates(list, subscription_queue[c])
           /\ queue = list \/ \E e \in Entries : queue = Append(list, e)
           /\ subscription_queue' = [subscription_queue EXCEPT ![c] = queue]
           /\ to_resend' \in [Circuits -> Seq(Subscriptions)]
    BY <1>2, CtxSendFields
  <2>2. queue \in Seq(Entries)
    BY <2>1 DEF SameUpdates
  <2>3. subscription_queue' \in [Circuits -> Seq(Entries)]
    BY <2>1, <2>2 DEF TypeOK
  <2>4. UNCHANGED <<linkVars, cmdVars, circVars, events_on, wrVars, sub_task, batch,
                    delivered, ctx_task, ctx_subscriptions, ctx_queue, dataVars, client>>
    BY <1>2 DEF CtxSend
  <2>. QED  BY <2>1, <2>3, <2>4 DEF TypeOK, AddingIsHeld
<1>3. CASE CtxPut
  <2>1. PICK c \in Circuits :
           /\ iter' \in Items /\ iter.put \in Entries
           /\ subscription_queue' =
                [subscription_queue EXCEPT ![c] = Append(subscription_queue[c], iter.put)]
           /\ to_resend' \in [Circuits -> Seq(Subscriptions)]
    BY <1>3, CtxPutFields
  <2>2. Append(subscription_queue[c], iter.put) \in Seq(Entries)
    BY <2>1 DEF TypeOK
  <2>3. subscription_queue' \in [Circuits -> Seq(Entries)]
    BY <2>1, <2>2 DEF TypeOK
  <2>4. UNCHANGED <<linkVars, cmdVars, circVars, events_on, wrVars, sub_task, batch,
                    delivered, ctx_task, ctx_subscriptions, ctx_queue, dataVars, client>>
    BY <1>3 DEF CtxPut
  <2>. QED  BY <2>1, <2>3, <2>4 DEF TypeOK, AddingIsHeld
<1>4. CASE CtxNext \/ CtxFails
  BY <1>4 DEF CtxNext, CtxFails, TypeOK, AddingIsHeld
<1>. QED  BY <1>1, <1>2, <1>3, <1>4 DEF ContextLoop

\* What leaves with a batch: an update goes out only for a subscription that
\* its circuit still has.
LEMMA SubSendFields ==
  ASSUME TypeOK, NEW c \in Circuits, OwnUpdates(c), OwnSubscriptions(c), SubSend(c)
  PROVE  /\ delivered' \in [Subscriptions -> -1..MaxVersion]
         /\ \A s \in Subscriptions :
              \/ delivered'[s] = delivered[s]
              \/ /\ s \in subscriptions[c] /\ s.circuit = c
                 /\ \E e \in ToSet(batch[c]) : e.sub = s /\ delivered'[s] = e.ver
         /\ batch' = [batch EXCEPT ![c] = <<>>]
         /\ sub_task' \in [Circuits -> {"get", "drain", "failed", "None"}]
<1>. DEFINE mine(s) == {i \in Culled(c) : batch[c][i].sub = s}
<1>0. batch[c] \in Seq(Entries)
  BY DEF TypeOK
<1>1. batch' = [batch EXCEPT ![c] = <<>>]
  BY DEF SubSend
<1>2. PICK t \in {"get", "drain", "failed"} : sub_task' = [sub_task EXCEPT ![c] = t]
  BY DEF SubSend
<1>3. sub_task' \in [Circuits -> {"get", "drain", "failed", "None"}]
  BY <1>2 DEF TypeOK
<1>4. \/ UNCHANGED delivered
      \/ delivered' = [s \in Subscriptions |->
           IF mine(s) = {} THEN delivered[s] ELSE batch[c][Max(mine(s))].ver]
  BY DEF SubSend
<1>5. ASSUME NEW s \in Subscriptions, mine(s) # {}
      PROVE  /\ s \in subscriptions[c] /\ s.circuit = c
             /\ \E e \in ToSet(batch[c]) : e.sub = s /\ batch[c][Max(mine(s))].ver = e.ver
                                           /\ e.ver \in 0..MaxVersion
  <2>1. mine(s) \in SUBSET (1..Len(batch[c])) /\ Len(batch[c]) \in Nat
    BY <1>0 DEF Culled
  <2>. DEFINE m == Max(mine(s))
  <2>2. m \in mine(s)
    <3>. HIDE DEF mine
    <3>. QED  BY <1>5, <2>1, Latest
  <2>. HIDE DEF m
  <2>3. /\ m \in DOMAIN batch[c] /\ batch[c][m].sub = s
        /\ batch[c][m].sub.id \in {t2.id : t2 \in subscriptions[c]}
    BY <2>2 DEF Culled
  <2>4. PICK u \in subscriptions[c] : u.id = s.id
    BY <2>3
  <2>5. batch[c][m] \in ToSet(batch[c]) /\ batch[c][m] \in Entries
    BY <1>0, <2>3 DEF ToSet
  <2>6. s.circuit = c /\ u.circuit = c /\ u \in Subscriptions
    BY <2>3, <2>5 DEF OwnUpdates, OwnSubscriptions, TypeOK
  <2>7. u = s
    BY <2>4, <2>6, SubscriptionAssumption
  <2>8. batch[c][m].ver \in 0..MaxVersion
    BY <2>5 DEF Entries
  <2>. QED  BY <2>3, <2>5, <2>6, <2>7, <2>8 DEF m
<1>. HIDE DEF mine
<1>6. \A s \in Subscriptions :
        \/ delivered'[s] = delivered[s]
        \/ /\ s \in subscriptions[c] /\ s.circuit = c
           /\ \E e \in ToSet(batch[c]) : e.sub = s /\ delivered'[s] = e.ver /\ e.ver \in 0..MaxVersion
  BY <1>4, <1>5
<1>7. delivered' \in [Subscriptions -> -1..MaxVersion]
  <2>1. \A s \in Subscriptions : delivered[s] \in -1..MaxVersion /\ MaxVersion \in Nat
    BY BoundAssumption DEF TypeOK
  <2>2. \A s \in Subscriptions : delivered'[s] \in -1..MaxVersion
    BY <1>6, <2>1
  <2>3. delivered' = [s \in Subscriptions |-> delivered'[s]]
    BY <1>4 DEF TypeOK
  <2>. QED  BY <2>2, <2>3
<1>. QED  BY <1>1, <1>3, <1>6, <1>7

\* A circuit's subscription loop.
LEMMA SubType ==
  ASSUME TypeOK, AddingIsHeld, NEW c \in Circuits, OwnUpdates(c), OwnSubscriptions(c), SubscriptionLoop(c)
  PROVE  TypeOK' /\ AddingIsHeld'
<1>. USE DEF linkVars, cmdVars, circVars, flowVars, wrVars, outVars, ctxVars, dataVars
<1>1. CASE SubGet(c)
  <2>1. subscription_queue[c] \in Seq(Entries) /\ batch[c] \in Seq(Entries)
    BY DEF TypeOK
  <2>2. PICK e, rest : e = Head(subscription_queue[c]) /\ rest = Tail(subscription_queue[c])
    OBVIOUS
  <2>3. e \in Entries /\ rest \in Seq(Entries)
    BY <1>1, <2>1, <2>2, HeadAndTail DEF SubGet
  <2>4. /\ subscription_queue' = [subscription_queue EXCEPT ![c] = rest]
        /\ batch' = [batch EXCEPT ![c] = IF e.live THEN Append(batch[c], e) ELSE batch[c]]
    BY <1>1, <2>2 DEF SubGet
  <2>5. /\ subscription_queue' \in [Circuits -> Seq(Entries)]
        /\ batch' \in [Circuits -> Seq(Entries)]
    BY <2>1, <2>3, <2>4 DEF TypeOK
  <2>. QED  BY <1>1, <2>5 DEF SubGet, TypeOK, AddingIsHeld
<1>2. CASE SubSend(c)
  <2>1. /\ delivered' \in [Subscriptions -> -1..MaxVersion]
        /\ batch' = [batch EXCEPT ![c] = <<>>]
        /\ sub_task' \in [Circuits -> {"get", "drain", "failed", "None"}]
    BY <1>2, SubSendFields
  <2>2. batch' \in [Circuits -> Seq(Entries)]
    BY <2>1 DEF TypeOK
  <2>3. UNCHANGED <<linkVars, cmdVars, circVars, flowVars, wrVars, subscription_queue,
                    ctxVars, ctx_subscriptions, ctx_queue, dataVars, client>>
    BY <1>2 DEF SubSend
  <2>. QED  BY <2>1, <2>2, <2>3 DEF TypeOK, AddingIsHeld
<1>3. CASE SubSent(c)
  BY <1>3 DEF SubSent, TypeOK, AddingIsHeld
<1>. QED  BY <1>1, <1>2, <1>3 DEF SubscriptionLoop

LEMMA NextType ==
  ASSUME TypeOK, AddingIsHeld, EachHasItsOwn, ContextInOrder, [Next]_vars
  PROVE  TypeOK' /\ AddingIsHeld'
<1>. USE DEF linkVars, cmdVars, circVars, flowVars, wrVars, outVars, ctxVars, dataVars
<1>0. CASE UNCHANGED vars
  BY <1>0 DEF vars, TypeOK, AddingIsHeld
<1>1. CASE ContextLoop
  BY <1>1, ContextType
<1>2. CASE ServerWrite
  <2>1. UNCHANGED <<cmd_task, adding>>
    BY <1>2 DEF ServerWrite
  <2>. QED  BY <1>2, <2>1, WriteType DEF AddingIsHeld
<1>3. ASSUME NEW c \in Circuits, Recv(c) \/ RecvEOF(c) \/ HandleWrite(c) PROVE TypeOK' /\ AddingIsHeld'
  <2>1. UNCHANGED <<cmd_task, adding>>
    BY <1>3 DEF Recv, RecvEOF, HandleWrite
  <2>. QED  BY <1>3, <2>1, RecvType, WriteType DEF AddingIsHeld
<1>4. ASSUME NEW c \in Circuits, CommandLoop(c) \/ CommandSendFails(c) \/ SubSendFails(c)
      PROVE TypeOK' /\ AddingIsHeld'
  BY <1>4, EventAddType, CancelType, FlowType, EndType DEF CommandLoop
<1>5. ASSUME NEW c \in Circuits, SubscriptionLoop(c) PROVE TypeOK' /\ AddingIsHeld'
  BY <1>5, SubType DEF EachHasItsOwn
<1>. QED  BY <1>0, <1>1, <1>2, <1>3, <1>4, <1>5 DEF Next

---------------------------------------------------------------------------
(***************************************************************************)
(* Which steps touch what.                                                 *)
(***************************************************************************)

\* Requests come at the end of the queue and leave it at its head.
LEMMA QueueSteps ==
  ASSUME [Next]_vars
  PROVE  \/ UNCHANGED <<command_queue, client>>
         \/ \E c \in Circuits : Recv(c) \/ RecvEOF(c)
         \/ \E c \in Circuits, k \in Requests \cup {"DISCONNECTED"} : Take(c, k) /\ UNCHANGED client
<1>. USE DEF cmdVars
<1>1. CASE UNCHANGED vars \/ ContextLoop \/ ServerWrite
  BY <1>1 DEF vars, ContextLoop, CtxGet, CtxSend, CtxPut, CtxNext, CtxFails, ServerWrite
<1>2. ASSUME NEW c \in Circuits, CommandLoop(c)
      PROVE  \/ UNCHANGED <<command_queue, client>>
             \/ \E k \in Requests \cup {"DISCONNECTED"} : Take(c, k) /\ UNCHANGED client
  BY <1>2 DEF CommandLoop, EventAdd, EventAddResumes, EventCancel, ClearChannel, EventsOn, EventsOff,
              WriteRequest, Disconnected, CommandSent, Requests
<1>3. ASSUME NEW c \in Circuits,
             CommandSendFails(c) \/ HandleWrite(c) \/ SubscriptionLoop(c) \/ SubSendFails(c)
      PROVE  UNCHANGED <<command_queue, client>>
  BY <1>3 DEF CommandSendFails, HandleWrite, SubscriptionLoop, SubGet, SubSend, SubSent, SubSendFails
<1>. QED  BY <1>1, <1>2, <1>3 DEF Next

\* Updates move only in these steps.
LEMMA UpdateSteps ==
  ASSUME [Next]_vars
  PROVE  \/ UNCHANGED <<batch, subscription_queue>>
         \/ CtxSend \/ CtxPut
         \/ \E c \in Circuits : EventsOff(c) \/ SubGet(c) \/ SubSend(c)
<1>. USE DEF outVars
<1>1. CASE UNCHANGED vars \/ ContextLoop \/ ServerWrite
  BY <1>1 DEF vars, ContextLoop, CtxGet, CtxNext, CtxFails, ServerWrite
<1>2. ASSUME NEW c \in Circuits, CommandLoop(c)
      PROVE  UNCHANGED <<batch, subscription_queue>> \/ EventsOff(c)
  BY <1>2 DEF CommandLoop, EventAdd, EventAddResumes, EventCancel, ClearChannel, EventsOn,
              WriteRequest, Disconnected, CommandSent
<1>3. ASSUME NEW c \in Circuits,
             Recv(c) \/ RecvEOF(c) \/ CommandSendFails(c) \/ HandleWrite(c) \/ SubSendFails(c)
      PROVE  UNCHANGED <<batch, subscription_queue>>
  BY <1>3 DEF Recv, RecvEOF, CommandSendFails, HandleWrite, SubSendFails
<1>4. ASSUME NEW c \in Circuits, SubscriptionLoop(c)
      PROVE  UNCHANGED <<batch, subscription_queue>> \/ SubGet(c) \/ SubSend(c)
  BY <1>4 DEF SubscriptionLoop, SubSent
<1>. QED  BY <1>1, <1>2, <1>3, <1>4 DEF Next

\* A circuit's subscriptions change only in these steps.
LEMMA TableSteps ==
  ASSUME TypeOK, [Next]_vars
  PROVE  \/ UNCHANGED <<subscriptions, connected>>
         \/ \E c \in Circuits : \/ EventAdd(c) \/ EventCancel(c)
                                \/ OnDisconnect(c) /\ UNCHANGED delivered
<1>. USE DEF circVars, linkVars, outVars
<1>1. CASE UNCHANGED vars \/ ContextLoop \/ ServerWrite
  BY <1>1 DEF vars, ContextLoop, CtxGet, CtxSend, CtxPut, CtxNext, CtxFails, ServerWrite
<1>2. ASSUME NEW c \in Circuits,
             \/ EventAddResumes(c) \/ EventsOn(c) \/ EventsOff(c) \/ WriteRequest(c) \/ CommandSent(c)
             \/ Recv(c) \/ HandleWrite(c) \/ SubscriptionLoop(c)
      PROVE  UNCHANGED <<subscriptions, connected>>
  BY <1>2 DEF EventAddResumes, EventsOn, EventsOff, WriteRequest, CommandSent, Recv, HandleWrite,
              SubscriptionLoop, SubGet, SubSend, SubSent
<1>3. ASSUME NEW c \in Circuits, ClearChannel(c) PROVE UNCHANGED <<subscriptions, connected>>
  BY <1>3 DEF ClearChannel, CullSubscriptions, TypeOK
<1>4. ASSUME NEW c \in Circuits, RecvEOF(c) \/ Disconnected(c) \/ CommandSendFails(c) \/ SubSendFails(c)
      PROVE  OnDisconnect(c) /\ UNCHANGED delivered
  BY <1>4 DEF RecvEOF, Disconnected, CommandSendFails, SubSendFails
<1>. QED  BY <1>1, <1>2, <1>3, <1>4 DEF Next, CommandLoop

\* So does what has been sent.
LEMMA DeliverySteps ==
  ASSUME [Next]_vars
  PROVE  \/ UNCHANGED delivered
         \/ \E c \in Circuits : EventCancel(c) \/ SubSend(c)
<1>. USE DEF outVars
<1>1. CASE UNCHANGED vars \/ ContextLoop \/ ServerWrite
  BY <1>1 DEF vars, ContextLoop, CtxGet, CtxSend, CtxPut, CtxNext, CtxFails, ServerWrite
<1>2. ASSUME NEW c \in Circuits,
             \/ EventAdd(c) \/ EventAddResumes(c) \/ ClearChannel(c) \/ EventsOn(c) \/ EventsOff(c)
             \/ WriteRequest(c) \/ Disconnected(c) \/ CommandSent(c) \/ Recv(c) \/ RecvEOF(c)
             \/ CommandSendFails(c) \/ HandleWrite(c) \/ SubSendFails(c) \/ SubGet(c) \/ SubSent(c)
      PROVE  UNCHANGED delivered
  BY <1>2 DEF EventAdd, EventAddResumes, ClearChannel, EventsOn, EventsOff, WriteRequest,
              Disconnected, CommandSent, Recv, RecvEOF, CommandSendFails, HandleWrite, SubSendFails,
              SubGet, SubSent
<1>. QED  BY <1>1, <1>2 DEF Next, CommandLoop, SubscriptionLoop

\* And what the Context has to distribute.
LEMMA ContextSteps ==
  ASSUME [Next]_vars
  PROVE  \/ UNCHANGED <<content, version, ctx_queue, iter>>
         \/ Publish /\ UNCHANGED iter
         \/ ContextLoop /\ UNCHANGED <<content, version>>
         \/ \E c \in Circuits : EventAdd(c) \/ EventAddResumes(c) \/ EventsOn(c) \/ EventsOff(c)
<1>. USE DEF ctxVars, dataVars
<1>1. CASE UNCHANGED vars \/ ServerWrite
  BY <1>1 DEF vars, ServerWrite
<1>2. CASE ContextLoop
  BY <1>2 DEF ContextLoop, CtxGet, CtxSend, CtxPut, CtxNext, CtxFails
<1>3. ASSUME NEW c \in Circuits, HandleWrite(c)
      PROVE  UNCHANGED <<content, version, ctx_queue, iter>> \/ (Publish /\ UNCHANGED iter)
  BY <1>3 DEF HandleWrite
<1>4. ASSUME NEW c \in Circuits, Disconnected(c) \/ RecvEOF(c) \/ CommandSendFails(c) \/ SubSendFails(c)
      PROVE  UNCHANGED <<content, version, ctx_queue, iter>>
  BY <1>4 DEF RecvEOF, Disconnected, CommandSendFails, SubSendFails, OnDisconnect, Release
<1>5. ASSUME NEW c \in Circuits, EventCancel(c) \/ ClearChannel(c)
      PROVE  UNCHANGED <<content, version, ctx_queue, iter>>
  BY <1>5 DEF EventCancel, ClearChannel, CullSubscriptions, Release
<1>6. ASSUME NEW c \in Circuits,
             WriteRequest(c) \/ CommandSent(c) \/ Recv(c) \/ SubscriptionLoop(c)
      PROVE  UNCHANGED <<content, version, ctx_queue, iter>>
  BY <1>6 DEF WriteRequest, CommandSent, Recv, SubscriptionLoop, SubGet, SubSend, SubSent
<1>. QED  BY <1>1, <1>2, <1>3, <1>4, <1>5, <1>6 DEF Next, CommandLoop

---------------------------------------------------------------------------
(***************************************************************************)
(* To each circuit its own.                                                *)
(***************************************************************************)

\* An honest client speaks of its own subscriptions.
LEMMA HonestIsOwn ==
  ASSUME TypeOK, NEW c \in Circuits, OwnSubscriptions(c), HeldIsServed(c), NEW cmd \in HonestCommands(c)
  PROVE  /\ cmd.kind \in {"EventAdd", "EventCancel"} => cmd.sub \in Subscriptions /\ cmd.sub.circuit = c
         /\ cmd.kind = "EventAdd" => cmd.sub \notin client[c].added
         /\ cmd.kind = "EventCancel" => cmd.sub \in client[c].held
<1>1. CASE \E s \in {t \in Subscriptions \ client[c].added : t.circuit = c /\ t.sid \in client[c].open} :
             cmd = [kind |-> "EventAdd", sub |-> s]
  BY <1>1
<1>2. CASE \E s \in {t \in client[c].held : t.sid \in client[c].open} :
             cmd = [kind |-> "EventCancel", sub |-> s]
  <2>1. PICK s \in client[c].held : cmd = [kind |-> "EventCancel", sub |-> s]
    BY <1>2
  <2>2. s \in client[c].added /\ client[c].added \subseteq Subscriptions
    BY DEF HeldIsServed, TypeOK
  <2>. QED  BY <2>1, <2>2 DEF OwnSubscriptions
<1>3. CASE cmd.kind \notin {"EventAdd", "EventCancel"}
  BY <1>3
<1>4. CASE \E i \in client[c].open : cmd = [kind |-> "ClearChannel", sid |-> i]
  BY <1>4, <1>3
<1>5. CASE cmd \in {[kind |-> "EventsOn"], [kind |-> "EventsOff"], [kind |-> "Write"]}
  BY <1>5, <1>3
<1>. QED  BY <1>1, <1>2, <1>4, <1>5 DEF HonestCommands

\* What a client has asked for, once it has sent a request.
LEMMA SentFields ==
  ASSUME TypeOK, NEW c \in Circuits, NEW cmd,
         client' = [client EXCEPT ![c] = AfterSending(@, cmd)]
  PROVE  /\ client'[c].added = IF cmd.kind = "EventAdd" THEN client[c].added \cup {cmd.sub}
                                                        ELSE client[c].added
         /\ client'[c].held = IF cmd.kind = "EventAdd" THEN client[c].held \cup {cmd.sub}
              ELSE IF cmd.kind = "EventCancel" THEN client[c].held \ {cmd.sub} ELSE client[c].held
         /\ \A d \in Circuits : d # c => client'[d] = client[d]
<1>1. client'[c] = AfterSending(client[c], cmd) /\ \A d \in Circuits : d # c => client'[d] = client[d]
  BY DEF TypeOK
<1>2. AfterSending(client[c], cmd).added = IF cmd.kind = "EventAdd" THEN client[c].added \cup {cmd.sub}
                                                                   ELSE client[c].added
  BY DEF AfterSending
<1>3. AfterSending(client[c], cmd).held =
        IF cmd.kind = "EventAdd" THEN client[c].held \cup {cmd.sub}
        ELSE IF cmd.kind = "EventCancel" THEN client[c].held \ {cmd.sub} ELSE client[c].held
  BY DEF AfterSending
<1>. QED  BY <1>1, <1>2, <1>3

LEMMA NextOwnCommands ==
  ASSUME TypeOK, EachHasItsOwn, ClientsAreHonest, [Next]_vars, NEW d \in Circuits
  PROVE  OwnCommands(d)'
<1>. DEFINE q == command_queue[d]
<1>0. OwnCommands(d) /\ OwnSubscriptions(d) /\ HeldIsServed(d) /\ q \in Seq(Commands)
  BY DEF EachHasItsOwn, ClientsAreHonest, TypeOK
<1>1. CASE UNCHANGED command_queue
  BY <1>0, <1>1 DEF OwnCommands
<1>2. ASSUME NEW c \in Circuits, NEW k, Take(c, k) PROVE OwnCommands(d)'
  <2>1. CASE c # d
    BY <1>0, <1>2, <2>1, TakeFields DEF OwnCommands
  <2>2. CASE c = d
    <3>1. q # <<>> /\ command_queue'[d] = Tail(q)
      BY <1>2, <2>2, TakeFields
    <3>2. \A i \in DOMAIN Tail(q) : i + 1 \in DOMAIN q /\ Tail(q)[i] = q[i + 1]
      BY <1>0, <3>1
    <3>. HIDE DEF q
    <3>. QED  BY <1>0, <3>1, <3>2 DEF OwnCommands, q
  <2>. QED  BY <2>1, <2>2
<1>3. ASSUME NEW c \in Circuits, NEW cmd \in Commands,
             command_queue' = [command_queue EXCEPT ![c] = Append(@, cmd)],
             c = d /\ cmd.kind \in {"EventAdd", "EventCancel"} => cmd.sub.circuit = d
      PROVE  OwnCommands(d)'
  <2>1. CASE c # d
    BY <1>0, <1>3, <2>1 DEF OwnCommands, TypeOK
  <2>2. CASE c = d
    <3>1. command_queue'[d] = Append(q, cmd)
      BY <1>3, <2>2 DEF TypeOK
    <3>2. /\ DOMAIN Append(q, cmd) = DOMAIN q \cup {Len(q) + 1}
          /\ \A i \in DOMAIN q : Append(q, cmd)[i] = q[i]
          /\ Append(q, cmd)[Len(q) + 1] = cmd
      BY <1>0, Appended
    <3>. QED  BY <1>0, <1>3, <2>2, <3>1, <3>2 DEF OwnCommands
  <2>. QED  BY <2>1, <2>2
<1>4. ASSUME NEW c \in Circuits, Recv(c) PROVE OwnCommands(d)'
  <2>1. PICK cmd \in HonestCommands(c) : command_queue' = [command_queue EXCEPT ![c] = Append(@, cmd)]
    BY <1>4 DEF Recv
  <2>2. cmd \in Commands
    BY <1>4, HonestFields DEF Recv
  <2>3. cmd.kind \in {"EventAdd", "EventCancel"} => cmd.sub.circuit = c
    BY HonestIsOwn DEF EachHasItsOwn, ClientsAreHonest
  <2>. QED  BY <1>3, <2>1, <2>2, <2>3
<1>5. ASSUME NEW c \in Circuits, RecvEOF(c) PROVE OwnCommands(d)'
  <2>1. PICK cmd : cmd = [kind |-> "DISCONNECTED"]
    OBVIOUS
  <2>2. cmd \in Commands /\ cmd.kind \notin {"EventAdd", "EventCancel"}
    BY <2>1 DEF Commands
  <2>3. command_queue' = [command_queue EXCEPT ![c] = Append(@, cmd)]
    BY <1>5, <2>1 DEF RecvEOF
  <2>. QED  BY <1>3, <2>2, <2>3
<1>. QED  BY <1>1, <1>2, <1>4, <1>5, QueueSteps

LEMMA NextOwnSubscriptions ==
  ASSUME TypeOK, EachHasItsOwn, ClientsAreHonest, [Next]_vars, NEW d \in Circuits
  PROVE  OwnSubscriptions(d)'
<1>0. OwnSubscriptions(d)
  BY DEF EachHasItsOwn
<1>1. \A s \in client'[d].added : s.circuit = d
  <2>1. CASE UNCHANGED client
    BY <1>0, <2>1 DEF OwnSubscriptions
  <2>2. ASSUME NEW c \in Circuits, Recv(c) PROVE \A s \in client'[d].added : s.circuit = d
    <3>1. PICK cmd \in HonestCommands(c) : client' = [client EXCEPT ![c] = AfterSending(@, cmd)]
      BY <2>2 DEF Recv
    <3>2. cmd.kind = "EventAdd" => cmd.sub.circuit = c
      BY HonestIsOwn DEF EachHasItsOwn, ClientsAreHonest
    <3>3. /\ client'[c].added = IF cmd.kind = "EventAdd" THEN client[c].added \cup {cmd.sub}
                                                         ELSE client[c].added
          /\ \A x \in Circuits : x # c => client'[x] = client[x]
      BY <3>1, SentFields
    <3>. QED  BY <1>0, <3>2, <3>3 DEF OwnSubscriptions
  <2>3. ASSUME NEW c \in Circuits, RecvEOF(c) PROVE UNCHANGED client
    BY <2>3 DEF RecvEOF
  <2>. QED  BY <2>1, <2>2, <2>3, QueueSteps
<1>2. \A s \in subscriptions'[d] : s.circuit = d
  <2>1. CASE UNCHANGED subscriptions
    BY <1>0, <2>1 DEF OwnSubscriptions
  <2>2. ASSUME NEW c \in Circuits, EventAdd(c) PROVE \A s \in subscriptions'[d] : s.circuit = d
    <3>1. Head(command_queue[c]) = command_queue[c][1] /\ 1 \in DOMAIN command_queue[c]
          /\ Head(command_queue[c]).kind = "EventAdd"
      BY <2>2, TakeFields DEF EventAdd
    <3>2. Head(command_queue[c]).sub.circuit = c
      BY <3>1 DEF EachHasItsOwn, OwnCommands
    <3>3. subscriptions' = [subscriptions EXCEPT ![c] = @ \cup {Head(command_queue[c]).sub}]
      BY <2>2 DEF EventAdd
    <3>. QED  BY <1>0, <3>2, <3>3 DEF OwnSubscriptions, TypeOK
  <2>3. ASSUME NEW c \in Circuits, EventCancel(c) PROVE \A s \in subscriptions'[d] : s.circuit = d
    <3>1. PICK gone : subscriptions' = [subscriptions EXCEPT ![c] = @ \ gone]
      BY <2>3 DEF EventCancel, CullSubscriptions
    <3>. QED  BY <1>0, <3>1 DEF OwnSubscriptions, TypeOK
  <2>4. ASSUME NEW c \in Circuits, OnDisconnect(c) PROVE \A s \in subscriptions'[d] : s.circuit = d
    <3>1. subscriptions' = subscriptions \/ subscriptions' = [subscriptions EXCEPT ![c] = {}]
      BY <2>4, OnDisconnectFields
    <3>. QED  BY <1>0, <3>1 DEF OwnSubscriptions, TypeOK
  <2>. QED  BY <2>1, <2>2, <2>3, <2>4, TableSteps
<1>. QED  BY <1>1, <1>2 DEF OwnSubscriptions

\* The updates of a circuit after a step: the same ones, some expired; one
\* more, of the value that the Context distributes; one taken into the batch
\* or dropped; the batch gone.
Refreshed(d) ==
  \E list : /\ SameUpdates(list, subscription_queue[d]) /\ subscription_queue'[d] = list
            /\ batch'[d] = batch[d]
Lengthened(d) ==
  \E list \in Seq(Entries), e \in Entries :
    /\ SameUpdates(list, subscription_queue[d]) /\ subscription_queue'[d] = Append(list, e)
    /\ e.sub.circuit = d /\ iter # None /\ e.ver = iter.ver /\ iter' # None /\ iter'.ver = iter.ver
    /\ batch'[d] = batch[d]
Shifted(d) ==
  /\ subscription_queue[d] # <<>> /\ subscription_queue'[d] = Tail(subscription_queue[d])
  /\ batch'[d] = batch[d] \/ batch'[d] = Append(batch[d], Head(subscription_queue[d]))
Emptied(d) == batch'[d] = <<>> /\ subscription_queue'[d] = subscription_queue[d]

LEMMA UpdateEffects ==
  ASSUME TypeOK, ContextInOrder, [Next]_vars, NEW d \in Circuits
  PROVE  Refreshed(d) \/ Lengthened(d) \/ Shifted(d) \/ Emptied(d)
<1>0. /\ subscription_queue \in [Circuits -> Seq(Entries)] /\ subscription_queue[d] \in Seq(Entries)
      /\ batch \in [Circuits -> Seq(Entries)] /\ iter \in Items \cup {None}
  BY DEF TypeOK
<1>1. UNCHANGED <<batch[d], subscription_queue[d]>> => Refreshed(d)
  <2>1. SameUpdates(subscription_queue[d], subscription_queue[d])
    BY <1>0 DEF SameUpdates
  <2>. QED  BY <2>1 DEF Refreshed
<1>2. CASE CtxSend
  <2>1. PICK c \in Circuits, list, queue \in Seq(Entries) :
           /\ iter \in Items /\ iter' \in Items /\ iter'.ver = iter.ver
           /\ SameUpdates(list, subscription_queue[c])
           /\ \/ queue = list
              \/ \E e \in Entries : queue = Append(list, e) /\ e.ver = iter.ver /\ e.sub.circuit = c
           /\ subscription_queue' = [subscription_queue EXCEPT ![c] = queue]
    BY <1>2, CtxSendFields
  <2>2. UNCHANGED batch /\ iter # None /\ iter' # None
    BY <1>2, <2>1, NoneAssumption DEF CtxSend
  <2>3. CASE c # d
    BY <1>0, <1>1, <2>1, <2>2, <2>3
  <2>4. CASE c = d /\ queue = list
    BY <1>0, <2>1, <2>2, <2>4 DEF Refreshed
  <2>5. CASE c = d /\ queue # list
    <3>1. PICK e \in Entries : queue = Append(list, e) /\ e.ver = iter.ver /\ e.sub.circuit = d
      BY <2>1, <2>5
    <3>2. subscription_queue'[d] = Append(list, e)
      BY <1>0, <2>1, <2>5, <3>1
    <3>. QED  BY <2>1, <2>2, <2>5, <3>1, <3>2 DEF Lengthened
  <2>. QED  BY <2>3, <2>4, <2>5
<1>3. CASE CtxPut
  <2>1. PICK c \in Circuits :
           /\ iter \in Items /\ iter' \in Items /\ iter'.ver = iter.ver
           /\ iter.put # None /\ iter.put \in Entries /\ iter.put.sub.circuit = c
           /\ subscription_queue' =
                [subscription_queue EXCEPT ![c] = Append(subscription_queue[c], iter.put)]
    BY <1>3, CtxPutFields
  <2>2. UNCHANGED batch /\ iter # None /\ iter' # None /\ iter.put.ver = iter.ver
    BY <1>3, <2>1, NoneAssumption DEF CtxPut, ContextInOrder
  <2>3. CASE c # d
    BY <1>0, <1>1, <2>1, <2>2, <2>3
  <2>4. CASE c = d
    <3>1. SameUpdates(subscription_queue[d], subscription_queue[d])
      BY <1>0 DEF SameUpdates
    <3>2. subscription_queue'[d] = Append(subscription_queue[d], iter.put)
      BY <1>0, <2>1, <2>4
    <3>. QED  BY <1>0, <2>1, <2>2, <2>4, <3>1, <3>2 DEF Lengthened
  <2>. QED  BY <2>3, <2>4
<1>4. ASSUME NEW c \in Circuits, EventsOff(c) PROVE Refreshed(d)
  <2>. DEFINE queue == subscription_queue[c]
  <2>1. PICK list : list = [i \in DOMAIN queue |-> [queue[i] EXCEPT !.live = FALSE]]
    OBVIOUS
  <2>2. SameUpdates(list, queue)
    BY <1>0, <2>1, ClearFields
  <2>3. subscription_queue' = [subscription_queue EXCEPT ![c] = list] /\ UNCHANGED batch
    BY <1>4, <2>1 DEF EventsOff
  <2>4. CASE c # d
    BY <1>0, <1>1, <2>3, <2>4
  <2>5. CASE c = d
    BY <1>0, <2>2, <2>3, <2>5 DEF Refreshed
  <2>. QED  BY <2>4, <2>5
<1>5. ASSUME NEW c \in Circuits, SubGet(c) PROVE Refreshed(d) \/ Shifted(d)
  <2>1. /\ subscription_queue[c] # <<>>
        /\ subscription_queue' = [subscription_queue EXCEPT ![c] = Tail(@)]
        /\ batch' = [batch EXCEPT ![c] = IF Head(subscription_queue[c]).live
                      THEN Append(@, Head(subscription_queue[c])) ELSE @]
    BY <1>5 DEF SubGet
  <2>2. CASE c # d
    BY <1>0, <1>1, <2>1, <2>2
  <2>3. CASE c = d
    BY <1>0, <2>1, <2>3 DEF Shifted
  <2>. QED  BY <2>2, <2>3
<1>6. ASSUME NEW c \in Circuits, SubSend(c) PROVE Refreshed(d) \/ Emptied(d)
  <2>1. batch' = [batch EXCEPT ![c] = <<>>] /\ UNCHANGED subscription_queue
    BY <1>6 DEF SubSend
  <2>2. CASE c # d
    BY <1>0, <1>1, <2>1, <2>2
  <2>3. CASE c = d
    BY <1>0, <2>1, <2>3 DEF Emptied
  <2>. QED  BY <2>2, <2>3
<1>. QED  BY <1>1, <1>2, <1>3, <1>4, <1>5, <1>6, UpdateSteps

\* The members of a queue some of whose updates have expired.
LEMMA SameMembers ==
  ASSUME NEW queue \in Seq(Entries), NEW list, SameUpdates(list, queue), NEW e \in ToSet(list)
  PROVE  \E f \in ToSet(queue) : e.sub = f.sub /\ e.ver = f.ver
<1>1. PICK i \in DOMAIN list : e = list[i]
  BY DEF ToSet
<1>2. i \in DOMAIN queue /\ e.sub = queue[i].sub /\ e.ver = queue[i].ver
  BY <1>1 DEF SameUpdates
<1>. QED  BY <1>2 DEF ToSet

LEMMA NextOwnUpdates ==
  ASSUME TypeOK, EachHasItsOwn, ContextInOrder, [Next]_vars, NEW d \in Circuits
  PROVE  OwnUpdates(d)'
<1>. DEFINE q == subscription_queue[d]
            b == batch[d]
<1>0. q \in Seq(Entries) /\ b \in Seq(Entries) /\ \A e \in ToSet(b) \cup ToSet(q) : e.sub.circuit = d
  BY DEF TypeOK, EachHasItsOwn, OwnUpdates
<1>. SUFFICES \A e \in ToSet(batch'[d]) \cup ToSet(subscription_queue'[d]) : e.sub.circuit = d
  BY DEF OwnUpdates
<1>1. ASSUME NEW list, SameUpdates(list, q) PROVE \A e \in ToSet(list) : e.sub.circuit = d
  BY <1>0, <1>1, SameMembers
<1>2. CASE Refreshed(d)
  BY <1>0, <1>1, <1>2 DEF Refreshed
<1>3. CASE Lengthened(d)
  <2>1. PICK list \in Seq(Entries), e \in Entries :
          /\ SameUpdates(list, q) /\ subscription_queue'[d] = Append(list, e)
          /\ e.sub.circuit = d /\ batch'[d] = b
    BY <1>3 DEF Lengthened
  <2>2. ToSet(Append(list, e)) = ToSet(list) \cup {e}
    BY <2>1, Appended DEF SameUpdates
  <2>. QED  BY <1>0, <1>1, <2>1, <2>2
<1>4. CASE Shifted(d)
  <2>1. /\ q # <<>> /\ subscription_queue'[d] = Tail(q)
        /\ batch'[d] = b \/ batch'[d] = Append(b, Head(q))
    BY <1>4 DEF Shifted
  <2>2. Head(q) \in Entries /\ ToSet(q) = {Head(q)} \cup ToSet(Tail(q))
    BY <1>0, <2>1, HeadAndTail
  <2>3. ToSet(Append(b, Head(q))) = ToSet(b) \cup {Head(q)}
    BY <1>0, <2>2, Appended
  <2>. HIDE DEF q, b
  <2>. QED  BY <1>0, <2>1, <2>2, <2>3
<1>5. CASE Emptied(d)
  BY <1>0, <1>5 DEF Emptied, ToSet
<1>. QED  BY <1>2, <1>3, <1>4, <1>5, UpdateEffects

---------------------------------------------------------------------------
(***************************************************************************)
(* Values do not overtake each other.                                      *)
(***************************************************************************)

\* What the Context has to distribute after a step: newer items; the same,
\* with the loop further on; one item less, which the loop works on.
IterKept ==
  iter' # None => /\ iter # None /\ iter'.ver = iter.ver
                  /\ iter'.put # None => iter'.put.ver = iter'.ver
Grown ==
  /\ \E list \in Seq(Updates) : /\ ctx_queue' = ctx_queue \o list
                                /\ \A i \in DOMAIN list : list[i].ver = version'
  /\ version <= version' /\ \A p \in Specs : content'[p] # None => content'[p] = version'
  /\ IterKept
Stepped == UNCHANGED <<ctx_queue, version, content>> /\ IterKept
Fetched ==
  /\ ctx_queue # <<>> /\ ctx_queue' = Tail(ctx_queue) /\ UNCHANGED <<version, content>>
  /\ iter' # None /\ iter'.ver = Head(ctx_queue).ver /\ iter'.put = None

LEMMA ContextEffects ==
  ASSUME TypeOK, AddingIsHeld, ContextInOrder, [Next]_vars
  PROVE  Grown \/ Stepped \/ Fetched
<1>. USE DEF linkVars, cmdVars, circVars, flowVars, wrVars, outVars, ctxVars, dataVars
<1>0. version \in Nat /\ iter \in Items \cup {None}
  BY BoundAssumption DEF TypeOK
<1>1. UNCHANGED iter => IterKept
  BY DEF IterKept, ContextInOrder
<1>2. CASE UNCHANGED <<content, version, ctx_queue, iter>>
  BY <1>1, <1>2 DEF Stepped
<1>3. CASE Publish /\ UNCHANGED iter
  <2>1. PICK list \in Seq(Updates) :
           /\ \A i \in DOMAIN list : list[i].ver = version + 1
           /\ ctx_queue' = ctx_queue \o list
           /\ version' = version + 1 /\ content' = [p \in Specs |-> None]
    BY <1>3, PublishFields
  <2>2. version <= version'
    BY <1>0, <2>1
  <2>. QED  BY <1>1, <1>3, <2>1, <2>2 DEF Grown
<1>4. ASSUME NEW subs \in Seq(Subscriptions), Subscribe(subs), UNCHANGED iter PROVE Grown
  <2>1. PICK list \in Seq(Updates) :
           /\ \A i \in DOMAIN list : list[i].ver = version
           /\ ctx_queue' = ctx_queue \o list /\ UNCHANGED version
           /\ \A p \in Specs : content'[p] # None => content'[p] = version
    BY <1>4, SubscribeFields
  <2>2. version <= version'
    BY <1>0, <2>1
  <2>. QED  BY <1>1, <1>4, <2>1, <2>2 DEF Grown
<1>5. ASSUME NEW c \in Circuits, EventAdd(c) \/ EventAddResumes(c) \/ EventsOn(c) PROVE Grown \/ Stepped
  <2>1. UNCHANGED iter
    BY <1>5 DEF EventAdd, EventAddResumes, EventsOn
  <2>2. CASE EventAdd(c)
    <3>. DEFINE sub == Head(command_queue[c]).sub
    <3>1. sub \in Subscriptions
      BY <2>2, TakeFields, CommandFields DEF EventAdd
    <3>2. Subscribe(<<sub>>) \/ UNCHANGED <<ctx_queue, dataVars>>
      BY <2>2 DEF EventAdd
    <3>3. <<sub>> \in Seq(Subscriptions)
      BY <3>1, Single
    <3>. HIDE DEF sub
    <3>. QED  BY <1>1, <1>4, <2>1, <3>2, <3>3 DEF Stepped
  <2>3. CASE EventAddResumes(c)
    <3>1. adding[c] \in Subscriptions /\ Subscribe(<<adding[c]>>)
      BY <2>3 DEF EventAddResumes, AddingIsHeld
    <3>. QED  BY <1>4, <2>1, <3>1, Single
  <2>4. CASE EventsOn(c)
    <3>1. to_resend[c] \in Seq(Subscriptions) /\ Subscribe(to_resend[c])
      BY <2>4 DEF EventsOn, TypeOK
    <3>. QED  BY <1>4, <2>1, <3>1
  <2>. QED  BY <1>5, <2>2, <2>3, <2>4
<1>6. ASSUME NEW c \in Circuits, EventsOff(c) PROVE Stepped
  <2>1. /\ iter' = IF iter # None /\ iter.put # None /\ iter.put.sub.circuit = c
                   THEN [iter EXCEPT !.put.live = FALSE] ELSE iter
        /\ UNCHANGED <<ctx_queue, version, content>>
    BY <1>6 DEF EventsOff
  <2>2. CASE iter # None /\ iter.put # None /\ iter.put.sub.circuit = c
    <3>1. iter' = [iter EXCEPT !.put.live = FALSE] /\ iter \in Items
      BY <1>0, <2>1, <2>2
    <3>2. iter'.ver = iter.ver /\ iter'.put.ver = iter.put.ver
      BY <2>2, <3>1, DeadPut
    <3>3. iter.put.ver = iter.ver
      BY <2>2 DEF ContextInOrder
    <3>. QED  BY <2>1, <2>2, <3>2, <3>3 DEF Stepped, IterKept
  <2>3. CASE ~(iter # None /\ iter.put # None /\ iter.put.sub.circuit = c)
    BY <1>1, <2>1, <2>3 DEF Stepped
  <2>. QED  BY <2>2, <2>3
<1>7. CASE ContextLoop /\ UNCHANGED <<content, version>>
  <2>1. CASE CtxGet
    <3>1. /\ ctx_queue # <<>> /\ ctx_queue' = Tail(ctx_queue)
          /\ iter' \in Items /\ iter'.ver = Head(ctx_queue).ver /\ iter'.put = None
      BY <2>1, CtxGetFields
    <3>. QED  BY <1>7, <3>1, NoneAssumption DEF Fetched
  <2>2. CASE CtxSend
    <3>1. iter # None /\ UNCHANGED ctx_queue
      BY <2>2 DEF CtxSend
    <3>2. iter'.ver = iter.ver /\ (iter'.put # None => iter'.put.ver = iter.ver)
      BY <2>2, CtxSendFields
    <3>. QED  BY <1>7, <3>1, <3>2 DEF Stepped, IterKept
  <2>3. CASE CtxPut
    <3>1. iter # None /\ UNCHANGED ctx_queue
      BY <2>3 DEF CtxPut
    <3>2. iter'.ver = iter.ver /\ iter'.put = None
      BY <2>3, CtxPutFields
    <3>. QED  BY <1>7, <3>1, <3>2 DEF Stepped, IterKept
  <2>4. CASE CtxNext \/ CtxFails
    BY <1>7, <2>4 DEF CtxNext, CtxFails, Stepped, IterKept
  <2>. QED  BY <1>7, <2>1, <2>2, <2>3, <2>4 DEF ContextLoop
<1>. QED  BY <1>2, <1>3, <1>5, <1>6, <1>7, ContextSteps

\* Items have versions.
LEMMA Versions ==
  ASSUME TypeOK
  PROVE  /\ version \in Nat /\ ctx_queue \in Seq(Updates)
         /\ \A i \in DOMAIN ctx_queue : ctx_queue[i].ver \in Nat
         /\ iter # None => iter.ver \in Nat
         /\ \A s \in Subscriptions : delivered[s] \in Int
         /\ \A c \in Circuits : /\ batch[c] \in Seq(Entries) /\ subscription_queue[c] \in Seq(Entries)
                                /\ \A e \in ToSet(batch[c]) \cup ToSet(subscription_queue[c]) : e.ver \in Nat
<1>1. version \in Nat /\ \A s \in Subscriptions : delivered[s] \in Int
  BY BoundAssumption DEF TypeOK
<1>2. ctx_queue \in Seq(Updates) /\ \A i \in DOMAIN ctx_queue : ctx_queue[i].ver \in Nat
  <2>1. ctx_queue \in Seq(Updates)
    BY DEF TypeOK
  <2>2. \A m \in Updates : m.ver \in Nat
    BY BoundAssumption DEF Updates
  <2>. QED  BY <2>1, <2>2
<1>3. iter # None => iter.ver \in Nat
  BY ItemFields, BoundAssumption DEF TypeOK
<1>4. ASSUME NEW c \in Circuits
      PROVE  /\ batch[c] \in Seq(Entries) /\ subscription_queue[c] \in Seq(Entries)
             /\ \A e \in ToSet(batch[c]) \cup ToSet(subscription_queue[c]) : e.ver \in Nat
  <2>1. batch[c] \in Seq(Entries) /\ subscription_queue[c] \in Seq(Entries)
    BY DEF TypeOK
  <2>2. \A e \in Entries : e.ver \in Nat
    BY BoundAssumption DEF Entries
  <2>. QED  BY <2>1, <2>2 DEF ToSet
<1>. QED  BY <1>1, <1>2, <1>3, <1>4

\* What is older than all that is to come stays so.
LEMMA NotAfterKept ==
  ASSUME TypeOK, TypeOK', ContextInOrder, Grown \/ Stepped \/ Fetched, NEW CONSTANT v \in Int, NotAfter(v)
  PROVE  NotAfter(v)'
<1>0. /\ version \in Nat /\ version' \in Nat /\ ctx_queue \in Seq(Updates)
      /\ \A i \in DOMAIN ctx_queue : ctx_queue[i].ver \in Nat
  BY Versions, TypeOK' DEF TypeOK
<1>1. CASE Stepped
  BY <1>1 DEF Stepped, IterKept, NotAfter
<1>2. CASE Grown
  <2>1. PICK list \in Seq(Updates) : /\ ctx_queue' = ctx_queue \o list
                                     /\ \A i \in DOMAIN list : list[i].ver = version'
    BY <1>2 DEF Grown
  <2>2. v <= version'
    BY <1>0, <1>2 DEF Grown, NotAfter
  <2>3. ASSUME NEW i \in DOMAIN ctx_queue' PROVE v <= ctx_queue'[i].ver
    <3>1. \/ i \in DOMAIN ctx_queue /\ ctx_queue'[i] = ctx_queue[i]
          \/ i - Len(ctx_queue) \in DOMAIN list /\ ctx_queue'[i] = list[i - Len(ctx_queue)]
      BY <1>0, <2>1, <2>3
    <3>. QED  BY <2>1, <2>2, <3>1 DEF NotAfter
  <2>4. iter' # None => v <= iter'.ver
    BY <1>2 DEF Grown, IterKept, NotAfter
  <2>. QED  BY <2>2, <2>3, <2>4 DEF NotAfter
<1>3. CASE Fetched
  <2>1. /\ ctx_queue # <<>> /\ ctx_queue' = Tail(ctx_queue) /\ UNCHANGED version
        /\ iter'.ver = Head(ctx_queue).ver
    BY <1>3 DEF Fetched
  <2>2. Head(ctx_queue) = ctx_queue[1] /\ 1 \in DOMAIN ctx_queue
    BY <1>0, <2>1, HeadAndTail
  <2>3. \A i \in DOMAIN Tail(ctx_queue) : i + 1 \in DOMAIN ctx_queue /\ Tail(ctx_queue)[i] = ctx_queue[i + 1]
    BY <1>0, <2>1
  <2>. QED  BY <2>1, <2>2, <2>3 DEF NotAfter
<1>. QED  BY <1>1, <1>2, <1>3

LEMMA NextContextInOrder ==
  ASSUME TypeOK, TypeOK', ContextInOrder, Grown \/ Stepped \/ Fetched
  PROVE  ContextInOrder'
<1>0. /\ version \in Nat /\ version' \in Nat /\ ctx_queue \in Seq(Updates)
      /\ \A i \in DOMAIN ctx_queue : ctx_queue[i].ver \in Nat /\ ctx_queue[i].ver <= version
      /\ iter # None => iter.ver \in Nat
  <2>1. version \in Nat /\ ctx_queue \in Seq(Updates) /\ (iter # None => iter.ver \in Nat)
        /\ \A i \in DOMAIN ctx_queue : ctx_queue[i].ver \in Nat
    BY Versions
  <2>2. version' \in Nat
    BY BoundAssumption DEF TypeOK
  <2>. QED  BY <2>1, <2>2 DEF ContextInOrder
<1>1. ASSUME IterKept, iter' # None PROVE NotAfter(iter.ver)'
  <2>1. iter # None /\ iter'.ver = iter.ver
    BY <1>1 DEF IterKept
  <2>2. PICK v \in Int : v = iter.ver
    BY <1>0, <2>1
  <2>3. NotAfter(v)
    BY <2>1, <2>2 DEF ContextInOrder
  <2>4. NotAfter(v)'
    BY <2>3, NotAfterKept
  <2>. QED  BY <2>1, <2>2, <2>4 DEF NotAfter
<1>2. CASE Stepped
  <2>1. iter' # None => NotAfter(iter.ver)' /\ (iter'.put # None => iter'.put.ver = iter'.ver)
    BY <1>1, <1>2 DEF Stepped, IterKept
  <2>. QED  BY <1>2, <2>1 DEF Stepped, ContextInOrder, Ascending
<1>3. CASE Grown
  <2>1. PICK list \in Seq(Updates) : /\ ctx_queue' = ctx_queue \o list
                                     /\ \A i \in DOMAIN list : list[i].ver = version'
    BY <1>3 DEF Grown
  <2>2. \A i \in DOMAIN ctx_queue' :
          \/ i \in DOMAIN ctx_queue /\ ctx_queue'[i] = ctx_queue[i]
          \/ i \notin DOMAIN ctx_queue /\ ctx_queue'[i].ver = version'
    <3>1. \A i \in DOMAIN ctx_queue' :
            \/ i \in DOMAIN ctx_queue /\ ctx_queue'[i] = ctx_queue[i]
            \/ /\ i \notin DOMAIN ctx_queue /\ i - Len(ctx_queue) \in DOMAIN list
               /\ ctx_queue'[i] = list[i - Len(ctx_queue)]
      BY <1>0, <2>1
    <3>. QED  BY <2>1, <3>1
  <2>3. \A i \in DOMAIN ctx_queue' : ctx_queue'[i].ver <= version'
    BY <1>0, <1>3, <2>2 DEF Grown
  <2>4. Ascending(ctx_queue')
    <3>. SUFFICES ASSUME NEW i \in DOMAIN ctx_queue', NEW j \in DOMAIN ctx_queue', i <= j
                  PROVE  ctx_queue'[i].ver <= ctx_queue'[j].ver
      BY DEF Ascending
    <3>1. CASE j \in DOMAIN ctx_queue
      <4>1. i \in DOMAIN ctx_queue
        BY <1>0, <2>1, <3>1
      <4>. QED  BY <2>2, <3>1, <4>1 DEF ContextInOrder, Ascending
    <3>2. CASE j \notin DOMAIN ctx_queue
      BY <2>2, <2>3, <3>2
    <3>. QED  BY <3>1, <3>2
  <2>5. iter' # None => NotAfter(iter.ver)' /\ (iter'.put # None => iter'.put.ver = iter'.ver)
    BY <1>1, <1>3 DEF Grown, IterKept
  <2>. QED  BY <1>3, <2>3, <2>4, <2>5 DEF Grown, ContextInOrder, Ascending
<1>4. CASE Fetched
  <2>1. /\ ctx_queue # <<>> /\ ctx_queue' = Tail(ctx_queue) /\ UNCHANGED <<version, content>>
        /\ iter' # None /\ iter'.ver = Head(ctx_queue).ver /\ iter'.put = None
    BY <1>4 DEF Fetched
  <2>2. Head(ctx_queue) = ctx_queue[1] /\ 1 \in DOMAIN ctx_queue
    BY <1>0, <2>1, HeadAndTail
  <2>3. \A i \in DOMAIN Tail(ctx_queue) : i + 1 \in DOMAIN ctx_queue /\ Tail(ctx_queue)[i] = ctx_queue[i + 1]
    BY <1>0, <2>1
  <2>4. \A i \in DOMAIN Tail(ctx_queue) : i \in Nat /\ 1 <= i + 1
    BY <1>0, <2>1
  <2>5. \A i \in DOMAIN ctx_queue' : iter'.ver <= ctx_queue'[i].ver /\ ctx_queue'[i].ver <= version'
    BY <1>0, <2>1, <2>2, <2>3, <2>4 DEF ContextInOrder, Ascending
  <2>6. Ascending(ctx_queue')
    <3>. SUFFICES ASSUME NEW i \in DOMAIN ctx_queue', NEW j \in DOMAIN ctx_queue', i <= j
                  PROVE  ctx_queue'[i].ver <= ctx_queue'[j].ver
      BY DEF Ascending
    <3>1. i + 1 <= j + 1
      BY <2>1, <2>4
    <3>. QED  BY <2>1, <2>3, <3>1 DEF ContextInOrder, Ascending
  <2>7. iter'.ver <= version' /\ iter'.ver \in Nat
    BY <1>0, <2>1, <2>2 DEF ContextInOrder
  <2>. QED  BY <2>1, <2>5, <2>6, <2>7 DEF ContextInOrder, Ascending, NotAfter
<1>. QED  BY <1>2, <1>3, <1>4

\* A value that nothing on the way to a circuit is older than.
LEMMA Later ==
  ASSUME TypeOK, ContextInOrder, NEW d \in Circuits, NEW CONSTANT v \in Int, NotAfter(v),
         Refreshed(d) \/ Lengthened(d) \/ Shifted(d) \/ Emptied(d),
         \A e \in ToSet(batch[d]) \cup ToSet(subscription_queue[d]) : v <= e.ver
  PROVE  \A e \in ToSet(batch'[d]) \cup ToSet(subscription_queue'[d]) : v <= e.ver
<1>. DEFINE q == subscription_queue[d]
            b == batch[d]
<1>0. q \in Seq(Entries) /\ b \in Seq(Entries)
  BY DEF TypeOK
<1>1. ASSUME NEW list, SameUpdates(list, q) PROVE \A e \in ToSet(list) : v <= e.ver
  BY <1>0, <1>1, SameMembers
<1>2. CASE Refreshed(d)
  BY <1>1, <1>2 DEF Refreshed
<1>3. CASE Lengthened(d)
  <2>1. PICK list \in Seq(Entries), e \in Entries :
          /\ SameUpdates(list, q) /\ subscription_queue'[d] = Append(list, e)
          /\ iter # None /\ e.ver = iter.ver /\ batch'[d] = b
    BY <1>3 DEF Lengthened
  <2>2. ToSet(Append(list, e)) = ToSet(list) \cup {e}
    BY <2>1, Appended
  <2>3. v <= e.ver
    BY <2>1 DEF NotAfter
  <2>. QED  BY <1>1, <2>1, <2>2, <2>3
<1>4. CASE Shifted(d)
  <2>1. /\ q # <<>> /\ subscription_queue'[d] = Tail(q)
        /\ batch'[d] = b \/ batch'[d] = Append(b, Head(q))
    BY <1>4 DEF Shifted
  <2>2. Head(q) \in Entries /\ ToSet(q) = {Head(q)} \cup ToSet(Tail(q))
    BY <1>0, <2>1, HeadAndTail
  <2>3. ToSet(Append(b, Head(q))) = ToSet(b) \cup {Head(q)}
    BY <1>0, <2>2, Appended
  <2>4. \A e \in ToSet(b) \cup ToSet(q) : v <= e.ver
    OBVIOUS
  <2>. HIDE DEF q, b
  <2>. QED  BY <2>1, <2>2, <2>3, <2>4
<1>5. CASE Emptied(d)
  BY <1>5 DEF Emptied, ToSet
<1>. QED  BY <1>2, <1>3, <1>4, <1>5

\* Adding at the end what is not older, taking from the front.
LEMMA AscendingAppend ==
  ASSUME NEW list \in Seq(Entries), Ascending(list), NEW e \in Entries, \A f \in ToSet(list) : f.ver <= e.ver
  PROVE  Ascending(Append(list, e))
<1>0. e.ver \in Nat
  BY BoundAssumption DEF Entries
<1>1. /\ DOMAIN Append(list, e) = DOMAIN list \cup {Len(list) + 1} /\ Len(list) + 1 \notin DOMAIN list
      /\ \A i \in DOMAIN list : Append(list, e)[i] = list[i]
      /\ Append(list, e)[Len(list) + 1] = e
  BY Appended
<1>2. \A i \in DOMAIN list : list[i].ver <= e.ver
  BY DEF ToSet
<1>3. \A i \in DOMAIN list : ~(Len(list) + 1 <= i)
  OBVIOUS
<1>. QED  BY <1>0, <1>1, <1>2, <1>3 DEF Ascending

LEMMA AscendingTail ==
  ASSUME NEW list \in Seq(Entries), Ascending(list), list # <<>>
  PROVE  Ascending(Tail(list)) /\ \A f \in ToSet(Tail(list)) : Head(list).ver <= f.ver
<1>1. \A i \in DOMAIN Tail(list) : i \in Nat /\ i + 1 \in DOMAIN list /\ Tail(list)[i] = list[i + 1]
                                  /\ 1 <= i + 1
  OBVIOUS
<1>2. Head(list) = list[1] /\ 1 \in DOMAIN list
  BY HeadAndTail
<1>3. \A i, j \in DOMAIN Tail(list) : i <= j => i + 1 <= j + 1
  BY <1>1
<1>4. Ascending(Tail(list))
  BY <1>1, <1>3 DEF Ascending
<1>5. \A f \in ToSet(Tail(list)) : Head(list).ver <= f.ver
  BY <1>1, <1>2 DEF Ascending, ToSet
<1>. QED  BY <1>4, <1>5

LEMMA NextCircuitInOrder ==
  ASSUME TypeOK, TypeOK', ContextInOrder, Grown \/ Stepped \/ Fetched, NEW d \in Circuits, CircuitInOrder(d),
         Refreshed(d) \/ Lengthened(d) \/ Shifted(d) \/ Emptied(d)
  PROVE  CircuitInOrder(d)'
<1>. DEFINE q == subscription_queue[d]
            b == batch[d]
<1>0. /\ q \in Seq(Entries) /\ b \in Seq(Entries) /\ Ascending(q) /\ Ascending(b)
      /\ \A e \in ToSet(b) \cup ToSet(q) : e.ver \in Nat /\ NotAfter(e.ver)
      /\ \A e \in ToSet(b), f \in ToSet(q) : e.ver <= f.ver
  BY Versions DEF CircuitInOrder
<1>1. ASSUME NEW e \in ToSet(b) \cup ToSet(q) PROVE NotAfter(e.ver)'
  <2>1. PICK v \in Int : v = e.ver
    BY <1>0, <1>1
  <2>2. NotAfter(v)
    BY <1>0, <1>1, <2>1
  <2>3. NotAfter(v)'
    BY <2>2, NotAfterKept
  <2>. QED  BY <2>1, <2>3
<1>2. ASSUME NEW list, SameUpdates(list, q)
      PROVE  /\ Ascending(list) /\ list \in Seq(Entries)
             /\ \A e \in ToSet(list) : \E f \in ToSet(q) : e.ver = f.ver
  BY <1>0, <1>2, SameMembers DEF SameUpdates, Ascending
<1>3. CASE Refreshed(d)
  <2>1. PICK list : SameUpdates(list, q) /\ subscription_queue'[d] = list /\ batch'[d] = b
    BY <1>3 DEF Refreshed
  <2>. HIDE DEF q, b
  <2>2. \A e \in ToSet(batch'[d]) \cup ToSet(subscription_queue'[d]) : NotAfter(e.ver)'
    BY <1>1, <1>2, <2>1
  <2>3. \A e \in ToSet(batch'[d]), f \in ToSet(subscription_queue'[d]) : e.ver <= f.ver
    BY <1>0, <1>2, <2>1
  <2>4. Ascending(batch'[d]) /\ Ascending(subscription_queue'[d])
    BY <1>0, <1>2, <2>1
  <2>. QED  BY <2>2, <2>3, <2>4 DEF CircuitInOrder, Ascending
<1>4. CASE Lengthened(d)
  <2>1. PICK list \in Seq(Entries), e \in Entries :
          /\ SameUpdates(list, q) /\ subscription_queue'[d] = Append(list, e)
          /\ iter # None /\ e.ver = iter.ver /\ batch'[d] = b
    BY <1>4 DEF Lengthened
  <2>. HIDE DEF q, b
  <2>2. ToSet(Append(list, e)) = ToSet(list) \cup {e}
    BY <2>1, Appended
  <2>3. \A f \in ToSet(b) \cup ToSet(q) : f.ver <= e.ver
    BY <1>0, <2>1 DEF NotAfter
  <2>4. \A f \in ToSet(list) : f.ver <= e.ver
    BY <1>2, <2>1, <2>3
  <2>5. Ascending(Append(list, e))
    BY <1>2, <2>1, <2>4, AscendingAppend
  <2>6. NotAfter(e.ver)'
    <3>1. PICK v \in Int : v = e.ver
      BY <2>1, Versions
    <3>2. NotAfter(v)
      BY <2>1, <3>1 DEF ContextInOrder
    <3>3. NotAfter(v)'
      BY <3>2, NotAfterKept
    <3>. QED  BY <3>1, <3>3
  <2>7. \A f \in ToSet(batch'[d]) \cup ToSet(subscription_queue'[d]) : NotAfter(f.ver)'
    BY <1>1, <1>2, <2>1, <2>2, <2>6
  <2>8. \A f \in ToSet(batch'[d]), g \in ToSet(subscription_queue'[d]) : f.ver <= g.ver
    BY <1>0, <1>2, <2>1, <2>2, <2>3
  <2>. QED  BY <1>0, <2>1, <2>5, <2>7, <2>8 DEF CircuitInOrder, Ascending
<1>5. CASE Shifted(d)
  <2>1. /\ q # <<>> /\ subscription_queue'[d] = Tail(q)
        /\ batch'[d] = b \/ batch'[d] = Append(b, Head(q))
    BY <1>5 DEF Shifted
  <2>. HIDE DEF q, b
  <2>2. Head(q) \in Entries /\ ToSet(q) = {Head(q)} \cup ToSet(Tail(q))
    BY <1>0, <2>1, HeadAndTail
  <2>3. ToSet(Append(b, Head(q))) = ToSet(b) \cup {Head(q)}
    BY <1>0, <2>2, Appended
  <2>4. Ascending(Tail(q)) /\ \A f \in ToSet(Tail(q)) : Head(q).ver <= f.ver
    BY <1>0, <2>1, AscendingTail
  <2>5. Ascending(Append(b, Head(q)))
    BY <1>0, <2>2, AscendingAppend
  <2>6. \A f \in ToSet(batch'[d]) \cup ToSet(subscription_queue'[d]) : NotAfter(f.ver)'
    BY <1>1, <2>1, <2>2, <2>3
  <2>7. \A f \in ToSet(batch'[d]), g \in ToSet(subscription_queue'[d]) : f.ver <= g.ver
    BY <1>0, <2>1, <2>2, <2>3, <2>4
  <2>8. Ascending(batch'[d]) /\ Ascending(subscription_queue'[d])
    BY <1>0, <2>1, <2>4, <2>5
  <2>. QED  BY <2>6, <2>7, <2>8 DEF CircuitInOrder, Ascending
<1>6. CASE Emptied(d)
  <2>1. batch'[d] = <<>> /\ subscription_queue'[d] = q
    BY <1>6 DEF Emptied
  <2>2. ToSet(<<>>) = {}
    BY DEF ToSet
  <2>. HIDE DEF q, b
  <2>. QED  BY <1>0, <1>1, <2>1, <2>2 DEF CircuitInOrder, Ascending
<1>. QED  BY <1>3, <1>4, <1>5, <1>6

LEMMA NextSentInOrder ==
  ASSUME TypeOK, TypeOK', EachHasItsOwn, InOrder, [Next]_vars, Grown \/ Stepped \/ Fetched,
         NEW CONSTANT s \in Subscriptions,
         NEW CONSTANT d \in Circuits, d = s.circuit,
         Refreshed(d) \/ Lengthened(d) \/ Shifted(d) \/ Emptied(d)
  PROVE  SentInOrder(s)'
<1>0. ContextInOrder /\ CircuitInOrder(d) /\ SentInOrder(s)
  BY DEF InOrder
<1>1. ASSUME NEW CONSTANT v \in Int, NotAfter(v), delivered'[s] = v,
             \A e \in ToSet(batch[d]) \cup ToSet(subscription_queue[d]) : v <= e.ver
      PROVE  SentInOrder(s)'
  <2>1. NotAfter(v)'
    BY <1>0, <1>1, NotAfterKept
  <2>2. \A e \in ToSet(batch'[d]) \cup ToSet(subscription_queue'[d]) : v <= e.ver
    BY <1>0, <1>1, Later
  <2>. QED  BY <1>1, <2>1, <2>2 DEF SentInOrder
<1>2. CASE delivered'[s] = delivered[s]
  <2>1. PICK v \in Int : v = delivered[s]
    BY Versions
  <2>2. NotAfter(v) /\ \A e \in ToSet(batch[d]) \cup ToSet(subscription_queue[d]) : v <= e.ver
    BY <1>0, <2>1 DEF SentInOrder
  <2>. QED  BY <1>1, <1>2, <2>1, <2>2
<1>3. CASE delivered'[s] = Cancelled
  <2>1. PICK v \in Int : v = Cancelled
    BY DEF Cancelled
  <2>2. \A n \in Nat : v <= n
    BY <2>1 DEF Cancelled
  <2>3. NotAfter(v)
    BY <2>2, Versions DEF NotAfter
  <2>4. \A e \in ToSet(batch[d]) \cup ToSet(subscription_queue[d]) : v <= e.ver
    BY <2>2, Versions
  <2>. QED  BY <1>1, <1>3, <2>1, <2>3, <2>4
<1>4. ASSUME NEW c \in Circuits, EventCancel(c)
      PROVE  delivered'[s] = delivered[s] \/ delivered'[s] = Cancelled
  <2>1. PICK t : delivered' = IF connected[c] THEN [delivered EXCEPT ![t] = Cancelled] ELSE delivered
    BY <1>4 DEF EventCancel
  <2>. QED  BY <2>1 DEF TypeOK
<1>5. ASSUME NEW c \in Circuits, SubSend(c), delivered'[s] # delivered[s] PROVE SentInOrder(s)'
  <2>1. /\ c = d /\ batch' = [batch EXCEPT ![c] = <<>>]
        /\ \E e \in ToSet(batch[c]) : delivered'[s] = e.ver
    BY <1>5, SubSendFields DEF EachHasItsOwn
  <2>2. PICK e \in ToSet(batch[d]) : delivered'[s] = e.ver
    BY <2>1
  <2>3. PICK v \in Int : v = e.ver
    BY Versions
  <2>4. NotAfter(v) /\ \A f \in ToSet(subscription_queue[d]) : v <= f.ver
    BY <1>0, <2>3 DEF CircuitInOrder
  <2>5. NotAfter(v)'
    BY <1>0, <2>4, NotAfterKept
  <2>6. batch'[d] = <<>> /\ subscription_queue'[d] = subscription_queue[d]
    BY <1>5, <2>1 DEF SubSend, TypeOK
  <2>7. ToSet(<<>>) = {}
    BY DEF ToSet
  <2>. QED  BY <2>2, <2>3, <2>4, <2>5, <2>6, <2>7 DEF SentInOrder
<1>. QED  BY <1>2, <1>3, <1>4, <1>5, DeliverySteps

LEMMA NextInOrder ==
  ASSUME TypeOK, TypeOK', AddingIsHeld, EachHasItsOwn, InOrder, [Next]_vars
  PROVE  InOrder'
<1>1. ContextInOrder /\ \A c \in Circuits : CircuitInOrder(c)
  BY DEF InOrder
<1>2. Grown \/ Stepped \/ Fetched
  BY <1>1, ContextEffects
<1>3. ContextInOrder'
  BY <1>1, <1>2, NextContextInOrder
<1>4. ASSUME NEW c \in Circuits PROVE CircuitInOrder(c)'
  BY <1>1, <1>2, UpdateEffects, NextCircuitInOrder
<1>5. ASSUME NEW s \in Subscriptions PROVE SentInOrder(s)'
  <2>1. PICK d \in Circuits : d = s.circuit
    BY SubscriptionAssumption
  <2>2. Refreshed(d) \/ Lengthened(d) \/ Shifted(d) \/ Emptied(d)
    BY <1>1, UpdateEffects
  <2>. QED  BY <1>2, <2>1, <2>2, NextSentInOrder
<1>. QED  BY <1>3, <1>4, <1>5 DEF InOrder

---------------------------------------------------------------------------
(***************************************************************************)
(* The Context's table and the registration.                               *)
(***************************************************************************)

\* The tables change only in these steps.
LEMMA RegistrationSteps ==
  ASSUME TypeOK, [Next]_vars
  PROVE  \/ UNCHANGED <<subscriptions, ctx_subscriptions, registered, adding>>
         \/ \E c \in Circuits : \/ EventAdd(c) \/ EventAddResumes(c) \/ EventCancel(c) \/ ClearChannel(c)
                                \/ EventsOn(c) \/ (OnDisconnect(c) /\ UNCHANGED adding)
<1>. USE DEF circVars, dataVars, cmdVars
<1>1. CASE UNCHANGED vars \/ ContextLoop \/ ServerWrite
  BY <1>1 DEF vars, ContextLoop, CtxGet, CtxSend, CtxPut, CtxNext, CtxFails, ServerWrite, Publish
<1>2. ASSUME NEW c \in Circuits,
             \/ EventsOff(c) \/ WriteRequest(c) \/ CommandSent(c) \/ Recv(c) \/ SubscriptionLoop(c)
      PROVE  UNCHANGED <<subscriptions, ctx_subscriptions, registered, adding>>
  BY <1>2 DEF EventsOff, WriteRequest, CommandSent, Recv, SubscriptionLoop, SubGet, SubSend, SubSent
<1>3. ASSUME NEW c \in Circuits, HandleWrite(c)
      PROVE  UNCHANGED <<subscriptions, ctx_subscriptions, registered, adding>>
  BY <1>3 DEF HandleWrite, Publish
<1>4. ASSUME NEW c \in Circuits, RecvEOF(c) \/ Disconnected(c) \/ CommandSendFails(c) \/ SubSendFails(c)
      PROVE  OnDisconnect(c) /\ UNCHANGED adding
  BY <1>4 DEF RecvEOF, Disconnected, CommandSendFails, SubSendFails
<1>. QED  BY <1>1, <1>2, <1>3, <1>4 DEF Next, CommandLoop

\* Subscriptions of the tables are subscriptions.
LEMMA TableFields ==
  ASSUME TypeOK
  PROVE  /\ \A s \in Subscriptions : s.circuit \in Circuits /\ s.spec \in Specs
         /\ \A c \in Circuits : \A s \in subscriptions[c] : s \in Subscriptions
         /\ \A p \in Specs : \A s \in ToSet(ctx_subscriptions[p]) : s \in Subscriptions
<1>1. \A s \in Subscriptions : s.circuit \in Circuits /\ s.spec \in Specs
  BY SubscriptionAssumption
<1>2. \A c \in Circuits : \A s \in subscriptions[c] : s \in Subscriptions
  BY DEF TypeOK
<1>3. ASSUME NEW p \in Specs PROVE \A s \in ToSet(ctx_subscriptions[p]) : s \in Subscriptions
  <2>1. ctx_subscriptions[p] \in Seq(Subscriptions)
    BY DEF TypeOK
  <2>. QED  BY <2>1 DEF ToSet
<1>. QED  BY <1>1, <1>2, <1>3

\* Taking subscriptions of one circuit out of all tables.
LEMMA ReleaseWanted ==
  ASSUME TypeOK, TypeOK', EachHasItsOwn, WantedIsRegistered, UNCHANGED adding, NEW c \in Circuits,
         NEW gone \in SUBSET subscriptions[c], NEW specs, Release(gone, specs),
         subscriptions' = [subscriptions EXCEPT ![c] = @ \ gone]
  PROVE  WantedIsRegistered'
<1>1. /\ \A p \in Specs : ToSet(ctx_subscriptions'[p]) = ToSet(ctx_subscriptions[p]) \ gone
      /\ \A p \in registered : ToSet(ctx_subscriptions'[p]) # {} => p \in registered'
  BY ReleaseFields
<1>2. /\ subscriptions'[c] = subscriptions[c] \ gone
      /\ \A d \in Circuits : d # c => subscriptions'[d] = subscriptions[d]
  BY DEF TypeOK
<1>3. \A d \in Circuits : \A s \in subscriptions[d] : s \in Subscriptions /\ s.circuit = d /\ s.spec \in Specs
  BY SubscriptionAssumption DEF EachHasItsOwn, OwnSubscriptions, TypeOK
<1>4. ASSUME NEW d \in Circuits, NEW s \in subscriptions'[d]
      PROVE  s \in ToSet(ctx_subscriptions'[s.spec]) /\ (adding'[d] # s => s.spec \in registered')
  <2>1. s \in subscriptions[d] /\ s \notin gone
    BY <1>2, <1>3, <1>4
  <2>2. s \in ToSet(ctx_subscriptions[s.spec]) /\ (adding[d] # s => s.spec \in registered)
    BY <2>1 DEF WantedIsRegistered
  <2>. QED  BY <1>1, <1>3, <2>1, <2>2
<1>5. ASSUME NEW p \in Specs, NEW s \in ToSet(ctx_subscriptions'[p]) PROVE s \in subscriptions'[s.circuit]
  <2>1. s \in ToSet(ctx_subscriptions[p]) /\ s \notin gone
    BY <1>1, <1>5
  <2>2. s \in subscriptions[s.circuit]
    BY <2>1 DEF WantedIsRegistered
  <2>3. s \in Subscriptions /\ s.circuit \in Circuits
    BY <2>1, TableFields
  <2>. QED  BY <1>2, <2>1, <2>2, <2>3
<1>. QED  BY <1>4, <1>5 DEF WantedIsRegistered

\* Registering more.
LEMMA SubscribeWanted ==
  ASSUME TypeOK, WantedIsRegistered, UNCHANGED <<subscriptions, ctx_subscriptions>>,
         registered \subseteq registered',
         \A c \in Circuits : adding'[c] = adding[c] \/ (\A s \in subscriptions[c] : s = adding[c] => s.spec \in registered')
  PROVE  WantedIsRegistered'
<1>. QED  BY DEF WantedIsRegistered

LEMMA NextWanted ==
  ASSUME TypeOK, TypeOK', AddingIsHeld, ContextInOrder, EachHasItsOwn, WantedIsRegistered, [Next]_vars
  PROVE  WantedIsRegistered'
<1>. USE DEF circVars, dataVars
<1>1. CASE UNCHANGED <<subscriptions, ctx_subscriptions, registered, adding>>
  BY <1>1 DEF WantedIsRegistered
<1>2. ASSUME NEW c \in Circuits, EventAdd(c) PROVE WantedIsRegistered'
  <2>. DEFINE sub == Head(command_queue[c]).sub
  <2>1. /\ sub \in Subscriptions /\ sub.spec \in Specs /\ adding[c] = None /\ sub.circuit = c
    <3>1. /\ cmd_task[c] = "get" /\ Head(command_queue[c]) \in Commands
          /\ Head(command_queue[c]).kind = "EventAdd"
          /\ Head(command_queue[c]) = command_queue[c][1] /\ 1 \in DOMAIN command_queue[c]
      BY <1>2, TakeFields DEF EventAdd
    <3>2. sub \in Subscriptions /\ adding[c] = None
      BY <3>1, CommandFields DEF AddingIsHeld
    <3>3. sub.circuit = c
      BY <3>1 DEF EachHasItsOwn, OwnCommands
    <3>. QED  BY <3>2, <3>3, SubscriptionAssumption
  <2>2. /\ subscriptions' = [subscriptions EXCEPT ![c] = subscriptions[c] \cup {sub}]
        /\ ctx_subscriptions' = [ctx_subscriptions EXCEPT ![sub.spec] =
                                   Append(ctx_subscriptions[sub.spec], sub)]
        /\ \/ Subscribe(<<sub>>) /\ UNCHANGED adding
           \/ adding' = [adding EXCEPT ![c] = sub] /\ UNCHANGED registered
    BY <1>2 DEF EventAdd
  <2>. HIDE DEF sub
  <2>3. /\ subscriptions'[c] = subscriptions[c] \cup {sub}
        /\ \A d \in Circuits : d # c => subscriptions'[d] = subscriptions[d]
    BY <2>2 DEF TypeOK
  <2>4. /\ ToSet(ctx_subscriptions'[sub.spec]) = ToSet(ctx_subscriptions[sub.spec]) \cup {sub}
        /\ \A p \in Specs : p # sub.spec => ctx_subscriptions'[p] = ctx_subscriptions[p]
    <3>1. ctx_subscriptions[sub.spec] \in Seq(Subscriptions)
      BY <2>1 DEF TypeOK
    <3>2. ToSet(Append(ctx_subscriptions[sub.spec], sub)) = ToSet(ctx_subscriptions[sub.spec]) \cup {sub}
      BY <2>1, <3>1, Appended
    <3>3. ctx_subscriptions \in [Specs -> Seq(Subscriptions)]
      BY DEF TypeOK
    <3>. QED  BY <2>1, <2>2, <3>2, <3>3
  <2>5. /\ registered \subseteq registered' /\ \A d \in Circuits : d # c => adding'[d] = adding[d]
        /\ adding'[c] # sub => sub.spec \in registered'
    <3>1. CASE Subscribe(<<sub>>) /\ UNCHANGED adding
      <4>1. registered' = registered \cup {s.spec : s \in ToSet(<<sub>>)} /\ ToSet(<<sub>>) = {sub}
        BY <2>1, <3>1, Single, SubscribeFields
      <4>. QED  BY <3>1, <4>1
    <3>2. CASE adding' = [adding EXCEPT ![c] = sub] /\ UNCHANGED registered
      BY <3>2 DEF TypeOK
    <3>. QED  BY <2>2, <3>1, <3>2
  <2>6. ASSUME NEW d \in Circuits, NEW s \in subscriptions'[d]
        PROVE  s \in ToSet(ctx_subscriptions'[s.spec]) /\ (adding'[d] # s => s.spec \in registered')
    <3>1. CASE s = sub /\ d = c
      BY <2>4, <2>5, <3>1
    <3>2. CASE ~(s = sub /\ d = c)
      <4>1. s \in subscriptions[d]
        BY <2>3, <2>6, <3>2
      <4>2. s \in ToSet(ctx_subscriptions[s.spec]) /\ (adding[d] # s => s.spec \in registered)
        BY <4>1 DEF WantedIsRegistered
      <4>3. s \in Subscriptions /\ s.spec \in Specs
        BY <4>1, TableFields
      <4>4. s \in ToSet(ctx_subscriptions'[s.spec])
        BY <2>4, <4>2, <4>3
      <4>5. adding[d] = s => d # c
        BY <2>1, <4>3, NoneAssumption
      <4>. QED  BY <2>5, <4>2, <4>4, <4>5
    <3>. QED  BY <3>1, <3>2
  <2>7. ASSUME NEW p \in Specs, NEW s \in ToSet(ctx_subscriptions'[p]) PROVE s \in subscriptions'[s.circuit]
    <3>1. CASE s = sub
      BY <2>1, <2>3, <3>1
    <3>2. CASE s # sub
      <4>1. s \in ToSet(ctx_subscriptions[p])
        BY <2>4, <2>7, <3>2
      <4>2. s \in subscriptions[s.circuit] /\ s \in Subscriptions /\ s.circuit \in Circuits
        BY <4>1, TableFields DEF WantedIsRegistered
      <4>. QED  BY <2>3, <4>2
    <3>. QED  BY <3>1, <3>2
  <2>. QED  BY <2>6, <2>7 DEF WantedIsRegistered
<1>3. ASSUME NEW c \in Circuits, EventAddResumes(c) PROVE WantedIsRegistered'
  <2>1. /\ adding[c] \in Subscriptions /\ Subscribe(<<adding[c]>>)
        /\ adding' = [adding EXCEPT ![c] = None] /\ UNCHANGED <<subscriptions, ctx_subscriptions>>
    BY <1>3 DEF EventAddResumes, AddingIsHeld
  <2>2. registered' = registered \cup {s.spec : s \in ToSet(<<adding[c]>>)} /\ ToSet(<<adding[c]>>) = {adding[c]}
    BY <2>1, Single, SubscribeFields
  <2>3. registered \subseteq registered' /\ adding[c].spec \in registered'
    BY <2>2
  <2>. QED  BY <2>1, <2>3, SubscribeWanted DEF TypeOK
<1>4. ASSUME NEW c \in Circuits, EventsOn(c) PROVE WantedIsRegistered'
  <2>1. /\ to_resend[c] \in Seq(Subscriptions) /\ Subscribe(to_resend[c])
        /\ UNCHANGED <<subscriptions, ctx_subscriptions, adding>>
    BY <1>4 DEF EventsOn, TypeOK
  <2>2. registered \subseteq registered'
    BY <2>1 DEF Subscribe
  <2>. QED  BY <2>1, <2>2, SubscribeWanted
<1>5. ASSUME NEW c \in Circuits, EventCancel(c) \/ ClearChannel(c) PROVE WantedIsRegistered'
  <2>1. PICK gone \in SUBSET subscriptions[c] : CullSubscriptions(c, gone)
    BY <1>5 DEF EventCancel, ClearChannel
  <2>2. UNCHANGED adding
    BY <1>5 DEF EventCancel, ClearChannel
  <2>3. /\ Release(gone, {s.spec : s \in gone})
        /\ subscriptions' = [subscriptions EXCEPT ![c] = @ \ gone]
    BY <2>1 DEF CullSubscriptions
  <2>. QED  BY <2>2, <2>3, ReleaseWanted
<1>6. ASSUME NEW c \in Circuits, OnDisconnect(c) /\ UNCHANGED adding PROVE WantedIsRegistered'
  <2>1. CASE connected[c]
    <3>1. /\ Release(subscriptions[c], spec_keys[c])
          /\ subscriptions' = [subscriptions EXCEPT ![c] = subscriptions[c] \ subscriptions[c]]
      BY <1>6, <2>1 DEF OnDisconnect
    <3>. QED  BY <1>6, <3>1, ReleaseWanted
  <2>2. CASE ~connected[c]
    BY <1>1, <1>6, <2>2 DEF OnDisconnect
  <2>. QED  BY <2>1, <2>2
<1>. QED  BY <1>1, <1>2, <1>3, <1>4, <1>5, <1>6, RegistrationSteps

---------------------------------------------------------------------------
(***************************************************************************)
(* Honest clients.                                                         *)
(***************************************************************************)

HonestAt(c) == AddsAreNew(c) /\ CancelsAreLate(c) /\ HeldIsServed(c) /\ ServedIsHeld(c)

Places == Nat \ {0}
Kinds == {"EventAdd", "EventCancel"}

\* The requests of d have moved k places forward.
Moved(d, k) == \A i \in Places, kind \in Kinds, s \in Subscriptions :
                 Asks(d, i, kind, s)' <=> Asks(d, i + k, kind, s)

\* Requests are at places.
LEMMA AskedPlace ==
  ASSUME TypeOK, NEW d \in Circuits, NEW i, NEW kind \in Kinds, NEW s, Asks(d, i, kind, s)
  PROVE  i \in Places /\ s \in Subscriptions
<1>1. command_queue[d] \in Seq(Commands) /\ i \in DOMAIN command_queue[d]
  BY DEF Asks, TypeOK
<1>2. command_queue[d][i] \in Commands
  BY <1>1
<1>. QED  BY <1>1, <1>2, CommandFields DEF Asks, Places, Kinds

LEMMA MovedBySame ==
  ASSUME TypeOK, NEW d \in Circuits, command_queue'[d] = command_queue[d]
  PROVE  Moved(d, 0)
<1>. QED  BY DEF Moved, Asks, Places

LEMMA MovedByTake ==
  ASSUME TypeOK, NEW d \in Circuits, command_queue[d] # <<>>, command_queue'[d] = Tail(command_queue[d])
  PROVE  Moved(d, 1)
<1>. DEFINE q == command_queue[d]
<1>0. q \in Seq(Commands)
  BY DEF TypeOK
<1>1. \A i \in DOMAIN Tail(q) : i + 1 \in DOMAIN q /\ Tail(q)[i] = q[i + 1]
  BY <1>0
<1>2. \A i \in Places : i + 1 \in DOMAIN q => i \in DOMAIN Tail(q)
  BY <1>0 DEF Places
<1>. HIDE DEF q
<1>. QED  BY <1>1, <1>2 DEF Moved, Asks, Places, q

LEMMA MovedByEnd ==
  ASSUME TypeOK, NEW d \in Circuits, NEW cmd \in Commands, cmd.kind \notin Kinds,
         command_queue'[d] = Append(command_queue[d], cmd)
  PROVE  Moved(d, 0)
<1>. DEFINE q == command_queue[d]
<1>0. q \in Seq(Commands)
  BY DEF TypeOK
<1>1. /\ DOMAIN Append(q, cmd) = DOMAIN q \cup {Len(q) + 1} /\ Len(q) + 1 \notin DOMAIN q
      /\ \A i \in DOMAIN q : Append(q, cmd)[i] = q[i]
      /\ Append(q, cmd)[Len(q) + 1] = cmd
  BY <1>0, Appended
<1>2. \A i \in Places : i + 0 = i
  BY DEF Places
<1>. HIDE DEF q
<1>. QED  BY <1>1, <1>2 DEF Moved, Asks, q

\* The four parts, by places.
LEMMA HonestParts ==
  ASSUME TypeOK, NEW c \in Circuits
  PROVE  HonestAt(c) <=>
    /\ \A s \in Subscriptions, i \in Places : Asks(c, i, "EventAdd", s) =>
         /\ s \in client[c].added /\ s \notin subscriptions[c] /\ delivered[s] # Cancelled
         /\ \A j \in Places : Asks(c, j, "EventAdd", s) => j = i
    /\ \A s \in Subscriptions, i \in Places : Asks(c, i, "EventCancel", s) =>
         /\ s \in client[c].added /\ s \notin client[c].held /\ delivered[s] # Cancelled
         /\ \A j \in Places : Asks(c, j, "EventCancel", s) => j = i
         /\ connected[c] => \/ s \in subscriptions[c]
                            \/ \E j \in Places : j < i /\ Asks(c, j, "EventAdd", s)
    /\ \A s \in client[c].held :
         /\ s \in client[c].added /\ delivered[s] # Cancelled
         /\ connected[c] => \/ s \in subscriptions[c]
                            \/ \E j \in Places : Asks(c, j, "EventAdd", s)
    /\ \A s \in subscriptions[c] : s \in client[c].added /\ delivered[s] # Cancelled
<1>1. \A i, s : Asks(c, i, "EventAdd", s) \/ Asks(c, i, "EventCancel", s) =>
                  i \in Places /\ i \in DOMAIN command_queue[c]
  BY AskedPlace DEF Kinds, Asks
<1>2. AddsAreNew(c) <=> \A s \in Subscriptions, i \in Places : Asks(c, i, "EventAdd", s) =>
         /\ s \in client[c].added /\ s \notin subscriptions[c] /\ delivered[s] # Cancelled
         /\ \A j \in Places : Asks(c, j, "EventAdd", s) => j = i
  BY <1>1 DEF AddsAreNew
<1>3. CancelsAreLate(c) <=> \A s \in Subscriptions, i \in Places : Asks(c, i, "EventCancel", s) =>
         /\ s \in client[c].added /\ s \notin client[c].held /\ delivered[s] # Cancelled
         /\ \A j \in Places : Asks(c, j, "EventCancel", s) => j = i
         /\ connected[c] => \/ s \in subscriptions[c]
                            \/ \E j \in Places : j < i /\ Asks(c, j, "EventAdd", s)
  BY <1>1 DEF CancelsAreLate
<1>4. HeldIsServed(c) <=> \A s \in client[c].held :
         /\ s \in client[c].added /\ delivered[s] # Cancelled
         /\ connected[c] => \/ s \in subscriptions[c]
                            \/ \E j \in Places : Asks(c, j, "EventAdd", s)
  BY <1>1 DEF HeldIsServed
<1>. QED  BY <1>2, <1>3, <1>4 DEF HonestAt, ServedIsHeld

\* It is enough to show them by places after a step.
LEMMA HonestNext ==
  ASSUME TypeOK', NEW c \in Circuits,
    \A s \in Subscriptions, i \in Places : Asks(c, i, "EventAdd", s)' =>
         /\ s \in client'[c].added /\ s \notin subscriptions'[c] /\ delivered'[s] # Cancelled
         /\ \A j \in Places : Asks(c, j, "EventAdd", s)' => j = i,
    \A s \in Subscriptions, i \in Places : Asks(c, i, "EventCancel", s)' =>
         /\ s \in client'[c].added /\ s \notin client'[c].held /\ delivered'[s] # Cancelled
         /\ \A j \in Places : Asks(c, j, "EventCancel", s)' => j = i
         /\ connected'[c] => \/ s \in subscriptions'[c]
                             \/ \E j \in Places : j < i /\ Asks(c, j, "EventAdd", s)',
    \A s \in client'[c].held :
         /\ s \in client'[c].added /\ delivered'[s] # Cancelled
         /\ connected'[c] => \/ s \in subscriptions'[c]
                             \/ \E j \in Places : Asks(c, j, "EventAdd", s)',
    \A s \in subscriptions'[c] : s \in client'[c].added /\ delivered'[s] # Cancelled
  PROVE  HonestAt(c)'
<1>1. \A i, s : Asks(c, i, "EventAdd", s)' \/ Asks(c, i, "EventCancel", s)' => i \in DOMAIN command_queue'[c]
  BY DEF Asks
<1>2. \A i \in DOMAIN command_queue'[c] : i \in Places
  <2>1. command_queue'[c] \in Seq(Commands)
    BY DEF TypeOK
  <2>. QED  BY <2>1 DEF Places
<1>3. AddsAreNew(c)'
  BY <1>2 DEF AddsAreNew
<1>4. CancelsAreLate(c)'
  BY <1>1, <1>2 DEF CancelsAreLate
<1>5. HeldIsServed(c)'
  BY <1>1, <1>2 DEF HeldIsServed
<1>6. ServedIsHeld(c)'
  BY DEF ServedIsHeld
<1>. QED  BY <1>3, <1>4, <1>5, <1>6 DEF HonestAt

\* The parts by places, one at a time.
LEMMA HonestAdd ==
  ASSUME TypeOK, NEW c \in Circuits, HonestAt(c), NEW s \in Subscriptions, NEW i \in Places,
         Asks(c, i, "EventAdd", s)
  PROVE  /\ s \in client[c].added /\ s \notin subscriptions[c] /\ delivered[s] # Cancelled
         /\ \A j \in Places : Asks(c, j, "EventAdd", s) => j = i
<1>. QED  BY HonestParts

LEMMA HonestCancel ==
  ASSUME TypeOK, NEW c \in Circuits, HonestAt(c), NEW s \in Subscriptions, NEW i \in Places,
         Asks(c, i, "EventCancel", s)
  PROVE  /\ s \in client[c].added /\ s \notin client[c].held /\ delivered[s] # Cancelled
         /\ \A j \in Places : Asks(c, j, "EventCancel", s) => j = i
         /\ connected[c] => \/ s \in subscriptions[c]
                            \/ \E j \in Places : j < i /\ Asks(c, j, "EventAdd", s)
<1>. QED  BY HonestParts

LEMMA HonestHolding ==
  ASSUME TypeOK, NEW c \in Circuits, HonestAt(c), NEW s \in client[c].held
  PROVE  /\ s \in Subscriptions /\ s \in client[c].added /\ delivered[s] # Cancelled
         /\ connected[c] => \/ s \in subscriptions[c]
                            \/ \E j \in Places : Asks(c, j, "EventAdd", s)
<1>1. s \in Subscriptions
  BY DEF TypeOK
<1>. QED  BY <1>1, HonestParts

LEMMA HonestServed ==
  ASSUME TypeOK, NEW c \in Circuits, HonestAt(c), NEW s \in subscriptions[c]
  PROVE  s \in Subscriptions /\ s \in client[c].added /\ delivered[s] # Cancelled
<1>1. s \in Subscriptions
  BY DEF TypeOK
<1>. QED  BY <1>1, HonestParts

\* Other requests, the end of a circuit and whatever else happens to it.
LEMMA HonestKept ==
  ASSUME TypeOK, TypeOK', NEW d \in Circuits, HonestAt(d), NEW k \in {0, 1}, Moved(d, k),
         k = 1 => \A kind \in Kinds, s \in Subscriptions : ~Asks(d, 1, kind, s),
         client'[d].added = client[d].added, client'[d].held = client[d].held,
         \A s \in client[d].added : delivered'[s] = Cancelled <=> delivered[s] = Cancelled,
         subscriptions'[d] \subseteq subscriptions[d],
         connected'[d] => connected[d] /\ subscriptions'[d] = subscriptions[d]
  PROVE  HonestAt(d)'
<1>1. \A i \in Places, kind \in Kinds, s \in Subscriptions :
        Asks(d, i, kind, s)' <=> Asks(d, i + k, kind, s)
  BY DEF Moved
<1>2. ASSUME NEW j \in Places, NEW kind \in Kinds, NEW s \in Subscriptions, Asks(d, j, kind, s)
      PROVE  j - k \in Places /\ Asks(d, j - k, kind, s)'
  <2>1. k = 1 => j # 1
    BY <1>2
  <2>2. j - k \in Places /\ (j - k) + k = j
    BY <2>1 DEF Places
  <2>. QED  BY <1>1, <1>2, <2>2
<1>3. \A i \in Places : i + k \in Places
  BY DEF Places
<1>4. "EventAdd" \in Kinds /\ "EventCancel" \in Kinds
  BY DEF Kinds
<1>5. ASSUME NEW s \in Subscriptions, NEW i \in Places, Asks(d, i, "EventAdd", s)'
      PROVE  /\ s \in client'[d].added /\ s \notin subscriptions'[d] /\ delivered'[s] # Cancelled
             /\ \A j \in Places : Asks(d, j, "EventAdd", s)' => j = i
  <2>1. Asks(d, i + k, "EventAdd", s)
    BY <1>1, <1>4, <1>5
  <2>2. /\ s \in client[d].added /\ s \notin subscriptions[d] /\ delivered[s] # Cancelled
        /\ \A j \in Places : Asks(d, j, "EventAdd", s) => j = i + k
    BY <1>3, <2>1, HonestAdd
  <2>3. ASSUME NEW j \in Places, Asks(d, j, "EventAdd", s)' PROVE j = i
    <3>1. j + k = i + k
      BY <1>1, <1>3, <1>4, <2>2, <2>3
    <3>. QED  BY <3>1 DEF Places
  <2>. QED  BY <2>2, <2>3
<1>6. ASSUME NEW s \in Subscriptions, NEW i \in Places, Asks(d, i, "EventCancel", s)'
      PROVE  /\ s \in client'[d].added /\ s \notin client'[d].held /\ delivered'[s] # Cancelled
             /\ \A j \in Places : Asks(d, j, "EventCancel", s)' => j = i
             /\ connected'[d] => \/ s \in subscriptions'[d]
                                 \/ \E j \in Places : j < i /\ Asks(d, j, "EventAdd", s)'
  <2>1. Asks(d, i + k, "EventCancel", s)
    BY <1>1, <1>4, <1>6
  <2>2. /\ s \in client[d].added /\ s \notin client[d].held /\ delivered[s] # Cancelled
        /\ \A j \in Places : Asks(d, j, "EventCancel", s) => j = i + k
        /\ connected[d] => \/ s \in subscriptions[d]
                           \/ \E j \in Places : j < i + k /\ Asks(d, j, "EventAdd", s)
    BY <1>3, <2>1, HonestCancel
  <2>3. ASSUME NEW j \in Places, Asks(d, j, "EventCancel", s)' PROVE j = i
    <3>1. j + k = i + k
      BY <1>1, <1>3, <1>4, <2>2, <2>3
    <3>. QED  BY <3>1 DEF Places
  <2>4. ASSUME NEW j \in Places, j < i + k, Asks(d, j, "EventAdd", s)
        PROVE  \E m \in Places : m < i /\ Asks(d, m, "EventAdd", s)'
    <3>1. j - k \in Places /\ Asks(d, j - k, "EventAdd", s)'
      BY <1>2, <1>4, <2>4
    <3>2. j - k < i
      BY <2>4 DEF Places
    <3>. QED  BY <3>1, <3>2
  <2>. QED  BY <2>2, <2>3, <2>4
<1>7. ASSUME NEW s \in client'[d].held
      PROVE  /\ s \in client'[d].added /\ delivered'[s] # Cancelled
             /\ connected'[d] => \/ s \in subscriptions'[d]
                                 \/ \E j \in Places : Asks(d, j, "EventAdd", s)'
  <2>1. /\ s \in Subscriptions /\ s \in client[d].added /\ delivered[s] # Cancelled
        /\ connected[d] => \/ s \in subscriptions[d]
                           \/ \E j \in Places : Asks(d, j, "EventAdd", s)
    BY <1>7, HonestHolding
  <2>. QED  BY <1>2, <1>4, <2>1
<1>8. \A s \in subscriptions'[d] : s \in client'[d].added /\ delivered'[s] # Cancelled
  BY HonestServed
<1>. QED  BY <1>5, <1>6, <1>7, <1>8, HonestNext

\* The request at the head of the queue.
LEMMA HeadAsked ==
  ASSUME TypeOK, EachHasItsOwn, NEW c \in Circuits, NEW k \in Kinds, Take(c, k)
  PROVE  \E a \in Subscriptions : /\ a = Head(command_queue[c]).sub /\ a.circuit = c
                                  /\ \A s : Asks(c, 1, k, s) <=> s = a
                                  /\ \A s, kind : Asks(c, 1, kind, s) => kind = k
                                  /\ Moved(c, 1)
<1>1. /\ command_queue[c] # <<>> /\ Head(command_queue[c]) \in Commands /\ Head(command_queue[c]).kind = k
      /\ Head(command_queue[c]) = command_queue[c][1] /\ 1 \in DOMAIN command_queue[c]
      /\ command_queue'[c] = Tail(command_queue[c])
  BY TakeFields
<1>2. Head(command_queue[c]).sub \in Subscriptions
  BY <1>1, CommandFields DEF Kinds
<1>3. Head(command_queue[c]).sub.circuit = c
  BY <1>1 DEF EachHasItsOwn, OwnCommands, Kinds
<1>4. Moved(c, 1)
  BY <1>1, MovedByTake
<1>5. \A s : Asks(c, 1, k, s) <=> s = Head(command_queue[c]).sub
  BY <1>1 DEF Asks
<1>6. \A s, kind : Asks(c, 1, kind, s) => kind = k
  BY <1>1 DEF Asks
<1>. QED  BY <1>2, <1>3, <1>4, <1>5, <1>6

\* An accepted subscription has left the queue.
LEMMA HonestEventAdd ==
  ASSUME TypeOK, TypeOK', EachHasItsOwn, NEW c \in Circuits, HonestAt(c), EventAdd(c)
  PROVE  HonestAt(c)'
<1>0. PICK a \in Subscriptions :
        /\ a = Head(command_queue[c]).sub /\ a.circuit = c
        /\ \A s : Asks(c, 1, "EventAdd", s) <=> s = a
        /\ \A s, kind : Asks(c, 1, kind, s) => kind = "EventAdd"
        /\ Moved(c, 1)
  BY HeadAsked DEF EventAdd, Kinds
<1>1. /\ subscriptions'[c] = subscriptions[c] \cup {a}
      /\ UNCHANGED <<connected, client, delivered>>
  BY <1>0 DEF EventAdd, TypeOK, linkVars, outVars
<1>2. 1 \in Places /\ \A i \in Places : i + 1 \in Places /\ i + 1 # 1
  BY DEF Places
<1>3. /\ a \in client[c].added /\ a \notin subscriptions[c] /\ delivered[a] # Cancelled
      /\ \A j \in Places : Asks(c, j, "EventAdd", a) => j = 1
  BY <1>0, <1>2, HonestAdd
<1>4. \A i \in Places, s \in Subscriptions : /\ Asks(c, i, "EventAdd", s)' <=> Asks(c, i + 1, "EventAdd", s)
                                             /\ Asks(c, i, "EventCancel", s)' <=> Asks(c, i + 1, "EventCancel", s)
  BY <1>0 DEF Moved, Kinds
<1>5. ASSUME NEW s \in Subscriptions, s # a, NEW j \in Places, Asks(c, j, "EventAdd", s)
      PROVE  j - 1 \in Places /\ Asks(c, j - 1, "EventAdd", s)'
  <2>1. j # 1
    BY <1>0, <1>5
  <2>2. j - 1 \in Places /\ (j - 1) + 1 = j
    BY <2>1 DEF Places
  <2>. QED  BY <1>4, <1>5, <2>2
<1>6. ASSUME NEW s \in Subscriptions, NEW i \in Places, Asks(c, i, "EventAdd", s)'
      PROVE  /\ s \in client'[c].added /\ s \notin subscriptions'[c] /\ delivered'[s] # Cancelled
             /\ \A j \in Places : Asks(c, j, "EventAdd", s)' => j = i
  <2>1. Asks(c, i + 1, "EventAdd", s)
    BY <1>4, <1>6
  <2>2. /\ s \in client[c].added /\ s \notin subscriptions[c] /\ delivered[s] # Cancelled
        /\ \A j \in Places : Asks(c, j, "EventAdd", s) => j = i + 1
    BY <1>2, <2>1, HonestAdd
  <2>3. s # a
    BY <1>2, <1>3, <2>1
  <2>4. ASSUME NEW j \in Places, Asks(c, j, "EventAdd", s)' PROVE j = i
    <3>1. j + 1 = i + 1
      BY <1>2, <1>4, <2>2, <2>4
    <3>. QED  BY <3>1 DEF Places
  <2>. QED  BY <1>1, <2>2, <2>3, <2>4
<1>7. ASSUME NEW s \in Subscriptions, NEW i \in Places, Asks(c, i, "EventCancel", s)'
      PROVE  /\ s \in client'[c].added /\ s \notin client'[c].held /\ delivered'[s] # Cancelled
             /\ \A j \in Places : Asks(c, j, "EventCancel", s)' => j = i
             /\ connected'[c] => \/ s \in subscriptions'[c]
                                 \/ \E j \in Places : j < i /\ Asks(c, j, "EventAdd", s)'
  <2>1. Asks(c, i + 1, "EventCancel", s)
    BY <1>4, <1>7
  <2>2. /\ s \in client[c].added /\ s \notin client[c].held /\ delivered[s] # Cancelled
        /\ \A j \in Places : Asks(c, j, "EventCancel", s) => j = i + 1
        /\ connected[c] => \/ s \in subscriptions[c]
                           \/ \E j \in Places : j < i + 1 /\ Asks(c, j, "EventAdd", s)
    BY <1>2, <2>1, HonestCancel
  <2>3. ASSUME NEW j \in Places, Asks(c, j, "EventCancel", s)' PROVE j = i
    <3>1. j + 1 = i + 1
      BY <1>2, <1>4, <2>2, <2>3
    <3>. QED  BY <3>1 DEF Places
  <2>4. ASSUME NEW j \in Places, j < i + 1, Asks(c, j, "EventAdd", s), s # a
        PROVE  \E m \in Places : m < i /\ Asks(c, m, "EventAdd", s)'
    <3>1. j - 1 \in Places /\ Asks(c, j - 1, "EventAdd", s)'
      BY <1>5, <2>4
    <3>2. j - 1 < i
      BY <2>4 DEF Places
    <3>. QED  BY <3>1, <3>2
  <2>. QED  BY <1>1, <2>2, <2>3, <2>4
<1>8. ASSUME NEW s \in client'[c].held
      PROVE  /\ s \in client'[c].added /\ delivered'[s] # Cancelled
             /\ connected'[c] => \/ s \in subscriptions'[c]
                                 \/ \E j \in Places : Asks(c, j, "EventAdd", s)'
  <2>1. /\ s \in Subscriptions /\ s \in client[c].added /\ delivered[s] # Cancelled
        /\ connected[c] => \/ s \in subscriptions[c]
                           \/ \E j \in Places : Asks(c, j, "EventAdd", s)
    BY <1>1, <1>8, HonestHolding
  <2>. QED  BY <1>1, <1>5, <2>1
<1>9. \A s \in subscriptions'[c] : s \in client'[c].added /\ delivered'[s] # Cancelled
  BY <1>1, <1>3, HonestServed
<1>. QED  BY <1>6, <1>7, <1>8, <1>9, HonestNext

\* A cancellation finds its subscription at the circuit while it stands.
LEMMA CancelFields ==
  ASSUME TypeOK, EachHasItsOwn, NEW c \in Circuits, HonestAt(c), EventCancel(c)
  PROVE  \E a \in Subscriptions :
           /\ a.circuit = c /\ a \in client[c].added /\ a \notin client[c].held /\ delivered[a] # Cancelled
           /\ connected[c] => a \in subscriptions[c]
           /\ subscriptions'[c] = subscriptions[c] \ {a}
           /\ \A d \in Circuits : d # c => subscriptions'[d] = subscriptions[d]
           /\ delivered' = IF connected[c] THEN [delivered EXCEPT ![a] = Cancelled] ELSE delivered
           /\ \A s \in Subscriptions : s # a => delivered'[s] = delivered[s]
           /\ UNCHANGED <<connected, client, events_on, version>>
           /\ \A s : Asks(c, 1, "EventCancel", s) <=> s = a
           /\ \A s, kind : Asks(c, 1, kind, s) => kind = "EventCancel"
           /\ \A j \in Places : Asks(c, j, "EventCancel", a) => j = 1
           /\ Moved(c, 1)
<1>0. PICK a \in Subscriptions :
        /\ a = Head(command_queue[c]).sub /\ a.circuit = c
        /\ \A s : Asks(c, 1, "EventCancel", s) <=> s = a
        /\ \A s, kind : Asks(c, 1, kind, s) => kind = "EventCancel"
        /\ Moved(c, 1)
  BY HeadAsked DEF EventCancel, Kinds
<1>1. 1 \in Places /\ \A j \in Places : ~(j < 1)
  BY DEF Places
<1>2. /\ a \in client[c].added /\ a \notin client[c].held /\ delivered[a] # Cancelled
      /\ \A j \in Places : Asks(c, j, "EventCancel", a) => j = 1
      /\ connected[c] => a \in subscriptions[c]
  BY <1>0, <1>1, HonestCancel
<1>3. {s \in subscriptions[c] : s.id = a.id} \subseteq {a}
  BY <1>0, SubscriptionAssumption DEF EachHasItsOwn, OwnSubscriptions, TypeOK
<1>4. subscriptions[c] \ {s \in subscriptions[c] : s.id = a.id} = subscriptions[c] \ {a}
  BY <1>3
<1>5. /\ subscriptions' = [subscriptions EXCEPT ![c] = subscriptions[c] \ {s \in subscriptions[c] : s.id = a.id}]
      /\ UNCHANGED <<events_on, version>>
  BY <1>0 DEF EventCancel, CullSubscriptions, Release
<1>6. /\ subscriptions'[c] = subscriptions[c] \ {a}
      /\ \A d \in Circuits : d # c => subscriptions'[d] = subscriptions[d]
  BY <1>4, <1>5 DEF TypeOK
<1>7. /\ delivered' = IF connected[c] THEN [delivered EXCEPT ![a] = Cancelled] ELSE delivered
      /\ UNCHANGED <<connected, client>>
  BY <1>0 DEF EventCancel, linkVars
<1>8. \A s \in Subscriptions : s # a => delivered'[s] = delivered[s]
  BY <1>7 DEF TypeOK
<1>. QED  BY <1>0, <1>2, <1>5, <1>6, <1>7, <1>8

\* A cancelled subscription has left the queue and the circuit.
LEMMA HonestEventCancel ==
  ASSUME TypeOK, TypeOK', EachHasItsOwn, NEW c \in Circuits, HonestAt(c), EventCancel(c)
  PROVE  HonestAt(c)'
<1>0. PICK a \in Subscriptions :
        /\ a.circuit = c /\ a \in client[c].added /\ a \notin client[c].held /\ delivered[a] # Cancelled
        /\ connected[c] => a \in subscriptions[c]
        /\ subscriptions'[c] = subscriptions[c] \ {a}
        /\ delivered' = IF connected[c] THEN [delivered EXCEPT ![a] = Cancelled] ELSE delivered
        /\ \A s \in Subscriptions : s # a => delivered'[s] = delivered[s]
        /\ UNCHANGED <<connected, client>>
        /\ \A s : Asks(c, 1, "EventCancel", s) <=> s = a
        /\ \A s, kind : Asks(c, 1, kind, s) => kind = "EventCancel"
        /\ \A j \in Places : Asks(c, j, "EventCancel", a) => j = 1
        /\ Moved(c, 1)
  BY CancelFields
<1>2. 1 \in Places /\ \A i \in Places : i + 1 \in Places /\ i + 1 # 1
  BY DEF Places
<1>4. \A i \in Places, s \in Subscriptions : /\ Asks(c, i, "EventAdd", s)' <=> Asks(c, i + 1, "EventAdd", s)
                                             /\ Asks(c, i, "EventCancel", s)' <=> Asks(c, i + 1, "EventCancel", s)
  BY <1>0 DEF Moved, Kinds
<1>5. ASSUME NEW s \in Subscriptions, NEW j \in Places, Asks(c, j, "EventAdd", s)
      PROVE  j - 1 \in Places /\ Asks(c, j - 1, "EventAdd", s)'
  <2>1. j # 1
    BY <1>0, <1>5
  <2>2. j - 1 \in Places /\ (j - 1) + 1 = j
    BY <2>1 DEF Places
  <2>. QED  BY <1>4, <1>5, <2>2
<1>6. ASSUME NEW s \in Subscriptions, NEW i \in Places, Asks(c, i, "EventAdd", s)'
      PROVE  /\ s \in client'[c].added /\ s \notin subscriptions'[c] /\ delivered'[s] # Cancelled
             /\ \A j \in Places : Asks(c, j, "EventAdd", s)' => j = i
  <2>1. Asks(c, i + 1, "EventAdd", s)
    BY <1>4, <1>6
  <2>2. /\ s \in client[c].added /\ s \notin subscriptions[c] /\ delivered[s] # Cancelled
        /\ \A j \in Places : Asks(c, j, "EventAdd", s) => j = i + 1
    BY <1>2, <2>1, HonestAdd
  <2>3. delivered'[s] = delivered[s]
    BY <1>0, <2>2
  <2>4. ASSUME NEW j \in Places, Asks(c, j, "EventAdd", s)' PROVE j = i
    <3>1. j + 1 = i + 1
      BY <1>2, <1>4, <2>2, <2>4
    <3>. QED  BY <3>1 DEF Places
  <2>. QED  BY <1>0, <2>2, <2>3, <2>4
<1>7. ASSUME NEW s \in Subscriptions, NEW i \in Places, Asks(c, i, "EventCancel", s)'
      PROVE  /\ s \in client'[c].added /\ s \notin client'[c].held /\ delivered'[s] # Cancelled
             /\ \A j \in Places : Asks(c, j, "EventCancel", s)' => j = i
             /\ connected'[c] => \/ s \in subscriptions'[c]
                                 \/ \E j \in Places : j < i /\ Asks(c, j, "EventAdd", s)'
  <2>1. Asks(c, i + 1, "EventCancel", s)
    BY <1>4, <1>7
  <2>2. /\ s \in client[c].added /\ s \notin client[c].held /\ delivered[s] # Cancelled
        /\ \A j \in Places : Asks(c, j, "EventCancel", s) => j = i + 1
        /\ connected[c] => \/ s \in subscriptions[c]
                           \/ \E j \in Places : j < i + 1 /\ Asks(c, j, "EventAdd", s)
    BY <1>2, <2>1, HonestCancel
  <2>3. ASSUME NEW j \in Places, Asks(c, j, "EventCancel", s)' PROVE j = i
    <3>1. j + 1 = i + 1
      BY <1>2, <1>4, <2>2, <2>3
    <3>. QED  BY <3>1 DEF Places
  <2>4. ASSUME NEW j \in Places, j < i + 1, Asks(c, j, "EventAdd", s)
        PROVE  \E m \in Places : m < i /\ Asks(c, m, "EventAdd", s)'
    <3>1. j - 1 \in Places /\ Asks(c, j - 1, "EventAdd", s)'
      BY <1>5, <2>4
    <3>2. j - 1 < i
      BY <2>4 DEF Places
    <3>. QED  BY <3>1, <3>2
  <2>5. s # a
    BY <1>0, <1>2, <2>1
  <2>. QED  BY <1>0, <2>2, <2>3, <2>4, <2>5
<1>8. ASSUME NEW s \in client'[c].held
      PROVE  /\ s \in client'[c].added /\ delivered'[s] # Cancelled
             /\ connected'[c] => \/ s \in subscriptions'[c]
                                 \/ \E j \in Places : Asks(c, j, "EventAdd", s)'
  <2>1. /\ s \in Subscriptions /\ s \in client[c].added /\ delivered[s] # Cancelled
        /\ connected[c] => \/ s \in subscriptions[c]
                           \/ \E j \in Places : Asks(c, j, "EventAdd", s)
    BY <1>0, <1>8, HonestHolding
  <2>2. s # a
    BY <1>0, <1>8
  <2>. QED  BY <1>0, <1>5, <2>1, <2>2
<1>9. \A s \in subscriptions'[c] : s \in client'[c].added /\ delivered'[s] # Cancelled
  BY <1>0, HonestServed
<1>. QED  BY <1>6, <1>7, <1>8, <1>9, HonestNext

\* A new request is the last one.
LEMMA HonestRecv ==
  ASSUME TypeOK, TypeOK', EachHasItsOwn, NEW c \in Circuits, HonestAt(c), CancelledIsOver, Recv(c)
  PROVE  HonestAt(c)'
<1>0. PICK cmd \in HonestCommands(c) :
        /\ command_queue' = [command_queue EXCEPT ![c] = Append(@, cmd)]
        /\ client' = [client EXCEPT ![c] = AfterSending(@, cmd)]
  BY DEF Recv
<1>1. cmd \in Commands /\ UNCHANGED <<connected, subscriptions, delivered>>
  BY HonestFields DEF Recv, linkVars, circVars, outVars
<1>2. /\ client'[c].added = IF cmd.kind = "EventAdd" THEN client[c].added \cup {cmd.sub}
                                                     ELSE client[c].added
      /\ client'[c].held = IF cmd.kind = "EventAdd" THEN client[c].held \cup {cmd.sub}
           ELSE IF cmd.kind = "EventCancel" THEN client[c].held \ {cmd.sub} ELSE client[c].held
  BY <1>0, SentFields
<1>3. /\ cmd.kind \in Kinds => cmd.sub \in Subscriptions /\ cmd.sub.circuit = c
      /\ cmd.kind = "EventAdd" => cmd.sub \notin client[c].added
      /\ cmd.kind = "EventCancel" => cmd.sub \in client[c].held
  BY HonestIsOwn DEF EachHasItsOwn, HonestAt, Kinds
<1>4. command_queue'[c] = Append(command_queue[c], cmd)
  BY <1>0 DEF TypeOK
<1>5. CASE cmd.kind \notin Kinds
  <2>1. Moved(c, 0)
    BY <1>1, <1>4, <1>5, MovedByEnd
  <2>2. client'[c].added = client[c].added /\ client'[c].held = client[c].held
    BY <1>2, <1>5 DEF Kinds
  <2>. QED  BY <1>1, <2>1, <2>2, HonestKept
<1>6. PICK n \in Places :
        /\ \A i, kind, s : Asks(c, i, kind, s)' <=>
             Asks(c, i, kind, s) \/ (i = n /\ kind = cmd.kind /\ s = cmd.sub)
        /\ \A i, kind, s : Asks(c, i, kind, s) => i < n
  <2>. DEFINE q == command_queue[c]
  <2>0. q \in Seq(Commands)
    BY DEF TypeOK
  <2>1. /\ DOMAIN Append(q, cmd) = DOMAIN q \cup {Len(q) + 1} /\ Len(q) + 1 \notin DOMAIN q
        /\ \A i \in DOMAIN q : Append(q, cmd)[i] = q[i]
        /\ Append(q, cmd)[Len(q) + 1] = cmd
    BY <1>1, <2>0, Appended
  <2>2. Len(q) + 1 \in Places /\ \A i \in DOMAIN q : i < Len(q) + 1
    BY <2>0 DEF Places
  <2>. HIDE DEF q
  <2>3. \A i, kind, s : Asks(c, i, kind, s) => i < Len(q) + 1
    BY <2>2 DEF Asks, q
  <2>4. \A i, kind, s : Asks(c, i, kind, s)' <=>
             Asks(c, i, kind, s) \/ (i = Len(q) + 1 /\ kind = cmd.kind /\ s = cmd.sub)
    BY <1>4, <2>1 DEF Asks, q
  <2>. QED  BY <2>2, <2>3, <2>4
<1>7. \A i \in Places : ~(i < i)
  BY DEF Places
<1>8. CASE cmd.kind = "EventAdd"
  <2>. DEFINE a == cmd.sub
  <2>1. /\ a \in Subscriptions /\ a.circuit = c /\ a \notin client[c].added
        /\ client'[c].added = client[c].added \cup {a} /\ client'[c].held = client[c].held \cup {a}
    BY <1>2, <1>3, <1>8 DEF Kinds
  <2>2. a \notin subscriptions[c] /\ delivered[a] # Cancelled
    BY <2>1, HonestServed DEF CancelledIsOver
  <2>3. \A j \in Places : ~Asks(c, j, "EventAdd", a) /\ ~Asks(c, j, "EventCancel", a)
    BY <2>1, HonestAdd, HonestCancel
  <2>. HIDE DEF a
  <2>4. \A i, s : /\ Asks(c, i, "EventAdd", s)' <=> Asks(c, i, "EventAdd", s) \/ (i = n /\ s = a)
                  /\ Asks(c, i, "EventCancel", s)' <=> Asks(c, i, "EventCancel", s)
    BY <1>6, <1>8 DEF a
  <2>5. ASSUME NEW s \in Subscriptions, NEW i \in Places, Asks(c, i, "EventAdd", s)'
        PROVE  /\ s \in client'[c].added /\ s \notin subscriptions'[c] /\ delivered'[s] # Cancelled
               /\ \A j \in Places : Asks(c, j, "EventAdd", s)' => j = i
    <3>1. CASE s = a
      BY <1>1, <2>1, <2>2, <2>3, <2>4, <2>5, <3>1
    <3>2. CASE s # a
      <4>1. Asks(c, i, "EventAdd", s)
        BY <2>4, <2>5, <3>2
      <4>2. /\ s \in client[c].added /\ s \notin subscriptions[c] /\ delivered[s] # Cancelled
            /\ \A j \in Places : Asks(c, j, "EventAdd", s) => j = i
        BY <4>1, HonestAdd
      <4>. QED  BY <1>1, <2>1, <2>4, <3>2, <4>2
    <3>. QED  BY <3>1, <3>2
  <2>6. ASSUME NEW s \in Subscriptions, NEW i \in Places, Asks(c, i, "EventCancel", s)'
        PROVE  /\ s \in client'[c].added /\ s \notin client'[c].held /\ delivered'[s] # Cancelled
               /\ \A j \in Places : Asks(c, j, "EventCancel", s)' => j = i
               /\ connected'[c] => \/ s \in subscriptions'[c]
                                   \/ \E j \in Places : j < i /\ Asks(c, j, "EventAdd", s)'
    <3>1. Asks(c, i, "EventCancel", s)
      BY <2>4, <2>6
    <3>2. /\ s \in client[c].added /\ s \notin client[c].held /\ delivered[s] # Cancelled
          /\ \A j \in Places : Asks(c, j, "EventCancel", s) => j = i
          /\ connected[c] => \/ s \in subscriptions[c]
                             \/ \E j \in Places : j < i /\ Asks(c, j, "EventAdd", s)
      BY <3>1, HonestCancel
    <3>. QED  BY <1>1, <2>1, <2>4, <3>2
  <2>7. ASSUME NEW s \in client'[c].held
        PROVE  /\ s \in client'[c].added /\ delivered'[s] # Cancelled
               /\ connected'[c] => \/ s \in subscriptions'[c]
                                   \/ \E j \in Places : Asks(c, j, "EventAdd", s)'
    <3>1. CASE s = a
      BY <1>1, <2>1, <2>2, <2>4, <3>1
    <3>2. CASE s \in client[c].held
      <4>1. /\ s \in Subscriptions /\ s \in client[c].added /\ delivered[s] # Cancelled
            /\ connected[c] => \/ s \in subscriptions[c]
                               \/ \E j \in Places : Asks(c, j, "EventAdd", s)
        BY <3>2, HonestHolding
      <4>. QED  BY <1>1, <2>1, <2>4, <4>1
    <3>. QED  BY <2>1, <2>7, <3>1, <3>2
  <2>8. \A s \in subscriptions'[c] : s \in client'[c].added /\ delivered'[s] # Cancelled
    BY <1>1, <2>1, HonestServed
  <2>. QED  BY <2>5, <2>6, <2>7, <2>8, HonestNext
<1>9. CASE cmd.kind = "EventCancel"
  <2>. DEFINE a == cmd.sub
  <2>1. /\ a \in Subscriptions /\ a \in client[c].held
        /\ client'[c].added = client[c].added /\ client'[c].held = client[c].held \ {a}
    BY <1>2, <1>3, <1>9 DEF Kinds
  <2>2. /\ a \in client[c].added /\ delivered[a] # Cancelled
        /\ connected[c] => \/ a \in subscriptions[c]
                           \/ \E j \in Places : Asks(c, j, "EventAdd", a)
    BY <2>1, HonestHolding
  <2>3. \A j \in Places : ~Asks(c, j, "EventCancel", a)
    BY <2>1, HonestCancel
  <2>. HIDE DEF a
  <2>4. \A i, s : /\ Asks(c, i, "EventAdd", s)' <=> Asks(c, i, "EventAdd", s)
                  /\ Asks(c, i, "EventCancel", s)' <=> Asks(c, i, "EventCancel", s) \/ (i = n /\ s = a)
    BY <1>6, <1>9 DEF a
  <2>5. ASSUME NEW s \in Subscriptions, NEW i \in Places, Asks(c, i, "EventAdd", s)'
        PROVE  /\ s \in client'[c].added /\ s \notin subscriptions'[c] /\ delivered'[s] # Cancelled
               /\ \A j \in Places : Asks(c, j, "EventAdd", s)' => j = i
    <3>1. Asks(c, i, "EventAdd", s)
      BY <2>4, <2>5
    <3>2. /\ s \in client[c].added /\ s \notin subscriptions[c] /\ delivered[s] # Cancelled
          /\ \A j \in Places : Asks(c, j, "EventAdd", s) => j = i
      BY <3>1, HonestAdd
    <3>. QED  BY <1>1, <2>1, <2>4, <3>2
  <2>6. ASSUME NEW s \in Subscriptions, NEW i \in Places, Asks(c, i, "EventCancel", s)'
        PROVE  /\ s \in client'[c].added /\ s \notin client'[c].held /\ delivered'[s] # Cancelled
               /\ \A j \in Places : Asks(c, j, "EventCancel", s)' => j = i
               /\ connected'[c] => \/ s \in subscriptions'[c]
                                   \/ \E j \in Places : j < i /\ Asks(c, j, "EventAdd", s)'
    <3>1. CASE s = a
      <4>1. i = n /\ \A j \in Places : Asks(c, j, "EventCancel", s)' => j = i
        BY <2>3, <2>4, <2>6, <3>1
      <4>2. \A j \in Places : Asks(c, j, "EventAdd", a) => j < i
        BY <1>6, <4>1
      <4>. QED  BY <1>1, <2>1, <2>2, <2>4, <3>1, <4>1, <4>2
    <3>2. CASE s # a
      <4>1. Asks(c, i, "EventCancel", s)
        BY <2>4, <2>6, <3>2
      <4>2. /\ s \in client[c].added /\ s \notin client[c].held /\ delivered[s] # Cancelled
            /\ \A j \in Places : Asks(c, j, "EventCancel", s) => j = i
            /\ connected[c] => \/ s \in subscriptions[c]
                               \/ \E j \in Places : j < i /\ Asks(c, j, "EventAdd", s)
        BY <4>1, HonestCancel
      <4>. QED  BY <1>1, <2>1, <2>4, <3>2, <4>2
    <3>. QED  BY <3>1, <3>2
  <2>7. ASSUME NEW s \in client'[c].held
        PROVE  /\ s \in client'[c].added /\ delivered'[s] # Cancelled
               /\ connected'[c] => \/ s \in subscriptions'[c]
                                   \/ \E j \in Places : Asks(c, j, "EventAdd", s)'
    <3>1. /\ s \in Subscriptions /\ s \in client[c].added /\ delivered[s] # Cancelled
          /\ connected[c] => \/ s \in subscriptions[c]
                             \/ \E j \in Places : Asks(c, j, "EventAdd", s)
      BY <2>1, <2>7, HonestHolding
    <3>. QED  BY <1>1, <2>1, <2>4, <3>1
  <2>8. \A s \in subscriptions'[c] : s \in client'[c].added /\ delivered'[s] # Cancelled
    BY <1>1, <2>1, HonestServed
  <2>. QED  BY <2>5, <2>6, <2>7, <2>8, HonestNext
<1>. QED  BY <1>5, <1>8, <1>9 DEF Kinds

\* What the command loop is asked changes only in these steps.
LEMMA RequestSteps ==
  ASSUME [Next]_vars
  PROVE  \/ \E c \in Circuits : Recv(c) \/ EventAdd(c) \/ EventCancel(c)
         \/ /\ UNCHANGED client
            /\ \/ UNCHANGED command_queue
               \/ \E c \in Circuits : RecvEOF(c)
               \/ \E c \in Circuits, k \in (Requests \cup {"DISCONNECTED"}) \ Kinds : Take(c, k)
<1>. USE DEF cmdVars
<1>1. ASSUME UNCHANGED vars \/ ContextLoop \/ ServerWrite PROVE UNCHANGED <<command_queue, client>>
  <2>1. CASE ContextLoop
    <3>1. CtxGet => UNCHANGED <<command_queue, client>>
      BY DEF CtxGet
    <3>2. CtxSend => UNCHANGED <<command_queue, client>>
      BY Zenon DEF CtxSend
    <3>3. CtxPut => UNCHANGED <<command_queue, client>>
      BY DEF CtxPut
    <3>4. CtxNext \/ CtxFails => UNCHANGED <<command_queue, client>>
      BY DEF CtxNext, CtxFails
    <3>. QED  BY <2>1, <3>1, <3>2, <3>3, <3>4 DEF ContextLoop
  <2>2. CASE UNCHANGED vars \/ ServerWrite
    BY <2>2 DEF vars, ServerWrite
  <2>. QED  BY <1>1, <2>1, <2>2
<1>2. ASSUME NEW c \in Circuits,
             ClearChannel(c) \/ EventsOn(c) \/ EventsOff(c) \/ WriteRequest(c) \/ Disconnected(c)
      PROVE  UNCHANGED client /\ \E k \in (Requests \cup {"DISCONNECTED"}) \ Kinds : Take(c, k)
  BY <1>2 DEF ClearChannel, EventsOn, EventsOff, WriteRequest, Disconnected, Requests, Kinds
<1>3. ASSUME NEW c \in Circuits,
             \/ EventAddResumes(c) \/ CommandSent(c) \/ CommandSendFails(c) \/ HandleWrite(c)
             \/ SubscriptionLoop(c) \/ SubSendFails(c)
      PROVE  UNCHANGED <<command_queue, client>>
  BY <1>3 DEF EventAddResumes, CommandSent, CommandSendFails, HandleWrite, SubscriptionLoop, SubGet,
              SubSend, SubSent, SubSendFails
<1>4. ASSUME NEW c \in Circuits, RecvEOF(c) PROVE UNCHANGED client
  BY <1>4 DEF RecvEOF
<1>. QED  BY <1>1, <1>2, <1>3, <1>4 DEF Next, CommandLoop

\* What a batch carries never looks like a cancellation.
LEMMA DeadStaysDead ==
  ASSUME TypeOK, EachHasItsOwn, ClientsAreHonest, [Next]_vars,
         \A c \in Circuits : ~EventCancel(c)
  PROVE  \A s \in Subscriptions : delivered'[s] = Cancelled <=> delivered[s] = Cancelled
<1>1. CASE UNCHANGED delivered
  BY <1>1
<1>2. ASSUME NEW c \in Circuits, SubSend(c), NEW s \in Subscriptions
      PROVE  delivered'[s] = Cancelled <=> delivered[s] = Cancelled
  <2>1. \/ delivered'[s] = delivered[s]
        \/ /\ s \in subscriptions[c]
           /\ \E e \in ToSet(batch[c]) : e.sub = s /\ delivered'[s] = e.ver
    BY <1>2, SubSendFields DEF EachHasItsOwn
  <2>2. s \in subscriptions[c] => delivered[s] # Cancelled
    BY DEF ClientsAreHonest, ServedIsHeld
  <2>3. \A e \in ToSet(batch[c]) : e.ver # Cancelled
    <3>1. \A e \in ToSet(batch[c]) : e.ver \in Nat
      BY Versions
    <3>. QED  BY <3>1 DEF Cancelled
  <2>. QED  BY <2>1, <2>2, <2>3
<1>. QED  BY <1>1, <1>2, DeliverySteps

LEMMA NextHonest ==
  ASSUME TypeOK, TypeOK', EachHasItsOwn, ClientsAreHonest, [Next]_vars
  PROVE  ClientsAreHonest'
<1>0. CancelledIsOver /\ \A c \in Circuits : HonestAt(c)
  BY DEF ClientsAreHonest, HonestAt
<1>1. ASSUME NEW d \in Circuits PROVE HonestAt(d)'
  <2>0. HonestAt(d) /\ \A s \in client[d].added : s \in Subscriptions /\ s.circuit = d
    BY <1>0 DEF EachHasItsOwn, OwnSubscriptions, TypeOK
  <2>1. ASSUME Moved(d, 0), client'[d].added = client[d].added, client'[d].held = client[d].held,
               subscriptions'[d] = subscriptions[d], connected'[d] = connected[d],
               \A s \in client[d].added : delivered'[s] = Cancelled <=> delivered[s] = Cancelled
        PROVE  HonestAt(d)'
    BY <2>0, <2>1, HonestKept
  <2>2. ASSUME NEW c \in Circuits, Recv(c) PROVE HonestAt(d)'
    <3>1. CASE c = d
      BY <1>0, <2>2, <3>1, HonestRecv
    <3>2. CASE c # d
      <4>1. /\ command_queue'[d] = command_queue[d] /\ client'[d] = client[d]
            /\ UNCHANGED <<connected, subscriptions, delivered>>
        BY <2>2, <3>2 DEF Recv, TypeOK, linkVars, circVars, outVars
      <4>2. Moved(d, 0)
        BY <4>1, MovedBySame
      <4>. QED  BY <2>1, <4>1, <4>2
    <3>. QED  BY <3>1, <3>2
  <2>3. ASSUME NEW c \in Circuits, EventAdd(c) PROVE HonestAt(d)'
    <3>1. CASE c = d
      BY <1>0, <2>3, <3>1, HonestEventAdd
    <3>2. CASE c # d
      <4>1. command_queue'[d] = command_queue[d]
        BY <2>3, <3>2, TakeFields DEF EventAdd
      <4>2. subscriptions'[d] = subscriptions[d] /\ UNCHANGED <<connected, client, delivered>>
        BY <2>3, <3>2 DEF EventAdd, TypeOK, linkVars, outVars
      <4>3. Moved(d, 0)
        BY <4>1, MovedBySame
      <4>. QED  BY <2>1, <4>2, <4>3
    <3>. QED  BY <3>1, <3>2
  <2>4. ASSUME NEW c \in Circuits, EventCancel(c) PROVE HonestAt(d)'
    <3>1. CASE c = d
      BY <1>0, <2>4, <3>1, HonestEventCancel
    <3>2. CASE c # d
      <4>1. command_queue'[d] = command_queue[d]
        BY <2>4, <3>2, TakeFields DEF EventCancel
      <4>2. PICK a \in Subscriptions :
              /\ a.circuit = c /\ \A s \in Subscriptions : s # a => delivered'[s] = delivered[s]
              /\ \A x \in Circuits : x # c => subscriptions'[x] = subscriptions[x]
              /\ UNCHANGED <<connected, client>>
        BY <1>0, <2>4, CancelFields
      <4>3. \A s \in client[d].added : delivered'[s] = delivered[s]
        BY <2>0, <3>2, <4>2
      <4>4. Moved(d, 0)
        BY <4>1, MovedBySame
      <4>. QED  BY <2>1, <3>2, <4>2, <4>3, <4>4
    <3>. QED  BY <3>1, <3>2
  <2>5. CASE \A c \in Circuits : ~Recv(c) /\ ~EventAdd(c) /\ ~EventCancel(c)
    <3>1. \A s \in client[d].added : delivered'[s] = Cancelled <=> delivered[s] = Cancelled
      BY <2>0, <2>5, DeadStaysDead
    <3>2. UNCHANGED client
      BY <2>5, RequestSteps
    <3>3. /\ subscriptions'[d] \subseteq subscriptions[d]
          /\ connected'[d] => connected[d] /\ subscriptions'[d] = subscriptions[d]
      <4>1. CASE UNCHANGED <<subscriptions, connected>>
        BY <4>1
      <4>2. ASSUME NEW c \in Circuits, OnDisconnect(c)
            PROVE  /\ subscriptions'[d] \subseteq subscriptions[d]
                   /\ connected'[d] => connected[d] /\ subscriptions'[d] = subscriptions[d]
        <5>1. /\ connected' = [connected EXCEPT ![c] = FALSE]
              /\ subscriptions' = subscriptions \/ subscriptions' = [subscriptions EXCEPT ![c] = {}]
          BY <4>2, OnDisconnectFields
        <5>2. c = d => ~connected'[d]
          BY <5>1 DEF TypeOK
        <5>3. c # d => connected'[d] = connected[d] /\ subscriptions'[d] = subscriptions[d]
          BY <5>1 DEF TypeOK
        <5>4. subscriptions'[d] \subseteq subscriptions[d]
          BY <5>1 DEF TypeOK
        <5>. QED  BY <5>2, <5>3, <5>4
      <4>. QED  BY <2>5, <4>1, <4>2, TableSteps
    <3>4. CASE Moved(d, 0)
      BY <2>0, <3>1, <3>2, <3>3, <3>4, HonestKept
    <3>5. CASE command_queue'[d] = command_queue[d]
      BY <3>4, <3>5, MovedBySame
    <3>6. ASSUME NEW c \in Circuits, RecvEOF(c) PROVE HonestAt(d)'
      <4>1. CASE c # d
        <5>1. command_queue'[d] = command_queue[d]
          BY <3>6, <4>1 DEF RecvEOF, TypeOK
        <5>. QED  BY <3>5, <5>1
      <4>2. CASE c = d
        <5>1. PICK cmd : cmd = [kind |-> "DISCONNECTED"]
          OBVIOUS
        <5>2. cmd \in Commands /\ cmd.kind \notin Kinds
          BY <5>1 DEF Commands, Kinds
        <5>3. command_queue'[d] = Append(command_queue[d], cmd)
          BY <3>6, <4>2, <5>1 DEF RecvEOF, TypeOK
        <5>. QED  BY <3>4, <5>2, <5>3, MovedByEnd
      <4>. QED  BY <4>1, <4>2
    <3>7. ASSUME NEW c \in Circuits, NEW k, k \notin Kinds, Take(c, k) PROVE HonestAt(d)'
      <4>1. CASE c # d
        BY <3>5, <3>7, <4>1, TakeFields
      <4>2. CASE c = d
        <5>1. /\ command_queue[d] # <<>> /\ command_queue'[d] = Tail(command_queue[d])
              /\ command_queue[d][1].kind = k
          BY <3>7, <4>2, TakeFields
        <5>2. Moved(d, 1)
          BY <5>1, MovedByTake
        <5>3. \A kind \in Kinds, s \in Subscriptions : ~Asks(d, 1, kind, s)
          BY <3>7, <5>1 DEF Asks
        <5>. QED  BY <2>0, <3>1, <3>2, <3>3, <5>2, <5>3, HonestKept
      <4>. QED  BY <4>1, <4>2
    <3>. QED  BY <2>5, <3>5, <3>6, <3>7, RequestSteps
  <2>. QED  BY <2>2, <2>3, <2>4, <2>5
<1>2. CancelledIsOver'
  <2>1. ASSUME NEW c \in Circuits PROVE client[c].added \subseteq client'[c].added
    <3>1. CASE UNCHANGED client
      BY <3>1
    <3>2. ASSUME NEW x \in Circuits, Recv(x) PROVE client[c].added \subseteq client'[c].added
      <4>1. PICK cmd \in HonestCommands(x) : client' = [client EXCEPT ![x] = AfterSending(@, cmd)]
        BY <3>2 DEF Recv
      <4>2. /\ client'[x].added = IF cmd.kind = "EventAdd" THEN client[x].added \cup {cmd.sub}
                                                           ELSE client[x].added
            /\ \A y \in Circuits : y # x => client'[y] = client[y]
        BY <4>1, SentFields
      <4>. QED  BY <4>2
    <3>3. ASSUME NEW x \in Circuits, RecvEOF(x) PROVE UNCHANGED client
      BY <3>3 DEF RecvEOF
    <3>. QED  BY <3>1, <3>2, <3>3, QueueSteps
  <2>2. \A s \in Subscriptions : s.circuit \in Circuits
    BY SubscriptionAssumption
  <2>3. CASE \A c \in Circuits : ~EventCancel(c)
    BY <1>0, <2>1, <2>2, <2>3, DeadStaysDead DEF CancelledIsOver
  <2>4. ASSUME NEW c \in Circuits, EventCancel(c) PROVE CancelledIsOver'
    <3>1. PICK a \in Subscriptions :
            /\ a.circuit = c /\ a \in client[c].added
            /\ \A s \in Subscriptions : s # a => delivered'[s] = delivered[s]
      BY <1>0, <2>4, CancelFields
    <3>. QED  BY <1>0, <2>1, <2>2, <3>1 DEF CancelledIsOver
  <2>. QED  BY <2>3, <2>4
<1>. QED  BY <1>1, <1>2 DEF ClientsAreHonest, HonestAt

---------------------------------------------------------------------------
(***************************************************************************)
(* The invariant and what follows from it.                                 *)
(***************************************************************************)

LEMMA InitInv == Init => IInv
<1>. SUFFICES ASSUME Init PROVE IInv
  OBVIOUS
<1>0. \A S : <<>> \in Seq(S) /\ DOMAIN <<>> = {} /\ ToSet(<<>>) = {}
  BY DEF ToSet
<1>1. TypeOK
  <2>1. 0 \in 0..MaxVersion /\ 1 \in 0..MaxVersion /\ 0 \in -1..MaxVersion /\ 0 \in 0..MaxCommands
    BY BoundAssumption
  <2>2. client \in [Circuits -> [sent : 0..MaxCommands, open : SUBSET Sids,
          added : SUBSET Subscriptions, held : SUBSET Subscriptions, off : BOOLEAN]]
    BY <2>1 DEF Init
  <2>3. /\ command_queue \in [Circuits -> Seq(Commands)] /\ to_resend \in [Circuits -> Seq(Subscriptions)]
        /\ subscription_queue \in [Circuits -> Seq(Entries)] /\ batch \in [Circuits -> Seq(Entries)]
        /\ ctx_subscriptions \in [Specs -> Seq(Subscriptions)] /\ ctx_queue \in Seq(Updates)
    BY <1>0 DEF Init
  <2>4. /\ connected \in [Circuits -> BOOLEAN] /\ circuits \subseteq Circuits
        /\ recv_task \in [Circuits -> {"recv", "done"}]
        /\ cmd_task \in [Circuits -> {"get", "adding", "drain", "done"}]
        /\ sub_task \in [Circuits -> {"get", "drain", "failed", "None"}]
        /\ ctx_task \in {"loop", "dead"} /\ adding \in [Circuits -> Subscriptions \cup {None}]
        /\ events_on \in [Circuits -> BOOLEAN] /\ write_event \in [Circuits -> BOOLEAN]
    BY DEF Init
  <2>5. /\ chans \in [Circuits -> SUBSET Sids] /\ subscriptions \in [Circuits -> SUBSET Subscriptions]
        /\ spec_keys \in [Circuits -> SUBSET Specs] /\ writes \in [Circuits -> Nat]
        /\ iter \in Items \cup {None} /\ registered \subseteq Specs
        /\ content \in [Specs -> 0..MaxVersion \cup {None}] /\ version \in 0..MaxVersion
        /\ delivered \in [Subscriptions -> -1..MaxVersion]
    BY <2>1 DEF Init
  <2>. QED  BY <2>2, <2>3, <2>4, <2>5 DEF TypeOK
<1>2. AddingIsHeld
  BY DEF Init, AddingIsHeld
<1>3. \A c \in Circuits : /\ command_queue[c] = <<>> /\ batch[c] = <<>> /\ subscription_queue[c] = <<>>
                          /\ subscriptions[c] = {} /\ client[c].added = {} /\ client[c].held = {}
  BY DEF Init
<1>4. EachHasItsOwn
  BY <1>0, <1>3 DEF EachHasItsOwn, OwnCommands, OwnUpdates, OwnSubscriptions
<1>5. WantedIsRegistered
  BY <1>0, <1>3 DEF WantedIsRegistered, Init
<1>6. ClientsAreHonest
  <2>1. \A s \in Subscriptions : delivered[s] # Cancelled
    BY DEF Init, Cancelled
  <2>. QED  BY <1>0, <1>3, <2>1 DEF ClientsAreHonest, AddsAreNew, CancelsAreLate, HeldIsServed,
                                    ServedIsHeld, CancelledIsOver
<1>7. InOrder
  <2>1. ctx_queue = <<>> /\ iter = None /\ \A p \in Specs : content[p] = None
    BY DEF Init
  <2>2. ContextInOrder
    BY <1>0, <2>1 DEF ContextInOrder, Ascending
  <2>3. \A c \in Circuits : CircuitInOrder(c)
    BY <1>0, <1>3 DEF CircuitInOrder, Ascending
  <2>4. \A s \in Subscriptions : delivered[s] = 0 /\ s.circuit \in Circuits
    BY SubscriptionAssumption DEF Init
  <2>5. \A s \in Subscriptions : NotAfter(delivered[s])
    BY <1>0, <2>1, <2>4 DEF NotAfter, Init
  <2>6. \A s \in Subscriptions : SentInOrder(s)
    BY <1>0, <1>3, <2>4, <2>5 DEF SentInOrder
  <2>. QED  BY <2>2, <2>3, <2>6 DEF InOrder
<1>. QED  BY <1>1, <1>2, <1>4, <1>5, <1>6, <1>7 DEF IInv

LEMMA NextInv == IInv /\ [Next]_vars => IInv'
<1>. SUFFICES ASSUME IInv, [Next]_vars PROVE IInv'
  OBVIOUS
<1>0. /\ TypeOK /\ AddingIsHeld /\ EachHasItsOwn /\ WantedIsRegistered /\ ClientsAreHonest /\ InOrder
      /\ ContextInOrder
  BY DEF IInv, InOrder
<1>1. TypeOK' /\ AddingIsHeld'
  BY <1>0, NextType
<1>2. EachHasItsOwn'
  BY <1>0, NextOwnCommands, NextOwnUpdates, NextOwnSubscriptions DEF EachHasItsOwn
<1>3. WantedIsRegistered'
  BY <1>0, <1>1, NextWanted
<1>4. ClientsAreHonest'
  BY <1>0, <1>1, NextHonest
<1>5. InOrder'
  BY <1>0, <1>1, NextInOrder
<1>. QED  BY <1>1, <1>2, <1>3, <1>4, <1>5 DEF IInv

\* Values are in order everywhere on their way, the tables agree and clients'
\* requests meet the state they were sent for, in every reachable state.
THEOREM InvHolds == Spec => []IInv
<1>. QED  BY InitInv, NextInv, PTL DEF Spec

\* Types: every variable of the server keeps its shape.
THEOREM TypeCorrect == Spec => []TypeOK
<1>1. IInv => TypeOK
  BY DEF IInv
<1>. QED  BY <1>1, InvHolds, PTL

\* Whatever other circuits cancel or close (_cull_subscriptions and
\* _on_disconnect, common.py:463 and :166), the Context's table has exactly
\* the subscriptions that circuits hold, and each one that has been accepted
\* is registered with the ChannelData.
THEOREM WantedRegistered == Spec => []WantedIsRegistered
<1>1. IInv => WantedIsRegistered
  BY DEF IInv
<1>. QED  BY <1>1, InvHolds, PTL

---------------------------------------------------------------------------
(***************************************************************************)
(* The server as its clients see it.                                       *)
(***************************************************************************)

\* What clients see of the server changes only in these steps.
LEMMA PromiseSteps ==
  ASSUME TypeOK, [Next]_vars
  PROVE  \/ UNCHANGED <<version, delivered, subscriptions, events_on>>
         \/ Publish /\ UNCHANGED <<delivered, subscriptions, events_on>>
         \/ \E c \in Circuits :
              \/ SubSend(c) /\ UNCHANGED <<version, subscriptions, events_on>>
              \/ EventAdd(c) /\ UNCHANGED <<version, delivered, events_on>>
              \/ OnDisconnect(c) /\ UNCHANGED <<version, delivered, events_on>>
              \/ (EventsOn(c) \/ EventsOff(c)) /\ UNCHANGED <<version, delivered, subscriptions>>
              \/ EventCancel(c)
<1>. USE DEF circVars, outVars, dataVars, flowVars
<1>1. CASE UNCHANGED vars \/ ServerWrite
  BY <1>1 DEF vars, ServerWrite
<1>2. ASSUME ContextLoop PROVE UNCHANGED <<version, delivered, subscriptions, events_on>>
  <2>1. CtxGet \/ CtxNext \/ CtxFails => UNCHANGED <<version, delivered, subscriptions, events_on>>
    BY Zenon DEF CtxGet, CtxNext, CtxFails
  <2>2. CtxSend \/ CtxPut => UNCHANGED <<version, delivered, subscriptions, events_on>>
    BY Zenon DEF CtxSend, CtxPut
  <2>. QED  BY <1>2, <2>1, <2>2 DEF ContextLoop
<1>3. ASSUME NEW c \in Circuits, HandleWrite(c)
      PROVE  \/ UNCHANGED <<version, delivered, subscriptions, events_on>>
             \/ Publish /\ UNCHANGED <<delivered, subscriptions, events_on>>
  BY <1>3 DEF HandleWrite
<1>4. ASSUME NEW c \in Circuits, RecvEOF(c) \/ Disconnected(c) \/ CommandSendFails(c) \/ SubSendFails(c)
      PROVE  OnDisconnect(c) /\ UNCHANGED <<version, delivered, events_on>>
  <2>1. OnDisconnect(c) /\ UNCHANGED <<delivered, events_on>>
    BY <1>4 DEF RecvEOF, Disconnected, CommandSendFails, SubSendFails
  <2>. QED  BY <2>1, OnDisconnectFields
<1>5. ASSUME NEW c \in Circuits, EventAdd(c) PROVE UNCHANGED <<version, delivered, events_on>>
  BY <1>5 DEF EventAdd, Subscribe
<1>6. ASSUME NEW c \in Circuits, EventsOn(c) \/ EventsOff(c)
      PROVE  UNCHANGED <<version, delivered, subscriptions>>
  BY <1>6 DEF EventsOn, EventsOff, Subscribe
<1>7. ASSUME NEW c \in Circuits,
             EventAddResumes(c) \/ WriteRequest(c) \/ CommandSent(c) \/ Recv(c) \/ SubGet(c) \/ SubSent(c)
      PROVE  UNCHANGED <<version, delivered, subscriptions, events_on>>
  BY <1>7 DEF EventAddResumes, Subscribe, WriteRequest, CommandSent, Recv, SubGet, SubSent
<1>8. ASSUME NEW c \in Circuits, ClearChannel(c)
      PROVE  UNCHANGED <<version, delivered, subscriptions, events_on>>
  BY <1>8 DEF ClearChannel, CullSubscriptions, Release, TypeOK
<1>9. ASSUME NEW c \in Circuits, SubSend(c) PROVE UNCHANGED <<version, subscriptions, events_on>>
  BY <1>9 DEF SubSend
<1>. QED  BY <1>1, <1>2, <1>3, <1>4, <1>5, <1>6, <1>7, <1>8, <1>9 DEF Next, CommandLoop, SubscriptionLoop

\* How a subscription stands, before a step and after it.
LEMMA StandingFields ==
  ASSUME NEW s \in Subscriptions
  PROVE  /\ Standing[s] = IF delivered[s] = Cancelled THEN "cancelled"
                          ELSE IF s \notin subscriptions[s.circuit] THEN "idle"
                          ELSE IF events_on[s.circuit] THEN "live" ELSE "paused"
         /\ Standing'[s] = IF delivered'[s] = Cancelled THEN "cancelled"
                           ELSE IF s \notin subscriptions'[s.circuit] THEN "idle"
                           ELSE IF events_on'[s.circuit] THEN "live" ELSE "paused"
<1>. QED  BY DEF Standing

LEMMA StandingType ==
  Standing' \in [Subscriptions -> Promise!States] /\ DOMAIN Standing = Subscriptions
  /\ Standing = [s \in Subscriptions |-> Standing[s]]
<1>. QED  BY DEF Standing, Promise!States

\* Subscriptions that change how they stand together, or none does.
LEMMA MoveStep ==
  ASSUME NEW from, NEW to, UNCHANGED <<version, delivered>>,
         \A s \in Subscriptions : Standing'[s] # Standing[s] => Standing[s] \in from /\ Standing'[s] = to
  PROVE  Promise!Move(from, to) \/ UNCHANGED <<version, Standing, delivered>>
<1>. QED  BY StandingType DEF Promise!Move

LEMMA MoveNext ==
  ASSUME \/ UNCHANGED <<version, Standing, delivered>>
         \/ Promise!Move({"idle"}, "live") \/ Promise!Move({"idle"}, "paused")
         \/ Promise!Move({"live"}, "paused") \/ Promise!Move({"paused"}, "live")
         \/ Promise!Move(Promise!Served, "idle")
  PROVE  [Promise!Next]_(Promise!vars)
<1>1. CASE UNCHANGED <<version, Standing, delivered>>
  BY <1>1 DEF Promise!vars
<1>2. ASSUME NEW from, NEW to, Promise!Move(from, to) PROVE Standing' # Standing
  BY <1>2 DEF Promise!Move
<1>. QED  BY <1>1, <1>2 DEF Promise!Next, Promise!Add, Promise!Pause, Promise!Resume, Promise!Lose

\* A batch shows newer values to subscriptions that stand.
LEMMA ShowStep ==
  ASSUME IInv, TypeOK', InOrder', NEW c \in Circuits, SubSend(c),
         UNCHANGED <<version, subscriptions, events_on>>
  PROVE  [Promise!Next]_(Promise!vars)
<1>0. TypeOK /\ EachHasItsOwn /\ ClientsAreHonest /\ InOrder
  BY DEF IInv
<1>1. ASSUME NEW s \in Subscriptions, delivered'[s] # delivered[s]
      PROVE  /\ Standing[s] \in Promise!Served /\ delivered'[s] > delivered[s]
             /\ delivered'[s] # Cancelled /\ delivered[s] # Cancelled
  <2>1. /\ s \in subscriptions[c] /\ s.circuit = c
        /\ \E e \in ToSet(batch[c]) : e.sub = s /\ delivered'[s] = e.ver
    BY <1>0, <1>1, SubSendFields DEF EachHasItsOwn
  <2>2. PICK e \in ToSet(batch[c]) : delivered'[s] = e.ver
    BY <2>1
  <2>3. delivered[s] <= e.ver
    BY <1>0, <2>1, <2>2 DEF InOrder, SentInOrder
  <2>4. e.ver \in Nat /\ delivered[s] \in Int
    BY <1>0, <2>2, Versions
  <2>5. delivered[s] # Cancelled
    BY <1>0, <2>1 DEF ClientsAreHonest, ServedIsHeld
  <2>6. Standing[s] \in Promise!Served
    BY <2>1, <2>5, StandingFields DEF Promise!Served
  <2>7. delivered'[s] > delivered[s] /\ delivered'[s] # Cancelled
    BY <1>1, <2>2, <2>3, <2>4 DEF Cancelled
  <2>. QED  BY <2>5, <2>6, <2>7
<1>2. Standing' = Standing
  <2>1. \A s \in Subscriptions : Standing'[s] = Standing[s]
    BY <1>1, StandingFields
  <2>. QED  BY <2>1, StandingType
<1>3. CASE delivered' = delivered
  BY <1>2, <1>3 DEF Promise!vars
<1>4. CASE delivered' # delivered
  <2>1. delivered' \in [Subscriptions -> -1..version]
    <3>1. delivered' \in [Subscriptions -> -1..MaxVersion] /\ version \in Nat /\ version' = version
      BY <1>0, Versions DEF TypeOK
    <3>2. \A s \in Subscriptions : delivered'[s] <= version'
      BY DEF InOrder, SentInOrder, NotAfter
    <3>3. \A s \in Subscriptions : delivered'[s] \in -1..version
      BY <3>1, <3>2, BoundAssumption
    <3>. QED  BY <3>1, <3>3
  <2>2. Promise!Show
    BY <1>1, <1>2, <1>4, <2>1 DEF Promise!Show
  <2>. QED  BY <1>4, <2>2 DEF Promise!Next
<1>. QED  BY <1>3, <1>4

\* A cancellation ends one subscription for good; on a circuit that has
\* already ended, it only takes it out of the tables.
LEMMA CancelStep ==
  ASSUME IInv, NEW c \in Circuits, EventCancel(c)
  PROVE  [Promise!Next]_(Promise!vars)
<1>0. TypeOK /\ EachHasItsOwn /\ HonestAt(c) /\ \A d \in Circuits : \A s \in subscriptions[d] : s.circuit = d
  BY DEF IInv, ClientsAreHonest, HonestAt, EachHasItsOwn, OwnSubscriptions
<1>1. PICK a \in Subscriptions :
        /\ a.circuit = c /\ delivered[a] # Cancelled
        /\ connected[c] => a \in subscriptions[c]
        /\ subscriptions'[c] = subscriptions[c] \ {a}
        /\ \A d \in Circuits : d # c => subscriptions'[d] = subscriptions[d]
        /\ delivered' = IF connected[c] THEN [delivered EXCEPT ![a] = Cancelled] ELSE delivered
        /\ \A s \in Subscriptions : s # a => delivered'[s] = delivered[s]
        /\ UNCHANGED <<events_on, version>>
  BY <1>0, CancelFields
<1>2. ASSUME NEW s \in Subscriptions, s # a PROVE Standing'[s] = Standing[s]
  <2>1. s.circuit \in Circuits
    BY SubscriptionAssumption
  <2>2. s \in subscriptions'[s.circuit] <=> s \in subscriptions[s.circuit]
    BY <1>1, <1>2, <2>1
  <2>. QED  BY <1>1, <1>2, <2>2, StandingFields
<1>3. CASE connected[c]
  <2>1. delivered' = [delivered EXCEPT ![a] = -1] /\ delivered'[a] = Cancelled
    BY <1>0, <1>1, <1>3 DEF Cancelled, TypeOK
  <2>2. Standing[a] \in Promise!Served /\ Standing'[a] = "cancelled"
    BY <1>1, <1>3, <2>1, StandingFields DEF Promise!Served
  <2>3. Standing' = [Standing EXCEPT ![a] = "cancelled"]
    BY <1>2, <2>2, StandingType
  <2>4. Standing' # Standing
    BY <2>2 DEF Promise!Served
  <2>5. Promise!Cancel(a)
    BY <1>1, <2>1, <2>2, <2>3 DEF Promise!Cancel
  <2>. QED  BY <2>4, <2>5 DEF Promise!Next
<1>4. CASE ~connected[c]
  <2>1. UNCHANGED <<version, delivered>>
    BY <1>1, <1>4
  <2>2. Standing'[a] = "idle" /\ (Standing[a] = "idle" \/ Standing[a] \in Promise!Served)
    BY <1>1, <2>1, StandingFields DEF Promise!Served
  <2>3. \A s \in Subscriptions :
          Standing'[s] # Standing[s] => Standing[s] \in Promise!Served /\ Standing'[s] = "idle"
    BY <1>2, <2>2
  <2>. QED  BY <2>1, <2>3, MoveStep, MoveNext
<1>. QED  BY <1>3, <1>4

\* Every step of the server is a step of Monitors, or none.
LEMMA PromiseNext ==
  ASSUME IInv, TypeOK', InOrder', [Next]_vars
  PROVE  [Promise!Next]_(Promise!vars)
<1>0. /\ TypeOK /\ EachHasItsOwn /\ ClientsAreHonest
      /\ \A s \in Subscriptions : s.circuit \in Circuits
  BY SubscriptionAssumption DEF IInv
<1>1. CASE UNCHANGED <<version, delivered, subscriptions, events_on>>
  <2>1. Standing' = Standing
    BY <1>1 DEF Standing
  <2>. QED  BY <1>1, <2>1 DEF Promise!vars
<1>2. CASE Publish /\ UNCHANGED <<delivered, subscriptions, events_on>>
  <2>1. Standing' = Standing
    BY <1>2 DEF Standing
  <2>2. Promise!Write
    BY <1>2, <2>1 DEF Publish, Promise!Write
  <2>. QED  BY <2>2 DEF Promise!Next
<1>3. ASSUME NEW c \in Circuits, SubSend(c), UNCHANGED <<version, subscriptions, events_on>>
      PROVE  [Promise!Next]_(Promise!vars)
  BY <1>3, ShowStep
<1>4. ASSUME NEW c \in Circuits, EventAdd(c), UNCHANGED <<version, delivered, events_on>>
      PROVE  [Promise!Next]_(Promise!vars)
  <2>1. PICK a \in Subscriptions : subscriptions'[c] = subscriptions[c] \cup {a}
                                   /\ a.circuit = c /\ delivered[a] # Cancelled /\ a \notin subscriptions[c]
    <3>1. PICK a \in Subscriptions : /\ a = Head(command_queue[c]).sub /\ a.circuit = c
                                     /\ Asks(c, 1, "EventAdd", a)
      BY <1>0, <1>4, HeadAsked DEF EventAdd, Kinds
    <3>2. subscriptions'[c] = subscriptions[c] \cup {a}
      BY <1>0, <1>4, <3>1 DEF EventAdd, TypeOK
    <3>3. HonestAt(c) /\ 1 \in Places
      BY <1>0 DEF ClientsAreHonest, HonestAt, Places
    <3>. QED  BY <1>0, <3>1, <3>2, <3>3, HonestAdd
  <2>2. \A d \in Circuits : d # c => subscriptions'[d] = subscriptions[d]
    BY <1>0, <1>4 DEF EventAdd, TypeOK
  <2>3. ASSUME NEW s \in Subscriptions, Standing'[s] # Standing[s]
        PROVE  Standing[s] = "idle" /\ Standing'[s] = IF events_on[c] THEN "live" ELSE "paused"
    <3>1. s \in subscriptions'[s.circuit] /\ s \notin subscriptions[s.circuit]
      BY <1>0, <1>4, <2>1, <2>2, <2>3, StandingFields
    <3>2. s = a
      BY <1>0, <2>1, <2>2, <3>1
    <3>. QED  BY <1>4, <2>1, <3>1, <3>2, StandingFields
  <2>4. CASE events_on[c]
    <3>1. \A s \in Subscriptions : Standing'[s] # Standing[s] => Standing[s] \in {"idle"} /\ Standing'[s] = "live"
      BY <2>3, <2>4
    <3>. QED  BY <1>4, <3>1, MoveStep, MoveNext
  <2>5. CASE ~events_on[c]
    <3>1. \A s \in Subscriptions : Standing'[s] # Standing[s] => Standing[s] \in {"idle"} /\ Standing'[s] = "paused"
      BY <2>3, <2>5
    <3>. QED  BY <1>4, <3>1, MoveStep, MoveNext
  <2>. QED  BY <2>4, <2>5
<1>5. ASSUME NEW c \in Circuits, OnDisconnect(c), UNCHANGED <<version, delivered, events_on>>
      PROVE  [Promise!Next]_(Promise!vars)
  <2>1. subscriptions' = subscriptions \/ subscriptions' = [subscriptions EXCEPT ![c] = {}]
    BY <1>0, <1>5, OnDisconnectFields
  <2>2. \A d \in Circuits : subscriptions'[d] = subscriptions[d] \/ subscriptions'[d] = {}
    BY <1>0, <2>1 DEF TypeOK
  <2>3. \A s \in Subscriptions :
          Standing'[s] # Standing[s] => Standing[s] \in Promise!Served /\ Standing'[s] = "idle"
    BY <1>0, <1>5, <2>2, StandingFields DEF Promise!Served
  <2>. QED  BY <1>5, <2>3, MoveStep, MoveNext
<1>6. ASSUME NEW c \in Circuits, EventsOn(c), UNCHANGED <<version, delivered, subscriptions>>
      PROVE  [Promise!Next]_(Promise!vars)
  <2>1. \A d \in Circuits : events_on'[d] = events_on[d] \/ events_on'[d]
    BY <1>0, <1>6 DEF EventsOn, TypeOK
  <2>2. \A s \in Subscriptions : Standing'[s] # Standing[s] => Standing[s] \in {"paused"} /\ Standing'[s] = "live"
    BY <1>0, <1>6, <2>1, StandingFields
  <2>. QED  BY <1>6, <2>2, MoveStep, MoveNext
<1>7. ASSUME NEW c \in Circuits, EventsOff(c), UNCHANGED <<version, delivered, subscriptions>>
      PROVE  [Promise!Next]_(Promise!vars)
  <2>1. \A d \in Circuits : events_on'[d] = events_on[d] \/ ~events_on'[d]
    BY <1>0, <1>7 DEF EventsOff, TypeOK
  <2>2. \A s \in Subscriptions : Standing'[s] # Standing[s] => Standing[s] \in {"live"} /\ Standing'[s] = "paused"
    BY <1>0, <1>7, <2>1, StandingFields
  <2>. QED  BY <1>7, <2>2, MoveStep, MoveNext
<1>8. ASSUME NEW c \in Circuits, EventCancel(c) PROVE [Promise!Next]_(Promise!vars)
  BY <1>8, CancelStep
<1>. QED  BY <1>0, <1>1, <1>2, <1>3, <1>4, <1>5, <1>6, <1>7, <1>8, PromiseSteps

\* The server implements Monitors: whatever was queued, batched or blocked
\* when clients cancelled, turned events off or disconnected, each
\* subscription is sent newer and newer values while it stands, and nothing
\* after the response to its EventCancel.
THEOREM ServerKeepsPromise == Spec => KeepsPromise
<1>1. Init => Promise!Init
  <2>. SUFFICES ASSUME Init PROVE Promise!Init
    OBVIOUS
  <2>1. \A s \in Subscriptions : Standing[s] = "idle"
    <3>1. \A s \in Subscriptions : /\ s.circuit \in Circuits /\ delivered[s] # Cancelled
                                   /\ subscriptions[s.circuit] = {}
      BY SubscriptionAssumption DEF Init, Cancelled
    <3>. QED  BY <3>1, StandingFields
  <2>2. Standing = [s \in Subscriptions |-> "idle"]
    BY <2>1, StandingType
  <2>. QED  BY <2>2 DEF Init, Promise!Init
<1>2. IInv /\ IInv' /\ [Next]_vars => [Promise!Next]_(Promise!vars)
  BY PromiseNext DEF IInv
<1>. QED  BY <1>1, <1>2, InvHolds, PTL DEF Spec, KeepsPromise, Promise!Spec

---------------------------------------------------------------------------
(***************************************************************************)
(* The latest value is not lost.                                           *)
(***************************************************************************)

\* No update has been destroyed while its put was blocked: EventsOff has not
\* come while the Context waited for room in that circuit's queue.
PutsAreAlive == iter # None => (iter.put # None => iter.put.live)

\* The subscriptions that LatestNewsIsKept is about ...
Stands(s) ==
  /\ s \in subscriptions[s.circuit] /\ adding[s.circuit] # s /\ connected[s.circuit]
  /\ sub_task[s.circuit] \in {"get", "drain"} /\ ctx_task = "loop"

\* ... and where the current value of each may be.
Shown(s) == delivered[s] = version
InBatch(s) == \E e \in ToSet(batch[s.circuit]) : e.sub = s /\ e.ver = version
InQueue(s) == \E e \in ToSet(subscription_queue[s.circuit]) : e.sub = s /\ e.ver = version /\ e.live
InContext(s) == \E m \in ToSet(ctx_queue) : m.ver = version /\ m.spec = s.spec /\ m.sub \in {None, s}
Blocked(s) == iter # None /\ iter.put # None /\ iter.put.sub = s /\ iter.put.ver = version
Ahead(s) == /\ iter # None /\ iter.ver = version
            /\ \E i \in DOMAIN iter.over : i > iter.pos /\ iter.over[i] = s
Marked(s) == ~events_on[s.circuit] /\ s \in ToSet(to_resend[s.circuit])
Informed(s) == \/ Shown(s) \/ InBatch(s) \/ InQueue(s) \/ InContext(s)
               \/ Blocked(s) \/ Ahead(s) \/ Marked(s)

\* LatestNewsIsKept by these parts.
LEMMA NewsParts == LatestNewsIsKept <=> \A s \in Subscriptions : Stands(s) => Informed(s)
<1>1. ASSUME NEW s \in Subscriptions
      PROVE  OnItsWay(s) <=> InBatch(s) \/ InQueue(s) \/ InContext(s) \/ Blocked(s) \/ Ahead(s)
  BY DEF OnItsWay, InBatch, InQueue, InContext, Blocked, Ahead
<1>. QED  BY <1>1 DEF LatestNewsIsKept, Stands, Informed, Shown, Marked

\* The same after a step.
LEMMA NewsNext ==
  ASSUME \A s \in Subscriptions : Stands(s)' => Informed(s)' PROVE LatestNewsIsKept'
<1>1. ASSUME NEW s \in Subscriptions
      PROVE  OnItsWay(s)' <=> InBatch(s)' \/ InQueue(s)' \/ InContext(s)' \/ Blocked(s)' \/ Ahead(s)'
  BY DEF OnItsWay, InBatch, InQueue, InContext, Blocked, Ahead
<1>. QED  BY <1>1 DEF LatestNewsIsKept, Stands, Informed, Shown, Marked

\* Steps that touch none of these places.
LEMMA NewsSteps ==
  ASSUME [Next]_vars
  PROVE  \/ UNCHANGED <<version, delivered, batch, subscription_queue, ctx_queue, iter, events_on, to_resend>>
         \/ Publish /\ UNCHANGED <<delivered, batch, subscription_queue, iter, events_on, to_resend>>
         \/ ContextLoop
         \/ \E c \in Circuits :
              \/ EventAdd(c) \/ EventAddResumes(c) \/ EventCancel(c) \/ ClearChannel(c)
              \/ EventsOn(c) \/ EventsOff(c) \/ SubGet(c) \/ SubSend(c)
<1>. USE DEF outVars, dataVars, flowVars, ctxVars
<1>1. CASE UNCHANGED vars \/ ServerWrite
  BY <1>1 DEF vars, ServerWrite
<1>2. ASSUME NEW c \in Circuits, HandleWrite(c)
      PROVE  \/ UNCHANGED <<version, delivered, batch, subscription_queue, ctx_queue, iter, events_on, to_resend>>
             \/ Publish /\ UNCHANGED <<delivered, batch, subscription_queue, iter, events_on, to_resend>>
  BY <1>2 DEF HandleWrite
<1>3. ASSUME NEW c \in Circuits, RecvEOF(c) \/ Disconnected(c) \/ CommandSendFails(c) \/ SubSendFails(c)
      PROVE  UNCHANGED <<version, delivered, batch, subscription_queue, ctx_queue, iter, events_on, to_resend>>
  BY <1>3 DEF RecvEOF, Disconnected, CommandSendFails, SubSendFails, OnDisconnect, Release
<1>4. ASSUME NEW c \in Circuits, WriteRequest(c) \/ CommandSent(c) \/ Recv(c) \/ SubSent(c)
      PROVE  UNCHANGED <<version, delivered, batch, subscription_queue, ctx_queue, iter, events_on, to_resend>>
  BY <1>4 DEF WriteRequest, CommandSent, Recv, SubSent
<1>. QED  BY <1>1, <1>2, <1>3, <1>4 DEF Next, CommandLoop, SubscriptionLoop

\* A loop that has ended does not come back.
LEMMA LoopsEnd ==
  ASSUME TypeOK, [Next]_vars, NEW d \in Circuits
  PROVE  /\ sub_task'[d] \in {"get", "drain"} => sub_task[d] \in {"get", "drain"}
         /\ connected'[d] => connected[d]
         /\ ctx_task' = "loop" => ctx_task = "loop"
<1>. USE DEF outVars, linkVars, ctxVars
<1>1. CASE UNCHANGED vars \/ ServerWrite
  BY <1>1 DEF vars, ServerWrite
<1>2. CASE ContextLoop
  <2>1. UNCHANGED <<sub_task, connected>>
    <3>1. CtxGet \/ CtxNext \/ CtxFails => UNCHANGED <<sub_task, connected>>
      BY Zenon DEF CtxGet, CtxNext, CtxFails
    <3>2. CtxSend \/ CtxPut => UNCHANGED <<sub_task, connected>>
      BY Zenon DEF CtxSend, CtxPut
    <3>. QED  BY <1>2, <3>1, <3>2 DEF ContextLoop
  <2>2. ctx_task = "loop"
    BY <1>2, Zenon DEF ContextLoop, CtxGet, CtxSend, CtxPut, CtxNext, CtxFails
  <2>. QED  BY <2>1, <2>2
<1>3. ASSUME NEW c \in Circuits,
             \/ EventAdd(c) \/ EventAddResumes(c) \/ EventCancel(c) \/ ClearChannel(c) \/ EventsOn(c)
             \/ EventsOff(c) \/ WriteRequest(c) \/ CommandSent(c) \/ Recv(c) \/ HandleWrite(c) \/ SubGet(c)
      PROVE  UNCHANGED <<sub_task, connected, ctx_task>>
  <2>1. EventAdd(c) \/ EventAddResumes(c) \/ EventCancel(c) \/ ClearChannel(c) \/ EventsOn(c) \/ EventsOff(c)
        => UNCHANGED <<sub_task, connected, ctx_task>>
    BY Zenon DEF EventAdd, EventAddResumes, EventCancel, ClearChannel, EventsOn, EventsOff
  <2>2. WriteRequest(c) \/ CommandSent(c) \/ Recv(c) \/ HandleWrite(c) \/ SubGet(c)
        => UNCHANGED <<sub_task, connected, ctx_task>>
    BY Zenon DEF WriteRequest, CommandSent, Recv, HandleWrite, SubGet
  <2>. QED  BY <1>3, <2>1, <2>2
<1>4. ASSUME NEW c \in Circuits, SubSend(c) \/ SubSent(c)
      PROVE  /\ UNCHANGED <<connected, ctx_task>>
             /\ sub_task'[d] \in {"get", "drain"} => sub_task[d] \in {"get", "drain"}
  <2>1. UNCHANGED <<connected, ctx_task>> /\ sub_task[c] \in {"get", "drain"}
    BY <1>4 DEF SubSend, SubSent
  <2>2. PICK t : sub_task' = [sub_task EXCEPT ![c] = t]
    BY <1>4 DEF SubSend, SubSent
  <2>. QED  BY <2>1, <2>2 DEF TypeOK
<1>5. ASSUME NEW c \in Circuits, RecvEOF(c) \/ Disconnected(c) \/ CommandSendFails(c) \/ SubSendFails(c)
      PROVE  /\ UNCHANGED ctx_task
             /\ connected'[d] => connected[d]
             /\ sub_task'[d] \in {"get", "drain"} => sub_task[d] \in {"get", "drain"}
  <2>1. UNCHANGED ctx_task /\ OnDisconnect(c)
    BY <1>5 DEF RecvEOF, Disconnected, CommandSendFails, SubSendFails
  <2>2. PICK t \in {"None", "failed"} : /\ sub_task' = [sub_task EXCEPT ![c] = t]
                                        /\ connected' = [connected EXCEPT ![c] = FALSE]
    BY <2>1 DEF OnDisconnect
  <2>3. connected'[d] => connected[d]
    BY <2>2 DEF TypeOK
  <2>4. sub_task'[d] \in {"get", "drain"} => sub_task[d] \in {"get", "drain"}
    BY <2>2 DEF TypeOK
  <2>. QED  BY <2>1, <2>3, <2>4
<1>. QED  BY <1>1, <1>2, <1>3, <1>4, <1>5 DEF Next, CommandLoop, SubscriptionLoop

\* A subscription comes to stand when its EventAdd registers it.
LEMMA StandsSteps ==
  ASSUME TypeOK, AddingIsHeld, EachHasItsOwn, [Next]_vars, NEW s \in Subscriptions, Stands(s)'
  PROVE  Stands(s) \/ Subscribe(<<s>>)
<1>. DEFINE d == s.circuit
<1>0. d \in Circuits
  BY SubscriptionAssumption
<1>1. sub_task[d] \in {"get", "drain"} /\ ctx_task = "loop" /\ connected[d]
  BY <1>0, LoopsEnd DEF Stands
<1>2. s \in subscriptions'[d] /\ adding'[d] # s
  BY DEF Stands
<1>. HIDE DEF d
<1>3. ASSUME NEW c \in Circuits, EventAdd(c) PROVE Stands(s) \/ Subscribe(<<s>>)
  <2>1. PICK a : a = Head(command_queue[c]).sub
    OBVIOUS
  <2>2. /\ subscriptions' = [subscriptions EXCEPT ![c] = subscriptions[c] \cup {a}]
        /\ \/ Subscribe(<<a>>) /\ UNCHANGED adding
           \/ adding' = [adding EXCEPT ![c] = a]
    BY <1>3, <2>1 DEF EventAdd
  <2>3. adding[c] = None
    BY <1>3, TakeFields DEF EventAdd, AddingIsHeld
  <2>4. adding[d] # s
    BY <1>0, <1>2, <2>2, <2>3, NoneAssumption DEF TypeOK
  <2>5. CASE s \in subscriptions[d]
    BY <1>1, <2>4, <2>5 DEF Stands, d
  <2>6. CASE s \notin subscriptions[d]
    <3>1. c = d /\ s = a
      BY <1>0, <1>2, <2>2, <2>6 DEF TypeOK
    <3>2. ~(adding' = [adding EXCEPT ![c] = a])
      BY <1>0, <1>2, <3>1 DEF TypeOK
    <3>. QED  BY <2>2, <3>1, <3>2
  <2>. QED  BY <2>5, <2>6
<1>4. CASE \A c \in Circuits : ~EventAdd(c)
  <2>1. s \in subscriptions[d]
    <3>1. CASE UNCHANGED subscriptions
      BY <1>2, <3>1
    <3>2. ASSUME NEW c \in Circuits, EventCancel(c) PROVE s \in subscriptions[d]
      <4>1. PICK gone : subscriptions' = [subscriptions EXCEPT ![c] = subscriptions[c] \ gone]
        BY <3>2 DEF EventCancel, CullSubscriptions
      <4>. QED  BY <1>0, <1>2, <4>1 DEF TypeOK
    <3>3. ASSUME NEW c \in Circuits, OnDisconnect(c) PROVE s \in subscriptions[d]
      <4>1. subscriptions' = subscriptions \/ subscriptions' = [subscriptions EXCEPT ![c] = {}]
        BY <3>3, OnDisconnectFields
      <4>. QED  BY <1>0, <1>2, <4>1 DEF TypeOK
    <3>. QED  BY <1>4, <3>1, <3>2, <3>3, TableSteps
  <2>2. CASE UNCHANGED adding
    BY <1>1, <1>2, <2>1, <2>2 DEF Stands, d
  <2>3. ASSUME NEW c \in Circuits, EventAddResumes(c) PROVE Stands(s) \/ Subscribe(<<s>>)
    <3>1. Subscribe(<<adding[c]>>) /\ adding' = [adding EXCEPT ![c] = None]
      BY <2>3 DEF EventAddResumes
    <3>2. adding[d] = s => c = d
      BY <1>0, <1>2, <3>1 DEF TypeOK
    <3>. QED  BY <1>1, <2>1, <3>1, <3>2 DEF Stands, d
  <2>4. ASSUME NEW c \in Circuits, EventCancel(c) \/ ClearChannel(c) \/ EventsOn(c) PROVE UNCHANGED adding
    BY <2>4 DEF EventCancel, ClearChannel, EventsOn
  <2>. QED  BY <1>4, <2>2, <2>3, <2>4, RegistrationSteps
<1>. QED  BY <1>3, <1>4

\* Marking loses nobody and reaches all that it is given.
LEMMA MarkedAll ==
  ASSUME NEW list \in Seq(Subscriptions), NEW S \in SUBSET Subscriptions
  PROVE  ToSet(MarkToResend(list, S)) = ToSet(list) \cup S
<1>. DEFINE new == S \ ToSet(list)
<1>1. new \subseteq Subscriptions /\ IsFiniteSet(new)
  BY SubscriptionAssumption, FS_Subset
<1>2. ToSet(list) \cup S = ToSet(list) \cup new
  OBVIOUS
<1>3. MarkToResend(list, S) = list \o SetToSeq(new)
  BY DEF MarkToResend
<1>. HIDE DEF new
<1>4. SetToSeq(new) \in Seq(new) /\ ToSet(SetToSeq(new)) = new
  BY <1>1, Listed
<1>5. SetToSeq(new) \in Seq(Subscriptions)
  BY <1>1, <1>4, Widened
<1>. QED  BY <1>2, <1>3, <1>4, <1>5, Extended

\* A subscription that registers is sent the current reading ...
LEMMA NewsSubscribed ==
  ASSUME TypeOK, ContextInOrder, NEW subs \in Seq(Subscriptions), Subscribe(subs), NEW s \in ToSet(subs)
  PROVE  InContext(s)'
<1>. DEFINE list == [i \in DOMAIN subs |->
              [spec |-> subs[i].spec, ver |-> Reading(subs[i].spec), sub |-> subs[i]]]
<1>1. PICK i \in DOMAIN subs : s = subs[i]
  BY DEF ToSet
<1>2. s \in Subscriptions /\ s.spec \in Specs
  BY <1>1, SubscriptionAssumption
<1>3. Reading(s.spec) = version
  BY <1>2 DEF ContextInOrder, Reading
<1>4. i \in DOMAIN list /\ list[i] = [spec |-> s.spec, ver |-> version, sub |-> s]
  BY <1>1, <1>3
<1>5. ctx_queue' = ctx_queue \o list /\ version' = version
  BY DEF Subscribe
<1>6. list \in Seq(Updates)
  <2>1. \A k \in DOMAIN subs : subs[k] \in Subscriptions /\ subs[k].spec \in Specs
    BY SubscriptionAssumption
  <2>2. \A p \in Specs : Reading(p) = version
    BY DEF ContextInOrder, Reading
  <2>3. \A k \in DOMAIN subs : list[k] \in Updates
    BY <2>1, <2>2 DEF Updates, TypeOK
  <2>4. DOMAIN list = 1..Len(subs) /\ Len(subs) \in Nat
    OBVIOUS
  <2>. QED  BY <2>3, <2>4
<1>. HIDE DEF list
<1>7. list[i] \in ToSet(list)
  BY <1>4 DEF ToSet
<1>8. list[i] \in ToSet(ctx_queue')
  BY <1>5, <1>6, <1>7, Extended DEF TypeOK
<1>9. list[i].ver = version' /\ list[i].spec = s.spec /\ list[i].sub = s
  BY <1>4, <1>5
<1>. QED  BY <1>8, <1>9 DEF InContext

\* ... and a new value goes to every data type somebody is registered for.
LEMMA NewsPublished ==
  ASSUME TypeOK, Publish, NEW s \in Subscriptions, s.spec \in registered
  PROVE  InContext(s)'
<1>. DEFINE make == [p \in registered |-> [spec |-> p, ver |-> version + 1, sub |-> None]]
            all == {[spec |-> p, ver |-> version + 1, sub |-> None] : p \in registered}
            list == SetToSeq(all)
            m == [spec |-> s.spec, ver |-> version + 1, sub |-> None]
<1>1. version' = version + 1 /\ version' \in 0..MaxVersion
  BY PublishFields
<1>2. ctx_queue' = ctx_queue \o list
  BY <1>1 DEF Publish
<1>3. all \subseteq Updates /\ m \in all
  BY <1>1 DEF Updates, TypeOK
<1>4. IsFiniteSet(all)
  <2>1. IsFiniteSet(registered)
    BY SubscriptionAssumption, FS_Subset DEF TypeOK
  <2>2. make \in [registered -> all] /\ \A t \in all : \E p \in registered : make[p] = t
    OBVIOUS
  <2>. HIDE DEF make, all
  <2>. QED  BY <2>1, <2>2, FiniteImage
<1>. HIDE DEF all
<1>5. list \in Seq(all) /\ ToSet(list) = all
  BY <1>4, Listed
<1>. HIDE DEF list
<1>6. list \in Seq(Updates)
  BY <1>3, <1>5, Widened
<1>7. m \in ToSet(ctx_queue')
  BY <1>2, <1>3, <1>5, <1>6, Extended DEF TypeOK
<1>8. m.ver = version' /\ m.spec = s.spec /\ m.sub = None
  BY <1>1
<1>. QED  BY <1>7, <1>8 DEF InContext

\* While the value stays and the places keep what they have, so does s.
LEMMA NewsUntouched ==
  ASSUME NEW s \in Subscriptions, Informed(s), version' = version, UNCHANGED <<delivered, batch, subscription_queue, iter>>,
         ToSet(ctx_queue) \subseteq ToSet(ctx_queue'), Marked(s) => Marked(s)' \/ InContext(s)'
  PROVE  Informed(s)'
<1>1. Shown(s) => Shown(s)'
  BY DEF Shown
<1>2. InBatch(s) => InBatch(s)'
  BY DEF InBatch
<1>3. InQueue(s) => InQueue(s)'
  BY DEF InQueue
<1>4. InContext(s) => InContext(s)'
  BY DEF InContext
<1>5. (Blocked(s) => Blocked(s)') /\ (Ahead(s) => Ahead(s)')
  BY DEF Blocked, Ahead
<1>. QED  BY <1>1, <1>2, <1>3, <1>4, <1>5 DEF Informed

\* New values, subscriptions and cancellations.
LEMMA NewsByCommand ==
  ASSUME IInv, NEW s \in Subscriptions, Stands(s), Stands(s)', Informed(s), NEW c \in Circuits,
         \/ EventAdd(c) \/ EventAddResumes(c) \/ EventCancel(c) \/ ClearChannel(c) \/ EventsOn(c)
  PROVE  Informed(s)'
<1>. USE DEF outVars, flowVars, ctxVars, dataVars
<1>0. /\ TypeOK /\ AddingIsHeld /\ EachHasItsOwn /\ ContextInOrder /\ HonestAt(c)
      /\ s.circuit \in Circuits /\ s \in subscriptions'[s.circuit]
  BY SubscriptionAssumption DEF IInv, InOrder, ClientsAreHonest, HonestAt, Stands
<1>1. ASSUME NEW subs \in Seq(Subscriptions), Subscribe(subs)
      PROVE  ToSet(ctx_queue) \subseteq ToSet(ctx_queue') /\ version' = version
  <2>1. PICK list \in Seq(Updates) : ctx_queue' = ctx_queue \o list /\ version' = version
    BY <1>0, <1>1, SubscribeFields
  <2>. QED  BY <1>0, <2>1, Extended DEF TypeOK
<1>2. CASE EventAdd(c)
  <2>. DEFINE sub == Head(command_queue[c]).sub
  <2>1. sub \in Subscriptions
    BY <1>0, <1>2, TakeFields, CommandFields DEF EventAdd
  <2>2. Subscribe(<<sub>>) \/ UNCHANGED <<ctx_queue, version>>
    BY <1>2 DEF EventAdd
  <2>3. <<sub>> \in Seq(Subscriptions)
    BY <2>1, Single
  <2>4. UNCHANGED <<delivered, batch, subscription_queue, iter, events_on, to_resend>>
    BY <1>2 DEF EventAdd
  <2>. HIDE DEF sub
  <2>5. ToSet(ctx_queue) \subseteq ToSet(ctx_queue') /\ version' = version
    BY <1>1, <2>2, <2>3
  <2>6. Marked(s) => Marked(s)'
    BY <2>4 DEF Marked
  <2>. QED  BY <2>4, <2>5, <2>6, NewsUntouched
<1>3. CASE EventAddResumes(c)
  <2>1. /\ adding[c] \in Subscriptions /\ Subscribe(<<adding[c]>>)
        /\ UNCHANGED <<delivered, batch, subscription_queue, iter, events_on, to_resend>>
    BY <1>0, <1>3 DEF EventAddResumes, AddingIsHeld
  <2>2. ToSet(ctx_queue) \subseteq ToSet(ctx_queue') /\ version' = version
    BY <1>1, <2>1, Single
  <2>3. Marked(s) => Marked(s)'
    BY <2>1 DEF Marked
  <2>. QED  BY <2>1, <2>2, <2>3, NewsUntouched
<1>4. CASE EventsOn(c)
  <2>1. /\ to_resend[c] \in Seq(Subscriptions) /\ Subscribe(to_resend[c])
        /\ UNCHANGED <<delivered, batch, subscription_queue, iter>>
        /\ events_on' = [events_on EXCEPT ![c] = TRUE] /\ to_resend' = [to_resend EXCEPT ![c] = <<>>]
    BY <1>0, <1>4 DEF EventsOn, TypeOK
  <2>2. ToSet(ctx_queue) \subseteq ToSet(ctx_queue') /\ version' = version
    BY <1>1, <2>1
  <2>3. Marked(s) => Marked(s)' \/ InContext(s)'
    <3>1. CASE s.circuit = c
      <4>1. Marked(s) => s \in ToSet(to_resend[c])
        BY <3>1 DEF Marked
      <4>. QED  BY <1>0, <2>1, <4>1, NewsSubscribed
    <3>2. CASE s.circuit # c
      BY <1>0, <2>1, <3>2 DEF Marked, TypeOK
    <3>. QED  BY <3>1, <3>2
  <2>. QED  BY <2>1, <2>2, <2>3, NewsUntouched
<1>5. ASSUME NEW gone, CullSubscriptions(c, gone) PROVE (Marked(s) => Marked(s)') /\ version' = version
  <2>1. /\ subscriptions' = [subscriptions EXCEPT ![c] = subscriptions[c] \ gone]
        /\ to_resend' = [to_resend EXCEPT ![c] = Without(to_resend[c], gone)]
        /\ UNCHANGED <<events_on, version>>
    BY <1>5 DEF CullSubscriptions, Release
  <2>2. to_resend[c] \in Seq(Subscriptions)
    BY <1>0 DEF TypeOK
  <2>3. ToSet(Without(to_resend[c], gone)) = ToSet(to_resend[c]) \ gone
    BY <2>2, Removed
  <2>4. s.circuit = c => s \notin gone
    BY <1>0, <2>1 DEF TypeOK
  <2>5. s.circuit = c => to_resend'[s.circuit] = Without(to_resend[c], gone)
    BY <1>0, <2>1 DEF TypeOK
  <2>6. s.circuit # c => to_resend'[s.circuit] = to_resend[s.circuit]
    BY <1>0, <2>1 DEF TypeOK
  <2>. QED  BY <2>1, <2>3, <2>4, <2>5, <2>6 DEF Marked
<1>6. CASE ClearChannel(c)
  <2>1. CullSubscriptions(c, {}) /\ UNCHANGED <<delivered, batch, subscription_queue, iter, ctx_queue>>
    BY <1>6 DEF ClearChannel
  <2>. QED  BY <1>5, <2>1, NewsUntouched
<1>7. CASE EventCancel(c)
  <2>1. \E gone : CullSubscriptions(c, gone)
    BY <1>7 DEF EventCancel
  <2>2. UNCHANGED <<batch, subscription_queue, iter, ctx_queue>>
    BY <1>7 DEF EventCancel
  <2>3. (Marked(s) => Marked(s)') /\ version' = version
    BY <1>5, <2>1
  <2>4. PICK a \in Subscriptions : /\ a.circuit = c /\ subscriptions'[c] = subscriptions[c] \ {a}
                                   /\ \A t \in Subscriptions : t # a => delivered'[t] = delivered[t]
    BY <1>0, <1>7, CancelFields
  <2>5. delivered'[s] = delivered[s]
    BY <1>0, <2>4
  <2>6. Shown(s) => Shown(s)'
    BY <2>3, <2>5 DEF Shown
  <2>7. InBatch(s) \/ InQueue(s) => InBatch(s)' \/ InQueue(s)'
    BY <2>2, <2>3 DEF InBatch, InQueue
  <2>8. InContext(s) \/ Blocked(s) \/ Ahead(s) => InContext(s)' \/ Blocked(s)' \/ Ahead(s)'
    BY <2>2, <2>3 DEF InContext, Blocked, Ahead
  <2>. QED  BY <2>3, <2>6, <2>7, <2>8 DEF Informed
<1>. QED  BY <1>2, <1>3, <1>4, <1>6, <1>7

\* EventsOff destroys the updates in the queue and marks whose they were.
LEMMA NewsByEventsOff ==
  ASSUME TypeOK, PutsAreAlive', NEW s \in Subscriptions, Informed(s), NEW c \in Circuits, EventsOff(c)
  PROVE  Informed(s)'
<1>. DEFINE alive == {e \in ToSet(subscription_queue[c]) : e.live}
            subs == {e.sub : e \in alive}
<1>0. /\ s.circuit \in Circuits /\ subscription_queue[c] \in Seq(Entries)
      /\ to_resend[c] \in Seq(Subscriptions) /\ iter \in Items \cup {None}
  BY SubscriptionAssumption DEF TypeOK
<1>1. /\ events_on' = [events_on EXCEPT ![c] = FALSE]
      /\ \E list : subscription_queue' = [subscription_queue EXCEPT ![c] = list]
      /\ to_resend' = [to_resend EXCEPT ![c] = MarkToResend(to_resend[c], subs)]
      /\ iter' = IF iter # None /\ iter.put # None /\ iter.put.sub.circuit = c
                 THEN [iter EXCEPT !.put.live = FALSE] ELSE iter
      /\ UNCHANGED <<batch, delivered, ctx_queue, version>>
  BY DEF EventsOff, dataVars
<1>2. subs \subseteq Subscriptions
  <2>1. \A e \in ToSet(subscription_queue[c]) : e \in Entries
    BY <1>0 DEF ToSet
  <2>. QED  BY <2>1 DEF Entries
<1>. HIDE DEF subs
<1>3. ToSet(MarkToResend(to_resend[c], subs)) = ToSet(to_resend[c]) \cup subs
  BY <1>0, <1>2, MarkedAll
<1>4. iter' = iter
  <2>1. ASSUME iter # None, iter.put # None, iter.put.sub.circuit = c PROVE FALSE
    <3>1. iter' = [iter EXCEPT !.put.live = FALSE] /\ iter \in Items
      BY <1>0, <1>1, <2>1
    <3>2. iter' \in Items /\ iter'.put # None
      BY <2>1, <3>1, DeadPut
    <3>3. iter.put \in Entries
      BY <2>1, <3>1, ItemFields
    <3>4. iter'.put.live = FALSE
      BY <3>1, <3>3 DEF Items, Entries
    <3>. QED  BY <3>2, <3>4, NoneAssumption DEF PutsAreAlive
  <2>. QED  BY <1>1, <2>1
<1>5. Shown(s) \/ InBatch(s) => Shown(s)' \/ InBatch(s)'
  BY <1>1 DEF Shown, InBatch
<1>6. InContext(s) \/ Blocked(s) \/ Ahead(s) => InContext(s)' \/ Blocked(s)' \/ Ahead(s)'
  BY <1>1, <1>4 DEF InContext, Blocked, Ahead
<1>7. CASE s.circuit = c
  <2>1. ~events_on'[c] /\ to_resend'[c] = MarkToResend(to_resend[c], subs)
    BY <1>1 DEF TypeOK
  <2>2. InQueue(s) => s \in subs
    BY <1>7 DEF InQueue, subs
  <2>3. Marked(s) => s \in ToSet(to_resend[c])
    BY <1>7 DEF Marked
  <2>4. InQueue(s) \/ Marked(s) => Marked(s)'
    BY <1>3, <1>7, <2>1, <2>2, <2>3 DEF Marked
  <2>. QED  BY <1>5, <1>6, <2>4 DEF Informed
<1>8. CASE s.circuit # c
  <2>1. /\ subscription_queue'[s.circuit] = subscription_queue[s.circuit]
        /\ events_on'[s.circuit] = events_on[s.circuit] /\ to_resend'[s.circuit] = to_resend[s.circuit]
    BY <1>0, <1>1, <1>8 DEF TypeOK
  <2>2. InQueue(s) => InQueue(s)'
    BY <1>1, <2>1 DEF InQueue
  <2>3. Marked(s) => Marked(s)'
    BY <2>1 DEF Marked
  <2>. QED  BY <1>5, <1>6, <2>2, <2>3 DEF Informed
<1>. QED  BY <1>7, <1>8

\* The Context's loop takes the oldest item: its subscriptions are ahead.
LEMMA NewsByCtxGet ==
  ASSUME TypeOK, WantedIsRegistered, NEW s \in Subscriptions, Stands(s), Informed(s), CtxGet
  PROVE  Informed(s)'
<1>. USE DEF outVars, flowVars, dataVars
<1>1. /\ iter = None /\ ctx_queue # <<>> /\ ctx_queue' = Tail(ctx_queue)
      /\ UNCHANGED <<delivered, batch, subscription_queue, events_on, to_resend, version>>
  BY DEF CtxGet
<1>2. PICK item : item = Head(ctx_queue)
  OBVIOUS
<1>3. ctx_queue \in Seq(Updates)
  BY DEF TypeOK
<1>4. item \in Updates /\ ToSet(ctx_queue) = {item} \cup ToSet(Tail(ctx_queue))
  BY <1>1, <1>2, <1>3, HeadAndTail
<1>5. Shown(s) \/ InBatch(s) \/ InQueue(s) => Shown(s)' \/ InBatch(s)' \/ InQueue(s)'
  BY <1>1 DEF Shown, InBatch, InQueue
<1>6. Marked(s) => Marked(s)'
  BY <1>1 DEF Marked
<1>7. ASSUME item.ver = version, item.spec = s.spec, item.sub \in {None, s} PROVE Ahead(s)'
  <2>1. PICK over : over = IF item.sub = None THEN ctx_subscriptions[item.spec] ELSE <<item.sub>>
    OBVIOUS
  <2>2. /\ iter' = [spec |-> item.spec, ver |-> item.ver, pos |-> 0, put |-> None,
                    broadcast |-> item.sub = None, over |-> over]
    BY <1>2, <2>1 DEF CtxGet
  <2>3. s \in ToSet(ctx_subscriptions[s.spec])
    <3>1. s.circuit \in Circuits /\ s \in subscriptions[s.circuit]
      BY SubscriptionAssumption DEF Stands
    <3>. QED  BY <3>1 DEF WantedIsRegistered
  <2>4. s \in ToSet(over) /\ over \in Seq(Subscriptions)
    <3>1. CASE item.sub = None
      BY <1>4, <1>7, <2>1, <2>3, <3>1 DEF TypeOK, Updates
    <3>2. CASE item.sub = s
      <4>1. over = <<s>>
        BY <2>1, <3>2, NoneAssumption
      <4>. QED  BY <4>1, Single
    <3>. QED  BY <1>7, <3>1, <3>2
  <2>5. PICK i \in DOMAIN over : over[i] = s
    BY <2>4 DEF ToSet
  <2>6. i > 0
    BY <2>4, <2>5
  <2>7. iter'.over = over /\ iter'.pos = 0 /\ iter'.ver = item.ver
    BY <2>2
  <2>8. iter' # None
    BY CtxGetFields, NoneAssumption
  <2>. QED  BY <1>1, <1>7, <2>5, <2>6, <2>7, <2>8 DEF Ahead
<1>8. InContext(s) => InContext(s)' \/ Ahead(s)'
  <2>. SUFFICES ASSUME NEW m \in ToSet(ctx_queue), m.ver = version, m.spec = s.spec, m.sub \in {None, s}
                PROVE  InContext(s)' \/ Ahead(s)'
    BY DEF InContext
  <2>1. CASE m = item
    BY <1>7, <2>1
  <2>2. CASE m \in ToSet(Tail(ctx_queue))
    BY <1>1, <2>2 DEF InContext
  <2>. QED  BY <1>4, <2>1, <2>2
<1>9. ~Blocked(s) /\ ~Ahead(s)
  BY <1>1 DEF Blocked, Ahead
<1>. QED  BY <1>5, <1>6, <1>8, <1>9 DEF Informed

\* A new update makes no update of another subscription expire.
LEMMA OthersSurvive ==
  ASSUME NEW queue \in Seq(Entries), NEW sub, NEW e \in ToSet(queue), e.sub # sub
  PROVE  e \in ToSet(Expire(queue, sub))
<1>1. PICK i \in DOMAIN queue : e = queue[i]
  BY DEF ToSet
<1>2. DOMAIN Expire(queue, sub) = DOMAIN queue /\ Expire(queue, sub)[i] = queue[i]
  BY <1>1 DEF Expire
<1>. QED  BY <1>1, <1>2 DEF ToSet

\* One step of the loop: sub is marked, is sent the update, or its put blocks.
SendsTo(sub, list, entry) ==
  LET c == sub.circuit IN
  /\ iter \in Items /\ iter.put = None /\ iter.pos + 1 \in DOMAIN iter.over
  /\ sub = iter.over[iter.pos + 1] /\ list = Expire(subscription_queue[c], sub)
  /\ entry.sub = sub /\ entry.ver = iter.ver /\ entry.live
  /\ iter' # None /\ iter'.ver = iter.ver /\ iter'.over = iter.over /\ iter'.pos = iter.pos + 1
  /\ iter'.put \in {None, entry} /\ UNCHANGED <<delivered, batch, ctx_queue, events_on, version>>
  /\ \/ /\ ~events_on[c] /\ UNCHANGED subscription_queue
        /\ to_resend' = [to_resend EXCEPT ![c] = MarkToResend(to_resend[c], {sub})]
     \/ /\ subscription_queue' = [subscription_queue EXCEPT ![c] = Append(list, entry)]
        /\ UNCHANGED to_resend
     \/ /\ subscription_queue' = [subscription_queue EXCEPT ![c] = list]
        /\ iter'.put = entry /\ UNCHANGED to_resend

LEMMA SendFields ==
  ASSUME TypeOK, CtxSend
  PROVE  \E sub \in Subscriptions, list \in Seq(Entries), entry \in Entries : SendsTo(sub, list, entry)
<1>1. iter \in Items /\ iter # None /\ iter.put = None /\ iter.pos < Len(iter.over)
  BY Zenon DEF CtxSend, TypeOK
<1>2. iter.over \in Seq(Subscriptions) /\ iter.pos \in Nat /\ iter.ver \in 0..MaxVersion
  BY <1>1, ItemFields
<1>3. iter.pos + 1 \in DOMAIN iter.over
  BY <1>1, <1>2
<1>4. PICK sub \in Subscriptions : sub = iter.over[iter.pos + 1]
  BY <1>2, <1>3
<1>. DEFINE c == sub.circuit
<1>5. c \in Circuits
  BY SubscriptionAssumption
<1>6. PICK entry : entry = [sub |-> sub, ver |-> iter.ver, live |-> TRUE]
  OBVIOUS
<1>7. entry \in Entries /\ entry.sub = sub /\ entry.ver = iter.ver /\ entry.live
  BY <1>2, <1>6 DEF Entries
<1>8. PICK list : list = Expire(subscription_queue[c], sub)
  OBVIOUS
<1>9. list \in Seq(Entries)
  BY <1>5, <1>8, ExpireFields DEF TypeOK, SameUpdates
<1>10. \/ /\ ~events_on[c] /\ UNCHANGED subscription_queue
          /\ to_resend' = [to_resend EXCEPT ![c] = MarkToResend(to_resend[c], {sub})]
          /\ iter' = [iter EXCEPT !.pos = iter.pos + 1]
       \/ /\ subscription_queue' = [subscription_queue EXCEPT ![c] = Append(list, entry)]
          /\ iter' = [iter EXCEPT !.pos = iter.pos + 1] /\ UNCHANGED to_resend
       \/ /\ subscription_queue' = [subscription_queue EXCEPT ![c] = list]
          /\ iter' = [iter EXCEPT !.pos = iter.pos + 1, !.put = entry] /\ UNCHANGED to_resend
  BY Zenon, <1>4, <1>5, <1>6, <1>8 DEF CtxSend
<1>11. UNCHANGED <<delivered, batch, ctx_queue, events_on, version>>
  BY Zenon DEF CtxSend, dataVars
<1>12. ASSUME NEW new, new = [iter EXCEPT !.pos = iter.pos + 1]
       PROVE  new.ver = iter.ver /\ new.over = iter.over /\ new.pos = iter.pos + 1 /\ new.put = None
  BY <1>1, <1>12 DEF Items
<1>13. ASSUME NEW new, new = [iter EXCEPT !.pos = iter.pos + 1, !.put = entry]
       PROVE  new.ver = iter.ver /\ new.over = iter.over /\ new.pos = iter.pos + 1 /\ new.put = entry
  BY <1>1, <1>13 DEF Items
<1>14. iter' # None
  BY CtxSendFields, NoneAssumption
<1>15. /\ iter'.ver = iter.ver /\ iter'.over = iter.over /\ iter'.pos = iter.pos + 1
       /\ iter'.put \in {None, entry}
       /\ \/ /\ ~events_on[c] /\ UNCHANGED subscription_queue
             /\ to_resend' = [to_resend EXCEPT ![c] = MarkToResend(to_resend[c], {sub})]
          \/ /\ subscription_queue' = [subscription_queue EXCEPT ![c] = Append(list, entry)]
             /\ UNCHANGED to_resend
          \/ /\ subscription_queue' = [subscription_queue EXCEPT ![c] = list]
             /\ iter'.put = entry /\ UNCHANGED to_resend
  BY <1>10, <1>12, <1>13
<1>. HIDE DEF c
<1>16. /\ iter \in Items /\ iter.put = None /\ iter.pos + 1 \in DOMAIN iter.over
       /\ sub = iter.over[iter.pos + 1] /\ list = Expire(subscription_queue[c], sub)
       /\ entry.sub = sub /\ entry.ver = iter.ver /\ entry.live
       /\ iter' # None /\ iter'.ver = iter.ver /\ iter'.over = iter.over /\ iter'.pos = iter.pos + 1
       /\ iter'.put \in {None, entry} /\ UNCHANGED <<delivered, batch, ctx_queue, events_on, version>>
  BY <1>1, <1>3, <1>4, <1>7, <1>8, <1>11, <1>14, <1>15
<1>17. SendsTo(sub, list, entry)
  BY Zenon, <1>15, <1>16 DEF c, SendsTo
<1>. QED  BY <1>7, <1>9, <1>17

\* The loop serves one subscription more.  If an update of s expires, the one
\* that took its place is of the same value.
LEMMA NewsByCtxSend ==
  ASSUME IInv, NEW s \in Subscriptions, Informed(s), CtxSend
  PROVE  Informed(s)'
<1>0. TypeOK /\ InOrder /\ s.circuit \in Circuits /\ version \in Nat
  <2>1. TypeOK /\ InOrder
    BY DEF IInv
  <2>2. s.circuit \in Circuits
    BY SubscriptionAssumption
  <2>. QED  BY <2>1, <2>2, Versions
<1>1. PICK sub \in Subscriptions, list \in Seq(Entries), entry \in Entries : SendsTo(sub, list, entry)
  BY <1>0, SendFields
<1>2. PICK c \in Circuits : c = sub.circuit
  BY SubscriptionAssumption
<1>3. /\ iter \in Items /\ iter.put = None /\ iter.pos + 1 \in DOMAIN iter.over
      /\ sub = iter.over[iter.pos + 1] /\ list = Expire(subscription_queue[c], sub)
      /\ entry.sub = sub /\ entry.ver = iter.ver /\ entry.live
      /\ iter' # None /\ iter'.ver = iter.ver /\ iter'.over = iter.over /\ iter'.pos = iter.pos + 1
      /\ UNCHANGED <<delivered, batch, ctx_queue, events_on, version>>
  BY Zenon, <1>1, <1>2 DEF SendsTo
<1>4. \/ /\ ~events_on[c] /\ UNCHANGED subscription_queue
         /\ to_resend' = [to_resend EXCEPT ![c] = MarkToResend(to_resend[c], {sub})]
      \/ /\ subscription_queue' = [subscription_queue EXCEPT ![c] = Append(list, entry)]
         /\ UNCHANGED to_resend
      \/ /\ subscription_queue' = [subscription_queue EXCEPT ![c] = list]
         /\ iter'.put = entry /\ UNCHANGED to_resend
  BY Zenon, <1>1, <1>2 DEF SendsTo
<1>5. subscription_queue[c] \in Seq(Entries) /\ to_resend[c] \in Seq(Subscriptions)
  BY <1>0 DEF TypeOK
<1>6. ToSet(Append(list, entry)) = ToSet(list) \cup {entry}
  BY Appended
<1>7. ToSet(MarkToResend(to_resend[c], {sub})) = ToSet(to_resend[c]) \cup {sub}
  BY <1>5, MarkedAll
<1>8. Shown(s) \/ InBatch(s) \/ InContext(s) => Shown(s)' \/ InBatch(s)' \/ InContext(s)'
  BY <1>3 DEF Shown, InBatch, InContext
<1>9. Marked(s) => Marked(s)'
  <2>1. CASE UNCHANGED to_resend
    BY <1>3, <2>1 DEF Marked
  <2>2. CASE to_resend' = [to_resend EXCEPT ![c] = MarkToResend(to_resend[c], {sub})]
    <3>1. ToSet(to_resend[s.circuit]) \subseteq ToSet(to_resend'[s.circuit])
      BY <1>0, <1>7, <2>2 DEF TypeOK
    <3>. QED  BY <1>3, <3>1 DEF Marked
  <2>. QED  BY <1>4, <2>1, <2>2
\* s itself is being sent the current value
<1>10. ASSUME sub = s, iter.ver = version PROVE Informed(s)'
  <2>1. CASE /\ ~events_on[c] /\ UNCHANGED subscription_queue
             /\ to_resend' = [to_resend EXCEPT ![c] = MarkToResend(to_resend[c], {sub})]
    <3>1. s \in ToSet(to_resend'[s.circuit])
      BY <1>0, <1>2, <1>7, <1>10, <2>1 DEF TypeOK
    <3>2. Marked(s)'
      BY <1>2, <1>3, <1>10, <2>1, <3>1 DEF Marked
    <3>. QED  BY <3>2 DEF Informed
  <2>2. CASE subscription_queue' = [subscription_queue EXCEPT ![c] = Append(list, entry)]
    <3>1. entry \in ToSet(subscription_queue'[s.circuit])
      BY <1>0, <1>2, <1>6, <1>10, <2>2 DEF TypeOK
    <3>2. InQueue(s)'
      BY <1>3, <1>10, <3>1 DEF InQueue
    <3>. QED  BY <3>2 DEF Informed
  <2>3. CASE iter'.put = entry
    <3>1. Blocked(s)'
      BY <1>3, <1>10, <2>3, NoneAssumption DEF Blocked
    <3>. QED  BY <3>1 DEF Informed
  <2>. QED  BY <1>4, <2>1, <2>2, <2>3
<1>11. InQueue(s) => Informed(s)'
  <2>. SUFFICES ASSUME NEW e \in ToSet(subscription_queue[s.circuit]), e.sub = s, e.ver = version, e.live
                PROVE  Informed(s)'
    BY DEF InQueue
  <2>1. CASE sub = s
    <3>1. NotAfter(e.ver)
      BY <1>0 DEF InOrder, CircuitInOrder
    <3>2. NotAfter(iter.ver)
      BY <1>0, <1>3, NoneAssumption DEF InOrder, ContextInOrder
    <3>3. iter.ver \in Nat /\ iter # None
      BY <1>3, ItemFields, BoundAssumption
    <3>4. iter.ver = version
      BY <1>0, <3>1, <3>2, <3>3 DEF NotAfter
    <3>. QED  BY <1>10, <2>1, <3>4
  <2>2. CASE sub # s
    <3>1. e \in ToSet(subscription_queue'[s.circuit])
      <4>1. CASE s.circuit # c \/ UNCHANGED subscription_queue
        BY <1>0, <1>4, <4>1 DEF TypeOK
      <4>2. CASE s.circuit = c
        <5>1. e \in ToSet(list)
          BY <1>3, <1>5, <2>2, <4>2, OthersSurvive
        <5>2. \/ UNCHANGED subscription_queue \/ subscription_queue'[c] = list
              \/ subscription_queue'[c] = Append(list, entry)
          BY <1>0, <1>4 DEF TypeOK
        <5>. QED  BY <1>6, <4>2, <5>1, <5>2
      <4>. QED  BY <4>1, <4>2
    <3>2. InQueue(s)'
      BY <1>3, <3>1 DEF InQueue
    <3>. QED  BY <3>2 DEF Informed
  <2>. QED  BY <2>1, <2>2
<1>12. Ahead(s) => Informed(s)'
  <2>. SUFFICES ASSUME iter.ver = version, NEW i \in DOMAIN iter.over, i > iter.pos, iter.over[i] = s
                PROVE  Informed(s)'
    BY DEF Ahead
  <2>1. i \in Nat /\ iter.pos \in Nat
    BY <1>3, ItemFields
  <2>2. CASE i = iter.pos + 1
    BY <1>3, <1>10, <2>2
  <2>3. CASE i # iter.pos + 1
    <3>1. i > iter.pos + 1
      BY <2>1, <2>3
    <3>2. Ahead(s)'
      BY <1>3, <3>1 DEF Ahead
    <3>. QED  BY <3>2 DEF Informed
  <2>. QED  BY <2>2, <2>3
<1>13. ~Blocked(s)
  BY <1>3 DEF Blocked
<1>. QED  BY <1>8, <1>9, <1>11, <1>12, <1>13 DEF Informed

\* A blocked put goes through.
LEMMA NewsByCtxPut ==
  ASSUME TypeOK, PutsAreAlive, NEW s \in Subscriptions, Informed(s), CtxPut
  PROVE  Informed(s)'
<1>0. s.circuit \in Circuits
  BY SubscriptionAssumption
<1>1. PICK c \in Circuits :
        /\ iter \in Items /\ iter' \in Items
        /\ iter.put # None /\ iter.put \in Entries /\ iter.put.sub.circuit = c
        /\ subscription_queue' =
             [subscription_queue EXCEPT ![c] = Append(subscription_queue[c], iter.put)]
  BY CtxPutFields
<1>2. iter' = [iter EXCEPT !.put = None]
  BY Zenon DEF CtxPut
<1>3. iter'.ver = iter.ver /\ iter'.pos = iter.pos /\ iter'.over = iter.over /\ iter' # None
  BY <1>1, <1>2, NoneAssumption DEF Items
<1>4. iter.put.live
  BY <1>1, NoneAssumption DEF PutsAreAlive
<1>5. UNCHANGED <<delivered, batch, ctx_queue, events_on, version>>
  BY Zenon DEF CtxPut, dataVars
<1>6. UNCHANGED to_resend
  BY <1>4, Zenon DEF CtxPut
<1>7. subscription_queue[c] \in Seq(Entries)
  BY DEF TypeOK
<1>8. ToSet(Append(subscription_queue[c], iter.put)) = ToSet(subscription_queue[c]) \cup {iter.put}
  BY <1>1, <1>7, Appended
<1>9. /\ ToSet(subscription_queue[s.circuit]) \subseteq ToSet(subscription_queue'[s.circuit])
      /\ iter.put.sub = s => iter.put \in ToSet(subscription_queue'[s.circuit])
  BY <1>0, <1>1, <1>8 DEF TypeOK
<1>10. Shown(s) \/ InBatch(s) \/ InContext(s) \/ Marked(s)
       => Shown(s)' \/ InBatch(s)' \/ InContext(s)' \/ Marked(s)'
  BY <1>5, <1>6 DEF Shown, InBatch, InContext, Marked
<1>11. InQueue(s) \/ Blocked(s) => InQueue(s)'
  BY <1>4, <1>5, <1>9 DEF InQueue, Blocked
<1>12. Ahead(s) => Ahead(s)'
  BY <1>3, <1>5 DEF Ahead
<1>. QED  BY <1>10, <1>11, <1>12 DEF Informed

\* At the end of the deque nobody is ahead.
LEMMA NewsByCtxNext ==
  ASSUME TypeOK, NEW s \in Subscriptions, Informed(s), CtxNext
  PROVE  Informed(s)'
<1>. USE DEF outVars, flowVars, dataVars
<1>1. /\ iter # None /\ iter.put = None /\ iter.pos = Len(iter.over)
      /\ UNCHANGED <<delivered, batch, subscription_queue, ctx_queue, events_on, to_resend, version>>
  BY DEF CtxNext
<1>2. iter.over \in Seq(Subscriptions)
  BY <1>1, ItemFields DEF TypeOK
<1>3. ~Ahead(s) /\ ~Blocked(s)
  BY <1>1, <1>2 DEF Ahead, Blocked
<1>4. Shown(s) \/ InBatch(s) \/ InContext(s) => Shown(s)' \/ InBatch(s)' \/ InContext(s)'
  BY <1>1 DEF Shown, InBatch, InContext
<1>5. InQueue(s) \/ Marked(s) => InQueue(s)' \/ Marked(s)'
  BY <1>1 DEF InQueue, Marked
<1>. QED  BY <1>3, <1>4, <1>5 DEF Informed

\* A circuit's loop takes an update from its queue into the batch ...
LEMMA NewsBySubGet ==
  ASSUME TypeOK, NEW s \in Subscriptions, Informed(s), NEW c \in Circuits, SubGet(c)
  PROVE  Informed(s)'
<1>. USE DEF flowVars, ctxVars, dataVars
<1>0. s.circuit \in Circuits
  BY SubscriptionAssumption
<1>1. PICK q \in Seq(Entries), b \in Seq(Entries) : q = subscription_queue[c] /\ b = batch[c]
  BY DEF TypeOK
<1>2. /\ q # <<>> /\ subscription_queue' = [subscription_queue EXCEPT ![c] = Tail(q)]
      /\ batch' = [batch EXCEPT ![c] = IF Head(q).live THEN Append(b, Head(q)) ELSE b]
      /\ UNCHANGED <<delivered, iter, ctx_queue, events_on, to_resend, version>>
  BY <1>1 DEF SubGet
<1>3. Head(q) \in Entries /\ ToSet(q) = {Head(q)} \cup ToSet(Tail(q))
  BY <1>2, HeadAndTail
<1>4. ToSet(Append(b, Head(q))) = ToSet(b) \cup {Head(q)}
  BY <1>3, Appended
<1>5. Shown(s) \/ InContext(s) \/ Marked(s) => Shown(s)' \/ InContext(s)' \/ Marked(s)'
  BY <1>2 DEF Shown, InContext, Marked
<1>6. Blocked(s) \/ Ahead(s) => Blocked(s)' \/ Ahead(s)'
  BY <1>2 DEF Blocked, Ahead
<1>7. CASE s.circuit # c
  <2>1. batch'[s.circuit] = batch[s.circuit] /\ subscription_queue'[s.circuit] = subscription_queue[s.circuit]
    BY <1>0, <1>2, <1>7 DEF TypeOK
  <2>2. InBatch(s) \/ InQueue(s) => InBatch(s)' \/ InQueue(s)'
    BY <1>2, <2>1 DEF InBatch, InQueue
  <2>. QED  BY <1>5, <1>6, <2>2 DEF Informed
<1>8. CASE s.circuit = c
  <2>1. subscription_queue'[c] = Tail(q) /\ batch'[c] = IF Head(q).live THEN Append(b, Head(q)) ELSE b
    BY <1>2 DEF TypeOK
  <2>2. ToSet(b) \subseteq ToSet(batch'[c]) /\ (Head(q).live => Head(q) \in ToSet(batch'[c]))
    BY <1>4, <2>1
  <2>3. InBatch(s) => InBatch(s)'
    BY <1>1, <1>2, <1>8, <2>2 DEF InBatch
  <2>4. InQueue(s) => InBatch(s)' \/ InQueue(s)'
    <3>. SUFFICES ASSUME NEW e \in ToSet(q), e.sub = s, e.ver = version, e.live
                  PROVE  InBatch(s)' \/ InQueue(s)'
      BY <1>1, <1>8 DEF InQueue
    <3>1. CASE e = Head(q)
      BY <1>2, <1>8, <2>2, <3>1 DEF InBatch
    <3>2. CASE e \in ToSet(Tail(q))
      BY <1>2, <1>8, <2>1, <3>2 DEF InQueue
    <3>. QED  BY <1>3, <3>1, <3>2
  <2>. QED  BY <1>5, <1>6, <2>3, <2>4 DEF Informed
<1>. QED  BY <1>7, <1>8

\* ... and sends the batch: the last update of s in it is the newest.
LEMMA NewsBySubSend ==
  ASSUME IInv, NEW s \in Subscriptions, Stands(s), Stands(s)', Informed(s), NEW c \in Circuits, SubSend(c)
  PROVE  Informed(s)'
<1>. USE DEF flowVars, ctxVars, dataVars
<1>. DEFINE mine == {i \in Culled(c) : batch[c][i].sub = s}
<1>0. TypeOK /\ EachHasItsOwn /\ InOrder
  BY DEF IInv
<1>1. s.circuit \in Circuits
  BY SubscriptionAssumption
<1>2. /\ batch' = [batch EXCEPT ![c] = <<>>]
      /\ UNCHANGED <<subscription_queue, iter, ctx_queue, events_on, to_resend, version>>
  BY DEF SubSend
<1>3. InQueue(s) \/ InContext(s) \/ Marked(s) => InQueue(s)' \/ InContext(s)' \/ Marked(s)'
  BY <1>2 DEF InQueue, InContext, Marked
<1>4. Blocked(s) \/ Ahead(s) => Blocked(s)' \/ Ahead(s)'
  BY <1>2 DEF Blocked, Ahead
<1>5. batch[c] \in Seq(Entries)
  BY <1>0 DEF TypeOK
<1>6. CASE s.circuit # c
  <2>1. batch'[s.circuit] = batch[s.circuit]
    BY <1>0, <1>1, <1>2, <1>6 DEF TypeOK
  <2>2. delivered'[s] = delivered[s]
    <3>1. OwnUpdates(c) /\ OwnSubscriptions(c)
      BY <1>0 DEF EachHasItsOwn
    <3>. QED  BY <1>0, <1>6, <3>1, SubSendFields
  <2>3. Shown(s) \/ InBatch(s) => Shown(s)' \/ InBatch(s)'
    BY <1>2, <2>1, <2>2 DEF Shown, InBatch
  <2>. QED  BY <1>3, <1>4, <2>3 DEF Informed
<1>7. CASE s.circuit = c
  <2>1. sub_task'[c] # "failed"
    BY <1>7 DEF Stands
  <2>2. ~(sub_task' = [sub_task EXCEPT ![c] = "failed"])
    BY <1>0, <2>1 DEF TypeOK
  <2>3. delivered' = [t \in Subscriptions |->
          LET its == {i \in Culled(c) : batch[c][i].sub = t} IN
          IF its = {} THEN delivered[t] ELSE batch[c][Max(its)].ver]
    BY <2>2 DEF SubSend
  <2>4. delivered'[s] = IF mine = {} THEN delivered[s] ELSE batch[c][Max(mine)].ver
    BY <2>3
  <2>5. mine \in SUBSET (1..Len(batch[c])) /\ Len(batch[c]) \in Nat
    BY <1>5 DEF Culled
  <2>6. ASSUME NEW e \in ToSet(batch[c]), e.sub = s
        PROVE  \E i \in mine : batch[c][i] = e
    <3>1. PICK i \in DOMAIN batch[c] : batch[c][i] = e
      BY <2>6 DEF ToSet
    <3>2. s \in subscriptions[c]
      BY <1>7 DEF Stands
    <3>. QED  BY <2>6, <3>1, <3>2 DEF Culled
  <2>7. \A i \in mine : batch[c][i] \in ToSet(batch[c]) /\ i \in DOMAIN batch[c]
    BY <1>5, <2>5 DEF ToSet
  <2>. HIDE DEF mine
  <2>8. CircuitInOrder(c) /\ SentInOrder(s)
    BY <1>0 DEF InOrder
  <2>9. CASE mine = {}
    <3>1. ~InBatch(s)
      BY <1>7, <2>6, <2>9 DEF InBatch
    <3>2. Shown(s) => Shown(s)'
      BY <1>2, <2>4, <2>9 DEF Shown
    <3>. QED  BY <1>3, <1>4, <3>1, <3>2 DEF Informed
  <2>10. CASE mine # {}
    <3>1. PICK m \in mine : m = Max(mine) /\ \A i \in mine : i <= m
      BY <2>5, <2>10, Latest
    <3>2. PICK e \in ToSet(batch[c]) : e = batch[c][m]
      BY <2>7, <3>1
    <3>3. e \in Entries
      BY <1>5, <2>7, <3>1, <3>2
    <3>4. e.ver \in Nat /\ version \in Nat
      BY <1>0, <3>3, Versions, BoundAssumption DEF Entries
    <3>5. e.ver <= version
      BY <2>8, <3>2 DEF CircuitInOrder, NotAfter
    <3>6. Shown(s) => version <= e.ver
      BY <1>7, <2>8, <3>2 DEF Shown, SentInOrder
    <3>7. InBatch(s) => version <= e.ver
      <4>. SUFFICES ASSUME NEW f \in ToSet(batch[c]), f.sub = s, f.ver = version PROVE version <= e.ver
        BY <1>7 DEF InBatch
      <4>1. PICK i \in mine : batch[c][i] = f
        BY <2>6
      <4>2. i <= m /\ i \in DOMAIN batch[c] /\ m \in DOMAIN batch[c]
        BY <2>7, <3>1, <4>1
      <4>. QED  BY <2>8, <3>2, <4>1, <4>2 DEF CircuitInOrder, Ascending
    <3>8. delivered'[s] = e.ver
      BY <2>4, <2>10, <3>1, <3>2
    <3>9. Shown(s) \/ InBatch(s) => Shown(s)'
      BY <1>2, <3>4, <3>5, <3>6, <3>7, <3>8 DEF Shown
    <3>. QED  BY <1>3, <1>4, <3>9 DEF Informed
  <2>. QED  BY <2>9, <2>10
<1>. QED  BY <1>6, <1>7

\* Every step leaves the latest value somewhere.
LEMMA NewsStep ==
  ASSUME IInv, PutsAreAlive, PutsAreAlive', LatestNewsIsKept, [Next]_vars
  PROVE  LatestNewsIsKept'
<1>0. TypeOK /\ AddingIsHeld /\ EachHasItsOwn /\ WantedIsRegistered /\ InOrder /\ ContextInOrder
  BY DEF IInv, InOrder
<1>. SUFFICES ASSUME NEW s \in Subscriptions, Stands(s)' PROVE Informed(s)'
  BY NewsNext
<1>1. CASE Subscribe(<<s>>)
  <2>1. <<s>> \in Seq(Subscriptions) /\ s \in ToSet(<<s>>)
    BY Single
  <2>2. InContext(s)'
    BY <1>0, <1>1, <2>1, NewsSubscribed
  <2>. QED  BY <2>2 DEF Informed
<1>2. CASE Stands(s)
  <2>1. Informed(s)
    BY <1>2, NewsParts
  <2>2. CASE UNCHANGED <<version, delivered, batch, subscription_queue, ctx_queue, iter, events_on, to_resend>>
    <3>1. Marked(s) => Marked(s)'
      BY <2>2 DEF Marked
    <3>. QED  BY <2>1, <2>2, <3>1, NewsUntouched
  <2>3. CASE Publish
    <3>1. s.spec \in registered
      <4>1. s.circuit \in Circuits /\ s \in subscriptions[s.circuit] /\ adding[s.circuit] # s
        BY <1>2, SubscriptionAssumption DEF Stands
      <4>. QED  BY <1>0, <4>1 DEF WantedIsRegistered
    <3>2. InContext(s)'
      BY <1>0, <2>3, <3>1, NewsPublished
    <3>. QED  BY <3>2 DEF Informed
  <2>4. CASE ContextLoop
    <3>1. ~CtxFails
      BY DEF Stands, CtxFails
    <3>. QED  BY <1>0, <1>2, <2>1, <2>4, <3>1, NewsByCtxGet, NewsByCtxSend, NewsByCtxPut, NewsByCtxNext
              DEF ContextLoop
  <2>5. ASSUME NEW c \in Circuits,
               \/ EventAdd(c) \/ EventAddResumes(c) \/ EventCancel(c) \/ ClearChannel(c) \/ EventsOn(c)
        PROVE  Informed(s)'
    BY <1>2, <2>1, <2>5, NewsByCommand
  <2>6. ASSUME NEW c \in Circuits, EventsOff(c) \/ SubGet(c) \/ SubSend(c) PROVE Informed(s)'
    BY <1>0, <1>2, <2>1, <2>6, NewsByEventsOff, NewsBySubGet, NewsBySubSend
  <2>. QED  BY <2>2, <2>3, <2>4, <2>5, <2>6, NewsSteps
<1>. QED  BY <1>0, <1>1, <1>2, StandsSteps

\* At first nobody has subscribed.
LEMMA InitNews == Init => LatestNewsIsKept
<1>1. ASSUME Init, NEW s \in Subscriptions PROVE ~Stands(s)
  BY <1>1, SubscriptionAssumption DEF Init, Stands
<1>. QED  BY <1>1, NewsParts

\* A slow client may miss old values but not the latest one, whatever clients
\* do and however small the queues are, as long as no EventsOff comes while
\* the Context is blocked in a put to that circuit (subscription_queue_loop
\* of the Context, unexpired_updates and subscriptions_to_resend of circuits).
THEOREM NewsKept == Spec /\ []PutsAreAlive => []LatestNewsIsKept
<1>1. IInv /\ PutsAreAlive /\ PutsAreAlive' /\ LatestNewsIsKept /\ [Next]_vars => LatestNewsIsKept'
  BY NewsStep
<1>. QED  BY <1>1, InitNews, InvHolds, PTL DEF Spec

\* Clients that do not turn events off: no such request ever waits.
NeverOff == \A c \in Circuits : \A i \in DOMAIN command_queue[c] : command_queue[c][i].kind # "EventsOff"

\* A client sends only what it may.
LEMMA NeverOffStep ==
  ASSUME "EventsOff" \notin ClientMay, TypeOK, NeverOff, [Next]_vars
  PROVE  NeverOff'
<1>0. command_queue \in [Circuits -> Seq(Commands)]
  BY DEF TypeOK
<1>1. ASSUME NEW c \in Circuits, NEW cmd \in Commands, cmd.kind # "EventsOff",
             command_queue' = [command_queue EXCEPT ![c] = Append(command_queue[c], cmd)]
      PROVE  NeverOff'
  <2>1. \A d \in Circuits : d # c => command_queue'[d] = command_queue[d]
    BY <1>0, <1>1
  <2>2. command_queue'[c] = Append(command_queue[c], cmd) /\ command_queue[c] \in Seq(Commands)
    BY <1>0, <1>1
  <2>3. \A i \in DOMAIN command_queue'[c] : command_queue'[c][i].kind # "EventsOff"
    BY <1>1, <2>2, Appended DEF NeverOff
  <2>. QED  BY <2>1, <2>3 DEF NeverOff
<1>2. ASSUME NEW c \in Circuits, Recv(c) PROVE NeverOff'
  <2>1. PICK cmd \in HonestCommands(c) :
          /\ cmd.kind \in ClientMay
          /\ command_queue' = [command_queue EXCEPT ![c] = Append(command_queue[c], cmd)]
    BY <1>2 DEF Recv
  <2>2. cmd \in Commands
    BY <1>2, HonestFields DEF Recv
  <2>. QED  BY <1>1, <2>1, <2>2
<1>3. ASSUME NEW c \in Circuits, RecvEOF(c) PROVE NeverOff'
  <2>1. PICK cmd : cmd = [kind |-> "DISCONNECTED"]
    OBVIOUS
  <2>2. cmd \in Commands /\ cmd.kind # "EventsOff"
    BY <2>1 DEF Commands
  <2>3. command_queue' = [command_queue EXCEPT ![c] = Append(command_queue[c], cmd)]
    BY <1>3, <2>1 DEF RecvEOF
  <2>. QED  BY <1>1, <2>2, <2>3
<1>4. ASSUME NEW c \in Circuits, NEW k, Take(c, k) PROVE NeverOff'
  <2>1. command_queue[c] # <<>> /\ command_queue' = [command_queue EXCEPT ![c] = Tail(command_queue[c])]
    BY <1>4 DEF Take
  <2>2. command_queue[c] \in Seq(Commands) /\ command_queue'[c] = Tail(command_queue[c])
    BY <1>0, <2>1
  <2>3. \A i \in DOMAIN command_queue'[c] : command_queue'[c][i].kind # "EventsOff"
    BY <2>1, <2>2 DEF NeverOff
  <2>4. \A d \in Circuits : d # c => command_queue'[d] = command_queue[d]
    BY <1>0, <2>1
  <2>. QED  BY <2>3, <2>4 DEF NeverOff
<1>5. CASE UNCHANGED command_queue
  BY <1>5 DEF NeverOff
<1>. QED  BY <1>2, <1>3, <1>4, <1>5, QueueSteps

\* Only EventsOff destroys an update whose put is blocked.
LEMMA AliveStep ==
  ASSUME TypeOK, NeverOff, PutsAreAlive, [Next]_vars
  PROVE  PutsAreAlive'
<1>1. UNCHANGED iter => PutsAreAlive'
  BY DEF PutsAreAlive
<1>2. ASSUME NEW c \in Circuits, EventsOff(c) PROVE FALSE
  <2>1. command_queue[c] # <<>> /\ Head(command_queue[c]).kind = "EventsOff"
    BY <1>2 DEF EventsOff, Take
  <2>2. command_queue[c] \in Seq(Commands)
    BY DEF TypeOK
  <2>3. Head(command_queue[c]) = command_queue[c][1] /\ 1 \in DOMAIN command_queue[c]
    BY <2>1, <2>2, HeadAndTail
  <2>. QED  BY <2>1, <2>3 DEF NeverOff
<1>3. ASSUME NEW c \in Circuits, EventAdd(c) \/ EventAddResumes(c) \/ EventsOn(c) PROVE UNCHANGED iter
  BY <1>3 DEF EventAdd, EventAddResumes, EventsOn, ctxVars
<1>4. CASE CtxGet
  BY <1>4, CtxGetFields DEF PutsAreAlive
<1>5. CASE CtxSend
  <2>1. PICK sub \in Subscriptions, list \in Seq(Entries), entry \in Entries : SendsTo(sub, list, entry)
    BY <1>5, SendFields
  <2>2. iter'.put \in {None, entry} /\ entry.live
    BY Zenon, <2>1 DEF SendsTo
  <2>. QED  BY <2>2 DEF PutsAreAlive
<1>6. CASE CtxPut
  <2>1. iter'.put = None
    BY <1>6, CtxPutFields
  <2>. QED  BY <2>1 DEF PutsAreAlive
<1>7. CASE CtxNext \/ CtxFails
  BY <1>7 DEF CtxNext, CtxFails, PutsAreAlive
<1>. QED  BY <1>1, <1>2, <1>3, <1>4, <1>5, <1>6, <1>7, ContextSteps DEF ContextLoop

\* Where clients never turn events off, nothing is left to assume.
THEOREM NewsKeptWhileOn ==
  ASSUME "EventsOff" \notin ClientMay PROVE Spec => []LatestNewsIsKept
<1>1. Init => NeverOff /\ PutsAreAlive
  BY DEF Init, NeverOff, PutsAreAlive
<1>2. TypeOK /\ NeverOff /\ PutsAreAlive /\ [Next]_vars => NeverOff' /\ PutsAreAlive'
  BY NeverOffStep, AliveStep
<1>. QED  BY <1>1, <1>2, TypeCorrect, NewsKept, PTL DEF Spec
=============================================================================
