------------------------ MODULE AsyncioClientProofs ------------------------
(***************************************************************************)
(* What holds of the asyncio client for any number of PVs and servers, any *)
(* losses and any delays: nobody is forgotten, nobody is connected twice,  *)
(* and no result outlives its server.                                      *)
(***************************************************************************)
EXTENDS AsyncioClient, FiniteSetTheorems, WellFoundedInduction, TLAPS

\* The order of the natural numbers as a relation.
Below == {p \in Nat \X Nat : p[1] < p[2]}

\* A set of natural numbers has a smallest element.
LEMMA Smallest ==
  ASSUME NEW S \in SUBSET Nat, S # {}
  PROVE  \E x \in S : \A y \in S : x <= y
<1>1. IsWellFoundedOn(Below, Nat)
  BY NatLessThanWellFounded DEF OpToRel, Below
<1>2. PICK x \in S : \A y \in S : ~(<<y, x>> \in Below)
  BY <1>1, WFMin
<1>3. \A y \in S : x <= y
  <2>. SUFFICES ASSUME NEW y \in S, y < x PROVE FALSE
    OBVIOUS
  <2>1. <<y, x>> \in Below
    BY DEF Below
  <2>. QED  BY <1>2, <2>1
<1>. QED  BY <1>3

\* The image of a finite set is finite.
LEMMA FiniteImage ==
  ASSUME NEW S, IsFiniteSet(S), NEW T, NEW f \in [S -> T], \A t \in T : \E x \in S : f[x] = t
  PROVE  IsFiniteSet(T)
<1>1. f \in Surjection(S, T)
  BY DEF Surjection
<1>. QED  BY <1>1, FS_Surjection

\* SetToSeq lists the elements of a finite set, each once.
LEMMA Listed ==
  ASSUME NEW S, IsFiniteSet(S)
  PROVE  /\ SetToSeq(S) \in Seq(S)
         /\ ToSet(SetToSeq(S)) = S
         /\ \A i, j \in DOMAIN SetToSeq(S) : SetToSeq(S)[i] = SetToSeq(S)[j] => i = j
<1>. DEFINE n == Cardinality(S)
            list == SetToSeq(S)
<1>1. n \in Nat /\ ExistsBijection(1..n, S)
  BY FS_CardinalityType
<1>2. PICK f \in Bijection(1..n, S) : TRUE
  BY <1>1 DEF ExistsBijection
<1>3. f \in [1..n -> S] /\ IsInjective(f)
  BY <1>2 DEF Bijection, Injection
<1>4. list \in [1..n -> S] /\ IsInjective(list)
  BY <1>3 DEF SetToSeq
<1>5. list \in Injection(1..n, S)
  BY <1>4 DEF Injection
<1>6. IsFiniteSet(1..n) /\ Cardinality(1..n) = n
  BY <1>1, FS_Interval
<1>7. list \in Surjection(1..n, S)
  BY <1>5, <1>6, FS_Injection
<1>. HIDE DEF n, list
<1>8. list \in Seq(S)
  BY <1>1, <1>4
<1>9. ToSet(list) = S
  BY <1>4, <1>7 DEF ToSet, Surjection
<1>10. \A i, j \in DOMAIN list : list[i] = list[j] => i = j
  BY <1>4 DEF IsInjective
<1>. QED  BY <1>8, <1>9, <1>10 DEF list

\* The end of a sequence leaves its beginning alone.
LEMMA Extended ==
  ASSUME NEW S, NEW s \in Seq(S), NEW t \in Seq(S)
  PROVE  /\ s \o t \in Seq(S) /\ Len(s \o t) = Len(s) + Len(t)
         /\ \A i \in DOMAIN s : i \in DOMAIN (s \o t) /\ (s \o t)[i] = s[i]
         /\ \A i \in DOMAIN t : Len(s) + i \in DOMAIN (s \o t) /\ (s \o t)[Len(s) + i] = t[i]
         /\ ToSet(s \o t) = ToSet(s) \cup ToSet(t)
<1>1. /\ s \o t \in Seq(S) /\ Len(s \o t) = Len(s) + Len(t)
      /\ \A i \in DOMAIN s : i \in DOMAIN (s \o t) /\ (s \o t)[i] = s[i]
      /\ \A i \in DOMAIN t : Len(s) + i \in DOMAIN (s \o t) /\ (s \o t)[Len(s) + i] = t[i]
  OBVIOUS
<1>2. \A i \in DOMAIN (s \o t) : i \in DOMAIN s \/ (i - Len(s) \in DOMAIN t /\ (s \o t)[i] = t[i - Len(s)])
  OBVIOUS
<1>3. ASSUME NEW x \in ToSet(s \o t) PROVE x \in ToSet(s) \cup ToSet(t)
  <2>1. PICK i \in DOMAIN (s \o t) : x = (s \o t)[i]
    BY <1>3 DEF ToSet
  <2>2. CASE i \in DOMAIN s
    BY <1>1, <2>1, <2>2 DEF ToSet
  <2>3. CASE i \notin DOMAIN s
    <3>1. i - Len(s) \in DOMAIN t /\ x = t[i - Len(s)]
      BY <1>2, <2>1, <2>3
    <3>. QED  BY <3>1 DEF ToSet
  <2>. QED  BY <2>2, <2>3
<1>4. ASSUME NEW x \in ToSet(s) \cup ToSet(t) PROVE x \in ToSet(s \o t)
  BY <1>1, <1>4 DEF ToSet
<1>. QED  BY <1>1, <1>3, <1>4

\* One more element.
LEMMA Appended ==
  ASSUME NEW S, NEW s \in Seq(S), NEW e \in S
  PROVE  /\ Append(s, e) \in Seq(S) /\ Len(Append(s, e)) = Len(s) + 1
         /\ DOMAIN Append(s, e) = DOMAIN s \cup {Len(s) + 1} /\ Len(s) + 1 \notin DOMAIN s
         /\ \A i \in DOMAIN s : Append(s, e)[i] = s[i]
         /\ Append(s, e)[Len(s) + 1] = e
         /\ ToSet(Append(s, e)) = ToSet(s) \cup {e}
<1>1. /\ Append(s, e) \in Seq(S) /\ Len(Append(s, e)) = Len(s) + 1
      /\ DOMAIN Append(s, e) = DOMAIN s \cup {Len(s) + 1} /\ Len(s) + 1 \notin DOMAIN s
      /\ \A i \in DOMAIN s : Append(s, e)[i] = s[i]
      /\ Append(s, e)[Len(s) + 1] = e
  OBVIOUS
<1>. QED  BY <1>1 DEF ToSet

\* The first element and the others.
LEMMA HeadAndTail ==
  ASSUME NEW S, NEW s \in Seq(S), s # <<>>
  PROVE  /\ Head(s) \in S /\ Tail(s) \in Seq(S)
         /\ Head(s) = s[1] /\ 1 \in DOMAIN s
         /\ \A i \in DOMAIN s : i # 1 => i - 1 \in DOMAIN Tail(s) /\ Tail(s)[i - 1] = s[i]
         /\ ToSet(s) = {Head(s)} \cup ToSet(Tail(s))
<1>1. /\ Head(s) \in S /\ Tail(s) \in Seq(S)
      /\ Head(s) = s[1] /\ 1 \in DOMAIN s
      /\ \A i \in DOMAIN s : i # 1 => i - 1 \in DOMAIN Tail(s) /\ Tail(s)[i - 1] = s[i]
  OBVIOUS
<1>2. \A i \in DOMAIN Tail(s) : i + 1 \in DOMAIN s /\ Tail(s)[i] = s[i + 1]
  OBVIOUS
<1>3. ASSUME NEW x \in ToSet(s) PROVE x \in {Head(s)} \cup ToSet(Tail(s))
  <2>1. PICK i \in DOMAIN s : x = s[i]
    BY <1>3 DEF ToSet
  <2>. QED  BY <1>1, <2>1 DEF ToSet
<1>4. ASSUME NEW x \in {Head(s)} \cup ToSet(Tail(s)) PROVE x \in ToSet(s)
  BY <1>1, <1>2, <1>4 DEF ToSet
<1>. QED  BY <1>1, <1>3, <1>4

\* A list of elements of a set is a list of elements of a larger one.
LEMMA Widened ==
  ASSUME NEW S, NEW T, S \subseteq T, NEW s \in Seq(S)
  PROVE  s \in Seq(T)
<1>. QED  OBVIOUS

Results  == [addr : Addrs, name : Names]
Searches == [name : Names, open : BOOLEAN]
Tables   == [Names -> [Addrs -> Ages]]

\* A PV is known by its name and its priority.
LEMMA PvFacts ==
  ASSUME NEW p \in PVs
  PROVE  /\ p.name \in Names /\ p.priority \in Priorities
         /\ p = [name |-> p.name, priority |-> p.priority]
<1>1. p.name \in Names /\ p.priority \in Priorities
  BY DEF Names, Priorities
<1>2. p \in [name : Names, priority : Priorities]
  BY PvAssumption
<1>. QED  BY <1>1, <1>2

LEMMA NamesFinite ==
  ASSUME NEW S \in SUBSET PVs
  PROVE  IsFiniteSet(S) /\ IsFiniteSet({p.name : p \in S}) /\ {p.name : p \in S} \subseteq Names
<1>1. IsFiniteSet(S)
  BY PvAssumption, FS_Subset
<1>. DEFINE T == {p.name : p \in S}
            f == [p \in S |-> p.name]
<1>2. f \in [S -> T] /\ \A t \in T : \E x \in S : f[x] = t
  OBVIOUS
<1>3. IsFiniteSet(T)
  BY ONLY <1>1, <1>2, FiniteImage
<1>. QED  BY <1>1, <1>3, PvFacts

\* The parts of TypeOK about circuits, field by field.
LEMMA CircuitFields ==
  ASSUME NEW c \in Circuit
  PROVE  /\ c.addr \in Addrs /\ c.priority \in Priorities /\ c.peer \in BOOLEAN
         /\ c.state \in {"connecting", "open", "ready", "failed", "dead"}
         /\ c.channels \in Seq(PVs) /\ c.queued \in SUBSET PVs /\ c.inbox \in Seq(Messages)
         /\ c = [addr |-> c.addr, priority |-> c.priority, state |-> c.state, peer |-> c.peer,
                 channels |-> c.channels, queued |-> c.queued, inbox |-> c.inbox]
<1>. QED  BY DEF Circuit

LEMMA CircuitType ==
  ASSUME NEW a \in Addrs, NEW i \in Priorities, NEW peer \in BOOLEAN,
         NEW state \in {"connecting", "open", "ready", "failed", "dead"},
         NEW chans \in Seq(PVs), NEW queued \in SUBSET PVs, NEW inbox \in Seq(Messages)
  PROVE  [addr |-> a, priority |-> i, state |-> state, peer |-> peer,
          channels |-> chans, queued |-> queued, inbox |-> inbox] \in Circuit
<1>. QED  BY DEF Circuit

\* One circuit changes, the others and their order do not.
LEMMA CircuitExcept ==
  ASSUME NEW cs \in Seq(Circuit), NEW k \in DOMAIN cs, NEW c \in Circuit, NEW ds,
         ds = [cs EXCEPT ![k] = c]
  PROVE  /\ ds \in Seq(Circuit) /\ Len(ds) = Len(cs) /\ DOMAIN ds = DOMAIN cs
         /\ ds[k] = c /\ \A j \in DOMAIN cs : j # k => ds[j] = cs[j]
<1>. QED  OBVIOUS

---------------------------------------------------------------------------
(***************************************************************************)
(* A search is answered from the cache or becomes one of the unanswered.   *)
(***************************************************************************)

\* The results and searches that there were stay where they are.
LEMMA SearchFacts ==
  ASSUME results \in Seq(Results), searches \in Seq(Searches),
         NEW table \in Tables, NEW ns \in SUBSET Names, IsFiniteSet(ns), Search(table, ns)
  PROVE  /\ name_to_addrs' \in Tables
         /\ \A n \in Names, a \in Addrs : name_to_addrs'[n][a] = "VALID" => table[n][a] = "VALID"
         /\ results' \in Seq(Results) /\ searches' \in Seq(Searches) /\ Len(searches') >= Len(searches)
         /\ \A i \in DOMAIN results : i \in DOMAIN results' /\ results'[i] = results[i]
         /\ \A i \in DOMAIN searches : i \in DOMAIN searches' /\ searches'[i] = searches[i]
         /\ \A n \in ns : \/ \E m \in ns : Raises(table, m)
                          \/ \E i \in DOMAIN results' : results'[i].name = n
                          \/ \E i \in DOMAIN searches' : searches'[i].name = n /\ searches'[i].open
<1>1. ASSUME NEW cleaned \in SUBSET ns, name_to_addrs' = WithoutStale(table, cleaned)
      PROVE  /\ name_to_addrs' \in Tables
             /\ \A n \in Names, a \in Addrs : name_to_addrs'[n][a] = "VALID" => table[n][a] = "VALID"
  <2>. DEFINE new == WithoutStale(table, cleaned)
  <2>1. new \in Tables
    BY DEF WithoutStale, Tables, Ages
  <2>2. \A n \in Names, a \in Addrs : new[n][a] \in {table[n][a], "none"}
    BY DEF WithoutStale, Tables
  <2>. HIDE DEF new
  <2>3. \A n \in Names, a \in Addrs : new[n][a] = "VALID" => table[n][a] = "VALID"
    BY <2>2
  <2>. QED  BY <1>1, <2>1, <2>3 DEF new
<1>2. CASE \E n \in ns : Raises(table, n)
  <2>1. PICK cleaned \in SUBSET ns : name_to_addrs' = WithoutStale(table, cleaned)
    BY <1>2 DEF Search
  <2>2. results' = results /\ searches' = searches
    BY <1>2 DEF Search
  <2>. QED  BY <1>1, <1>2, <2>1, <2>2
<1>3. CASE ~ \E n \in ns : Raises(table, n)
  <2>. DEFINE hit == {n \in ns : Fresh(table, n) # {}}
  <2>1. name_to_addrs' = WithoutStale(table, ns)
    BY <1>3 DEF Search
  <2>2. PICK pick \in [hit -> Addrs] :
          results' = results \o SetToSeq({[addr |-> pick[n], name |-> n] : n \in hit})
    BY <1>3 DEF Search
  <2>3. searches' = searches \o SetToSeq({[name |-> n, open |-> TRUE] : n \in ns \ hit})
    BY <1>3 DEF Search
  <2>4. IsFiniteSet(hit) /\ IsFiniteSet(ns \ hit) /\ hit \subseteq Names
    BY FS_Subset
  <2>. HIDE DEF hit
  <2>. DEFINE found == {[addr |-> pick[n], name |-> n] : n \in hit}
              asked == {[name |-> n, open |-> TRUE] : n \in ns \ hit}
  <2>5. IsFiniteSet(found) /\ found \subseteq Results
    <3>. DEFINE f == [n \in hit |-> [addr |-> pick[n], name |-> n]]
    <3>1. f \in [hit -> found] /\ \A t \in found : \E x \in hit : f[x] = t
      OBVIOUS
    <3>2. found \subseteq Results
      BY <2>4 DEF Results
    <3>. HIDE DEF f, found
    <3>3. IsFiniteSet(found)
      BY <2>4, <3>1, FiniteImage
    <3>. QED  BY <3>2, <3>3
  <2>6. IsFiniteSet(asked) /\ asked \subseteq Searches
    <3>. DEFINE f == [n \in ns \ hit |-> [name |-> n, open |-> TRUE]]
    <3>1. f \in [ns \ hit -> asked] /\ \A t \in asked : \E x \in ns \ hit : f[x] = t
      OBVIOUS
    <3>2. asked \subseteq Searches
      <4>1. ASSUME NEW n \in ns PROVE [name |-> n, open |-> TRUE] \in Searches
        BY DEF Searches
      <4>. QED  BY <4>1
    <3>. HIDE DEF f, asked
    <3>3. IsFiniteSet(asked)
      BY <2>4, <3>1, FiniteImage
    <3>. QED  BY <3>2, <3>3
  <2>. HIDE DEF found, asked
  <2>7. SetToSeq(found) \in Seq(Results) /\ ToSet(SetToSeq(found)) = found
    BY <2>5, Listed, Widened
  <2>8. SetToSeq(asked) \in Seq(Searches) /\ ToSet(SetToSeq(asked)) = asked
    BY <2>6, Listed, Widened
  <2>9. /\ results' \in Seq(Results) /\ ToSet(results') = ToSet(results) \cup found
        /\ \A i \in DOMAIN results : i \in DOMAIN results' /\ results'[i] = results[i]
    <3>. DEFINE t == SetToSeq(found)
    <3>0. t \in Seq(Results)
      BY <2>7
    <3>. HIDE DEF t
    <3>1. /\ results \o t \in Seq(Results) /\ ToSet(results \o t) = ToSet(results) \cup ToSet(t)
          /\ \A i \in DOMAIN results : i \in DOMAIN (results \o t) /\ (results \o t)[i] = results[i]
      BY <3>0, Extended
    <3>2. results' = results \o t /\ ToSet(t) = found
      BY <2>2, <2>7 DEF t, found
    <3>. QED  BY <3>1, <3>2
  <2>10. /\ searches' \in Seq(Searches) /\ ToSet(searches') = ToSet(searches) \cup asked
         /\ \A i \in DOMAIN searches : i \in DOMAIN searches' /\ searches'[i] = searches[i]
         /\ Len(searches') >= Len(searches)
    <3>1. /\ searches' \in Seq(Searches) /\ ToSet(searches') = ToSet(searches) \cup asked
          /\ \A i \in DOMAIN searches : i \in DOMAIN searches' /\ searches'[i] = searches[i]
          /\ Len(searches') = Len(searches) + Len(SetToSeq(asked))
      <4>. DEFINE t == SetToSeq(asked)
      <4>0. t \in Seq(Searches)
        BY <2>8
      <4>. HIDE DEF t
      <4>1. /\ searches \o t \in Seq(Searches) /\ ToSet(searches \o t) = ToSet(searches) \cup ToSet(t)
            /\ \A i \in DOMAIN searches : i \in DOMAIN (searches \o t) /\ (searches \o t)[i] = searches[i]
            /\ Len(searches \o t) = Len(searches) + Len(t)
        BY <4>0, Extended
      <4>2. searches' = searches \o t /\ ToSet(t) = asked
        BY <2>3, <2>8 DEF t, asked
      <4>. QED  BY <4>1, <4>2, Zenon DEF t
    <3>2. Len(SetToSeq(asked)) \in Nat /\ Len(searches) \in Nat
      BY <2>8
    <3>. QED  BY <3>1, <3>2
  <2>11. ASSUME NEW n \in ns
         PROVE  \/ \E i \in DOMAIN results' : results'[i].name = n
                \/ \E i \in DOMAIN searches' : searches'[i].name = n /\ searches'[i].open
    <3>1. CASE n \in hit
      <4>1. [addr |-> pick[n], name |-> n] \in ToSet(results')
        BY <2>9, <3>1 DEF found
      <4>2. PICK i \in DOMAIN results' : results'[i] = [addr |-> pick[n], name |-> n]
        BY <4>1 DEF ToSet
      <4>. QED  BY <4>2
    <3>2. CASE n \notin hit
      <4>1. [name |-> n, open |-> TRUE] \in ToSet(searches')
        BY <2>10, <2>11, <3>2 DEF asked
      <4>2. PICK i \in DOMAIN searches' : searches'[i] = [name |-> n, open |-> TRUE]
        BY <4>1 DEF ToSet
      <4>. QED  BY <4>2
    <3>. QED  BY <3>1, <3>2
  <2>12. /\ name_to_addrs' \in Tables
         /\ \A n \in Names, a \in Addrs : name_to_addrs'[n][a] = "VALID" => table[n][a] = "VALID"
    BY <1>1, <2>1
  <2>. QED  BY <2>9, <2>10, <2>11, <2>12
<1>. QED  BY <1>2, <1>3

---------------------------------------------------------------------------
(***************************************************************************)
(* The inductive invariant: what circuits and PVs know of each other.      *)
(***************************************************************************)

ChannelsAreKnown == \A k \in DOMAIN circuits : ToSet(circuits[k].channels) \subseteq known

\* A PV is on the circuit it refers to, as long as that lives.
ManagerHasPv ==
  \A p \in PVs : circuit_manager[p] # 0 /\ circuits[circuit_manager[p]].state # "dead"
                   => p \in ToSet(circuits[circuit_manager[p]].channels)

ChannelIsAlive ==
  \A p \in PVs : channel[p] # 0 => /\ circuits[channel[p]].state # "dead"
                                   /\ p \in ToSet(circuits[channel[p]].channels)

\* What was kept to be sent, and what the server answered, is about the
\* circuit's own PVs.
MailIsOwn ==
  \A k \in DOMAIN circuits : circuits[k].state # "dead" =>
    /\ circuits[k].queued \subseteq ToSet(circuits[k].channels)
    /\ \A m \in ToSet(circuits[k].inbox) :
         m.class = "CreateChan" => m.pv \in ToSet(circuits[k].channels)

QuietAtFirst ==
  \A k \in DOMAIN circuits :
    circuits[k].state = "connecting" => circuits[k].inbox = <<>> /\ ~circuits[k].peer

Ties == /\ OneChannelPerPv /\ ChannelsAreKnown /\ ManagerHasPv /\ ChannelIsAlive
        /\ MailIsOwn /\ QuietAtFirst

---------------------------------------------------------------------------
(***************************************************************************)
(* Steps that leave the circuits alone.                                    *)
(***************************************************************************)

\* TypeOK in the words of this module.
LEMMA Typed ==
  TypeOK <=>
    /\ known \subseteq PVs /\ needing \subseteq known
    /\ results \in Seq(Results) /\ search_loop \in {"run", "ended"}
    /\ name_to_addrs \in Tables /\ addr_to_names \in [Addrs -> SUBSET Names]
    /\ searches \in Seq(Searches)
    /\ answers \subseteq [id : 1..Len(searches), addr : Addrs]
    /\ circuits \in Seq(Circuit)
    /\ circuit_manager \in [PVs -> 0..Len(circuits)] /\ channel \in [PVs -> 0..Len(circuits)]
    /\ world \in Worlds /\ up \subseteq Addrs
    /\ faults \in 0..world.faults /\ giveups \in 0..world.giveups
    /\ left \in [PVs -> Failures \cup {None}]
<1>. QED  BY DEF TypeOK, Results, Searches, Tables

LEMMA InitType == Init => TypeOK
<1>. SUFFICES ASSUME Init PROVE TypeOK
  OBVIOUS
<1>1. world \in World
  BY WorldAssumption DEF Init
<1>2. world.faults \in Nat /\ world.giveups \in Nat
  BY <1>1 DEF World
<1>3. results = <<>> /\ searches = <<>> /\ circuits = <<>>
  BY DEF Init
<1>4. results \in Seq(Results) /\ searches \in Seq(Searches) /\ circuits \in Seq(Circuit) /\ Len(circuits) = 0
  BY <1>3
<1>5. name_to_addrs \in Tables
  BY DEF Init, Tables, Ages
<1>. QED  BY <1>2, <1>4, <1>5, Typed DEF Init

LEMMA GetPvFacts ==
  ASSUME TypeOK, NEW p \in PVs, GetPv(p)
  PROVE  /\ TypeOK' /\ name_to_addrs \in Tables
         /\ \A n \in Names, a \in Addrs : name_to_addrs'[n][a] = "VALID" => name_to_addrs[n][a] = "VALID"
         /\ \A i \in DOMAIN results : i \in DOMAIN results' /\ results'[i] = results[i]
         /\ \A i \in DOMAIN searches : i \in DOMAIN searches' /\ searches'[i] = searches[i]
         /\ \/ left'[p] # None
            \/ \E i \in DOMAIN results' : results'[i].name = p.name
            \/ \E i \in DOMAIN searches' : searches'[i].name = p.name /\ searches'[i].open
<1>1. Search(name_to_addrs, {p.name}) /\ {p.name} \in SUBSET Names /\ IsFiniteSet({p.name})
  BY PvFacts, FS_Singleton DEF GetPv
<1>2. results \in Seq(Results) /\ searches \in Seq(Searches) /\ name_to_addrs \in Tables
  BY Typed
<1>3. /\ name_to_addrs' \in Tables
      /\ \A n \in Names, a \in Addrs : name_to_addrs'[n][a] = "VALID" => name_to_addrs[n][a] = "VALID"
      /\ results' \in Seq(Results) /\ searches' \in Seq(Searches) /\ Len(searches') >= Len(searches)
      /\ \A i \in DOMAIN results : i \in DOMAIN results' /\ results'[i] = results[i]
      /\ \A i \in DOMAIN searches : i \in DOMAIN searches' /\ searches'[i] = searches[i]
      /\ \/ Raises(name_to_addrs, p.name)
         \/ \E i \in DOMAIN results' : results'[i].name = p.name
         \/ \E i \in DOMAIN searches' : searches'[i].name = p.name /\ searches'[i].open
  <2>. DEFINE ns == {p.name}
  <2>0. Search(name_to_addrs, ns) /\ ns \in SUBSET Names /\ IsFiniteSet(ns)
    BY <1>1
  <2>1. p.name \in ns /\ \A m \in ns : m = p.name
    OBVIOUS
  <2>. HIDE DEF ns
  <2>2. /\ name_to_addrs' \in Tables
        /\ \A n \in Names, a \in Addrs : name_to_addrs'[n][a] = "VALID" => name_to_addrs[n][a] = "VALID"
        /\ results' \in Seq(Results) /\ searches' \in Seq(Searches) /\ Len(searches') >= Len(searches)
        /\ \A i \in DOMAIN results : i \in DOMAIN results' /\ results'[i] = results[i]
        /\ \A i \in DOMAIN searches : i \in DOMAIN searches' /\ searches'[i] = searches[i]
    BY <1>2, <2>0, SearchFacts
  <2>3. \A n \in ns : \/ \E m \in ns : Raises(name_to_addrs, m)
                      \/ \E i \in DOMAIN results' : results'[i].name = n
                      \/ \E i \in DOMAIN searches' : searches'[i].name = n /\ searches'[i].open
    BY <1>2, <2>0, SearchFacts
  <2>. QED  BY <2>1, <2>2, <2>3
<1>4. left' = [left EXCEPT ![p] = IF Raises(name_to_addrs, p.name) THEN "TypeError" ELSE None]
  BY DEF GetPv
<1>5. left \in [PVs -> Failures \cup {None}]
  BY DEF TypeOK
<1>6. left' \in [PVs -> Failures \cup {None}] /\ (Raises(name_to_addrs, p.name) => left'[p] = "TypeError")
  BY <1>4, <1>5 DEF Failures
<1>7. answers' = answers /\ Len(searches) \in Nat /\ Len(searches') \in Nat
  BY <1>2, <1>3 DEF GetPv
<1>8. answers' \subseteq [id : 1..Len(searches'), addr : Addrs]
  <2>1. answers \subseteq [id : 1..Len(searches), addr : Addrs]
    BY DEF TypeOK
  <2>2. 1..Len(searches) \subseteq 1..Len(searches')
    BY <1>3, <1>7
  <2>. QED  BY <1>7, <2>1, <2>2
<1>9. TypeOK'
  <2>1. known' \subseteq PVs /\ needing' \subseteq known'
    BY DEF TypeOK, GetPv
  <2>2. UNCHANGED <<search_loop, addr_to_names, circuits, circuit_manager, channel, world, up, faults, giveups>>
    BY DEF GetPv, pvs, env
  <2>. QED  BY <1>3, <1>6, <1>8, <2>1, <2>2 DEF TypeOK, Results, Searches, Tables
<1>10. "TypeError" # None
  BY NoneAssumption DEF Failures
<1>. QED  BY <1>2, <1>3, <1>6, <1>9, <1>10

LEMMA RetryFacts ==
  ASSUME TypeOK, NEW n \in Names, RetryOf(n)
  PROVE  TypeOK' /\ UNCHANGED <<ctx, tables, searches, circuits, pvs, left>>
<1>1. PICK i \in DOMAIN searches : Retry(i)
  BY DEF RetryOf
<1>2. PICK S \in SUBSET (up \cap world.hosts[searches[i].name]) :
        answers' = answers \cup {[id |-> i, addr |-> a] : a \in S}
  BY <1>1 DEF Retry
<1>3. UNCHANGED <<ctx, tables, searches, circuits, pvs, env, left>>
  BY <1>1 DEF Retry
<1>4. i \in 1..Len(searches)
  BY <1>1 DEF TypeOK
<1>5. {[id |-> i, addr |-> a] : a \in S} \subseteq [id : 1..Len(searches), addr : Addrs]
  BY <1>4 DEF TypeOK
<1>6. answers' \subseteq [id : 1..Len(searches), addr : Addrs]
  BY <1>2, <1>5 DEF TypeOK
<1>7. TypeOK'
  BY <1>3, <1>6 DEF TypeOK, ctx, tables, pvs, env
<1>. QED  BY <1>3, <1>7

LEMMA SearchResponseFacts ==
  ASSUME TypeOK, NEW r \in answers, SearchResponse(r)
  PROVE  /\ TypeOK'
         /\ \A n \in Names, a \in Addrs : name_to_addrs'[n][a] = "VALID" => name_to_addrs[n][a] = "VALID"
         /\ \A a \in Addrs : addr_to_names[a] \subseteq addr_to_names'[a]
         /\ \A n \in Names, a \in Addrs :
              n \in addr_to_names'[a] \ addr_to_names[a] => name_to_addrs'[n][a] # "VALID"
         /\ \A i \in DOMAIN results : i \in DOMAIN results' /\ results'[i] = results[i]
         /\ \A i \in DOMAIN searches : searches[i].open =>
              \/ i \in DOMAIN searches' /\ searches'[i] = searches[i]
              \/ \E j \in DOMAIN results' : results'[j].name = searches[i].name
<1>. DEFINE s == searches[r.id]
            n == s.name
            new == [name |-> n, open |-> FALSE]
            result == [addr |-> r.addr, name |-> n]
<1>1. /\ r.id \in DOMAIN searches /\ r.addr \in Addrs /\ s \in Searches
      /\ searches \in Seq(Searches) /\ results \in Seq(Results)
      /\ name_to_addrs \in Tables /\ addr_to_names \in [Addrs -> SUBSET Names]
  BY Typed
<1>2. n \in Names /\ s.open \in BOOLEAN /\ new \in Searches /\ result \in Results
  BY <1>1 DEF Searches, Results
<1>3. /\ name_to_addrs' = [name_to_addrs EXCEPT ![n][r.addr] = "fresh"]
      /\ addr_to_names' = [addr_to_names EXCEPT ![r.addr] = @ \cup {n}]
      /\ searches' = [searches EXCEPT ![r.id].open = FALSE]
      /\ results' = IF s.open THEN Append(results, result) ELSE results
  BY DEF SearchResponse
<1>4. [s EXCEPT !.open = FALSE] = new
  <2>1. ASSUME NEW q \in Searches, NEW t, t = [q EXCEPT !.open = FALSE]
        PROVE  t = [name |-> q.name, open |-> FALSE]
    BY <2>1, Zenon DEF Searches
  <2>. QED  BY <1>1, <2>1
<1>5. searches' = [searches EXCEPT ![r.id] = new]
  BY <1>3, <1>4
<1>. HIDE DEF s, n, new, result
<1>6. /\ searches' \in Seq(Searches) /\ Len(searches') = Len(searches) /\ DOMAIN searches' = DOMAIN searches
      /\ \A i \in DOMAIN searches : i # r.id => searches'[i] = searches[i]
  BY <1>1, <1>2, <1>5
<1>7. /\ results' \in Seq(Results)
      /\ \A i \in DOMAIN results : i \in DOMAIN results' /\ results'[i] = results[i]
      /\ s.open => \E j \in DOMAIN results' : results'[j] = result
  <2>1. CASE s.open
    <3>1. /\ results' \in Seq(Results) /\ DOMAIN results' = DOMAIN results \cup {Len(results) + 1}
          /\ \A i \in DOMAIN results : results'[i] = results[i]
          /\ results'[Len(results) + 1] = result
      BY <1>1, <1>2, <1>3, <2>1, Appended
    <3>. QED  BY <3>1
  <2>2. CASE ~s.open
    BY <1>1, <1>3, <2>2
  <2>. QED  BY <2>1, <2>2
<1>8. result.name = n
  BY DEF result
<1>9. /\ name_to_addrs' \in Tables
      /\ \A m \in Names, a \in Addrs : name_to_addrs'[m][a] \in {name_to_addrs[m][a], "fresh"}
      /\ name_to_addrs'[n][r.addr] = "fresh"
  <2>. DEFINE row == [name_to_addrs[n] EXCEPT ![r.addr] = "fresh"]
  <2>1. row \in [Addrs -> Ages] /\ row[r.addr] = "fresh"
        /\ \A a \in Addrs : row[a] \in {name_to_addrs[n][a], "fresh"}
    BY <1>1, <1>2 DEF Tables, Ages
  <2>2. name_to_addrs' = [name_to_addrs EXCEPT ![n] = row]
    BY <1>3
  <2>. HIDE DEF row
  <2>. QED  BY <1>1, <1>2, <2>1, <2>2 DEF Tables
<1>10. /\ addr_to_names' \in [Addrs -> SUBSET Names]
       /\ \A a \in Addrs : addr_to_names[a] \subseteq addr_to_names'[a]
       /\ \A a \in Addrs : \A m \in addr_to_names'[a] \ addr_to_names[a] : m = n /\ a = r.addr
  BY <1>1, <1>2, <1>3
<1>11. answers' \subseteq [id : 1..Len(searches'), addr : Addrs]
  BY <1>6 DEF TypeOK, SearchResponse
<1>12. faults' \in 0..world.faults
  <2>1. world.faults \in Nat
    BY WorldAssumption DEF TypeOK, World
  <2>. QED  BY <2>1 DEF TypeOK, SearchResponse, Fault
<1>13. TypeOK'
  <2>1. UNCHANGED <<known, needing, search_loop, circuits, circuit_manager, channel, world, up, giveups, left>>
    BY DEF SearchResponse, pvs
  <2>. QED  BY <1>6, <1>7, <1>9, <1>10, <1>11, <1>12, <2>1 DEF TypeOK, Results, Searches, Tables
<1>14. ASSUME NEW i \in DOMAIN searches, searches[i].open
       PROVE  \/ i \in DOMAIN searches' /\ searches'[i] = searches[i]
              \/ \E j \in DOMAIN results' : results'[j].name = searches[i].name
  <2>1. CASE i = r.id
    BY <1>7, <1>8, <1>14, <2>1 DEF s, n
  <2>2. CASE i # r.id
    BY <1>6, <2>2
  <2>. QED  BY <2>1, <2>2
<1>. QED  BY <1>7, <1>9, <1>10, <1>13, <1>14

LEMMA BeaconFacts ==
  ASSUME TypeOK, NEW a \in Addrs, \/ Beacon(a) \/ Restart(a) \/ \E n \in Names : Expire(n, a)
  PROVE  /\ TypeOK' /\ UNCHANGED <<ctx, addr_to_names, udp, circuits, pvs, left>>
         /\ \A n \in Names, b \in Addrs : name_to_addrs'[n][b] = "VALID" => name_to_addrs[n][b] = "VALID"
<1>0. UNCHANGED <<ctx, addr_to_names, udp, circuits, pvs, world, faults, giveups, left>> /\ up' \subseteq Addrs
  BY DEF Beacon, Restart, Expire, env, tables, TypeOK
<1>1. name_to_addrs \in Tables
  BY Typed
<1>2. /\ name_to_addrs' \in Tables
      /\ \A n \in Names, b \in Addrs : name_to_addrs'[n][b] \in {name_to_addrs[n][b], "fresh", "stale"}
  <2>1. CASE Beacon(a)
    BY <1>1, <2>1 DEF Beacon, Tables, Ages
  <2>2. CASE Restart(a)
    BY <1>1, <2>2 DEF Restart, tables
  <2>3. ASSUME NEW n \in Names, Expire(n, a)
        PROVE  /\ name_to_addrs' \in Tables
               /\ \A m \in Names, b \in Addrs : name_to_addrs'[m][b] \in {name_to_addrs[m][b], "fresh", "stale"}
    <3>. DEFINE row == [name_to_addrs[n] EXCEPT ![a] = "stale"]
    <3>1. row \in [Addrs -> Ages] /\ \A b \in Addrs : row[b] \in {name_to_addrs[n][b], "stale"}
      BY <1>1 DEF Tables, Ages
    <3>2. name_to_addrs' = [name_to_addrs EXCEPT ![n] = row]
      BY <2>3 DEF Expire
    <3>. HIDE DEF row
    <3>. QED  BY <1>1, <3>1, <3>2 DEF Tables
  <2>. QED  BY <2>1, <2>2, <2>3
<1>3. \A n \in Names, b \in Addrs : name_to_addrs'[n][b] = "VALID" => name_to_addrs[n][b] = "VALID"
  BY <1>2
<1>4. TypeOK'
  BY <1>0, <1>2 DEF TypeOK, ctx, udp, pvs, Tables
<1>. QED  BY <1>0, <1>3, <1>4

---------------------------------------------------------------------------
(***************************************************************************)
(* Steps of one circuit that leave its channels alone.                     *)
(***************************************************************************)

\* No circuit is made or dies, and the only news is what was kept.
Gentle ==
  /\ DOMAIN circuits' = DOMAIN circuits
  /\ \A k \in DOMAIN circuits :
       /\ circuits'[k].addr = circuits[k].addr
       /\ circuits'[k].channels = circuits[k].channels
       /\ (circuits'[k].state = "dead") <=> (circuits[k].state = "dead")
       /\ circuits'[k].queued \subseteq circuits[k].queued
       /\ \A m \in ToSet(circuits'[k].inbox) : m.class = "CreateChan" =>
            m \in ToSet(circuits[k].inbox) \/ m.pv \in circuits[k].queued
       /\ circuits'[k].state = "connecting" =>
            /\ circuits[k].state = "connecting" /\ circuits'[k].inbox = circuits[k].inbox
            /\ circuits'[k].peer => circuits[k].peer
  /\ circuit_manager' = circuit_manager
  /\ known \subseteq known' /\ needing' \cap known \subseteq needing
  /\ \A p \in PVs :
       \/ channel'[p] \in {0, channel[p]}
       \/ /\ channel'[p] \in DOMAIN circuits /\ circuits[channel'[p]].state # "dead"
          /\ p \in ToSet(circuits[channel'[p]].channels)

LEMMA GentleTies ==
  ASSUME TypeOK, TypeOK', Ties, Gentle
  PROVE  Ties'
<1>1. circuit_manager' = circuit_manager /\ DOMAIN circuits' = DOMAIN circuits
  BY DEF Gentle
<1>2. OneChannelPerPv'
  <2>. SUFFICES ASSUME NEW k \in DOMAIN circuits', NEW i \in DOMAIN circuits'[k].channels,
                       circuits'[k].state # "dead"
                PROVE  LET p == circuits'[k].channels[i] IN
                       /\ circuit_manager'[p] = k /\ p \notin needing'
                       /\ \A j \in DOMAIN circuits'[k].channels : circuits'[k].channels[j] = p => i = j
    BY DEF OneChannelPerPv
  <2>1. k \in DOMAIN circuits /\ circuits'[k].channels = circuits[k].channels /\ circuits[k].state # "dead"
    BY DEF Gentle
  <2>. DEFINE p == circuits[k].channels[i]
  <2>2. /\ circuit_manager[p] = k /\ p \notin needing
        /\ \A j \in DOMAIN circuits[k].channels : circuits[k].channels[j] = p => i = j
    BY <2>1 DEF Ties, OneChannelPerPv
  <2>3. p \in known
    BY <2>1 DEF Ties, ChannelsAreKnown, ToSet
  <2>4. p \notin needing'
    BY <2>2, <2>3 DEF Gentle
  <2>. QED  BY <1>1, <2>1, <2>2, <2>4
<1>3. ChannelsAreKnown'
  BY DEF Ties, Gentle, ChannelsAreKnown
<1>4. \A p \in PVs : circuit_manager[p] # 0 => circuit_manager[p] \in DOMAIN circuits
  BY DEF TypeOK
<1>5. ManagerHasPv'
  BY <1>1, <1>4 DEF Ties, Gentle, ManagerHasPv
<1>6. ChannelIsAlive'
  <2>. SUFFICES ASSUME NEW p \in PVs, channel'[p] # 0
                PROVE  circuits'[channel'[p]].state # "dead" /\ p \in ToSet(circuits'[channel'[p]].channels)
    BY DEF ChannelIsAlive
  <2>1. channel'[p] \in DOMAIN circuits
    BY <1>1 DEF TypeOK
  <2>2. circuits[channel'[p]].state # "dead" /\ p \in ToSet(circuits[channel'[p]].channels)
    BY DEF Ties, ChannelIsAlive, Gentle
  <2>. QED  BY <2>1, <2>2 DEF Gentle
<1>7. MailIsOwn'
  <2>. SUFFICES ASSUME NEW k \in DOMAIN circuits', circuits'[k].state # "dead"
                PROVE  /\ circuits'[k].queued \subseteq ToSet(circuits'[k].channels)
                       /\ \A m \in ToSet(circuits'[k].inbox) :
                            m.class = "CreateChan" => m.pv \in ToSet(circuits'[k].channels)
    BY DEF MailIsOwn
  <2>1. /\ k \in DOMAIN circuits /\ circuits'[k].channels = circuits[k].channels /\ circuits[k].state # "dead"
        /\ circuits'[k].queued \subseteq circuits[k].queued
        /\ \A m \in ToSet(circuits'[k].inbox) : m.class = "CreateChan" =>
             m \in ToSet(circuits[k].inbox) \/ m.pv \in circuits[k].queued
    BY DEF Gentle
  <2>2. /\ circuits[k].queued \subseteq ToSet(circuits[k].channels)
        /\ \A m \in ToSet(circuits[k].inbox) :
             m.class = "CreateChan" => m.pv \in ToSet(circuits[k].channels)
    BY <2>1 DEF Ties, MailIsOwn
  <2>. QED  BY <2>1, <2>2
<1>8. QuietAtFirst'
  BY DEF Ties, Gentle, QuietAtFirst
<1>. QED  BY <1>2, <1>3, <1>5, <1>6, <1>7, <1>8 DEF Ties

\* The steps above are gentle.
LEMMA UdpIsGentle ==
  ASSUME TypeOK, UNCHANGED <<circuits, pvs>>,
         (known' = known /\ needing' = needing) \/ \E p \in PVs : GetPv(p)
  PROVE  Gentle
<1>1. circuits' = circuits /\ circuit_manager' = circuit_manager /\ channel' = channel
  BY DEF pvs
<1>2. known \subseteq known' /\ needing' \cap known \subseteq needing
  BY DEF GetPv
<1>. QED  BY <1>1, <1>2 DEF Gentle

\* A circuit, field by field.
Made(a, i, state, peer, chans, queued, inbox) ==
  [addr |-> a, priority |-> i, state |-> state, peer |-> peer,
   channels |-> chans, queued |-> queued, inbox |-> inbox]

LEMMA MadeFields ==
  ASSUME NEW a, NEW i, NEW state, NEW peer, NEW chans, NEW queued, NEW inbox
  PROVE  LET c == Made(a, i, state, peer, chans, queued, inbox) IN
         /\ c.addr = a /\ c.priority = i /\ c.state = state /\ c.peer = peer
         /\ c.channels = chans /\ c.queued = queued /\ c.inbox = inbox
         /\ a \in Addrs /\ i \in Priorities /\ peer \in BOOLEAN
            /\ state \in {"connecting", "open", "ready", "failed", "dead"}
            /\ chans \in Seq(PVs) /\ queued \in SUBSET PVs /\ inbox \in Seq(Messages)
              => c \in Circuit
<1>. QED  BY CircuitType DEF Made

\* A step that changes fields of one circuit, its channels not among them.
Turn(k, state, peer, queued, inbox) ==
  circuits' = [circuits EXCEPT ![k] = Made(circuits[k].addr, circuits[k].priority, state, peer,
                                           circuits[k].channels, queued, inbox)]

\* The updates of fields in the actions are such steps.
LEMMA TurnsFields ==
  ASSUME TypeOK, NEW k \in DOMAIN circuits, NEW x, NEW y, NEW z
  PROVE  /\ circuits' = [circuits EXCEPT ![k].state = x, ![k].peer = y, ![k].inbox = z]
              => Turn(k, x, y, circuits[k].queued, z)
         /\ circuits' = [circuits EXCEPT ![k].state = x, ![k].queued = y, ![k].inbox = z]
              => Turn(k, x, circuits[k].peer, y, z)
         /\ circuits' = [circuits EXCEPT ![k].inbox = x]
              => Turn(k, circuits[k].state, circuits[k].peer, circuits[k].queued, x)
         /\ circuits' = [circuits EXCEPT ![k].peer = x]
              => Turn(k, circuits[k].state, x, circuits[k].queued, circuits[k].inbox)
<1>. DEFINE c == circuits[k]
            d == Made(c.addr, c.priority, c.state, c.peer, c.channels, c.queued, c.inbox)
<1>1. c = d
  BY CircuitFields DEF Made, TypeOK
<1>. HIDE DEF c
<1>2. /\ [d EXCEPT !.inbox = x] = Made(c.addr, c.priority, c.state, c.peer, c.channels, c.queued, x)
      /\ [d EXCEPT !.peer = x] = Made(c.addr, c.priority, c.state, x, c.channels, c.queued, c.inbox)
  BY DEF Made
<1>3. /\ [[[d EXCEPT !.state = x] EXCEPT !.peer = y] EXCEPT !.inbox = z]
           = Made(c.addr, c.priority, x, y, c.channels, c.queued, z)
      /\ [[[d EXCEPT !.state = x] EXCEPT !.queued = y] EXCEPT !.inbox = z]
           = Made(c.addr, c.priority, x, c.peer, c.channels, y, z)
  <2>1. [d EXCEPT !.state = x] = Made(c.addr, c.priority, x, c.peer, c.channels, c.queued, c.inbox)
    BY DEF Made
  <2>2. /\ [Made(c.addr, c.priority, x, c.peer, c.channels, c.queued, c.inbox) EXCEPT !.peer = y]
             = Made(c.addr, c.priority, x, y, c.channels, c.queued, c.inbox)
        /\ [Made(c.addr, c.priority, x, c.peer, c.channels, c.queued, c.inbox) EXCEPT !.queued = y]
             = Made(c.addr, c.priority, x, c.peer, c.channels, y, c.inbox)
    BY DEF Made
  <2>3. /\ [Made(c.addr, c.priority, x, y, c.channels, c.queued, c.inbox) EXCEPT !.inbox = z]
             = Made(c.addr, c.priority, x, y, c.channels, c.queued, z)
        /\ [Made(c.addr, c.priority, x, c.peer, c.channels, y, c.inbox) EXCEPT !.inbox = z]
             = Made(c.addr, c.priority, x, c.peer, c.channels, y, z)
    BY DEF Made
  <2>. HIDE DEF d
  <2>. QED  BY <2>1, <2>2, <2>3, Zenon
<1>. HIDE DEF d
<1>0. circuits \in Seq(Circuit)
  BY DEF TypeOK
<1>4. /\ [circuits EXCEPT ![k].inbox = x] = [circuits EXCEPT ![k] = [c EXCEPT !.inbox = x]]
      /\ [circuits EXCEPT ![k].peer = x] = [circuits EXCEPT ![k] = [c EXCEPT !.peer = x]]
  BY <1>0 DEF c
<1>5. /\ [circuits EXCEPT ![k].state = x, ![k].peer = y, ![k].inbox = z]
           = [circuits EXCEPT ![k] = [[[c EXCEPT !.state = x] EXCEPT !.peer = y] EXCEPT !.inbox = z]]
      /\ [circuits EXCEPT ![k].state = x, ![k].queued = y, ![k].inbox = z]
           = [circuits EXCEPT ![k] = [[[c EXCEPT !.state = x] EXCEPT !.queued = y] EXCEPT !.inbox = z]]
  BY <1>0 DEF c
<1>. QED  BY <1>1, <1>2, <1>3, <1>4, <1>5, Zenon DEF c, Turn

States  == {"connecting", "open", "ready", "failed", "dead"}
Inboxes == Seq(Messages)

\* What such a step does, seen from outside.
Turned(k, state, peer, queued, inbox) ==
  /\ circuits' \in Seq(Circuit) /\ Len(circuits') = Len(circuits) /\ DOMAIN circuits' = DOMAIN circuits
  /\ circuits'[k].addr = circuits[k].addr /\ circuits'[k].priority = circuits[k].priority
  /\ circuits'[k].channels = circuits[k].channels
  /\ circuits'[k].state = state /\ circuits'[k].peer = peer
  /\ circuits'[k].queued = queued /\ circuits'[k].inbox = inbox
  /\ \A j \in DOMAIN circuits : j # k => circuits'[j] = circuits[j]

LEMMA TurnFacts ==
  ASSUME TypeOK, NEW k \in DOMAIN circuits, NEW state \in States, NEW peer \in BOOLEAN,
         NEW queued \in SUBSET PVs, NEW inbox \in Inboxes, Turn(k, state, peer, queued, inbox)
  PROVE  Turned(k, state, peer, queued, inbox)
<1>. DEFINE c == circuits[k]
            d == Made(c.addr, c.priority, state, peer, c.channels, queued, inbox)
<1>1. circuits \in Seq(Circuit) /\ c \in Circuit
  BY DEF TypeOK
<1>2. d \in Circuit
  BY <1>1, CircuitFields, MadeFields DEF States, Inboxes
<1>3. /\ d.addr = c.addr /\ d.priority = c.priority /\ d.state = state /\ d.peer = peer
      /\ d.channels = c.channels /\ d.queued = queued /\ d.inbox = inbox
  BY MadeFields
<1>4. circuits' = [circuits EXCEPT ![k] = d]
  BY DEF Turn
<1>. HIDE DEF d
<1>5. /\ circuits' \in Seq(Circuit) /\ Len(circuits') = Len(circuits) /\ DOMAIN circuits' = DOMAIN circuits
      /\ circuits'[k] = d /\ \A j \in DOMAIN circuits : j # k => circuits'[j] = circuits[j]
  BY <1>1, <1>2, <1>4, CircuitExcept
<1>. QED  BY <1>3, <1>5 DEF Turned

\* The circuit is at work to give p a channel.
Carried(k, p) ==
  \/ circuits[k].state \in {"connecting", "open"} /\ p \in circuits[k].queued
  \/ [class |-> "CreateChan", pv |-> p] \in ToSet(circuits[k].inbox)
  \/ circuits[k].state \in {"open", "ready"} /\ ~circuits[k].peer

\* A step that drops no PV.
Minded ==
  \A p \in PVs :
    /\ left[p] # None => left'[p] # None
    /\ channel[p] # 0 => channel'[p] # 0 \/ left'[p] # None
    /\ \A k \in DOMAIN circuits :
         circuit_manager[p] = k /\ Carried(k, p) => Carried(k, p)' \/ channel'[p] # 0 \/ left'[p] # None

LEMMA ConnectFacts ==
  ASSUME TypeOK, Ties, NEW k \in DOMAIN circuits, Connect(k)
  PROVE  TypeOK' /\ Gentle /\ Minded /\ UNCHANGED <<ctx, tables, udp, circuit_manager>>
<1>. DEFINE c == circuits[k]
            open == c.addr \in up
            state == IF open THEN "open" ELSE "failed"
            inbox == IF open THEN <<[class |-> "Version"]>> ELSE <<>>
<1>1. circuits \in Seq(Circuit) /\ c \in Circuit
  BY DEF TypeOK
<1>2. circuits' = [circuits EXCEPT ![k].state = state, ![k].peer = open, ![k].inbox = inbox]
  BY DEF Connect
<1>3. state \in States /\ open \in BOOLEAN
  BY DEF States
<1>4. inbox \in Inboxes /\ \A m \in ToSet(inbox) : m.class = "Version"
  <2>. DEFINE version == [class |-> "Version"]
  <2>1. version \in Messages /\ version.class = "Version"
    BY DEF Messages
  <2>. HIDE DEF version
  <2>2. CASE open
    <3>1. inbox = <<version>>
      BY <2>2 DEF version
    <3>. QED  BY <2>1, <3>1 DEF ToSet, Inboxes
  <2>3. CASE ~open
    <3>1. inbox = <<>>
      BY <2>3
    <3>. QED  BY <3>1 DEF ToSet, Inboxes
  <2>. QED  BY <2>2, <2>3
<1>5. c.queued \in SUBSET PVs /\ c.state = "connecting"
  BY <1>1, CircuitFields DEF Connect
<1>6. (open /\ UNCHANGED left) \/ left' = [p \in PVs |-> IF circuit_manager[p] = k THEN "refused" ELSE left[p]]
  <2>1. left' = [p \in PVs |-> IF ~open /\ circuit_manager[p] = k THEN "refused" ELSE left[p]]
    BY DEF Connect
  <2>2. left = [p \in PVs |-> left[p]]
    BY DEF TypeOK
  <2>3. CASE open
    BY <2>1, <2>2, <2>3
  <2>4. CASE ~open
    BY <2>1, <2>4
  <2>. QED  BY <2>3, <2>4
<1>7. open => state = "open"
  OBVIOUS
<1>8. state \notin {"dead", "connecting"}
  OBVIOUS
<1>9. Turn(k, state, open, c.queued, inbox)
  <2>. HIDE DEF state, open, inbox
  <2>. QED  BY <1>2, TurnsFields
<1>. HIDE DEF state, open, inbox
<1>10. /\ circuits' \in Seq(Circuit) /\ Len(circuits') = Len(circuits) /\ DOMAIN circuits' = DOMAIN circuits
       /\ circuits'[k].addr = c.addr /\ circuits'[k].channels = c.channels
       /\ circuits'[k].state = state /\ circuits'[k].queued = c.queued /\ circuits'[k].inbox = inbox
       /\ \A j \in DOMAIN circuits : j # k => circuits'[j] = circuits[j]
  <2>1. Turned(k, state, open, c.queued, inbox)
    BY <1>3, <1>4, <1>5, <1>9, TurnFacts, Zenon
  <2>. QED  BY <2>1, Zenon DEF Turned
<1>11. UNCHANGED <<known, needing, circuit_manager, channel>>
  BY DEF Connect, ctx, pvs
<1>12. Gentle
  BY <1>4, <1>5, <1>8, <1>10, <1>11 DEF Gentle
<1>13. left' \in [PVs -> Failures \cup {None}]
  BY <1>6 DEF TypeOK, Failures
<1>14. TypeOK'
  BY <1>10, <1>13 DEF TypeOK, Connect, ctx, tables, udp, pvs, env
<1>15. /\ (open /\ UNCHANGED left) \/ \A p \in PVs : circuit_manager[p] = k => left'[p] # None
       /\ \A p \in PVs : circuit_manager[p] # k => left'[p] = left[p]
  BY <1>6, NoneAssumption DEF Failures
<1>16. ASSUME NEW p \in PVs, NEW j \in DOMAIN circuits, circuit_manager[p] = j, Carried(j, p)
       PROVE  Carried(j, p)' \/ left'[p] # None
  <2>1. CASE j = k
    <3>1. c.inbox = <<>>
      BY <1>5 DEF Ties, QuietAtFirst
    <3>2. ToSet(c.inbox) = {}
      BY <3>1 DEF ToSet
    <3>3. p \in c.queued
      BY <1>5, <1>16, <2>1, <3>2 DEF Carried
    <3>4. CASE open
      BY <1>7, <1>10, <2>1, <3>3, <3>4 DEF Carried
    <3>5. CASE ~open
      BY <1>15, <1>16, <2>1, <3>5
    <3>. QED  BY <3>4, <3>5
  <2>2. CASE j # k
    BY <1>10, <1>16, <2>2 DEF Carried
  <2>. QED  BY <2>1, <2>2
<1>17. ASSUME NEW p \in PVs, left[p] # None PROVE left'[p] # None
  BY <1>15, <1>17
<1>18. Minded
  BY <1>11, <1>16, <1>17 DEF Minded
<1>. QED  BY <1>12, <1>14, <1>18 DEF Connect, pvs

\* When such a step is gentle.
LEMMA TurnIsGentle ==
  ASSUME TypeOK, NEW k \in DOMAIN circuits, NEW state, NEW peer, NEW queued, NEW inbox,
         Turned(k, state, peer, queued, inbox), state \notin {"dead", "connecting"},
         circuits[k].state # "dead", queued \subseteq circuits[k].queued,
         \A m \in ToSet(inbox) : m.class = "CreateChan" =>
            m \in ToSet(circuits[k].inbox) \/ m.pv \in circuits[k].queued,
         UNCHANGED <<known, needing, circuit_manager>>,
         \A p \in PVs :
           \/ channel'[p] \in {0, channel[p]}
           \/ channel'[p] = k /\ p \in ToSet(circuits[k].channels)
  PROVE  Gentle
<1>1. /\ DOMAIN circuits' = DOMAIN circuits
      /\ circuits'[k].addr = circuits[k].addr
      /\ circuits'[k].channels = circuits[k].channels
      /\ circuits'[k].state = state
      /\ circuits'[k].queued = queued /\ circuits'[k].inbox = inbox
      /\ \A j \in DOMAIN circuits : j # k => circuits'[j] = circuits[j]
  BY Zenon DEF Turned
<1>2. ASSUME NEW j \in DOMAIN circuits
      PROVE  /\ circuits'[j].addr = circuits[j].addr
             /\ circuits'[j].channels = circuits[j].channels
             /\ (circuits'[j].state = "dead") <=> (circuits[j].state = "dead")
             /\ circuits'[j].queued \subseteq circuits[j].queued
             /\ \A m \in ToSet(circuits'[j].inbox) : m.class = "CreateChan" =>
                  m \in ToSet(circuits[j].inbox) \/ m.pv \in circuits[j].queued
             /\ circuits'[j].state = "connecting" =>
                  /\ circuits[j].state = "connecting" /\ circuits'[j].inbox = circuits[j].inbox
                  /\ circuits'[j].peer => circuits[j].peer
  <2>1. CASE j = k
    BY <1>1, <2>1
  <2>2. CASE j # k
    BY <1>1, <2>2
  <2>. QED  BY <2>1, <2>2
<1>. QED  BY <1>1, <1>2 DEF Gentle

\* The message that the command loop takes.
LEMMA ReceivedFacts ==
  ASSUME TypeOK, NEW k \in DOMAIN circuits, NEW class, Received(k, class)
  PROVE  LET c == circuits[k] IN
         /\ c \in Circuit /\ c.state \in {"open", "ready"} /\ c.state \in States
         /\ c.state \notin {"dead", "connecting"}
         /\ c.peer \in BOOLEAN /\ c.queued \in SUBSET PVs
         /\ c.inbox \in Inboxes /\ Tail(c.inbox) \in Inboxes
         /\ Head(c.inbox) \in Messages /\ Head(c.inbox).class = class
         /\ ToSet(c.inbox) = {Head(c.inbox)} \cup ToSet(Tail(c.inbox))
<1>1. circuits[k] \in Circuit /\ circuits[k].inbox # <<>>
  BY DEF TypeOK, Received
<1>2. circuits[k].state \in {"open", "ready"} /\ Head(circuits[k].inbox).class = class
  BY DEF Received
<1>3. circuits[k].inbox \in Inboxes /\ circuits[k].peer \in BOOLEAN /\ circuits[k].queued \in SUBSET PVs
  BY <1>1, CircuitFields DEF Inboxes
<1>4. /\ Tail(circuits[k].inbox) \in Inboxes /\ Head(circuits[k].inbox) \in Messages
      /\ ToSet(circuits[k].inbox) = {Head(circuits[k].inbox)} \cup ToSet(Tail(circuits[k].inbox))
  BY <1>1, <1>3, HeadAndTail DEF Inboxes
<1>5. circuits[k].state \in States /\ circuits[k].state \notin {"dead", "connecting"}
  BY <1>2 DEF States
<1>. QED  BY <1>1, <1>2, <1>3, <1>4, <1>5

LEMMA VersionFacts ==
  ASSUME TypeOK, Ties, NEW k \in DOMAIN circuits, VersionResponse(k)
  PROVE  TypeOK' /\ Gentle /\ Minded /\ UNCHANGED <<ctx, tables, udp, circuit_manager>>
<1>. DEFINE c == circuits[k]
            asked == {[class |-> "CreateChan", pv |-> p] : p \in c.queued}
            replies == SetToSeq(asked)
            more == IF c.peer THEN replies ELSE <<>>
            inbox == Tail(c.inbox) \o more
<1>1. /\ c \in Circuit /\ c.state \in {"open", "ready"} /\ c.state # "dead"
      /\ c.peer \in BOOLEAN /\ c.queued \in SUBSET PVs /\ Tail(c.inbox) \in Inboxes
      /\ Head(c.inbox).class = "Version"
      /\ ToSet(c.inbox) = {Head(c.inbox)} \cup ToSet(Tail(c.inbox))
  BY ReceivedFacts DEF VersionResponse
<1>2. circuits' = [circuits EXCEPT ![k].state = "ready", ![k].queued = {}, ![k].inbox = inbox]
  BY DEF VersionResponse
<1>3. IsFiniteSet(asked) /\ asked \subseteq Messages
  <2>. DEFINE f == [p \in c.queued |-> [class |-> "CreateChan", pv |-> p]]
  <2>1. f \in [c.queued -> asked] /\ \A t \in asked : \E x \in c.queued : f[x] = t
    OBVIOUS
  <2>2. asked \subseteq Messages
    <3>1. ASSUME NEW p \in PVs PROVE [class |-> "CreateChan", pv |-> p] \in Messages
      BY DEF Messages
    <3>. QED  BY <1>1, <3>1
  <2>3. IsFiniteSet(c.queued)
    BY <1>1, NamesFinite
  <2>. HIDE DEF f, asked
  <2>. QED  BY <2>1, <2>2, <2>3, FiniteImage
<1>4. \A m \in asked : m.pv \in c.queued
  OBVIOUS
<1>5. \A p \in c.queued : [class |-> "CreateChan", pv |-> p] \in asked
  OBVIOUS
<1>. HIDE DEF asked
<1>6. replies \in Inboxes /\ ToSet(replies) = asked
  BY <1>3, Listed, Widened DEF Inboxes
<1>. HIDE DEF replies
<1>7. more \in Inboxes /\ ToSet(more) = IF c.peer THEN asked ELSE {}
  <2>1. CASE c.peer
    BY <1>6, <2>1
  <2>2. CASE ~c.peer
    <3>1. more = <<>>
      BY <2>2
    <3>. QED  BY <2>2, <3>1 DEF Inboxes, ToSet
  <2>. QED  BY <2>1, <2>2
<1>. HIDE DEF more
<1>8. inbox \in Inboxes /\ ToSet(inbox) = ToSet(Tail(c.inbox)) \cup ToSet(more)
  <2>. DEFINE rest == Tail(c.inbox)
  <2>1. rest \in Seq(Messages) /\ more \in Seq(Messages)
    BY <1>1, <1>7 DEF Inboxes
  <2>. HIDE DEF rest
  <2>2. rest \o more \in Seq(Messages) /\ ToSet(rest \o more) = ToSet(rest) \cup ToSet(more)
    BY <2>1, Extended
  <2>. QED  BY <2>2 DEF rest, Inboxes
<1>. HIDE DEF inbox
<1>9. Turned(k, "ready", c.peer, {}, inbox)
  <2>1. Turn(k, "ready", c.peer, {}, inbox)
    BY <1>2, TurnsFields
  <2>2. "ready" \in States /\ {} \in SUBSET PVs
    BY DEF States
  <2>. QED  BY <1>1, <1>8, <2>1, <2>2, TurnFacts, Zenon
<1>10. UNCHANGED <<known, needing, circuit_manager, channel, left>>
  BY DEF VersionResponse, ctx, pvs
<1>11. Gentle
  <2>1. \A m \in ToSet(inbox) : m \in ToSet(c.inbox) \/ m.pv \in c.queued
    BY <1>1, <1>4, <1>7, <1>8
  <2>2. "ready" \notin {"dead", "connecting"} /\ {} \subseteq c.queued
    OBVIOUS
  <2>. HIDE DEF c
  <2>. QED  BY <1>1, <1>9, <1>10, <2>1, <2>2, TurnIsGentle DEF c
<1>12. /\ circuits' \in Seq(Circuit) /\ Len(circuits') = Len(circuits)
       /\ circuits'[k].state = "ready" /\ circuits'[k].peer = c.peer /\ circuits'[k].inbox = inbox
       /\ \A j \in DOMAIN circuits : j # k => circuits'[j] = circuits[j]
  BY <1>9, Zenon DEF Turned
<1>13. TypeOK'
  BY <1>12 DEF TypeOK, VersionResponse, ctx, tables, udp, pvs, env
<1>14. ASSUME NEW p \in PVs, NEW j \in DOMAIN circuits, Carried(j, p)
       PROVE  Carried(j, p)'
  <2>1. CASE j = k
    <3>1. CASE ~c.peer
      BY <1>12, <2>1, <3>1 DEF Carried
    <3>2. CASE c.peer
      <4>. DEFINE m == [class |-> "CreateChan", pv |-> p]
      <4>1. m \in ToSet(c.inbox) \/ p \in c.queued
        BY <1>14, <2>1, <3>2 DEF Carried
      <4>2. m.class = "CreateChan"
        OBVIOUS
      <4>3. m # Head(c.inbox)
        BY <1>1, <4>2
      <4>4. m \in ToSet(inbox)
        BY <1>1, <1>5, <1>7, <1>8, <3>2, <4>1, <4>3
      <4>. QED  BY <1>12, <2>1, <4>4 DEF Carried
    <3>. QED  BY <3>1, <3>2
  <2>2. CASE j # k
    BY <1>12, <1>14, <2>2 DEF Carried
  <2>. QED  BY <2>1, <2>2
<1>15. Minded
  BY <1>10, <1>14 DEF Minded
<1>. QED  BY <1>11, <1>13, <1>15 DEF VersionResponse, pvs

\* A message of the two kinds that name a PV.
LEMMA MessagePv ==
  ASSUME NEW m \in Messages, m.class # "Version"
  PROVE  m.pv \in PVs /\ (m.class = "CreateChan" => m = [class |-> "CreateChan", pv |-> m.pv])
<1>1. CASE m \in [class : {"Version"}]
  BY <1>1
<1>2. CASE m \in [class : {"CreateChan", "ServerDisconn"}, pv : PVs]
  BY <1>2
<1>. QED  BY <1>1, <1>2 DEF Messages

\* A channel is there: its marker is set where its circuit is.
LEMMA CreateFacts ==
  ASSUME TypeOK, Ties, NEW k \in DOMAIN circuits, CreateChanResponse(k)
  PROVE  /\ TypeOK' /\ Gentle /\ Minded /\ UNCHANGED <<ctx, udp, circuit_manager>>
         /\ circuits[k].state # "dead"
         /\ \A a \in Addrs : addr_to_names[a] \subseteq addr_to_names'[a]
         /\ \E p \in ToSet(circuits[k].channels) : \A n \in Names, a \in Addrs :
              /\ name_to_addrs'[n][a] = "VALID"
                   => name_to_addrs[n][a] = "VALID" \/ (n = p.name /\ a = circuits[k].addr)
              /\ n \in addr_to_names'[a] => n \in addr_to_names[a] \/ (n = p.name /\ a = circuits[k].addr)
              /\ n = p.name /\ a = circuits[k].addr => n \in addr_to_names'[a]
<1>. DEFINE c == circuits[k]
            head == Head(c.inbox)
            rest == Tail(c.inbox)
            p == head.pv
            a == c.addr
<1>1. /\ c \in Circuit /\ c.state \in {"open", "ready"} /\ c.state \in States
      /\ c.state \notin {"dead", "connecting"}
      /\ c.peer \in BOOLEAN /\ c.queued \in SUBSET PVs /\ rest \in Inboxes
      /\ head \in Messages /\ head.class = "CreateChan"
      /\ ToSet(c.inbox) = {head} \cup ToSet(rest)
  BY ReceivedFacts DEF CreateChanResponse
<1>2. circuits' = [circuits EXCEPT ![k].inbox = rest]
  BY DEF CreateChanResponse
<1>3. p \in PVs /\ head = [class |-> "CreateChan", pv |-> p] /\ p.name \in Names /\ a \in Addrs
  <2>1. head.class # "Version"
    BY <1>1
  <2>2. p \in PVs /\ head = [class |-> "CreateChan", pv |-> p]
    BY <1>1, <2>1, MessagePv
  <2>. QED  BY <1>1, <2>2, PvFacts, CircuitFields
<1>4. p \in ToSet(c.channels)
  BY <1>1 DEF Ties, MailIsOwn
<1>5. /\ name_to_addrs' = [name_to_addrs EXCEPT ![p.name][a] = "VALID"]
      /\ addr_to_names' = [addr_to_names EXCEPT ![a] = @ \cup {p.name}]
      /\ channel' = [channel EXCEPT ![p] = k]
  BY DEF CreateChanResponse
<1>. HIDE DEF p, a, rest, head
<1>6. Turned(k, c.state, c.peer, c.queued, rest)
  <2>1. Turn(k, c.state, c.peer, c.queued, rest)
    BY <1>2, TurnsFields
  <2>. QED  BY <1>1, <2>1, TurnFacts, Zenon
<1>7. /\ circuits' \in Seq(Circuit) /\ Len(circuits') = Len(circuits)
      /\ circuits'[k].state = c.state /\ circuits'[k].peer = c.peer /\ circuits'[k].inbox = rest
      /\ circuits'[k].queued = c.queued
      /\ \A j \in DOMAIN circuits : j # k => circuits'[j] = circuits[j]
  BY <1>6, Zenon DEF Turned
<1>8. UNCHANGED <<known, needing, circuit_manager, left>>
  BY DEF CreateChanResponse, ctx
<1>9. /\ channel' \in [PVs -> 0..Len(circuits)] /\ channel'[p] = k
      /\ \A q \in PVs : q # p => channel'[q] = channel[q]
  <2>1. k \in 0..Len(circuits) /\ channel \in [PVs -> 0..Len(circuits)]
    BY DEF TypeOK
  <2>. QED  BY <1>3, <1>5, <2>1
<1>10. Gentle
  <2>1. \A m \in ToSet(rest) : m \in ToSet(c.inbox)
    BY <1>1
  <2>2. \A q \in PVs : \/ channel'[q] \in {0, channel[q]}
                       \/ channel'[q] = k /\ q \in ToSet(c.channels)
    BY <1>4, <1>9
  <2>3. c.state # "dead" /\ c.queued \subseteq c.queued
    BY <1>1
  <2>. QED  BY <1>1, <1>6, <1>8, <2>1, <2>2, <2>3, TurnIsGentle
<1>11. /\ name_to_addrs' \in Tables
       /\ \A n \in Names, b \in Addrs :
            name_to_addrs'[n][b] = "VALID" => name_to_addrs[n][b] = "VALID" \/ (n = p.name /\ b = a)
  <2>0. name_to_addrs \in Tables
    BY Typed
  <2>. DEFINE row == [name_to_addrs[p.name] EXCEPT ![a] = "VALID"]
  <2>1. row \in [Addrs -> Ages] /\ \A b \in Addrs : b # a => row[b] = name_to_addrs[p.name][b]
    BY <1>3, <2>0 DEF Tables, Ages
  <2>2. name_to_addrs' = [name_to_addrs EXCEPT ![p.name] = row]
    BY <1>5
  <2>. HIDE DEF row
  <2>. QED  BY <1>3, <2>0, <2>1, <2>2 DEF Tables
<1>12. /\ addr_to_names' \in [Addrs -> SUBSET Names] /\ p.name \in addr_to_names'[a]
       /\ \A b \in Addrs : addr_to_names[b] \subseteq addr_to_names'[b]
       /\ \A b \in Addrs : \A n \in addr_to_names'[b] \ addr_to_names[b] : n = p.name /\ b = a
  BY <1>3, <1>5 DEF TypeOK
<1>13. TypeOK'
  BY <1>7, <1>9, <1>11, <1>12 DEF TypeOK, CreateChanResponse, ctx, udp, env, Tables
<1>14. ASSUME NEW q \in PVs, NEW j \in DOMAIN circuits, Carried(j, q)
       PROVE  Carried(j, q)' \/ channel'[q] # 0
  <2>1. CASE q = p
    BY <1>9, <2>1 DEF TypeOK
  <2>2. CASE j = k /\ q # p
    <3>. DEFINE m == [class |-> "CreateChan", pv |-> q]
    <3>1. m # head
      <4>1. m.pv = q
        OBVIOUS
      <4>. QED  BY <2>2, <4>1 DEF p
    <3>. HIDE DEF m
    <3>2. m \in ToSet(c.inbox) => m \in ToSet(rest)
      BY <1>1, <3>1
    <3>. QED  BY <1>7, <1>14, <2>2, <3>2 DEF Carried, m
  <2>3. CASE j # k
    BY <1>7, <1>14, <2>3 DEF Carried
  <2>. QED  BY <2>1, <2>2, <2>3
<1>15. Minded
  <2>1. k # 0
    BY DEF TypeOK
  <2>. QED  BY <1>8, <1>9, <1>14, <2>1 DEF Minded
<1>16. \A n \in Names, b \in Addrs :
         /\ name_to_addrs'[n][b] = "VALID" => name_to_addrs[n][b] = "VALID" \/ (n = p.name /\ b = a)
         /\ n \in addr_to_names'[b] => n \in addr_to_names[b] \/ (n = p.name /\ b = a)
         /\ n = p.name /\ b = a => n \in addr_to_names'[b]
  BY <1>11, <1>12
<1>17. circuits[k].state # "dead" /\ UNCHANGED <<ctx, udp, circuit_manager>>
  BY <1>1 DEF CreateChanResponse
<1>. QED  BY <1>4, <1>10, <1>12, <1>13, <1>15, <1>16, <1>17, Zenon DEF a

LEMMA ServerDisconnFacts ==
  ASSUME TypeOK, Ties, NEW k \in DOMAIN circuits, ServerDisconnResponse(k)
  PROVE  TypeOK' /\ Gentle /\ Minded /\ UNCHANGED <<ctx, tables, udp, circuit_manager>>
<1>. DEFINE c == circuits[k]
            head == Head(c.inbox)
            rest == Tail(c.inbox)
            p == head.pv
<1>1. /\ c \in Circuit /\ c.state \in {"open", "ready"} /\ c.state \in States
      /\ c.state \notin {"dead", "connecting"}
      /\ c.peer \in BOOLEAN /\ c.queued \in SUBSET PVs /\ rest \in Inboxes
      /\ head \in Messages /\ head.class = "ServerDisconn"
      /\ ToSet(c.inbox) = {head} \cup ToSet(rest)
  BY ReceivedFacts DEF ServerDisconnResponse
<1>2. circuits' = [circuits EXCEPT ![k].inbox = rest]
  BY DEF ServerDisconnResponse
<1>3. p \in PVs
  <2>1. head.class # "Version"
    BY <1>1
  <2>. QED  BY <1>1, <2>1, MessagePv
<1>4. channel' = [channel EXCEPT ![p] = 0] /\ left' = [left EXCEPT ![p] = "closed"]
  BY DEF ServerDisconnResponse
<1>. HIDE DEF p, rest, head
<1>5. Turned(k, c.state, c.peer, c.queued, rest)
  <2>1. Turn(k, c.state, c.peer, c.queued, rest)
    BY <1>2, TurnsFields
  <2>. QED  BY <1>1, <2>1, TurnFacts, Zenon
<1>6. /\ circuits' \in Seq(Circuit) /\ Len(circuits') = Len(circuits)
      /\ circuits'[k].state = c.state /\ circuits'[k].peer = c.peer /\ circuits'[k].inbox = rest
      /\ circuits'[k].queued = c.queued
      /\ \A j \in DOMAIN circuits : j # k => circuits'[j] = circuits[j]
  BY <1>5, Zenon DEF Turned
<1>7. UNCHANGED <<known, needing, circuit_manager>>
  BY DEF ServerDisconnResponse, ctx
<1>8. /\ channel' \in [PVs -> 0..Len(circuits)] /\ \A q \in PVs : channel'[q] \in {0, channel[q]}
      /\ \A q \in PVs : q # p => channel'[q] = channel[q]
  BY <1>3, <1>4 DEF TypeOK
<1>9. /\ left' \in [PVs -> Failures \cup {None}] /\ left'[p] # None
      /\ \A q \in PVs : q # p => left'[q] = left[q]
  <2>1. "closed" \in Failures /\ "closed" # None
    BY NoneAssumption DEF Failures
  <2>. QED  BY <1>3, <1>4, <2>1 DEF TypeOK
<1>10. Gentle
  <2>1. \A m \in ToSet(rest) : m \in ToSet(c.inbox)
    BY <1>1
  <2>2. c.state # "dead" /\ c.queued \subseteq c.queued
    BY <1>1
  <2>. QED  BY <1>1, <1>5, <1>7, <1>8, <2>1, <2>2, TurnIsGentle
<1>11. TypeOK'
  BY <1>6, <1>8, <1>9 DEF TypeOK, ServerDisconnResponse, ctx, tables, udp, env
<1>12. ASSUME NEW q \in PVs, NEW j \in DOMAIN circuits, Carried(j, q)
       PROVE  Carried(j, q)'
  <2>1. CASE j = k
    <3>. DEFINE m == [class |-> "CreateChan", pv |-> q]
    <3>1. m # head
      <4>1. m.class = "CreateChan"
        OBVIOUS
      <4>. QED  BY <1>1, <4>1
    <3>. HIDE DEF m
    <3>2. m \in ToSet(c.inbox) => m \in ToSet(rest)
      BY <1>1, <3>1
    <3>. QED  BY <1>6, <1>12, <2>1, <3>2 DEF Carried, m
  <2>2. CASE j # k
    BY <1>6, <1>12, <2>2 DEF Carried
  <2>. QED  BY <2>1, <2>2
<1>13. Minded
  BY <1>7, <1>8, <1>9, <1>12 DEF Minded
<1>. QED  BY <1>10, <1>11, <1>13 DEF ServerDisconnResponse

\* A server that closes a connection or a channel, or stops.
LEMMA CloseFacts ==
  ASSUME TypeOK, Ties,
         \/ \E k \in DOMAIN circuits : CloseCircuit(k)
         \/ \E p \in PVs : CloseChannel(p)
         \/ \E a \in Addrs : Crash(a)
  PROVE  TypeOK' /\ Gentle /\ Minded /\ UNCHANGED <<ctx, tables, udp, circuit_manager>>
<1>1. /\ UNCHANGED <<ctx, tables, udp, pvs, world, giveups, left>> /\ up' \subseteq Addrs
      /\ Fault
  BY DEF CloseCircuit, CloseChannel, Crash, TypeOK
<1>2. UNCHANGED <<known, needing, circuit_manager, channel, left>>
  BY <1>1 DEF ctx, pvs
<1>3. faults' \in 0..world.faults
  <2>1. world.faults \in Nat
    BY WorldAssumption DEF TypeOK, World
  <2>. QED  BY <1>1, <2>1 DEF TypeOK, Fault
<1>4. /\ circuits' \in Seq(Circuit) /\ Len(circuits') = Len(circuits) /\ Gentle
      /\ \A k \in DOMAIN circuits :
           /\ circuits'[k].state = circuits[k].state /\ circuits'[k].queued = circuits[k].queued
           /\ ToSet(circuits[k].inbox) \subseteq ToSet(circuits'[k].inbox)
           /\ circuits'[k].peer => circuits[k].peer
  <2>1. ASSUME NEW k \in DOMAIN circuits, CloseCircuit(k)
        PROVE  <1>4!:
    <3>. DEFINE c == circuits[k]
    <3>1. c \in Circuit /\ c.state # "dead"
      BY <2>1 DEF TypeOK, CloseCircuit
    <3>2. c.state \in States /\ c.queued \in SUBSET PVs /\ c.inbox \in Inboxes
      BY <3>1, CircuitFields DEF States, Inboxes
    <3>3. Turned(k, c.state, FALSE, c.queued, c.inbox)
      <4>1. circuits' = [circuits EXCEPT ![k].peer = FALSE]
        BY <2>1 DEF CloseCircuit
      <4>2. Turn(k, c.state, FALSE, c.queued, c.inbox)
        BY <4>1, TurnsFields
      <4>. QED  BY <3>2, <4>2, TurnFacts, Zenon
    <3>4. /\ circuits' \in Seq(Circuit) /\ Len(circuits') = Len(circuits) /\ DOMAIN circuits' = DOMAIN circuits
          /\ circuits'[k].addr = circuits[k].addr /\ circuits'[k].channels = c.channels
          /\ circuits'[k].state = c.state /\ circuits'[k].peer = FALSE
          /\ circuits'[k].queued = c.queued /\ circuits'[k].inbox = c.inbox
          /\ \A j \in DOMAIN circuits : j # k => circuits'[j] = circuits[j]
      BY <3>3, Zenon DEF Turned
    <3>5. Gentle
      BY <1>2, <3>4 DEF Gentle
    <3>. QED  BY <3>4, <3>5
  <2>2. ASSUME NEW p \in PVs, CloseChannel(p)
        PROVE  <1>4!:
    <3>. DEFINE k == channel[p]
                c == circuits[k]
                m == [class |-> "ServerDisconn", pv |-> p]
                inbox == Append(c.inbox, m)
    <3>1. k \in DOMAIN circuits /\ c \in Circuit /\ k # 0
      BY <2>2 DEF TypeOK, CloseChannel
    <3>2. c.state # "dead"
      BY <2>2, <3>1 DEF Ties, ChannelIsAlive
    <3>3. c.state \in States /\ c.queued \in SUBSET PVs /\ c.inbox \in Seq(Messages) /\ c.peer \in BOOLEAN
      BY <3>1, CircuitFields DEF States
    <3>4. m \in Messages /\ m.class = "ServerDisconn"
      BY DEF Messages
    <3>5. circuits' = [circuits EXCEPT ![k].inbox = inbox]
      BY <2>2 DEF CloseChannel
    <3>. HIDE DEF m
    <3>6. inbox \in Inboxes /\ ToSet(inbox) = ToSet(c.inbox) \cup {m}
      BY <3>3, <3>4, Appended DEF Inboxes
    <3>. HIDE DEF inbox
    <3>7. Turned(k, c.state, c.peer, c.queued, inbox)
      <4>1. Turn(k, c.state, c.peer, c.queued, inbox)
        BY <3>1, <3>5, TurnsFields
      <4>. QED  BY <3>1, <3>3, <3>6, <4>1, TurnFacts, Zenon
    <3>. HIDE DEF k
    <3>8. /\ circuits' \in Seq(Circuit) /\ Len(circuits') = Len(circuits) /\ DOMAIN circuits' = DOMAIN circuits
          /\ circuits'[k].addr = circuits[k].addr /\ circuits'[k].channels = c.channels
          /\ circuits'[k].state = c.state /\ circuits'[k].peer = c.peer
          /\ circuits'[k].queued = c.queued /\ circuits'[k].inbox = inbox
          /\ \A j \in DOMAIN circuits : j # k => circuits'[j] = circuits[j]
      BY <3>7, Zenon DEF Turned
    <3>9. c.state # "connecting"
      <4>1. k \in DOMAIN circuits /\ c.peer
        BY <2>2, <3>1 DEF CloseChannel, k
      <4>. QED  BY <4>1 DEF Ties, QuietAtFirst
    <3>10. \A n \in ToSet(inbox) : n.class = "CreateChan" => n \in ToSet(c.inbox)
      BY <3>4, <3>6
    <3>11. Gentle
      BY <1>2, <3>8, <3>9, <3>10 DEF Gentle
    <3>. QED  BY <3>6, <3>8, <3>11
  <2>3. ASSUME NEW a \in Addrs, Crash(a)
        PROVE  <1>4!:
    <3>1. circuits' = [k \in DOMAIN circuits |->
             IF circuits[k].addr = a THEN [circuits[k] EXCEPT !.peer = FALSE] ELSE circuits[k]]
      BY <2>3 DEF Crash
    <3>2. circuits \in Seq(Circuit) /\ DOMAIN circuits = 1..Len(circuits)
      BY DEF TypeOK
    <3>3. ASSUME NEW k \in DOMAIN circuits
          PROVE  LET c == circuits[k]
                     d == circuits'[k] IN
                 /\ d \in Circuit /\ d.addr = c.addr /\ d.channels = c.channels
                 /\ d.state = c.state /\ d.queued = c.queued /\ d.inbox = c.inbox
                 /\ d.peer => c.peer
      <4>. DEFINE c == circuits[k]
                  none == FALSE
                  d == Made(c.addr, c.priority, c.state, none, c.channels, c.queued, c.inbox)
      <4>0. c \in Circuit /\ none \in BOOLEAN
        BY <3>2
      <4>1. [c EXCEPT !.peer = FALSE] = d
        <5>1. ASSUME NEW q \in Circuit, NEW t, t = [q EXCEPT !.peer = FALSE]
              PROVE  t = Made(q.addr, q.priority, q.state, FALSE, q.channels, q.queued, q.inbox)
          BY <5>1 DEF Circuit, Made
        <5>. QED  BY <4>0, <5>1
      <4>. HIDE DEF none
      <4>2. d \in Circuit
        BY <4>0, CircuitFields, MadeFields
      <4>3. /\ d.addr = c.addr /\ d.channels = c.channels /\ d.state = c.state
            /\ d.queued = c.queued /\ d.inbox = c.inbox /\ d.peer = none
        BY MadeFields
      <4>4. circuits'[k] = d \/ circuits'[k] = c
        BY <3>1, <4>1
      <4>. HIDE DEF d
      <4>. QED  BY <4>0, <4>2, <4>3, <4>4 DEF none
    <3>4. DOMAIN circuits' = DOMAIN circuits
      BY <3>1
    <3>5. circuits' \in Seq(Circuit) /\ Len(circuits') = Len(circuits)
      <4>1. circuits' = [k \in 1..Len(circuits) |-> circuits'[k]]
        BY <3>1, <3>2
      <4>. QED  BY <3>2, <3>3, <4>1
    <3>6. Gentle
      BY <1>2, <3>3, <3>4 DEF Gentle
    <3>. QED  BY <3>3, <3>5, <3>6
  <2>. QED  BY <2>1, <2>2, <2>3
<1>5. TypeOK'
  BY <1>1, <1>3, <1>4 DEF TypeOK, ctx, tables, udp, pvs
<1>6. Minded
  <2>1. ASSUME NEW p \in PVs, NEW k \in DOMAIN circuits, Carried(k, p)
        PROVE  Carried(k, p)'
    BY <1>4, <2>1 DEF Carried
  <2>. QED  BY <1>2, <2>1 DEF Minded
<1>. QED  BY <1>1, <1>2, <1>4, <1>5, <1>6

---------------------------------------------------------------------------
(***************************************************************************)
(* The loss of a circuit.                                                  *)
(***************************************************************************)

\* A circuit dies: its PVs have no channel, the other circuits are as before.
LEMMA DieFacts ==
  ASSUME TypeOK, NEW k \in DOMAIN circuits, Die(k)
  PROVE  /\ circuits' \in Seq(Circuit) /\ Len(circuits') = Len(circuits) /\ DOMAIN circuits' = DOMAIN circuits
         /\ circuits'[k].state = "dead" /\ circuits'[k].channels = <<>>
         /\ \A j \in DOMAIN circuits : j # k => circuits'[j] = circuits[j]
         /\ channel' \in [PVs -> 0..Len(circuits)]
         /\ \A p \in PVs : channel'[p] = IF channel[p] = k THEN 0 ELSE channel[p]
<1>. DEFINE c == circuits[k]
            none == FALSE
            d == Made(c.addr, c.priority, "dead", none, <<>>, {}, <<>>)
<1>1. circuits \in Seq(Circuit) /\ c \in Circuit /\ none \in BOOLEAN
  BY DEF TypeOK
<1>2. circuits' = [circuits EXCEPT ![k] = [c EXCEPT !.state = "dead", !.peer = FALSE,
                     !.channels = <<>>, !.queued = {}, !.inbox = <<>>]]
  BY DEF Die
<1>3. [c EXCEPT !.state = "dead", !.peer = FALSE, !.channels = <<>>, !.queued = {}, !.inbox = <<>>] = d
  <2>1. ASSUME NEW q \in Circuit, NEW t, NEW u, NEW v,
               t = [q EXCEPT !.state = u, !.peer = v, !.channels = <<>>, !.queued = {}, !.inbox = <<>>]
        PROVE  t = Made(q.addr, q.priority, u, v, <<>>, {}, <<>>)
    BY <2>1 DEF Circuit, Made
  <2>. QED  BY <1>1, <2>1
<1>4. circuits' = [circuits EXCEPT ![k] = d]
  BY <1>2, <1>3
<1>. HIDE DEF none
<1>5. d \in Circuit
  <2>1. c.addr \in Addrs /\ c.priority \in Priorities
    BY <1>1, CircuitFields
  <2>2. <<>> \in Seq(PVs) /\ {} \in SUBSET PVs /\ <<>> \in Seq(Messages)
    OBVIOUS
  <2>. QED  BY <1>1, <2>1, <2>2, MadeFields
<1>6. d.state = "dead" /\ d.channels = <<>>
  BY MadeFields
<1>. HIDE DEF d
<1>7. /\ circuits' \in Seq(Circuit) /\ Len(circuits') = Len(circuits) /\ DOMAIN circuits' = DOMAIN circuits
      /\ circuits'[k] = d /\ \A j \in DOMAIN circuits : j # k => circuits'[j] = circuits[j]
  BY <1>1, <1>4, <1>5, CircuitExcept
<1>8. /\ channel' \in [PVs -> 0..Len(circuits)]
      /\ \A p \in PVs : channel'[p] = IF channel[p] = k THEN 0 ELSE channel[p]
  <2>1. channel' = [p \in PVs |-> IF channel[p] = k THEN 0 ELSE channel[p]]
    BY DEF Die
  <2>2. channel \in [PVs -> 0..Len(circuits)] /\ Len(circuits) \in Nat
    BY DEF TypeOK
  <2>. QED  BY <2>1, <2>2
<1>. QED  BY <1>6, <1>7, <1>8

\* A PV that is on a circuit that dies is on no other.
LEMMA DieTies ==
  ASSUME TypeOK, TypeOK', Ties, NEW k \in DOMAIN circuits, circuits[k].state # "dead", Die(k),
         UNCHANGED <<known, circuit_manager>>,
         needing' \subseteq needing \cup ToSet(circuits[k].channels)
  PROVE  Ties'
<1>1. /\ DOMAIN circuits' = DOMAIN circuits
      /\ circuits'[k].state = "dead" /\ circuits'[k].channels = <<>>
      /\ \A j \in DOMAIN circuits : j # k => circuits'[j] = circuits[j]
      /\ \A p \in PVs : channel'[p] = IF channel[p] = k THEN 0 ELSE channel[p]
  BY DieFacts
<1>2. OneChannelPerPv'
  <2>. SUFFICES ASSUME NEW j \in DOMAIN circuits', NEW i \in DOMAIN circuits'[j].channels,
                       circuits'[j].state # "dead"
                PROVE  LET p == circuits'[j].channels[i] IN
                       /\ circuit_manager'[p] = j /\ p \notin needing'
                       /\ \A h \in DOMAIN circuits'[j].channels : circuits'[j].channels[h] = p => i = h
    BY DEF OneChannelPerPv
  <2>1. j # k /\ j \in DOMAIN circuits /\ circuits'[j] = circuits[j]
    BY <1>1
  <2>. DEFINE p == circuits[j].channels[i]
  <2>2. /\ circuit_manager[p] = j /\ p \notin needing
        /\ \A h \in DOMAIN circuits[j].channels : circuits[j].channels[h] = p => i = h
    BY <2>1 DEF Ties, OneChannelPerPv
  <2>3. p \notin ToSet(circuits[k].channels)
    <3>. SUFFICES ASSUME NEW h \in DOMAIN circuits[k].channels, circuits[k].channels[h] = p
                  PROVE  FALSE
      BY DEF ToSet
    <3>1. circuit_manager[p] = k
      BY DEF Ties, OneChannelPerPv
    <3>. QED  BY <2>1, <2>2, <3>1
  <2>. QED  BY <2>1, <2>2, <2>3
<1>3. ChannelsAreKnown'
  <2>1. ToSet(circuits'[k].channels) = {}
    BY <1>1 DEF ToSet
  <2>. QED  BY <1>1, <2>1 DEF Ties, ChannelsAreKnown
<1>4. \A p \in PVs : circuit_manager[p] # 0 => circuit_manager[p] \in DOMAIN circuits
  BY DEF TypeOK
<1>5. ManagerHasPv'
  BY <1>1, <1>4 DEF Ties, ManagerHasPv
<1>6. ChannelIsAlive'
  <2>1. \A p \in PVs : channel[p] # 0 => channel[p] \in DOMAIN circuits
    BY DEF TypeOK
  <2>. QED  BY <1>1, <2>1 DEF Ties, ChannelIsAlive
<1>7. MailIsOwn'
  BY <1>1 DEF Ties, MailIsOwn
<1>8. QuietAtFirst'
  BY <1>1 DEF Ties, QuietAtFirst
<1>. QED  BY <1>2, <1>3, <1>5, <1>6, <1>7, <1>8 DEF Ties

\* The results of the server are dropped.
LEMMA DroppedFacts ==
  ASSUME TypeOK, NEW a \in Addrs
  PROVE  /\ Dropped(a) \in Tables
         /\ \A n \in Names, b \in Addrs : Dropped(a)[n][b] = "VALID" =>
              name_to_addrs[n][b] = "VALID" /\ (b = a => n \notin addr_to_names[a])
<1>1. name_to_addrs \in Tables
  BY Typed
<1>2. Dropped(a) = [n \in Names |-> IF n \in addr_to_names[a]
                       THEN [name_to_addrs[n] EXCEPT ![a] = "none"] ELSE name_to_addrs[n]]
  BY DEF Dropped
<1>3. ASSUME NEW n \in Names
      PROVE  /\ Dropped(a)[n] \in [Addrs -> Ages]
             /\ \A b \in Addrs : Dropped(a)[n][b] = "VALID" =>
                  name_to_addrs[n][b] = "VALID" /\ (b = a => n \notin addr_to_names[a])
  <2>1. CASE n \in addr_to_names[a]
    <3>1. Dropped(a)[n] = [name_to_addrs[n] EXCEPT ![a] = "none"]
      BY <1>2, <2>1
    <3>. QED  BY <1>1, <3>1 DEF Tables, Ages
  <2>2. CASE n \notin addr_to_names[a]
    <3>1. Dropped(a)[n] = name_to_addrs[n]
      BY <1>2, <2>2
    <3>. QED  BY <1>1, <2>2, <3>1 DEF Tables
  <2>. QED  BY <2>1, <2>2
<1>4. Dropped(a) = [n \in Names |-> Dropped(a)[n]]
  BY <1>2
<1>. QED  BY <1>3, <1>4 DEF Tables

\* A PV has a result waiting, or a search that is not answered.
Sought(p) ==
  \/ \E i \in DOMAIN results : results[i].name = p.name
  \/ \E i \in DOMAIN searches : searches[i].name = p.name /\ searches[i].open

\* Nothing in the queue or among the searches is lost.
Remembers ==
  /\ \A i \in DOMAIN results : i \in DOMAIN results' /\ results'[i] = results[i]
  /\ \A i \in DOMAIN searches : i \in DOMAIN searches' /\ searches'[i] = searches[i]

\* Every PV of the circuit is searched for again, or an exception is why not.
LEMMA ReconnectFacts ==
  ASSUME TypeOK, NEW k \in DOMAIN circuits, NEW table \in Tables,
         NEW index \in [Addrs -> SUBSET Names], Reconnect(k, table, index)
  PROVE  LET chans == circuits[k].channels IN
         /\ needing \subseteq needing' /\ needing' \subseteq needing \cup ToSet(chans)
         /\ addr_to_names' \in [Addrs -> SUBSET Names]
         /\ \A a \in Addrs : /\ addr_to_names'[a] \subseteq index[a]
                             /\ \A n \in index[a] \ addr_to_names'[a] : \E p \in ToSet(chans) : p.name = n
         /\ name_to_addrs' \in Tables
         /\ \A n \in Names, a \in Addrs : name_to_addrs'[n][a] = "VALID" => table[n][a] = "VALID"
         /\ results' \in Seq(Results) /\ searches' \in Seq(Searches) /\ Len(searches') >= Len(searches)
         /\ Remembers
         /\ left' \in [PVs -> Failures \cup {None}]
         /\ \A p \in PVs : p \notin ToSet(chans) => left'[p] = left[p]
         /\ \A p \in ToSet(chans) : left'[p] # None \/ (p \in needing' /\ Sought(p)')
<1>. DEFINE chans  == circuits[k].channels
            Bad(i) == \E a \in Cached(table, chans[i].name) : chans[i].name \notin index[a]
            bad    == {i \in DOMAIN chans : Bad(i)}
            until  == IF bad = {} THEN Len(chans) ELSE (CHOOSE i \in bad : \A j \in bad : i <= j) - 1
            done   == {chans[i] : i \in 1..until}
            ns     == {p.name : p \in done}
            Gone(n, a) == n \in ns /\ a \in Cached(table, n)
<1>1. /\ needing' = needing \cup done
      /\ IF bad = {}
         THEN /\ addr_to_names' = [a \in Addrs |-> {n \in index[a] : ~Gone(n, a)}]
              /\ Search(table, ns)
              /\ left' = [p \in PVs |->
                   IF p \notin done THEN left[p]
                   ELSE IF \E n \in ns : Raises(table, n) THEN "TypeError" ELSE None]
         ELSE /\ \E some \in SUBSET Cached(table, chans[until + 1].name) :
                   addr_to_names' = [a \in Addrs |->
                     {n \in index[a] : ~Gone(n, a) /\ ~(a \in some /\ n = chans[until + 1].name)}]
              /\ name_to_addrs' = table
              /\ left' = [p \in PVs |-> IF p \in ToSet(chans) THEN "KeyError" ELSE left[p]]
              /\ UNCHANGED <<results, searches>>
  BY DEF Reconnect
<1>. HIDE DEF Bad
<1>2. chans \in Seq(PVs) /\ DOMAIN chans = 1..Len(chans) /\ Len(chans) \in Nat /\ ToSet(chans) \subseteq PVs
  <2>1. chans \in Seq(PVs)
    BY CircuitFields DEF TypeOK
  <2>. QED  BY <2>1 DEF ToSet
<1>. HIDE DEF chans
<1>3. bad \in SUBSET (1..Len(chans))
  BY <1>2
<1>. HIDE DEF bad
<1>4. /\ until \in 0..Len(chans) /\ (bad = {} => until = Len(chans))
      /\ bad # {} => until + 1 \in DOMAIN chans
  <2>1. CASE bad = {}
    BY <1>2, <2>1
  <2>2. CASE bad # {}
    <3>1. bad \in SUBSET Nat
      BY <1>2, <1>3
    <3>2. \E i \in bad : \A j \in bad : i <= j
      BY <2>2, <3>1, Smallest
    <3>. DEFINE first == CHOOSE i \in bad : \A j \in bad : i <= j
    <3>3. first \in bad
      BY <3>2
    <3>4. until = first - 1
      BY <2>2
    <3>. HIDE DEF first, until
    <3>. QED  BY <1>2, <1>3, <2>2, <3>3, <3>4
  <2>. QED  BY <2>1, <2>2
<1>. HIDE DEF until
<1>5. done \subseteq ToSet(chans) /\ (bad = {} => done = ToSet(chans))
  BY <1>2, <1>4 DEF ToSet
<1>. HIDE DEF done
<1>6. ns \subseteq Names /\ IsFiniteSet(ns) /\ \A n \in ns : \E p \in ToSet(chans) : p.name = n
  <2>1. done \in SUBSET PVs
    BY <1>2, <1>5
  <2>2. ns \subseteq Names /\ IsFiniteSet(ns)
    BY <2>1, NamesFinite
  <2>3. \A n \in ns : \E p \in ToSet(chans) : p.name = n
    BY <1>5
  <2>. QED  BY <2>2, <2>3
<1>7. \A p \in done : p.name \in ns
  OBVIOUS
<1>. HIDE DEF ns
<1>8. results \in Seq(Results) /\ searches \in Seq(Searches) /\ left \in [PVs -> Failures \cup {None}]
  BY Typed
<1>9. needing \subseteq needing' /\ needing' \subseteq needing \cup ToSet(chans)
  BY <1>1, <1>5
<1>10. "TypeError" \in Failures /\ "KeyError" \in Failures
  BY DEF Failures
<1>11. CASE bad = {}
  <2>1. /\ addr_to_names' = [a \in Addrs |-> {n \in index[a] : ~Gone(n, a)}]
        /\ Search(table, ns)
        /\ left' = [p \in PVs |->
             IF p \notin done THEN left[p]
             ELSE IF \E n \in ns : Raises(table, n) THEN "TypeError" ELSE None]
    BY <1>1, <1>11
  <2>2. /\ addr_to_names' \in [Addrs -> SUBSET Names]
        /\ \A a \in Addrs : /\ addr_to_names'[a] \subseteq index[a]
                            /\ \A n \in index[a] \ addr_to_names'[a] : \E p \in ToSet(chans) : p.name = n
    BY <1>6, <2>1
  <2>3. /\ name_to_addrs' \in Tables
        /\ \A n \in Names, a \in Addrs : name_to_addrs'[n][a] = "VALID" => table[n][a] = "VALID"
        /\ results' \in Seq(Results) /\ searches' \in Seq(Searches) /\ Len(searches') >= Len(searches)
        /\ Remembers
    BY <1>6, <1>8, <2>1, SearchFacts DEF Remembers
  <2>4. \A n \in ns : \/ \E m \in ns : Raises(table, m)
                      \/ \E i \in DOMAIN results' : results'[i].name = n
                      \/ \E i \in DOMAIN searches' : searches'[i].name = n /\ searches'[i].open
    <3>1. ns \in SUBSET Names /\ IsFiniteSet(ns) /\ Search(table, ns)
      BY <1>6, <2>1
    <3>. QED  BY ONLY <1>8, <3>1, SearchFacts, table \in Tables
  <2>5. PICK raised \in BOOLEAN : raised = \E n \in ns : Raises(table, n)
    OBVIOUS
  <2>6. left' = [p \in PVs |-> IF p \notin done THEN left[p] ELSE IF raised THEN "TypeError" ELSE None]
    BY <2>1, <2>5
  <2>7. /\ left' \in [PVs -> Failures \cup {None}]
        /\ \A p \in PVs : p \notin done => left'[p] = left[p]
        /\ raised => \A p \in done : left'[p] = "TypeError"
    BY <1>2, <1>5, <1>8, <1>10, <2>6
  <2>8. ASSUME NEW p \in ToSet(chans)
        PROVE  left'[p] # None \/ (p \in needing' /\ Sought(p)')
    <3>1. p \in done /\ p.name \in ns /\ p \in needing'
      BY <1>1, <1>5, <1>7, <1>11
    <3>2. CASE raised
      BY <2>7, <3>1, <3>2, NoneAssumption DEF Failures
    <3>3. CASE ~raised
      BY <2>4, <2>5, <3>1, <3>3 DEF Sought
    <3>. QED  BY <3>2, <3>3
  <2>9. \A p \in PVs : p \notin ToSet(chans) => left'[p] = left[p]
    BY <1>5, <2>7
  <2>. QED  BY <1>9, <2>2, <2>3, <2>7, <2>8, <2>9 DEF chans
<1>12. CASE bad # {}
  <2>. DEFINE last == chans[until + 1]
  <2>1. PICK some \in SUBSET Cached(table, last.name) :
          addr_to_names' = [a \in Addrs |-> {n \in index[a] : ~Gone(n, a) /\ ~(a \in some /\ n = last.name)}]
    BY <1>1, <1>12
  <2>2. /\ name_to_addrs' = table /\ results' = results /\ searches' = searches
        /\ left' = [p \in PVs |-> IF p \in ToSet(chans) THEN "KeyError" ELSE left[p]]
    BY <1>1, <1>12
  <2>3. last \in ToSet(chans)
    BY <1>4, <1>12 DEF ToSet
  <2>. HIDE DEF last
  <2>4. /\ addr_to_names' \in [Addrs -> SUBSET Names]
        /\ \A a \in Addrs : /\ addr_to_names'[a] \subseteq index[a]
                            /\ \A n \in index[a] \ addr_to_names'[a] : \E p \in ToSet(chans) : p.name = n
    BY <1>6, <2>1, <2>3
  <2>5. Remembers /\ Len(searches') >= Len(searches)
    BY <1>8, <2>2 DEF Remembers
  <2>6. /\ left' \in [PVs -> Failures \cup {None}]
        /\ \A p \in PVs : p \notin ToSet(chans) => left'[p] = left[p]
        /\ \A p \in ToSet(chans) : left'[p] = "KeyError"
    BY <1>2, <1>8, <1>10, <2>2
  <2>7. "KeyError" # None
    BY <1>10, NoneAssumption
  <2>. QED  BY <1>8, <1>9, <2>2, <2>4, <2>5, <2>6, <2>7 DEF chans
<1>. QED  BY <1>11, <1>12

---------------------------------------------------------------------------
(***************************************************************************)
(* The rest of the inductive invariant: the marker and the forgotten.      *)
(***************************************************************************)

\* A live circuit to the server has a channel of this name.
Held(n, a) ==
  \E k \in DOMAIN circuits :
    circuits[k].addr = a /\ circuits[k].state # "dead" /\ \E p \in ToSet(circuits[k].channels) : p.name = n

MarkerIsHeld ==
  \A n \in Names, a \in Addrs : name_to_addrs[n][a] = "VALID" /\ n \in addr_to_names[a] => Held(n, a)

\* The two tables agree about a name that only one PV has.
MarkerIsIndexed ==
  \A n \in Names, a \in Addrs : name_to_addrs[n][a] = "VALID" /\ AskedOnce(n) => n \in addr_to_names[a]

\* NobodyIsForgotten for one PV, by what it waits for.
Cared(p) ==
  \/ channel[p] # 0 \/ left[p] # None
  \/ p \in needing /\ (search_loop = "ended" \/ Sought(p))
  \/ p \notin needing /\ circuit_manager[p] # 0 /\ Carried(circuit_manager[p], p)

LEMMA CaredMeans ==
  ASSUME search_loop \in {"run", "ended"}
  PROVE  NobodyIsForgotten <=> \A p \in known : Cared(p)
<1>1. ASSUME NEW p
      PROVE  \/ channel[p] # 0 \/ Attended(p) \/ left[p] # None
             \/ search_loop = "ended" /\ p \in needing
             <=> Cared(p)
  BY DEF Attended, Cared, Sought, Carried
<1>. QED  BY <1>1 DEF NobodyIsForgotten

LEMMA CaredMeansNext ==
  ASSUME search_loop' \in {"run", "ended"}
  PROVE  NobodyIsForgotten' <=> \A p \in known' : Cared(p)'
<1>1. ASSUME NEW CONSTANT p
      PROVE  (\/ channel[p] # 0 \/ Attended(p) \/ left[p] # None
              \/ search_loop = "ended" /\ p \in needing)' <=> Cared(p)'
  BY DEF Attended, Cared, Sought, Carried
<1>. QED  BY <1>1 DEF NobodyIsForgotten

LEMMA MarkerMeans ==
  ASSUME MarkerIsHeld, MarkerIsIndexed
  PROVE  MarkerMeansChannel
<1>. SUFFICES ASSUME NEW n \in Names, NEW a \in Addrs,
                     name_to_addrs[n][a] = "VALID", n \in addr_to_names[a] \/ AskedOnce(n)
              PROVE  \E k \in DOMAIN circuits :
                       circuits[k].addr = a /\ circuits[k].state # "dead"
                       /\ \E i \in DOMAIN circuits[k].channels : circuits[k].channels[i].name = n
  BY DEF MarkerMeansChannel
<1>1. Held(n, a)
  BY DEF MarkerIsHeld, MarkerIsIndexed
<1>. QED  BY <1>1 DEF Held, ToSet

\* What the loss of a circuit does, seen from outside.
Loss(k) ==
  /\ Die(k) /\ UNCHANGED <<known, circuit_manager, search_loop>>
  /\ needing \subseteq needing' /\ needing' \subseteq needing \cup ToSet(circuits[k].channels)
  /\ \A b \in Addrs :
       /\ addr_to_names'[b] \subseteq addr_to_names[b] /\ (b = circuits[k].addr => addr_to_names'[b] = {})
       /\ \A n \in addr_to_names[b] \ addr_to_names'[b] :
            b = circuits[k].addr \/ \E p \in ToSet(circuits[k].channels) : p.name = n
  /\ \A n \in Names, b \in Addrs : name_to_addrs'[n][b] = "VALID" =>
       name_to_addrs[n][b] = "VALID" /\ (b = circuits[k].addr => n \notin addr_to_names[b])
  /\ Remembers
  /\ \A p \in PVs : p \notin ToSet(circuits[k].channels) => left'[p] = left[p]
  /\ \A p \in ToSet(circuits[k].channels) : left'[p] # None \/ (p \in needing' /\ Sought(p)')

\* Two live circuits do not share a PV.
LEMMA OneCircuit ==
  ASSUME Ties, NEW k \in DOMAIN circuits, NEW j \in DOMAIN circuits,
         circuits[k].state # "dead", circuits[j].state # "dead",
         NEW p \in ToSet(circuits[k].channels), p \in ToSet(circuits[j].channels)
  PROVE  k = j /\ circuit_manager[p] = k /\ p \notin needing /\ p \in known
<1>1. PICK i \in DOMAIN circuits[k].channels : circuits[k].channels[i] = p
  BY DEF ToSet
<1>2. PICK h \in DOMAIN circuits[j].channels : circuits[j].channels[h] = p
  BY DEF ToSet
<1>3. circuit_manager[p] = k /\ p \notin needing
  BY <1>1 DEF Ties, OneChannelPerPv
<1>4. circuit_manager[p] = j
  BY <1>2 DEF Ties, OneChannelPerPv
<1>5. p \in known
  BY DEF Ties, ChannelsAreKnown
<1>. QED  BY <1>3, <1>4, <1>5

\* What was sought is sought still.
LEMMA SoughtStays ==
  ASSUME NEW CONSTANT p, Sought(p), Remembers
  PROVE  Sought(p)'
<1>1. ASSUME NEW i \in DOMAIN results, results[i].name = p.name
      PROVE  i \in DOMAIN results' /\ results'[i].name = p.name
  BY <1>1 DEF Remembers
<1>2. ASSUME NEW i \in DOMAIN searches, searches[i].name = p.name /\ searches[i].open
      PROVE  i \in DOMAIN searches' /\ searches'[i].name = p.name /\ searches'[i].open
  BY <1>2 DEF Remembers
<1>. QED  BY <1>1, <1>2 DEF Sought

LEMMA LossKeeps ==
  ASSUME TypeOK, TypeOK', Ties, MarkerIsHeld, MarkerIsIndexed, NobodyIsForgotten,
         NEW k \in DOMAIN circuits, circuits[k].state # "dead", Loss(k)
  PROVE  Ties' /\ MarkerIsHeld' /\ MarkerIsIndexed' /\ NobodyIsForgotten'
<1>. DEFINE chans == circuits[k].channels
            a == circuits[k].addr
<1>1. Ties'
  BY DieTies DEF Loss
<1>2. /\ DOMAIN circuits' = DOMAIN circuits
      /\ \A j \in DOMAIN circuits : j # k => circuits'[j] = circuits[j]
      /\ \A p \in PVs : channel'[p] = IF channel[p] = k THEN 0 ELSE channel[p]
  BY DieFacts DEF Loss
<1>3. MarkerIsHeld'
  <2>. SUFFICES ASSUME NEW n \in Names, NEW b \in Addrs,
                       name_to_addrs'[n][b] = "VALID", n \in addr_to_names'[b]
                PROVE  Held(n, b)'
    BY DEF MarkerIsHeld
  <2>1. name_to_addrs[n][b] = "VALID" /\ n \in addr_to_names[b] /\ b # a
    BY DEF Loss
  <2>2. PICK j \in DOMAIN circuits :
          circuits[j].addr = b /\ circuits[j].state # "dead" /\ \E p \in ToSet(circuits[j].channels) : p.name = n
    BY <2>1 DEF MarkerIsHeld, Held
  <2>3. j # k /\ circuits'[j] = circuits[j] /\ j \in DOMAIN circuits'
    BY <1>2, <2>1, <2>2
  <2>. QED  BY <2>2, <2>3 DEF Held
<1>4. MarkerIsIndexed'
  <2>. SUFFICES ASSUME NEW n \in Names, NEW b \in Addrs, name_to_addrs'[n][b] = "VALID", AskedOnce(n)'
                PROVE  n \in addr_to_names'[b]
    BY DEF MarkerIsIndexed
  <2>1. AskedOnce(n)
    BY DEF AskedOnce, Loss
  <2>2. name_to_addrs[n][b] = "VALID" /\ (b = a => n \notin addr_to_names[b])
    BY DEF Loss
  <2>3. n \in addr_to_names[b] /\ b # a
    BY <2>1, <2>2 DEF MarkerIsIndexed
  <2>. SUFFICES ASSUME n \notin addr_to_names'[b] PROVE FALSE
    OBVIOUS
  <2>4. PICK p \in ToSet(chans) : p.name = n
    BY <2>3 DEF Loss
  <2>5. PICK j \in DOMAIN circuits :
          circuits[j].addr = b /\ circuits[j].state # "dead" /\ \E q \in ToSet(circuits[j].channels) : q.name = n
    BY <2>2, <2>3 DEF MarkerIsHeld, Held
  <2>6. PICK q \in ToSet(circuits[j].channels) : q.name = n
    BY <2>5
  <2>7. p \in known /\ q \in known
    BY DEF Ties, ChannelsAreKnown
  <2>8. p = q
    BY <2>1, <2>4, <2>6, <2>7 DEF AskedOnce
  <2>9. k = j
    BY <2>5, <2>8, OneCircuit
  <2>. QED  BY <2>3, <2>5, <2>9
<1>5. NobodyIsForgotten'
  <2>0. /\ search_loop \in {"run", "ended"} /\ search_loop' = search_loop /\ known' = known /\ known \subseteq PVs
        /\ circuit_manager' = circuit_manager /\ \A p \in PVs : circuit_manager[p] # 0 => circuit_manager[p] \in DOMAIN circuits
    BY DEF TypeOK, Loss
  <2>. SUFFICES ASSUME NEW CONSTANT p \in known' PROVE Cared(p)'
    BY <2>0, CaredMeansNext
  <2>1. p \in PVs /\ Cared(p)
    BY <2>0, CaredMeans
  <2>2. CASE p \in ToSet(chans)
    BY <2>2 DEF Loss, Cared
  <2>3. CASE p \notin ToSet(chans)
    <3>1. left'[p] = left[p] /\ (p \in needing <=> p \in needing')
      BY <2>1, <2>3 DEF Loss
    <3>2. channel[p] # k
      <4>1. k # 0
        BY DEF TypeOK
      <4>. QED  BY <2>1, <2>3, <4>1 DEF Ties, ChannelIsAlive
    <3>3. circuit_manager[p] # k
      <4>1. k # 0
        BY DEF TypeOK
      <4>. QED  BY <2>1, <2>3, <4>1 DEF Ties, ManagerHasPv
    <3>4. channel'[p] = channel[p]
      BY <1>2, <2>1, <3>2
    <3>5. Sought(p) => Sought(p)'
      BY SoughtStays DEF Loss
    <3>6. circuit_manager[p] # 0 /\ Carried(circuit_manager[p], p) => Carried(circuit_manager[p], p)'
      <4>. SUFFICES ASSUME circuit_manager[p] # 0, Carried(circuit_manager[p], p)
                    PROVE  Carried(circuit_manager[p], p)'
        OBVIOUS
      <4>1. circuit_manager[p] \in DOMAIN circuits
        BY <2>0, <2>1
      <4>2. circuits'[circuit_manager[p]] = circuits[circuit_manager[p]]
        BY <1>2, <3>3, <4>1
      <4>. QED  BY <2>0, <4>2 DEF Carried
    <3>. QED  BY <2>0, <2>1, <3>1, <3>4, <3>5, <3>6 DEF Cared
  <2>. QED  BY <2>2, <2>3
<1>. QED  BY <1>1, <1>3, <1>4, <1>5

\* What the answers and the timeouts do to a circuit is such a loss.
LEMMA DisconnectedFacts ==
  ASSUME TypeOK, Ties, NEW k \in DOMAIN circuits, Disconnected(k)
  PROVE  TypeOK' /\ Loss(k) /\ circuits[k].state # "dead"
<1>. DEFINE a == circuits[k].addr
            index == [addr_to_names EXCEPT ![a] = {}]
            table == Dropped(a)
<1>0. circuits[k].state # "dead" /\ Die(k) /\ Reconnect(k, table, index)
  BY DEF Disconnected
<1>1. UNCHANGED <<known, search_loop, answers, circuit_manager, world, up, faults, giveups>>
  BY DEF Disconnected, env
<1>2. a \in Addrs
  BY CircuitFields DEF TypeOK
<1>3. /\ index \in [Addrs -> SUBSET Names] /\ index[a] = {}
      /\ \A b \in Addrs : b # a => index[b] = addr_to_names[b]
  BY <1>2 DEF TypeOK
<1>4. /\ table \in Tables
      /\ \A n \in Names, b \in Addrs : table[n][b] = "VALID" =>
           name_to_addrs[n][b] = "VALID" /\ (b = a => n \notin addr_to_names[a])
  BY <1>2, DroppedFacts
<1>. HIDE DEF index, table
<1>. DEFINE chans == circuits[k].channels
<1>5. /\ needing \subseteq needing' /\ needing' \subseteq needing \cup ToSet(chans)
      /\ addr_to_names' \in [Addrs -> SUBSET Names]
      /\ \A b \in Addrs : /\ addr_to_names'[b] \subseteq index[b]
                          /\ \A n \in index[b] \ addr_to_names'[b] : \E p \in ToSet(chans) : p.name = n
      /\ name_to_addrs' \in Tables
      /\ \A n \in Names, b \in Addrs : name_to_addrs'[n][b] = "VALID" => table[n][b] = "VALID"
      /\ results' \in Seq(Results) /\ searches' \in Seq(Searches) /\ Len(searches') >= Len(searches)
      /\ Remembers
      /\ left' \in [PVs -> Failures \cup {None}]
      /\ \A p \in PVs : p \notin ToSet(chans) => left'[p] = left[p]
      /\ \A p \in ToSet(chans) : left'[p] # None \/ (p \in needing' /\ Sought(p)')
  BY <1>0, <1>3, <1>4, ReconnectFacts
<1>6. /\ circuits' \in Seq(Circuit) /\ Len(circuits') = Len(circuits)
      /\ channel' \in [PVs -> 0..Len(circuits)]
  BY <1>0, DieFacts
<1>7. Loss(k)
  <2>1. ASSUME NEW b \in Addrs
        PROVE  /\ addr_to_names'[b] \subseteq addr_to_names[b] /\ (b = a => addr_to_names'[b] = {})
               /\ \A n \in addr_to_names[b] \ addr_to_names'[b] : b = a \/ \E p \in ToSet(chans) : p.name = n
    <3>1. CASE b = a
      BY <1>3, <1>5, <3>1
    <3>2. CASE b # a
      BY <1>3, <1>5, <3>2
    <3>. QED  BY <3>1, <3>2
  <2>2. ASSUME NEW n \in Names, NEW b \in Addrs, name_to_addrs'[n][b] = "VALID"
        PROVE  name_to_addrs[n][b] = "VALID" /\ (b = a => n \notin addr_to_names[b])
    BY <1>4, <1>5, <2>2
  <2>. QED  BY <1>0, <1>1, <1>5, <2>1, <2>2 DEF Loss
<1>8. answers' \subseteq [id : 1..Len(searches'), addr : Addrs]
  <2>1. answers \subseteq [id : 1..Len(searches), addr : Addrs] /\ searches \in Seq(Searches)
    BY Typed
  <2>2. 1..Len(searches) \subseteq 1..Len(searches')
    BY <1>5, <2>1
  <2>. QED  BY <1>1, <2>1, <2>2
<1>9. ToSet(chans) \subseteq known' /\ needing' \subseteq known'
  <2>1. ToSet(chans) \subseteq known /\ needing \subseteq known
    BY DEF Ties, ChannelsAreKnown, TypeOK
  <2>. QED  BY <1>1, <1>5, <2>1
<1>10. TypeOK'
  BY <1>1, <1>5, <1>6, <1>8, <1>9 DEF TypeOK, Results, Searches, Tables
<1>. QED  BY <1>0, <1>7, <1>10

LEMMA GiveUpFacts ==
  ASSUME TypeOK, Ties, NEW k \in DOMAIN circuits, GiveUp(k)
  PROVE  TypeOK' /\ Loss(k) /\ circuits[k].state # "dead"
<1>. DEFINE a == circuits[k].addr
            chans == circuits[k].channels
<1>0. circuits[k].state # "dead" /\ Die(k) /\ name_to_addrs' = Dropped(a)
  BY DEF GiveUp
<1>1. /\ UNCHANGED <<known, needing, results, search_loop, searches, answers, circuit_manager, world, up, faults>>
      /\ giveups > 0 /\ giveups' = giveups - 1
  BY DEF GiveUp, ctx, udp
<1>2. a \in Addrs /\ k # 0
  BY CircuitFields DEF TypeOK
<1>3. /\ addr_to_names' \in [Addrs -> SUBSET Names] /\ addr_to_names'[a] = {}
      /\ \A b \in Addrs : b # a => addr_to_names'[b] = addr_to_names[b]
  BY <1>2 DEF TypeOK, GiveUp
<1>4. /\ name_to_addrs' \in Tables
      /\ \A n \in Names, b \in Addrs : name_to_addrs'[n][b] = "VALID" =>
           name_to_addrs[n][b] = "VALID" /\ (b = a => n \notin addr_to_names[a])
  BY <1>0, <1>2, DroppedFacts
<1>5. left' = [p \in PVs |-> IF circuit_manager[p] = k THEN "given up" ELSE left[p]]
  BY DEF GiveUp
<1>6. left' \in [PVs -> Failures \cup {None}]
  <2>1. "given up" \in Failures
    BY DEF Failures
  <2>. QED  BY <1>5, <2>1 DEF TypeOK
<1>7. \A p \in ToSet(chans) : left'[p] # None
  <2>. TAKE p \in ToSet(chans)
  <2>1. circuit_manager[p] = k
    BY <1>0, OneCircuit
  <2>2. p \in PVs
    BY DEF Ties, ChannelsAreKnown, TypeOK
  <2>3. "given up" # None
    BY NoneAssumption DEF Failures
  <2>. QED  BY <1>5, <2>1, <2>2, <2>3
<1>8. \A p \in PVs : p \notin ToSet(chans) => left'[p] = left[p]
  <2>1. \A p \in PVs : p \notin ToSet(chans) => circuit_manager[p] # k
    BY <1>0, <1>2 DEF Ties, ManagerHasPv
  <2>. QED  BY <1>5, <2>1
<1>9. Loss(k)
  <2>1. \A b \in Addrs :
          /\ addr_to_names'[b] \subseteq addr_to_names[b] /\ (b = a => addr_to_names'[b] = {})
          /\ \A n \in addr_to_names[b] \ addr_to_names'[b] : b = a
    BY <1>3
  <2>2. Remembers
    BY <1>1 DEF Remembers
  <2>. QED  BY <1>0, <1>1, <1>4, <1>7, <1>8, <2>1, <2>2 DEF Loss
<1>10. /\ circuits' \in Seq(Circuit) /\ Len(circuits') = Len(circuits)
       /\ channel' \in [PVs -> 0..Len(circuits)]
  BY <1>0, DieFacts
<1>11. giveups' \in 0..world.giveups
  <2>1. world.giveups \in Nat
    BY WorldAssumption DEF TypeOK, World
  <2>. QED  BY <1>1, <2>1 DEF TypeOK
<1>12. TypeOK'
  BY <1>1, <1>3, <1>4, <1>6, <1>10, <1>11 DEF TypeOK, Tables
<1>. QED  BY <1>0, <1>9, <1>12

---------------------------------------------------------------------------
(***************************************************************************)
(* Gentle steps keep the rest of the invariant.                            *)
(***************************************************************************)

LEMMA HeldStays ==
  ASSUME Gentle, NEW CONSTANT n, NEW CONSTANT a, Held(n, a)
  PROVE  Held(n, a)'
<1>1. PICK k \in DOMAIN circuits :
        circuits[k].addr = a /\ circuits[k].state # "dead" /\ \E p \in ToSet(circuits[k].channels) : p.name = n
  BY DEF Held
<1>2. k \in DOMAIN circuits' /\ circuits'[k].addr = a /\ circuits'[k].state # "dead"
      /\ circuits'[k].channels = circuits[k].channels
  BY <1>1 DEF Gentle
<1>. QED  BY <1>1, <1>2 DEF Held

\* No result gets the marker, and no index entry is made for one that has it.
LEMMA MarkersStay ==
  ASSUME MarkerIsHeld, MarkerIsIndexed, Gentle,
         \A n \in Names, a \in Addrs :
           /\ name_to_addrs'[n][a] = "VALID" => name_to_addrs[n][a] = "VALID"
           /\ n \in addr_to_names[a] => n \in addr_to_names'[a]
           /\ n \in addr_to_names'[a] /\ name_to_addrs'[n][a] = "VALID" => n \in addr_to_names[a]
  PROVE  MarkerIsHeld' /\ MarkerIsIndexed'
<1>1. ASSUME NEW n \in Names, NEW a \in Addrs, name_to_addrs'[n][a] = "VALID", n \in addr_to_names'[a]
      PROVE  Held(n, a)'
  <2>1. Held(n, a)
    BY <1>1 DEF MarkerIsHeld
  <2>. QED  BY <2>1, HeldStays
<1>2. ASSUME NEW n \in Names, NEW a \in Addrs, name_to_addrs'[n][a] = "VALID", AskedOnce(n)'
      PROVE  n \in addr_to_names'[a]
  <2>1. AskedOnce(n)
    BY <1>2 DEF AskedOnce, Gentle
  <2>. QED  BY <1>2, <2>1 DEF MarkerIsIndexed
<1>. QED  BY <1>1, <1>2 DEF MarkerIsHeld, MarkerIsIndexed

\* A new channel's marker is held by its circuit.
LEMMA CreateMarkers ==
  ASSUME TypeOK, Ties, MarkerIsHeld, MarkerIsIndexed, NEW k \in DOMAIN circuits, CreateChanResponse(k)
  PROVE  MarkerIsHeld' /\ MarkerIsIndexed'
<1>0. PICK b : b = circuits[k].addr
  OBVIOUS
<1>1. PICK p \in ToSet(circuits[k].channels) : \A n \in Names, a \in Addrs :
         /\ name_to_addrs'[n][a] = "VALID" => name_to_addrs[n][a] = "VALID" \/ (n = p.name /\ a = b)
         /\ n \in addr_to_names'[a] => n \in addr_to_names[a] \/ (n = p.name /\ a = b)
         /\ n = p.name /\ a = b => n \in addr_to_names'[a]
  BY <1>0, CreateFacts
<1>2. /\ Gentle /\ circuits[k].state # "dead"
      /\ \A a \in Addrs : addr_to_names[a] \subseteq addr_to_names'[a]
  BY CreateFacts
<1>3. Held(p.name, b)'
  <2>1. /\ k \in DOMAIN circuits' /\ circuits'[k].addr = b /\ circuits'[k].state # "dead"
        /\ circuits'[k].channels = circuits[k].channels
    BY <1>0, <1>2 DEF Gentle
  <2>. QED  BY <1>1, <2>1 DEF Held
<1>4. ASSUME NEW n \in Names, NEW a \in Addrs, name_to_addrs'[n][a] = "VALID", n \in addr_to_names'[a]
      PROVE  Held(n, a)'
  <2>1. CASE n = p.name /\ a = b
    BY <1>3, <2>1
  <2>2. CASE ~(n = p.name /\ a = b)
    <3>1. Held(n, a)
      BY <1>1, <1>4, <2>2 DEF MarkerIsHeld
    <3>. QED  BY <1>2, <3>1, HeldStays
  <2>. QED  BY <2>1, <2>2
<1>5. ASSUME NEW n \in Names, NEW a \in Addrs, name_to_addrs'[n][a] = "VALID", AskedOnce(n)'
      PROVE  n \in addr_to_names'[a]
  <2>1. AskedOnce(n)
    BY <1>2, <1>5 DEF AskedOnce, Gentle
  <2>. QED  BY <1>1, <1>2, <1>5, <2>1 DEF MarkerIsIndexed
<1>. QED  BY <1>4, <1>5 DEF MarkerIsHeld, MarkerIsIndexed

\* A step of a circuit or a server that drops no PV.
LEMMA MindedKeeps ==
  ASSUME TypeOK, NobodyIsForgotten, Minded, UNCHANGED <<ctx, searches, circuit_manager>>
  PROVE  NobodyIsForgotten'
<1>0. /\ search_loop \in {"run", "ended"} /\ search_loop' = search_loop /\ known' = known /\ known \subseteq PVs
      /\ needing' = needing /\ results' = results /\ searches' = searches
      /\ circuit_manager' = circuit_manager
      /\ \A p \in PVs : circuit_manager[p] # 0 => circuit_manager[p] \in DOMAIN circuits
  BY DEF TypeOK, ctx
<1>. SUFFICES ASSUME NEW CONSTANT p \in known' PROVE Cared(p)'
  BY <1>0, CaredMeansNext
<1>1. p \in PVs /\ Cared(p)
  BY <1>0, CaredMeans
<1>2. Sought(p) => Sought(p)'
  BY <1>0 DEF Sought
<1>3. /\ left[p] # None => left'[p] # None
      /\ channel[p] # 0 => channel'[p] # 0 \/ left'[p] # None
  BY <1>1 DEF Minded
<1>4. ASSUME circuit_manager[p] # 0, Carried(circuit_manager[p], p)
      PROVE  Carried(circuit_manager[p], p)' \/ channel'[p] # 0 \/ left'[p] # None
  <2>1. PICK k \in DOMAIN circuits : circuit_manager[p] = k
    BY <1>0, <1>1, <1>4
  <2>2. Carried(k, p)
    BY <1>4, <2>1
  <2>3. Carried(k, p)' \/ channel'[p] # 0 \/ left'[p] # None
    BY <1>1, <2>1, <2>2 DEF Minded
  <2>4. Carried(k, p)' => Carried(circuit_manager[p], p)'
    BY <1>0, <2>1 DEF Carried
  <2>. QED  BY <2>3, <2>4
<1>. QED  BY <1>0, <1>1, <1>2, <1>3, <1>4 DEF Cared

\* A step of the broadcaster, the tables or the user.
LEMMA UdpKeeps ==
  ASSUME TypeOK, NobodyIsForgotten, UNCHANGED <<circuits, pvs, search_loop>>,
         \A p \in PVs : Sought(p) => Sought(p)',
         \/ UNCHANGED <<known, needing, left>>
         \/ \E p \in PVs : GetPv(p) /\ (left'[p] # None \/ Sought(p)')
  PROVE  NobodyIsForgotten'
<1>0. /\ search_loop \in {"run", "ended"} /\ search_loop' = search_loop /\ known \subseteq PVs
      /\ circuits' = circuits /\ circuit_manager' = circuit_manager /\ channel' = channel
  BY DEF TypeOK, pvs
<1>. SUFFICES ASSUME NEW CONSTANT p \in known' PROVE Cared(p)'
  BY <1>0, CaredMeansNext
<1>1. Carried(circuit_manager[p], p) => Carried(circuit_manager[p], p)'
  BY <1>0 DEF Carried
<1>2. CASE UNCHANGED <<known, needing, left>>
  <2>1. p \in PVs /\ Cared(p)
    BY <1>0, <1>2, CaredMeans
  <2>. QED  BY <1>0, <1>1, <1>2, <2>1 DEF Cared
<1>3. ASSUME NEW q \in PVs, GetPv(q), left'[q] # None \/ Sought(q)'
      PROVE  Cared(p)'
  <2>1. /\ q \notin known /\ known' = known \cup {q} /\ needing' = needing \cup {q}
        /\ left' = [left EXCEPT ![q] = IF Raises(name_to_addrs, q.name) THEN "TypeError" ELSE None]
    BY <1>3 DEF GetPv
  <2>2. CASE p = q
    BY <1>3, <2>1, <2>2 DEF Cared
  <2>3. CASE p # q
    <3>1. p \in PVs /\ Cared(p) /\ left'[p] = left[p] /\ (p \in needing' <=> p \in needing)
      BY <1>0, <2>1, <2>3, CaredMeans DEF TypeOK
    <3>. QED  BY <1>0, <1>1, <3>1 DEF Cared
  <2>. QED  BY <2>2, <2>3
<1>. QED  BY <1>2, <1>3

---------------------------------------------------------------------------
(***************************************************************************)
(* A search result is processed.                                           *)
(***************************************************************************)

Create(p) == [class |-> "CreateChan", pv |-> p]

\* Circuit c gets p and becomes d; sent: the request to create the channel is.
Given(c, p, sent, d) ==
  /\ d \in Circuit /\ d.addr = c.addr /\ d.state = c.state /\ d.peer = c.peer
  /\ d.channels = Append(c.channels, p)
  /\ c.queued \subseteq d.queued /\ d.queued \subseteq c.queued \cup {p}
  /\ ToSet(c.inbox) \subseteq ToSet(d.inbox) /\ ToSet(d.inbox) \subseteq ToSet(c.inbox) \cup {Create(p)}
  /\ c.state = "connecting" => d.inbox = c.inbox
  /\ sent /\ c.state = "connecting" => p \in d.queued
  /\ sent /\ c.state \in {"open", "ready"} /\ c.peer => Create(p) \in ToSet(d.inbox)

LEMMA GivenFacts ==
  ASSUME NEW c \in Circuit, NEW p \in PVs, NEW sent, NEW e, NEW d,
         e = IF sent THEN SendCreate(c, p) ELSE c, d = [e EXCEPT !.channels = Append(@, p)]
  PROVE  Given(c, p, sent, d)
<1>. DEFINE f == Made(c.addr, c.priority, c.state, c.peer, c.channels, c.queued, c.inbox)
<1>1. c = f
  BY CircuitFields DEF Made
<1>2. /\ c.addr \in Addrs /\ c.priority \in Priorities /\ c.peer \in BOOLEAN /\ c.state \in States
      /\ c.channels \in Seq(PVs) /\ c.queued \in SUBSET PVs /\ c.inbox \in Inboxes
  BY CircuitFields DEF States, Inboxes
<1>3. PICK chans : chans = Append(c.channels, p)
  OBVIOUS
<1>4. chans \in Seq(PVs)
  BY <1>2, <1>3, Appended
<1>5. Create(p) \in Messages
  BY DEF Create, Messages
<1>6. PICK inbox : inbox = Append(c.inbox, Create(p))
  OBVIOUS
<1>7. inbox \in Inboxes /\ ToSet(inbox) = ToSet(c.inbox) \cup {Create(p)}
  BY <1>2, <1>5, <1>6, Appended DEF Inboxes
<1>8. ASSUME NEW queued \in SUBSET PVs, NEW mail \in Inboxes,
             e = Made(c.addr, c.priority, c.state, c.peer, c.channels, queued, mail)
      PROVE  /\ d \in Circuit /\ d.addr = c.addr /\ d.state = c.state /\ d.peer = c.peer
             /\ d.channels = Append(c.channels, p) /\ d.queued = queued /\ d.inbox = mail
  <2>. DEFINE g == Made(c.addr, c.priority, c.state, c.peer, chans, queued, mail)
  <2>1. d = g
    <3>. DEFINE h == Made(c.addr, c.priority, c.state, c.peer, c.channels, queued, mail)
    <3>1. h.channels = c.channels
      BY MadeFields
    <3>2. [h EXCEPT !.channels = chans] = g
      BY DEF Made
    <3>3. e = h
      BY <1>8
    <3>. HIDE DEF g, h
    <3>. QED  BY <1>3, <3>1, <3>2, <3>3
  <2>2. g \in Circuit
    BY <1>2, <1>4, MadeFields DEF States, Inboxes
  <2>3. /\ g.addr = c.addr /\ g.state = c.state /\ g.peer = c.peer
        /\ g.channels = chans /\ g.queued = queued /\ g.inbox = mail
    BY MadeFields
  <2>. HIDE DEF g
  <2>. QED  BY <1>3, <2>1, <2>2, <2>3
<1>9. CASE e = c /\ (~sent \/ (c.state \notin {"connecting", "failed"} /\ ~c.peer))
  <2>1. /\ d \in Circuit /\ d.addr = c.addr /\ d.state = c.state /\ d.peer = c.peer
        /\ d.channels = Append(c.channels, p) /\ d.queued = c.queued /\ d.inbox = c.inbox
    BY <1>1, <1>2, <1>8, <1>9
  <2>. QED  BY <1>9, <2>1 DEF Given
<1>10. CASE sent /\ c.state \in {"connecting", "failed"}
  <2>1. e = [c EXCEPT !.queued = @ \cup {p}]
    BY <1>10 DEF SendCreate
  <2>. DEFINE queued == c.queued \cup {p}
  <2>2. queued \in SUBSET PVs /\ p \in queued
    BY <1>2
  <2>3. e = Made(c.addr, c.priority, c.state, c.peer, c.channels, queued, c.inbox)
    BY <1>1, <2>1 DEF Made
  <2>4. c.queued \subseteq queued /\ queued \subseteq c.queued \cup {p}
    OBVIOUS
  <2>. HIDE DEF queued
  <2>5. /\ d \in Circuit /\ d.addr = c.addr /\ d.state = c.state /\ d.peer = c.peer
        /\ d.channels = Append(c.channels, p) /\ d.queued = queued /\ d.inbox = c.inbox
    BY <1>2, <1>8, <2>2, <2>3
  <2>. QED  BY <1>10, <2>2, <2>4, <2>5 DEF Given
<1>11. CASE sent /\ c.state \notin {"connecting", "failed"} /\ c.peer
  <2>1. e = [c EXCEPT !.inbox = inbox]
    BY <1>6, <1>11 DEF SendCreate, Create
  <2>2. e = Made(c.addr, c.priority, c.state, c.peer, c.channels, c.queued, inbox)
    BY <1>1, <2>1 DEF Made
  <2>3. /\ d \in Circuit /\ d.addr = c.addr /\ d.state = c.state /\ d.peer = c.peer
        /\ d.channels = Append(c.channels, p) /\ d.queued = c.queued /\ d.inbox = inbox
    BY <1>2, <1>7, <1>8, <2>2
  <2>. QED  BY <1>7, <1>11, <2>3 DEF Given
<1>12. \/ e = c /\ (~sent \/ (c.state \notin {"connecting", "failed"} /\ ~c.peer))
       \/ sent /\ c.state \in {"connecting", "failed"}
       \/ sent /\ c.state \notin {"connecting", "failed"} /\ c.peer
  BY DEF SendCreate
<1>. QED  BY <1>9, <1>10, <1>11, <1>12

\* The PVs that the first result is for.
Mine == {p \in needing : p.name = Head(results).name}

\* A circuit that has just been made.
Blank(c) == /\ c.state = "connecting" /\ ~c.peer
            /\ c.channels = <<>> /\ c.queued = {} /\ c.inbox = <<>>

\* PV p of Mine is put on circuit of[p] of the circuits, the new ones
\* included, and the requests of the PVs in sent go out.
Placement(all, of, sent) ==
  /\ Len(all) >= Len(circuits)
  /\ \A k \in DOMAIN all : IF k \in DOMAIN circuits THEN all[k] = circuits[k] ELSE Blank(all[k])
  /\ \A p \in Mine : all[of[p]].state # "dead" /\ all[of[p]].priority = p.priority
  /\ needing' = needing \ Mine
  /\ circuit_manager' = [p \in PVs |-> IF p \in Mine THEN of[p] ELSE circuit_manager[p]]
  /\ search_loop' \in {"run", "ended"}
  /\ circuits' \in Seq(Circuit) /\ DOMAIN circuits' = DOMAIN all /\ Len(circuits') = Len(all)
  /\ \A k \in DOMAIN all : (\A p \in Mine : of[p] # k) => circuits'[k] = all[k]
  /\ \A p \in Mine : Given(all[of[p]], p, p \in sent, circuits'[of[p]])
  /\ left' \in [PVs -> Failures \cup {None}]
  /\ \A p \in PVs : p \notin Mine => left'[p] = left[p]
  /\ \A p \in Mine : left'[p] = None =>
       /\ all[of[p]].state # "failed"
       /\ p \in sent \/ (all[of[p]].state \in {"open", "ready"} /\ ~all[of[p]].peer)

\* PVs of one name on one circuit are one PV.
LEMMA SamePlace ==
  ASSUME TypeOK, NEW p \in Mine, NEW q \in Mine, p.priority = q.priority
  PROVE  p = q
<1>1. p \in PVs /\ q \in PVs /\ p.name = q.name
  BY DEF TypeOK, Mine
<1>. QED  BY <1>1, PvFacts

LEMMA ProcessPlaces ==
  ASSUME TypeOK, ProcessResult
  PROVE  \E all \in Seq(Circuit) : \E of \in [Mine -> DOMAIN all] : \E sent \in SUBSET Mine :
           Placement(all, of, sent)
<1>. DEFINE a     == Head(results).addr
            mine  == {p \in needing : p.name = Head(results).name}
            fresh == {p \in mine : Stored(a, p.priority) = {}}
            new   == SetToSeq(fresh)
            made  == [i \in DOMAIN new |-> NewCircuit(a, new[i].priority)]
            all   == circuits \o made
            Of(p) == CHOOSE k \in DOMAIN all : all[k].addr = a /\ all[k].priority = p.priority
                                               /\ all[k].state # "dead"
            Lost(p) == all[Of(p)].state \in {"open", "ready"} /\ ~all[Of(p)].peer
            Assigned(k, sent) ==
              LET who == {p \in mine : Of(p) = k} IN
              IF who = {} THEN all[k]
              ELSE LET p == CHOOSE q \in who : TRUE
                       cm == IF p \in sent THEN SendCreate(all[k], p) ELSE all[k]
                   IN  [cm EXCEPT !.channels = Append(@, p)]
<1>1. /\ needing' = needing \ mine
      /\ circuit_manager' = [p \in PVs |-> IF p \in mine THEN Of(p) ELSE circuit_manager[p]]
  BY DEF ProcessResult, StillNeeding
<1>2. PICK sent \in SUBSET mine :
        /\ \/ sent = mine /\ search_loop' = "run"
           \/ (\E p \in mine \ sent : Lost(p)) /\ search_loop' = "ended"
        /\ circuits' = [k \in DOMAIN all |-> Assigned(k, sent)]
        /\ left' = [p \in PVs |->
             IF p \notin mine THEN left[p]
             ELSE IF all[Of(p)].state = "failed" THEN "refused"
             ELSE IF p \notin sent /\ ~Lost(p) THEN "unsent" ELSE None]
  BY DEF ProcessResult, StillNeeding
<1>3. /\ circuits \in Seq(Circuit) /\ results \in Seq(Results) /\ results # <<>> /\ needing \subseteq PVs
      /\ left \in [PVs -> Failures \cup {None}]
  BY Typed DEF ProcessResult, StillNeeding
<1>4. a \in Addrs /\ mine \subseteq PVs /\ mine = Mine
  <2>1. Head(results) \in Results
    BY <1>3, HeadAndTail
  <2>. QED  BY <1>3, <2>1 DEF Results, Mine
<1>. HIDE DEF a, mine
<1>5. new \in Seq(PVs) /\ ToSet(new) = fresh /\ new \in Seq(fresh)
  <2>1. fresh \in SUBSET PVs
    BY <1>4
  <2>2. IsFiniteSet(fresh)
    BY <2>1, NamesFinite
  <2>. HIDE DEF fresh
  <2>. QED  BY <2>1, <2>2, Listed, Widened
<1>6. \A p \in mine : p \notin ToSet(new) => Stored(a, p.priority) # {}
  BY <1>5
<1>. HIDE DEF new
<1>7. /\ made \in Seq(Circuit) /\ Len(made) = Len(new) /\ DOMAIN made = DOMAIN new
      /\ \A i \in DOMAIN new : /\ made[i].addr = a /\ made[i].priority = new[i].priority
                               /\ Blank(made[i])
  <2>. DEFINE none == FALSE
  <2>1. ASSUME NEW i \in Priorities
        PROVE  /\ NewCircuit(a, i) \in Circuit /\ NewCircuit(a, i).addr = a /\ NewCircuit(a, i).priority = i
               /\ Blank(NewCircuit(a, i))
    <3>1. NewCircuit(a, i) = Made(a, i, "connecting", none, <<>>, {}, <<>>)
      BY DEF NewCircuit, Made
    <3>2. none \in BOOLEAN /\ ~none
      OBVIOUS
    <3>. HIDE DEF none
    <3>3. <<>> \in Seq(PVs) /\ {} \in SUBSET PVs /\ <<>> \in Seq(Messages)
      OBVIOUS
    <3>. DEFINE g == Made(a, i, "connecting", none, <<>>, {}, <<>>)
    <3>4. g \in Circuit
      BY <1>4, <2>1, <3>2, <3>3, MadeFields
    <3>5. /\ g.addr = a /\ g.priority = i /\ g.state = "connecting" /\ g.peer = none
          /\ g.channels = <<>> /\ g.queued = {} /\ g.inbox = <<>>
      BY MadeFields
    <3>. HIDE DEF g
    <3>6. NewCircuit(a, i) = g
      BY <3>1 DEF g
    <3>. QED  BY <3>2, <3>4, <3>5, <3>6 DEF Blank
  <2>2. \A i \in DOMAIN new : new[i].priority \in Priorities
    BY <1>5, PvFacts
  <2>3. DOMAIN new = 1..Len(new) /\ Len(new) \in Nat
    BY <1>5
  <2>4. \A i \in DOMAIN new : made[i] = NewCircuit(a, new[i].priority)
    OBVIOUS
  <2>5. made = [i \in 1..Len(new) |-> made[i]] /\ \A i \in 1..Len(new) : made[i] \in Circuit
    BY <2>1, <2>2, <2>3
  <2>. HIDE DEF made
  <2>6. made \in Seq(Circuit) /\ Len(made) = Len(new) /\ DOMAIN made = DOMAIN new
    BY <2>3, <2>5
  <2>. QED  BY <2>1, <2>2, <2>4, <2>6
<1>. HIDE DEF made
<1>8. /\ all \in Seq(Circuit) /\ Len(all) = Len(circuits) + Len(made)
      /\ DOMAIN all = 1..Len(all) /\ DOMAIN made = 1..Len(made) /\ DOMAIN circuits = 1..Len(circuits)
      /\ Len(circuits) \in Nat /\ Len(made) \in Nat
      /\ \A i \in DOMAIN circuits : i \in DOMAIN all /\ all[i] = circuits[i]
      /\ \A i \in DOMAIN made : Len(circuits) + i \in DOMAIN all /\ all[Len(circuits) + i] = made[i]
  <2>0. made \in Seq(Circuit) /\ circuits \in Seq(Circuit)
    BY <1>3, <1>7
  <2>1. /\ all \in Seq(Circuit) /\ Len(all) = Len(circuits) + Len(made)
        /\ \A i \in DOMAIN circuits : i \in DOMAIN all /\ all[i] = circuits[i]
        /\ \A i \in DOMAIN made : Len(circuits) + i \in DOMAIN all /\ all[Len(circuits) + i] = made[i]
    BY <2>0, Extended
  <2>. HIDE DEF all
  <2>. QED  BY <2>0, <2>1
<1>. HIDE DEF all
<1>9. ASSUME NEW k \in DOMAIN all
      PROVE  IF k \in DOMAIN circuits THEN all[k] = circuits[k] ELSE Blank(all[k])
  <2>1. CASE k \in DOMAIN circuits
    BY <1>8, <2>1
  <2>2. CASE k \notin DOMAIN circuits
    <3>1. k - Len(circuits) \in DOMAIN made /\ Len(circuits) + (k - Len(circuits)) = k
      BY <1>8, <2>2
    <3>2. all[k] = made[k - Len(circuits)]
      BY <1>8, <3>1
    <3>. QED  BY <1>7, <2>2, <3>1, <3>2
  <2>. QED  BY <2>1, <2>2
<1>10. ASSUME NEW p \in mine
       PROVE  /\ Of(p) \in DOMAIN all /\ all[Of(p)].priority = p.priority
              /\ all[Of(p)].state # "dead"
  <2>1. \E k \in DOMAIN all : all[k].addr = a /\ all[k].priority = p.priority /\ all[k].state # "dead"
    <3>1. CASE p \in ToSet(new)
      <4>1. PICK i \in DOMAIN new : new[i] = p
        BY <3>1 DEF ToSet
      <4>2. /\ made[i].addr = a /\ made[i].priority = p.priority /\ made[i].state # "dead"
            /\ i \in DOMAIN made
        BY <1>7, <4>1 DEF Blank
      <4>. QED  BY <1>8, <4>2
    <3>2. CASE p \notin ToSet(new)
      <4>1. PICK k : k \in Stored(a, p.priority)
        BY <1>6, <3>2
      <4>2. k \in DOMAIN circuits /\ circuits[k].addr = a /\ circuits[k].priority = p.priority
            /\ circuits[k].state # "dead"
        BY <4>1 DEF Stored
      <4>. QED  BY <1>8, <4>2
    <3>. QED  BY <3>1, <3>2
  <2>. QED  BY <2>1
<1>. HIDE DEF Of
<1>. DEFINE of == [p \in mine |-> Of(p)]
<1>11. of \in [mine -> DOMAIN all] /\ \A p \in mine : of[p] = Of(p)
  BY <1>10
<1>12. \A p, q \in mine : Of(p) = Of(q) => p = q
  BY <1>4, <1>10, SamePlace
<1>13. ASSUME NEW k \in DOMAIN all, \A p \in mine : Of(p) # k
       PROVE  circuits'[k] = all[k]
  BY <1>2, <1>13
<1>14. ASSUME NEW p \in mine
       PROVE  Given(all[Of(p)], p, p \in sent, circuits'[Of(p)])
  <2>. DEFINE k == Of(p)
              who == {q \in mine : Of(q) = k}
              e == IF p \in sent THEN SendCreate(all[k], p) ELSE all[k]
              d == [e EXCEPT !.channels = Append(@, p)]
  <2>1. k \in DOMAIN all /\ all[k] \in Circuit
    BY <1>8, <1>10
  <2>2. who = {p}
    BY <1>12
  <2>3. (CHOOSE q \in who : TRUE) = p
    BY <2>2
  <2>4. Assigned(k, sent) = d
    BY <2>2, <2>3
  <2>5. circuits'[k] = d
    BY <1>2, <2>1, <2>4
  <2>6. Given(all[k], p, p \in sent, d)
    BY <1>4, <2>1, GivenFacts
  <2>. QED  BY <2>5, <2>6
<1>15. /\ circuits' \in Seq(Circuit) /\ DOMAIN circuits' = DOMAIN all /\ Len(circuits') = Len(all)
  <2>1. ASSUME NEW k \in DOMAIN all PROVE circuits'[k] \in Circuit
    <3>1. CASE \A p \in mine : Of(p) # k
      BY <1>8, <1>13, <3>1
    <3>2. CASE \E p \in mine : Of(p) = k
      BY <1>14, <3>2 DEF Given
    <3>. QED  BY <3>1, <3>2
  <2>2. DOMAIN circuits' = DOMAIN all /\ circuits' = [k \in 1..Len(all) |-> circuits'[k]]
    BY <1>2, <1>8
  <2>. QED  BY <1>8, <2>1, <2>2
<1>16. /\ left' \in [PVs -> Failures \cup {None}]
       /\ \A p \in PVs : p \notin mine => left'[p] = left[p]
       /\ \A p \in mine : left'[p] = None =>
            /\ all[Of(p)].state # "failed"
            /\ p \in sent \/ (all[Of(p)].state \in {"open", "ready"} /\ ~all[Of(p)].peer)
  <2>1. left' = [p \in PVs |->
             IF p \notin mine THEN left[p]
             ELSE IF all[Of(p)].state = "failed" THEN "refused"
             ELSE IF p \notin sent /\ ~Lost(p) THEN "unsent" ELSE None]
    BY <1>2
  <2>2. /\ "refused" \in Failures /\ "refused" # None
        /\ "unsent" \in Failures /\ "unsent" # None
    BY NoneAssumption DEF Failures
  <2>. QED  BY <1>3, <1>4, <2>1, <2>2
<1>17. search_loop' \in {"run", "ended"}
  BY <1>2
<1>18. circuit_manager' = [p \in PVs |-> IF p \in mine THEN of[p] ELSE circuit_manager[p]]
  BY <1>1, <1>11
<1>19. /\ Len(all) >= Len(circuits)
       /\ \A k \in DOMAIN all : (\A p \in mine : of[p] # k) => circuits'[k] = all[k]
       /\ \A p \in mine : Given(all[of[p]], p, p \in sent, circuits'[of[p]])
  BY <1>8, <1>11, <1>13, <1>14
<1>. HIDE DEF of
<1>20. Placement(all, of, sent)
  BY <1>1, <1>4, <1>9, <1>10, <1>11, <1>15, <1>16, <1>17, <1>18, <1>19 DEF Placement
<1>. QED  BY <1>2, <1>4, <1>8, <1>11, <1>20

\* What a circuit is after that: as it was, or with one PV more.
LEMMA Places ==
  ASSUME TypeOK, NEW all \in Seq(Circuit), NEW of \in [Mine -> DOMAIN all], NEW sent \in SUBSET Mine,
         Placement(all, of, sent), NEW k \in DOMAIN all
  PROVE  \/ circuits'[k] = all[k] /\ \A p \in Mine : of[p] # k
         \/ \E p \in Mine : of[p] = k /\ Given(all[k], p, p \in sent, circuits'[k])
<1>1. CASE \A p \in Mine : of[p] # k
  BY <1>1 DEF Placement
<1>2. CASE \E p \in Mine : of[p] = k
  <2>1. PICK p \in Mine : of[p] = k
    BY <1>2
  <2>2. Given(all[of[p]], p, p \in sent, circuits'[of[p]])
    BY <2>1 DEF Placement
  <2>. QED  BY <2>1, <2>2
<1>. QED  BY <1>1, <1>2

\* The circuits keep what they have.
LEMMA PlacesGrow ==
  ASSUME TypeOK, NEW all \in Seq(Circuit), NEW of \in [Mine -> DOMAIN all], NEW sent \in SUBSET Mine,
         Placement(all, of, sent), NEW k \in DOMAIN all
  PROVE  /\ circuits'[k].addr = all[k].addr /\ circuits'[k].state = all[k].state
         /\ circuits'[k].peer = all[k].peer
         /\ ToSet(all[k].channels) \subseteq ToSet(circuits'[k].channels)
         /\ all[k].queued \subseteq circuits'[k].queued
         /\ ToSet(all[k].inbox) \subseteq ToSet(circuits'[k].inbox)
<1>1. CASE circuits'[k] = all[k]
  BY <1>1
<1>2. ASSUME NEW p \in Mine, Given(all[k], p, p \in sent, circuits'[k])
      PROVE  /\ circuits'[k].addr = all[k].addr /\ circuits'[k].state = all[k].state
             /\ circuits'[k].peer = all[k].peer
             /\ ToSet(all[k].channels) \subseteq ToSet(circuits'[k].channels)
             /\ all[k].queued \subseteq circuits'[k].queued
             /\ ToSet(all[k].inbox) \subseteq ToSet(circuits'[k].inbox)
  <2>1. all[k].channels \in Seq(PVs) /\ p \in PVs
    BY CircuitFields DEF Mine, TypeOK
  <2>2. circuits'[k].channels = Append(all[k].channels, p)
    BY <1>2 DEF Given
  <2>3. ToSet(all[k].channels) \subseteq ToSet(circuits'[k].channels)
    BY <2>1, <2>2, Appended
  <2>. QED  BY <1>2, <2>3 DEF Given
<1>. QED  BY <1>1, <1>2, Places

\* The PVs that a circuit had are not among the ones it gets.
LEMMA OldPlaces ==
  ASSUME TypeOK, Ties, NEW all \in Seq(Circuit), NEW of \in [Mine -> DOMAIN all], NEW sent \in SUBSET Mine,
         Placement(all, of, sent), NEW k \in DOMAIN all, all[k].state # "dead",
         NEW i \in DOMAIN all[k].channels
  PROVE  LET p == all[k].channels[i] IN
         /\ p \in PVs /\ p \notin Mine /\ p \notin needing' /\ circuit_manager'[p] = k
         /\ \A j \in DOMAIN all[k].channels : all[k].channels[j] = p => i = j
<1>1. k \in DOMAIN circuits /\ all[k] = circuits[k]
  <2>1. IF k \in DOMAIN circuits THEN all[k] = circuits[k] ELSE Blank(all[k])
    BY DEF Placement
  <2>2. all[k].channels # <<>>
    OBVIOUS
  <2>. QED  BY <2>1, <2>2 DEF Blank
<1>. DEFINE p == circuits[k].channels[i]
<1>2. /\ circuit_manager[p] = k /\ p \notin needing
      /\ \A j \in DOMAIN circuits[k].channels : circuits[k].channels[j] = p => i = j
  BY <1>1 DEF Ties, OneChannelPerPv
<1>3. p \in PVs
  BY <1>1, CircuitFields DEF TypeOK
<1>4. p \notin Mine /\ p \notin needing'
  BY <1>2 DEF Mine, Placement
<1>5. circuit_manager'[p] = circuit_manager[p]
  BY <1>3, <1>4 DEF Placement
<1>. QED  BY <1>1, <1>2, <1>3, <1>4, <1>5

LEMMA PlacementTies ==
  ASSUME TypeOK, Ties, NEW all \in Seq(Circuit), NEW of \in [Mine -> DOMAIN all], NEW sent \in SUBSET Mine,
         Placement(all, of, sent), UNCHANGED <<known, channel>>
  PROVE  Ties'
<1>0. /\ DOMAIN circuits' = DOMAIN all /\ needing' = needing \ Mine /\ Mine \subseteq needing /\ needing \subseteq known
      /\ Mine \subseteq PVs /\ \A p \in Mine : circuit_manager'[p] = of[p]
      /\ \A p \in PVs : p \notin Mine => circuit_manager'[p] = circuit_manager[p]
  <2>1. Mine \subseteq needing /\ needing \subseteq known /\ known \subseteq PVs
    BY DEF Mine, TypeOK
  <2>. QED  BY <2>1 DEF Placement
<1>1. ASSUME NEW k \in DOMAIN circuits PROVE k \in DOMAIN all /\ all[k] = circuits[k]
  <2>1. k \in DOMAIN all
    BY DEF Placement, TypeOK
  <2>. QED  BY <2>1 DEF Placement
<1>2. OneChannelPerPv'
  <2>. SUFFICES ASSUME NEW k \in DOMAIN all, NEW i \in DOMAIN circuits'[k].channels,
                       circuits'[k].state # "dead"
                PROVE  LET p == circuits'[k].channels[i] IN
                       /\ circuit_manager'[p] = k /\ p \notin needing'
                       /\ \A j \in DOMAIN circuits'[k].channels : circuits'[k].channels[j] = p => i = j
    BY <1>0 DEF OneChannelPerPv
  <2>0. all[k].state # "dead"
    BY PlacesGrow
  <2>1. CASE circuits'[k] = all[k]
    BY <2>0, <2>1, OldPlaces
  <2>2. ASSUME NEW q \in Mine, of[q] = k, circuits'[k].channels = Append(all[k].channels, q)
        PROVE  LET p == circuits'[k].channels[i] IN
               /\ circuit_manager'[p] = k /\ p \notin needing'
               /\ \A j \in DOMAIN circuits'[k].channels : circuits'[k].channels[j] = p => i = j
    <3>. DEFINE old == all[k].channels
                now == circuits'[k].channels
    <3>1. old \in Seq(PVs) /\ q \in PVs
      BY <1>0, CircuitFields
    <3>2. /\ DOMAIN now = DOMAIN old \cup {Len(old) + 1} /\ Len(old) + 1 \notin DOMAIN old
          /\ \A j \in DOMAIN old : now[j] = old[j]
          /\ now[Len(old) + 1] = q
      BY <2>2, <3>1, Appended
    <3>3. \A j \in DOMAIN old : /\ old[j] # q /\ old[j] \notin needing' /\ circuit_manager'[old[j]] = k
                                /\ \A h \in DOMAIN old : old[h] = old[j] => j = h
      BY <2>0, OldPlaces
    <3>4. circuit_manager'[q] = k /\ q \notin needing'
      BY <1>0, <2>2
    <3>. HIDE DEF old, now
    <3>5. CASE i \in DOMAIN old
      BY <3>2, <3>3, <3>5 DEF now
    <3>6. CASE i = Len(old) + 1
      BY <3>2, <3>3, <3>4, <3>6 DEF now
    <3>. QED  BY <3>2, <3>5, <3>6 DEF now
  <2>3. CASE \E q \in Mine : of[q] = k /\ Given(all[k], q, q \in sent, circuits'[k])
    <3>1. PICK q \in Mine : of[q] = k /\ Given(all[k], q, q \in sent, circuits'[k])
      BY <2>3
    <3>2. circuits'[k].channels = Append(all[k].channels, q)
      BY <3>1 DEF Given
    <3>. QED  BY <2>2, <3>1, <3>2, Zenon
  <2>. QED  BY <2>1, <2>3, Places
<1>3. ChannelsAreKnown'
  <2>. SUFFICES ASSUME NEW k \in DOMAIN all PROVE ToSet(circuits'[k].channels) \subseteq known
    BY <1>0 DEF ChannelsAreKnown
  <2>1. ToSet(all[k].channels) \subseteq known
    <3>1. CASE k \in DOMAIN circuits
      BY <1>1, <3>1 DEF Ties, ChannelsAreKnown
    <3>2. CASE k \notin DOMAIN circuits
      <4>1. all[k].channels = <<>>
        BY <3>2 DEF Placement, Blank
      <4>. QED  BY <4>1 DEF ToSet
    <3>. QED  BY <3>1, <3>2
  <2>2. ASSUME NEW q \in Mine, Given(all[k], q, q \in sent, circuits'[k])
        PROVE  ToSet(circuits'[k].channels) = ToSet(all[k].channels) \cup {q}
    <3>1. all[k].channels \in Seq(PVs) /\ q \in PVs /\ circuits'[k].channels = Append(all[k].channels, q)
      BY <1>0, <2>2, CircuitFields DEF Given
    <3>. QED  BY <3>1, Appended
  <2>. QED  BY <1>0, <2>1, <2>2, Places
<1>4. ManagerHasPv'
  <2>. SUFFICES ASSUME NEW p \in PVs, circuit_manager'[p] # 0, circuits'[circuit_manager'[p]].state # "dead"
                PROVE  p \in ToSet(circuits'[circuit_manager'[p]].channels)
    BY DEF ManagerHasPv
  <2>1. CASE p \in Mine
    <3>. DEFINE k == of[p]
    <3>1. k \in DOMAIN all /\ Given(all[k], p, p \in sent, circuits'[k])
      BY <2>1 DEF Placement
    <3>2. all[k].channels \in Seq(PVs) /\ circuits'[k].channels = Append(all[k].channels, p)
      BY <3>1, CircuitFields DEF Given
    <3>3. p \in ToSet(circuits'[k].channels)
      BY <3>2, Appended
    <3>. QED  BY <1>0, <2>1, <3>3
  <2>2. CASE p \notin Mine
    <3>. DEFINE k == circuit_manager[p]
    <3>1. circuit_manager'[p] = k /\ k \in DOMAIN circuits
      BY <1>0, <2>2 DEF TypeOK
    <3>2. k \in DOMAIN all /\ all[k] = circuits[k]
      BY <1>1, <3>1
    <3>3. circuits[k].state # "dead" /\ ToSet(circuits[k].channels) \subseteq ToSet(circuits'[k].channels)
      BY <3>1, <3>2, PlacesGrow
    <3>. QED  BY <3>1, <3>3 DEF Ties, ManagerHasPv
  <2>. QED  BY <2>1, <2>2
<1>5. ChannelIsAlive'
  <2>. SUFFICES ASSUME NEW p \in PVs, channel[p] # 0
                PROVE  circuits'[channel[p]].state # "dead" /\ p \in ToSet(circuits'[channel[p]].channels)
    BY DEF ChannelIsAlive
  <2>1. channel[p] \in DOMAIN circuits
    BY DEF TypeOK
  <2>2. channel[p] \in DOMAIN all /\ all[channel[p]] = circuits[channel[p]]
    BY <1>1, <2>1
  <2>3. circuits[channel[p]].state # "dead" /\ p \in ToSet(circuits[channel[p]].channels)
    BY DEF Ties, ChannelIsAlive
  <2>. QED  BY <2>2, <2>3, PlacesGrow
<1>6. MailIsOwn' /\ QuietAtFirst'
  <2>1. ASSUME NEW k \in DOMAIN all
        PROVE  /\ all[k].state # "dead" =>
                  /\ all[k].queued \subseteq ToSet(all[k].channels)
                  /\ \A m \in ToSet(all[k].inbox) :
                       m.class = "CreateChan" => m.pv \in ToSet(all[k].channels)
               /\ all[k].state = "connecting" => all[k].inbox = <<>> /\ ~all[k].peer
    <3>1. CASE k \in DOMAIN circuits
      BY <1>1, <3>1 DEF Ties, MailIsOwn, QuietAtFirst
    <3>2. CASE k \notin DOMAIN circuits
      <4>1. all[k].queued = {} /\ all[k].inbox = <<>> /\ ~all[k].peer
        BY <3>2 DEF Placement, Blank
      <4>2. ToSet(all[k].inbox) = {}
        BY <4>1 DEF ToSet
      <4>. QED  BY <4>1, <4>2
    <3>. QED  BY <3>1, <3>2
  <2>2. ASSUME NEW k \in DOMAIN all, NEW q \in Mine, Given(all[k], q, q \in sent, circuits'[k])
        PROVE  /\ circuits'[k].state # "dead" =>
                  /\ circuits'[k].queued \subseteq ToSet(circuits'[k].channels)
                  /\ \A m \in ToSet(circuits'[k].inbox) :
                       m.class = "CreateChan" => m.pv \in ToSet(circuits'[k].channels)
               /\ circuits'[k].state = "connecting" => circuits'[k].inbox = <<>> /\ ~circuits'[k].peer
    <3>1. ToSet(circuits'[k].channels) = ToSet(all[k].channels) \cup {q}
      <4>1. all[k].channels \in Seq(PVs) /\ q \in PVs /\ circuits'[k].channels = Append(all[k].channels, q)
        BY <1>0, <2>2, CircuitFields DEF Given
      <4>. QED  BY <4>1, Appended
    <3>2. Create(q).pv = q
      BY DEF Create
    <3>3. /\ circuits'[k].state = all[k].state /\ circuits'[k].peer = all[k].peer
          /\ circuits'[k].queued \subseteq all[k].queued \cup {q}
          /\ ToSet(circuits'[k].inbox) \subseteq ToSet(all[k].inbox) \cup {Create(q)}
          /\ all[k].state = "connecting" => circuits'[k].inbox = all[k].inbox
      BY <2>2 DEF Given
    <3>. QED  BY <2>1, <3>1, <3>2, <3>3
  <2>3. ASSUME NEW k \in DOMAIN all
        PROVE  /\ circuits'[k].state # "dead" =>
                  /\ circuits'[k].queued \subseteq ToSet(circuits'[k].channels)
                  /\ \A m \in ToSet(circuits'[k].inbox) :
                       m.class = "CreateChan" => m.pv \in ToSet(circuits'[k].channels)
               /\ circuits'[k].state = "connecting" => circuits'[k].inbox = <<>> /\ ~circuits'[k].peer
    <3>1. CASE circuits'[k] = all[k]
      BY <2>1, <3>1
    <3>2. CASE \E q \in Mine : Given(all[k], q, q \in sent, circuits'[k])
      BY <2>2, <3>2
    <3>. QED  BY <3>1, <3>2, Places
  <2>. QED  BY <1>0, <2>3 DEF MailIsOwn, QuietAtFirst
<1>. QED  BY <1>2, <1>3, <1>4, <1>5, <1>6 DEF Ties

\* A PV that gets a circuit is waited for there, the others where they were.
LEMMA PlacementCares ==
  ASSUME TypeOK, Ties, NobodyIsForgotten, NEW all \in Seq(Circuit), NEW of \in [Mine -> DOMAIN all],
         NEW sent \in SUBSET Mine, Placement(all, of, sent),
         UNCHANGED <<known, channel, searches>>, search_loop = "run", results # <<>>, results' = Tail(results)
  PROVE  NobodyIsForgotten'
<1>0. /\ search_loop' \in {"run", "ended"} /\ needing' = needing \ Mine /\ known' = known /\ known \subseteq PVs
      /\ results \in Seq(Results) /\ circuits \in Seq(Circuit) /\ DOMAIN circuits = 1..Len(circuits)
  <2>1. results \in Seq(Results) /\ circuits \in Seq(Circuit) /\ known \subseteq PVs
    BY Typed
  <2>. QED  BY <2>1 DEF Placement
<1>1. \A k \in DOMAIN circuits : k \in DOMAIN all /\ all[k] = circuits[k]
  <2>1. \A k \in DOMAIN circuits : k \in DOMAIN all
    BY DEF Placement, TypeOK
  <2>. QED  BY <2>1 DEF Placement
<1>. SUFFICES ASSUME NEW CONSTANT p \in known' PROVE Cared(p)'
  BY <1>0, CaredMeansNext
<1>2. p \in PVs /\ Cared(p)
  <2>1. search_loop \in {"run", "ended"}
    BY DEF TypeOK
  <2>. QED  BY <1>0, <2>1, CaredMeans
<1>3. CASE p \in Mine /\ left'[p] = None
  <2>. DEFINE k == of[p]
              c == all[k]
              d == circuits'[k]
  <2>1. k \in DOMAIN all /\ c \in Circuit /\ Given(c, p, p \in sent, d) /\ c.state \notin {"dead", "failed"}
        /\ (p \in sent \/ (c.state \in {"open", "ready"} /\ ~c.peer))
    BY <1>3 DEF Placement
  <2>2. c.state \in {"connecting", "open", "ready"} /\ c.peer \in BOOLEAN /\ k # 0
    BY <2>1, CircuitFields
  <2>3. circuit_manager'[p] = k /\ p \notin needing'
    BY <1>0, <1>2, <1>3 DEF Placement
  <2>4. /\ d.state = c.state /\ d.peer = c.peer
        /\ p \in sent /\ c.state = "connecting" => p \in d.queued
        /\ p \in sent /\ c.state \in {"open", "ready"} /\ c.peer => Create(p) \in ToSet(d.inbox)
    BY <2>1 DEF Given
  <2>5. \/ d.state \in {"connecting", "open"} /\ p \in d.queued
        \/ Create(p) \in ToSet(d.inbox)
        \/ d.state \in {"open", "ready"} /\ ~d.peer
    BY <2>1, <2>2, <2>4
  <2>6. Carried(circuit_manager[p], p)'
    BY <2>3, <2>5 DEF Carried, Create
  <2>. QED  BY <2>2, <2>3, <2>6 DEF Cared
<1>4. CASE p \in Mine /\ left'[p] # None
  BY <1>4 DEF Cared
<1>5. CASE p \notin Mine
  <2>1. /\ left'[p] = left[p] /\ (p \in needing' <=> p \in needing) /\ channel'[p] = channel[p]
        /\ circuit_manager'[p] = circuit_manager[p]
    BY <1>0, <1>2, <1>5 DEF Placement
  <2>2. ASSUME p \in needing, Sought(p) PROVE Sought(p)'
    <3>1. ASSUME NEW i \in DOMAIN results, results[i].name = p.name
          PROVE  \E j \in DOMAIN results' : results'[j].name = p.name
      <4>1. Head(results) = results[1]
        BY <1>0, HeadAndTail
      <4>2. i # 1
        BY <1>5, <2>2, <3>1, <4>1 DEF Mine
      <4>3. i - 1 \in DOMAIN results' /\ results'[i - 1] = results[i]
        BY <1>0, <4>2, HeadAndTail
      <4>. QED  BY <3>1, <4>3
    <3>. QED  BY <2>2, <3>1 DEF Sought
  <2>3. ASSUME circuit_manager[p] # 0, Carried(circuit_manager[p], p)
        PROVE  Carried(circuit_manager[p], p)'
    <3>. DEFINE k == circuit_manager[p]
    <3>1. k \in DOMAIN circuits
      BY <1>2, <2>3 DEF TypeOK
    <3>2. k \in DOMAIN all /\ all[k] = circuits[k]
      BY <1>1, <3>1
    <3>3. /\ circuits'[k].state = circuits[k].state /\ circuits'[k].peer = circuits[k].peer
          /\ circuits[k].queued \subseteq circuits'[k].queued
          /\ ToSet(circuits[k].inbox) \subseteq ToSet(circuits'[k].inbox)
      BY <3>2, PlacesGrow
    <3>. QED  BY <2>1, <2>3, <3>3 DEF Carried
  <2>4. search_loop # "ended"
    OBVIOUS
  <2>. QED  BY <1>2, <2>1, <2>2, <2>3, <2>4 DEF Cared
<1>. QED  BY <1>3, <1>4, <1>5

LEMMA ProcessFacts ==
  ASSUME TypeOK, Ties, MarkerIsHeld, MarkerIsIndexed, NobodyIsForgotten, ProcessResult
  PROVE  TypeOK' /\ Ties' /\ MarkerIsHeld' /\ MarkerIsIndexed' /\ NobodyIsForgotten'
<1>1. PICK all \in Seq(Circuit) : \E of \in [Mine -> DOMAIN all] : \E sent \in SUBSET Mine :
        Placement(all, of, sent)
  BY ProcessPlaces
<1>2. PICK of \in [Mine -> DOMAIN all] : \E sent \in SUBSET Mine : Placement(all, of, sent)
  BY <1>1
<1>3. PICK sent \in SUBSET Mine : Placement(all, of, sent)
  BY <1>2
<1>4. /\ search_loop = "run" /\ results # <<>> /\ results' = Tail(results)
      /\ UNCHANGED <<known, name_to_addrs, addr_to_names, searches, answers, channel, world, up, faults, giveups>>
  BY DEF ProcessResult, StillNeeding, tables, udp, env
<1>5. Ties'
  BY <1>3, <1>4, PlacementTies
<1>6. NobodyIsForgotten'
  BY <1>3, <1>4, PlacementCares
<1>7. TypeOK'
  <2>1. /\ needing' = needing \ Mine /\ search_loop' \in {"run", "ended"} /\ Len(all) >= Len(circuits)
        /\ circuits' \in Seq(Circuit) /\ Len(circuits') = Len(all) /\ left' \in [PVs -> Failures \cup {None}]
        /\ circuit_manager' = [p \in PVs |-> IF p \in Mine THEN of[p] ELSE circuit_manager[p]]
    BY <1>3 DEF Placement
  <2>2. DOMAIN all = 1..Len(all) /\ Len(all) \in Nat /\ Len(circuits) \in Nat
    BY DEF TypeOK
  <2>3. circuit_manager' \in [PVs -> 0..Len(circuits')] /\ channel' \in [PVs -> 0..Len(circuits')]
    BY <1>4, <2>1, <2>2 DEF TypeOK
  <2>4. results' \in Seq(Results)
    <3>1. results \in Seq(Results)
      BY Typed
    <3>. QED  BY <1>4, <3>1, HeadAndTail
  <2>. QED  BY <1>4, <2>1, <2>3, <2>4 DEF TypeOK, Results
<1>8. ASSUME NEW n \in Names, NEW a \in Addrs, Held(n, a) PROVE Held(n, a)'
  <2>1. PICK k \in DOMAIN circuits :
          circuits[k].addr = a /\ circuits[k].state # "dead" /\ \E p \in ToSet(circuits[k].channels) : p.name = n
    BY <1>8 DEF Held
  <2>2. k \in DOMAIN all
    BY <1>3 DEF Placement, TypeOK
  <2>3. all[k] = circuits[k] /\ k \in DOMAIN circuits'
    BY <1>3, <2>2 DEF Placement
  <2>4. /\ circuits'[k].addr = a /\ circuits'[k].state # "dead"
        /\ ToSet(circuits[k].channels) \subseteq ToSet(circuits'[k].channels)
    BY <1>3, <2>1, <2>2, <2>3, PlacesGrow
  <2>. QED  BY <2>1, <2>3, <2>4 DEF Held
<1>9. MarkerIsHeld'
  BY <1>4, <1>8 DEF MarkerIsHeld
<1>10. MarkerIsIndexed'
  BY <1>4 DEF MarkerIsIndexed, AskedOnce
<1>. QED  BY <1>5, <1>6, <1>7, <1>9, <1>10

---------------------------------------------------------------------------
(***************************************************************************)
(* The theorems.                                                           *)
(***************************************************************************)

IInv == TypeOK /\ Ties /\ MarkerIsHeld /\ MarkerIsIndexed /\ NobodyIsForgotten

LEMMA InitInv == Init => IInv
<1>. SUFFICES ASSUME Init PROVE IInv
  OBVIOUS
<1>1. TypeOK
  BY InitType
<1>2. /\ circuits = <<>> /\ known = {} /\ name_to_addrs = [n \in Names |-> [a \in Addrs |-> "none"]]
      /\ circuit_manager = [p \in PVs |-> 0] /\ channel = [p \in PVs |-> 0]
  BY DEF Init
<1>3. DOMAIN circuits = {}
  BY <1>2
<1>4. Ties
  BY <1>2, <1>3 DEF Ties, OneChannelPerPv, ChannelsAreKnown, ManagerHasPv, ChannelIsAlive,
                    MailIsOwn, QuietAtFirst
<1>5. MarkerIsHeld /\ MarkerIsIndexed
  BY <1>2 DEF MarkerIsHeld, MarkerIsIndexed
<1>6. NobodyIsForgotten
  BY <1>2 DEF NobodyIsForgotten
<1>. QED  BY <1>1, <1>4, <1>5, <1>6 DEF IInv

\* Steps of the user, the broadcaster and the tables.
LEMMA SearchSteps ==
  ASSUME IInv, \/ \E p \in PVs : GetPv(p)
               \/ \E n \in Names : RetryOf(n)
               \/ \E r \in answers : SearchResponse(r)
               \/ \E a \in Addrs : Beacon(a) \/ Restart(a) \/ \E n \in Names : Expire(n, a)
  PROVE  IInv'
<1>. USE DEF IInv
<1>1. ASSUME NEW p \in PVs, GetPv(p) PROVE IInv'
  <2>1. /\ TypeOK' /\ Remembers /\ UNCHANGED <<circuits, pvs, search_loop, addr_to_names>>
        /\ \A n \in Names, a \in Addrs : name_to_addrs'[n][a] = "VALID" => name_to_addrs[n][a] = "VALID"
        /\ left'[p] # None \/ Sought(p)'
    BY <1>1, GetPvFacts DEF Remembers, Sought, GetPv
  <2>2. Gentle
    BY <1>1, <2>1, UdpIsGentle
  <2>3. Ties' /\ MarkerIsHeld' /\ MarkerIsIndexed'
    BY <2>1, <2>2, GentleTies, MarkersStay
  <2>4. \A q \in PVs : Sought(q) => Sought(q)'
    BY <2>1, SoughtStays
  <2>5. NobodyIsForgotten'
    BY <1>1, <2>1, <2>4, UdpKeeps
  <2>. QED  BY <2>1, <2>3, <2>5
<1>2. ASSUME NEW n \in Names, RetryOf(n) PROVE IInv'
  <2>1. /\ TypeOK' /\ UNCHANGED <<known, needing, results, search_loop, name_to_addrs, addr_to_names,
                                  searches, circuits, pvs, left>>
    BY <1>2, RetryFacts DEF ctx, tables
  <2>2. Gentle
    BY <2>1, UdpIsGentle
  <2>3. Ties' /\ MarkerIsHeld' /\ MarkerIsIndexed'
    BY <2>1, <2>2, GentleTies, MarkersStay
  <2>4. \A q \in PVs : Sought(q) => Sought(q)'
    BY <2>1 DEF Sought
  <2>5. NobodyIsForgotten'
    BY <2>1, <2>4, UdpKeeps
  <2>. QED  BY <2>1, <2>3, <2>5
<1>3. ASSUME NEW r \in answers, SearchResponse(r) PROVE IInv'
  <2>1. UNCHANGED <<known, needing, search_loop, circuits, pvs, left>>
    BY <1>3 DEF SearchResponse
  <2>2. Gentle
    BY <2>1, UdpIsGentle
  <2>3. TypeOK' /\ \A n \in Names, a \in Addrs :
          /\ name_to_addrs'[n][a] = "VALID" => name_to_addrs[n][a] = "VALID"
          /\ n \in addr_to_names[a] => n \in addr_to_names'[a]
          /\ n \in addr_to_names'[a] /\ name_to_addrs'[n][a] = "VALID" => n \in addr_to_names[a]
    BY <1>3, SearchResponseFacts
  <2>4. Ties' /\ MarkerIsHeld' /\ MarkerIsIndexed'
    BY <2>2, <2>3, GentleTies, MarkersStay
  <2>5. \A q \in PVs : Sought(q) => Sought(q)'
    <3>1. /\ \A i \in DOMAIN results : i \in DOMAIN results' /\ results'[i] = results[i]
          /\ \A i \in DOMAIN searches : searches[i].open =>
               \/ i \in DOMAIN searches' /\ searches'[i] = searches[i]
               \/ \E j \in DOMAIN results' : results'[j].name = searches[i].name
      BY <1>3, SearchResponseFacts
    <3>2. ASSUME NEW q, NEW i \in DOMAIN results, results[i].name = q.name PROVE Sought(q)'
      BY <3>1, <3>2 DEF Sought
    <3>3. ASSUME NEW q, NEW i \in DOMAIN searches, searches[i].name = q.name, searches[i].open PROVE Sought(q)'
      BY <3>1, <3>3 DEF Sought
    <3>. QED  BY <3>2, <3>3 DEF Sought
  <2>6. NobodyIsForgotten'
    BY <2>1, <2>5, UdpKeeps
  <2>. QED  BY <2>3, <2>4, <2>6
<1>4. ASSUME NEW a \in Addrs, Beacon(a) \/ Restart(a) \/ \E n \in Names : Expire(n, a) PROVE IInv'
  <2>1. /\ TypeOK' /\ UNCHANGED <<known, needing, results, search_loop, addr_to_names,
                                  searches, circuits, pvs, left>>
        /\ \A n \in Names, b \in Addrs : name_to_addrs'[n][b] = "VALID" => name_to_addrs[n][b] = "VALID"
    BY <1>4, BeaconFacts DEF ctx, udp
  <2>2. Gentle
    BY <2>1, UdpIsGentle
  <2>3. Ties' /\ MarkerIsHeld' /\ MarkerIsIndexed'
    BY <2>1, <2>2, GentleTies, MarkersStay
  <2>4. \A q \in PVs : Sought(q) => Sought(q)'
    BY <2>1 DEF Sought
  <2>5. NobodyIsForgotten'
    BY <2>1, <2>4, UdpKeeps
  <2>. QED  BY <2>1, <2>3, <2>5
<1>. QED  BY <1>1, <1>2, <1>3, <1>4

\* Steps of circuits and servers.
LEMMA CircuitSteps ==
  ASSUME IInv, \/ \E p \in PVs : CloseChannel(p)
               \/ \E a \in Addrs : Crash(a)
               \/ \E k \in DOMAIN circuits : Connect(k) \/ CommandLoop(k) \/ GiveUp(k) \/ CloseCircuit(k)
  PROVE  IInv'
<1>. USE DEF IInv
<1>1. ASSUME TypeOK', Gentle, Minded, UNCHANGED <<ctx, udp, circuit_manager>>,
             UNCHANGED tables \/ (MarkerIsHeld' /\ MarkerIsIndexed')
      PROVE  IInv'
  <2>1. Ties'
    BY <1>1, GentleTies
  <2>2. MarkerIsHeld' /\ MarkerIsIndexed'
    <3>1. CASE UNCHANGED tables
      BY <1>1, <3>1, MarkersStay DEF tables
    <3>. QED  BY <1>1, <3>1
  <2>3. NobodyIsForgotten'
    BY <1>1, MindedKeeps DEF udp
  <2>. QED  BY <1>1, <2>1, <2>2, <2>3
<1>2. CASE \/ \E k \in DOMAIN circuits : CloseCircuit(k)
           \/ \E p \in PVs : CloseChannel(p)
           \/ \E a \in Addrs : Crash(a)
  BY <1>1, <1>2, CloseFacts
<1>3. ASSUME NEW k \in DOMAIN circuits, Connect(k) PROVE IInv'
  BY <1>1, <1>3, ConnectFacts
<1>4. ASSUME NEW k \in DOMAIN circuits, VersionResponse(k) PROVE IInv'
  BY <1>1, <1>4, VersionFacts
<1>5. ASSUME NEW k \in DOMAIN circuits, CreateChanResponse(k) PROVE IInv'
  BY <1>1, <1>5, CreateFacts, CreateMarkers
<1>6. ASSUME NEW k \in DOMAIN circuits, ServerDisconnResponse(k) PROVE IInv'
  BY <1>1, <1>6, ServerDisconnFacts
<1>7. ASSUME NEW k \in DOMAIN circuits, Disconnected(k) \/ GiveUp(k) PROVE IInv'
  <2>1. TypeOK' /\ Loss(k) /\ circuits[k].state # "dead"
    BY <1>7, DisconnectedFacts, GiveUpFacts
  <2>. QED  BY <2>1, LossKeeps
<1>. QED  BY <1>2, <1>3, <1>4, <1>5, <1>6, <1>7 DEF CommandLoop

LEMMA StepInv == IInv /\ [Next]_vars => IInv'
<1>. SUFFICES ASSUME IInv, [Next]_vars PROVE IInv'
  OBVIOUS
<1>1. CASE UNCHANGED vars
  <2>1. UNCHANGED <<known, needing, results, search_loop, name_to_addrs, addr_to_names, searches, answers,
                    circuits, circuit_manager, channel, world, up, faults, giveups, left>>
    BY <1>1 DEF vars, ctx, tables, udp, pvs, env
  <2>2. TypeOK'
    BY <2>1 DEF IInv, TypeOK
  <2>3. Ties'
    BY <2>1 DEF IInv, Ties, OneChannelPerPv, ChannelsAreKnown, ManagerHasPv, ChannelIsAlive,
                MailIsOwn, QuietAtFirst
  <2>4. MarkerIsHeld' /\ MarkerIsIndexed'
    BY <2>1 DEF IInv, MarkerIsHeld, MarkerIsIndexed, Held, AskedOnce
  <2>5. NobodyIsForgotten'
    BY <2>1 DEF IInv, NobodyIsForgotten, Attended
  <2>. QED  BY <2>2, <2>3, <2>4, <2>5 DEF IInv
<1>2. CASE ProcessResult
  BY <1>2, ProcessFacts DEF IInv
<1>. QED  BY <1>1, <1>2, SearchSteps, CircuitSteps DEF Next

\* All of it together, on which the theorems below rest.
THEOREM InvHolds == Spec => []IInv
<1>. QED  BY InitInv, StepInv, PTL DEF Spec

\* However many PVs, servers, losses and late answers there are, the tables
\* of the client and its circuits have the values that the code expects.
THEOREM TypeCorrect == Spec => []TypeOK
<1>1. IInv => TypeOK
  BY DEF IInv
<1>. QED  BY <1>1, InvHolds, PTL

\* A PV has a channel on one living circuit only, the one it refers to, and
\* does not wait for another.
THEOREM OneChannel == Spec => []OneChannelPerPv
<1>1. IInv => OneChannelPerPv
  BY DEF IInv, Ties
<1>. QED  BY <1>1, InvHolds, PTL

\* A PV that was asked for is always connected, searched for, waited for on a
\* circuit, or met by one of the failures that nobody handles.
THEOREM NobodyForgotten == Spec => []NobodyIsForgotten
<1>1. IInv => NobodyIsForgotten
  BY DEF IInv
<1>. QED  BY <1>1, InvHolds, PTL

\* The marker that never expires belongs to a living circuit.
THEOREM MarkersLive == Spec => []MarkerMeansChannel
<1>1. IInv => MarkerMeansChannel
  BY MarkerMeans DEF IInv
<1>. QED  BY <1>1, InvHolds, PTL
=============================================================================
