------------------------ MODULE ServerMonitorProofs ------------------------
(***************************************************************************)
(* Proofs about ServerMonitor, for any servers, Contexts, periods and      *)
(* timeouts: a server that answers is never given up, and one that         *)
(* restarts is noticed.                                                    *)
(***************************************************************************)
EXTENDS ServerMonitor, WellFoundedInduction, TLAPS

\* The order of the natural numbers as a relation.
Below == {p \in Nat \X Nat : p[1] < p[2]}

\* A set of natural numbers has a smallest element.
LEMMA Smallest ==
  ASSUME NEW S \in SUBSET Nat, S # {}
  PROVE  \E x \in S : \A y \in S : x <= y
<1>1. IsWellFoundedOn(Below, Nat)
  BY NatLessThanWellFounded DEF OpToRel, Below
<1>2. PICK x \in S : \A y \in S : ~(<<y, x>> \in Below)
  BY <1>1, WFMin
<1>3. \A y \in S : x <= y
  <2>. SUFFICES ASSUME NEW y \in S, y < x PROVE FALSE
    OBVIOUS
  <2>1. <<y, x>> \in Below
    BY DEF Below
  <2>. QED  BY <1>2, <2>1
<1>. QED  BY <1>3

Manager == [state : {"none", "connected", "dead"}, heard : Nat, echo : Nat \cup {None},
            seen : BOOLEAN]
TypeOK ==
  /\ up \in [Addresses -> BOOLEAN] /\ DOMAIN period = Addresses /\ DOMAIN due = Addresses
  /\ DOMAIN last_beacon \subseteq Addresses /\ last_beacon \in [DOMAIN last_beacon -> Nat]
  /\ DOMAIN last_beacon_interval \subseteq DOMAIN last_beacon
  /\ last_beacon_interval \in [DOMAIN last_beacon_interval -> Nat]
  /\ manager \in [Contexts -> [Addresses -> Manager]]
  /\ listeners \subseteq Contexts
  /\ monitor \in [at : {"survey", "resolve", "dead"}, done : BOOLEAN]
  /\ DOMAIN checking \subseteq Addresses /\ checking \in [DOMAIN checking -> Int]
  /\ DOMAIN last_heard \subseteq Addresses /\ last_heard \in [DOMAIN last_heard -> Nat]
  /\ unnoticed \in [Addresses -> Nat \cup {None}]

\* A Context that has gone has no circuits.
OnlyListeners ==
  \A c \in Contexts, a \in Addresses : manager[c][a].state # "none" => c \in listeners

\* A circuit to a server that is up and under check: its Echo is under way,
\* and as young as the check; or it was answered so recently that the thread
\* has not seen it, or has seen it and is about to end the check.
Awaited(c, a) ==
  manager[c][a].echo # None =>
    /\ manager[c][a].echo <= EchoDelay
    /\ a \in DOMAIN checking => checking[a] + manager[c][a].echo >= RESPONSIVENESS_TIMEOUT
Answered(c, a) ==
  (manager[c][a].echo = None /\ a \in DOMAIN checking) =>
    \/ monitor.at = "dead"
    \/ monitor.at = "survey" /\ manager[c][a].heard <= IF monitor.done THEN 0 ELSE 1
    \/ monitor.at = "resolve" /\ manager[c][a].seen /\ Alive(a)
    \/ /\ monitor.at = "resolve" /\ manager[c][a].heard = 0
       /\ manager[c][a].seen => checking[a] >= 1
ChecksAreFair ==
  \A c \in Contexts, a \in Addresses :
    (up[a] /\ manager[c][a].state = "connected") => Awaited(c, a) /\ Answered(c, a)

\* A restart that nobody has noticed: the rhythm of the Beacons before it is
\* known, and the first two follow each other at once.
RestartIsUnderWay ==
  \A a \in Addresses : unnoticed[a] # None =>
    /\ unnoticed[a] \in {0, 1}
    /\ up[a] => /\ a \in DOMAIN last_beacon_interval /\ last_beacon_interval[a] > 0
                /\ due[a] = 0
                /\ unnoticed[a] = 0 => period[a] = 1
                /\ unnoticed[a] = 1 => a \in DOMAIN last_beacon /\ last_beacon[a] = 0

---------------------------------------------------------------------------
(***************************************************************************)
(* Types.                                                                  *)
(***************************************************************************)
LEMMA InitType == Init => TypeOK
<1>. SUFFICES ASSUME Init PROVE TypeOK
  OBVIOUS
<1>1. NoManager \in Manager
  BY DEF NoManager, Manager
<1>2. manager \in [Contexts -> [Addresses -> Manager]]
  BY <1>1 DEF Init
<1>. QED  BY <1>2 DEF Init, TypeOK

\* When the thread asks who was heard from, the answer is the youngest age.
LEMMA HeardType ==
  ASSUME TypeOK, NEW a \in Addresses
  PROVE  /\ LastHeard(a) \in Nat
         /\ \A c \in Circuits(a) : LastHeard(a) <= manager[c][a].heard
<1>. DEFINE ages == {manager[c][a].heard : c \in Circuits(a)}
                      \cup (IF a \in DOMAIN last_beacon THEN {last_beacon[a]} ELSE {Cutoff + 1})
<1>1. Cutoff + 1 \in Nat
  BY TimeoutAssumption DEF Cutoff
<1>2. \A c \in Circuits(a) : manager[c][a].heard \in Nat
  BY DEF Circuits, TypeOK, Manager
<1>3. ages \in SUBSET Nat /\ ages # {}
  BY <1>1, <1>2 DEF TypeOK
<1>4. \E x \in ages : \A y \in ages : x <= y
  BY <1>3, Smallest
<1>5. LastHeard(a) \in ages /\ \A y \in ages : LastHeard(a) <= y
  BY <1>4 DEF LastHeard
<1>6. \A c \in Circuits(a) : manager[c][a].heard \in ages
  OBVIOUS
<1>. HIDE DEF ages
<1>. QED  BY <1>3, <1>5, <1>6

\* A record with some of its fields changed, written out.
LEMMA Changed ==
  ASSUME NEW m \in Manager
  PROVE  /\ [m EXCEPT !.state = "dead", !.echo = None]
               = [state |-> "dead", heard |-> m.heard, echo |-> None, seen |-> m.seen]
         /\ [m EXCEPT !.state = "dead", !.echo = None, !.seen = FALSE]
               = [state |-> "dead", heard |-> m.heard, echo |-> None, seen |-> FALSE]
         /\ [m EXCEPT !.seen = FALSE]
               = [state |-> m.state, heard |-> m.heard, echo |-> m.echo, seen |-> FALSE]
         /\ [m EXCEPT !.state = "connected"]
               = [state |-> "connected", heard |-> m.heard, echo |-> m.echo, seen |-> m.seen]
<1>1. ASSUME NEW r, r = [m EXCEPT !.state = "dead", !.echo = None]
      PROVE  r = [state |-> "dead", heard |-> m.heard, echo |-> None, seen |-> m.seen]
  BY <1>1 DEF Manager
<1>2. ASSUME NEW r, r = [m EXCEPT !.state = "dead", !.echo = None, !.seen = FALSE]
      PROVE  r = [state |-> "dead", heard |-> m.heard, echo |-> None, seen |-> FALSE]
  BY <1>2 DEF Manager
<1>3. ASSUME NEW r, r = [m EXCEPT !.seen = FALSE]
      PROVE  r = [state |-> m.state, heard |-> m.heard, echo |-> m.echo, seen |-> FALSE]
  BY <1>3 DEF Manager
<1>4. ASSUME NEW r, r = [m EXCEPT !.state = "connected"]
      PROVE  r = [state |-> "connected", heard |-> m.heard, echo |-> m.echo, seen |-> m.seen]
  BY <1>4 DEF Manager
<1>. QED  BY <1>1, <1>2, <1>3, <1>4

\* What the actions make of one circuit.
LEMMA RestartFacts ==
  ASSUME TypeOK, NEW b \in Addresses, Restart(b), NEW c \in Contexts, NEW a \in Addresses
  PROVE  manager'[c][a] = IF a = b /\ manager[c][a].state = "connected"
                          THEN [state |-> "dead", heard |-> manager[c][a].heard, echo |-> None,
                                seen |-> manager[c][a].seen]
                          ELSE manager[c][a]
<1>1. manager \in [Contexts -> [Addresses -> Manager]]
  BY DEF TypeOK
<1>2. manager[c] \in [Addresses -> Manager] /\ manager[c][a] \in Manager
  BY <1>1
<1>3. manager'[c] = [manager[c] EXCEPT ![b] =
                   IF @.state = "connected" THEN [@ EXCEPT !.state = "dead", !.echo = None]
                   ELSE @]
  BY DEF Restart
<1>4. manager'[c][a] = IF a = b THEN IF manager[c][a].state = "connected"
                                     THEN [manager[c][a] EXCEPT !.state = "dead", !.echo = None]
                                     ELSE manager[c][a]
                       ELSE manager[c][a]
  BY <1>2, <1>3
<1>5. [manager[c][a] EXCEPT !.state = "dead", !.echo = None]
        = [state |-> "dead", heard |-> manager[c][a].heard, echo |-> None,
           seen |-> manager[c][a].seen]
  BY <1>2, Changed
<1>. QED  BY <1>4, <1>5

LEMMA SurveyFacts ==
  ASSUME TypeOK, Survey, NEW c \in Contexts, NEW a \in Addresses
  PROVE  manager'[c][a] = [state |-> manager[c][a].state, heard |-> manager[c][a].heard,
                           echo |-> IF /\ a \in servers /\ StartsChecking(a)
                                       /\ manager[c][a].state = "connected"
                                       /\ manager[c][a].echo = None
                                    THEN 0 ELSE manager[c][a].echo,
                           seen |-> c \in Circuits(a)]
<1>1. manager[c][a] \in Manager
  BY DEF TypeOK
<1>. DEFINE now == {b \in servers : StartsChecking(b)}
            e == IF a \in now /\ manager[c][a].state = "connected" /\ manager[c][a].echo = None
                 THEN 0 ELSE manager[c][a].echo
            s == c \in Circuits(a)
<1>2. manager'[c][a] = [manager[c][a] EXCEPT !.seen = s, !.echo = e]
  BY DEF Survey
<1>3. a \in now <=> a \in servers /\ StartsChecking(a)
  OBVIOUS
<1>. HIDE DEF s, now
<1>4. manager'[c][a] = [state |-> manager[c][a].state, heard |-> manager[c][a].heard,
                        echo |-> e, seen |-> s]
  BY <1>1, <1>2 DEF Manager
<1>. QED  BY <1>3, <1>4 DEF s

LEMMA ResolveFacts ==
  ASSUME TypeOK, Resolve, NEW c \in Contexts, NEW a \in Addresses
  PROVE  manager'[c][a] =
           IF Unresponsive(a) /\ manager[c][a].seen /\ manager[c][a].state = "connected"
           THEN [state |-> "dead", heard |-> manager[c][a].heard, echo |-> None, seen |-> FALSE]
           ELSE [state |-> manager[c][a].state, heard |-> manager[c][a].heard,
                 echo |-> manager[c][a].echo, seen |-> FALSE]
<1>1. manager[c][a] \in Manager
  BY DEF TypeOK
<1>2. manager'[c][a] =
        IF Unresponsive(a) /\ manager[c][a].seen /\ manager[c][a].state = "connected"
        THEN [manager[c][a] EXCEPT !.state = "dead", !.echo = None, !.seen = FALSE]
        ELSE [manager[c][a] EXCEPT !.seen = FALSE]
  BY DEF Resolve
<1>3. /\ [manager[c][a] EXCEPT !.state = "dead", !.echo = None, !.seen = FALSE]
           = [state |-> "dead", heard |-> manager[c][a].heard, echo |-> None, seen |-> FALSE]
      /\ [manager[c][a] EXCEPT !.seen = FALSE]
           = [state |-> manager[c][a].state, heard |-> manager[c][a].heard,
              echo |-> manager[c][a].echo, seen |-> FALSE]
  BY <1>1, Changed
<1>. QED  BY <1>2, <1>3

LEMMA TickFacts ==
  ASSUME TypeOK, Tick, NEW c \in Contexts, NEW a \in Addresses
  PROVE  manager'[c][a] =
           IF manager[c][a].state = "none" THEN manager[c][a]
           ELSE [state |-> manager[c][a].state, heard |-> Least(manager[c][a].heard + 1, Cutoff + 1),
                 echo |-> IF manager[c][a].echo = None THEN None
                          ELSE Least(manager[c][a].echo + 1, EchoDelay),
                 seen |-> manager[c][a].seen]
<1>1. manager[c][a] \in Manager
  BY DEF TypeOK
<1>. DEFINE h == Least(manager[c][a].heard + 1, Cutoff + 1)
            e == IF manager[c][a].echo = None THEN None ELSE Least(manager[c][a].echo + 1, EchoDelay)
<1>2. manager'[c][a] = IF manager[c][a].state = "none" THEN manager[c][a]
                       ELSE [manager[c][a] EXCEPT !.heard = h, !.echo = e]
  BY DEF Tick
<1>. HIDE DEF h, e
<1>3. ASSUME manager[c][a].state # "none"
      PROVE  manager'[c][a] = [state |-> manager[c][a].state, heard |-> h, echo |-> e,
                               seen |-> manager[c][a].seen]
  <2>1. manager'[c][a] = [manager[c][a] EXCEPT !.heard = h, !.echo = e]
    BY <1>2, <1>3
  <2>. QED  BY <1>1, <2>1 DEF Manager
<1>4. manager'[c][a] =
        IF manager[c][a].state = "none" THEN manager[c][a]
        ELSE [state |-> manager[c][a].state, heard |-> h, echo |-> e, seen |-> manager[c][a].seen]
  BY <1>2, <1>3
<1>. QED  BY <1>4 DEF h, e

\* The same, field by field.
LEMMA RestartFields ==
  ASSUME TypeOK, NEW b \in Addresses, Restart(b), NEW c \in Contexts, NEW a \in Addresses
  PROVE  \/ a = b /\ manager[c][a].state = "connected" /\ manager'[c][a].state = "dead"
         \/ (a # b \/ manager[c][a].state # "connected") /\ manager'[c][a] = manager[c][a]
<1>1. CASE a = b /\ manager[c][a].state = "connected"
  <2>1. manager'[c][a] = [state |-> "dead", heard |-> manager[c][a].heard, echo |-> None,
                          seen |-> manager[c][a].seen]
    BY <1>1, RestartFacts
  <2>. QED  BY <1>1, <2>1
<1>2. CASE ~(a = b /\ manager[c][a].state = "connected")
  BY <1>2, RestartFacts
<1>. QED  BY <1>1, <1>2

LEMMA SurveyFields ==
  ASSUME TypeOK, Survey, NEW c \in Contexts, NEW a \in Addresses
  PROVE  /\ manager'[c][a].state = manager[c][a].state
         /\ manager'[c][a].heard = manager[c][a].heard
         /\ manager'[c][a].echo = IF /\ a \in servers /\ StartsChecking(a)
                                     /\ manager[c][a].state = "connected"
                                     /\ manager[c][a].echo = None
                                  THEN 0 ELSE manager[c][a].echo
         /\ manager'[c][a].seen = (c \in Circuits(a))
<1>. DEFINE e == IF /\ a \in servers /\ StartsChecking(a)
                    /\ manager[c][a].state = "connected"
                    /\ manager[c][a].echo = None
                 THEN 0 ELSE manager[c][a].echo
            s == c \in Circuits(a)
<1>1. manager'[c][a] = [state |-> manager[c][a].state, heard |-> manager[c][a].heard,
                        echo |-> e, seen |-> s]
  BY SurveyFacts
<1>. HIDE DEF e, s
<1>2. /\ manager'[c][a].state = manager[c][a].state
      /\ manager'[c][a].heard = manager[c][a].heard
      /\ manager'[c][a].echo = e /\ manager'[c][a].seen = s
  BY <1>1
<1>. QED  BY <1>2 DEF e, s

LEMMA ResolveFields ==
  ASSUME TypeOK, Resolve, NEW c \in Contexts, NEW a \in Addresses
  PROVE  \/ /\ Unresponsive(a) /\ manager[c][a].seen /\ manager[c][a].state = "connected"
            /\ manager'[c][a].state = "dead"
         \/ /\ ~(Unresponsive(a) /\ manager[c][a].seen /\ manager[c][a].state = "connected")
            /\ manager'[c][a].state = manager[c][a].state
            /\ manager'[c][a].heard = manager[c][a].heard
            /\ manager'[c][a].echo = manager[c][a].echo
<1>1. CASE Unresponsive(a) /\ manager[c][a].seen /\ manager[c][a].state = "connected"
  <2>1. manager'[c][a] = [state |-> "dead", heard |-> manager[c][a].heard, echo |-> None,
                          seen |-> FALSE]
    BY <1>1, ResolveFacts
  <2>. QED  BY <1>1, <2>1
<1>2. CASE ~(Unresponsive(a) /\ manager[c][a].seen /\ manager[c][a].state = "connected")
  <2>1. manager'[c][a] = [state |-> manager[c][a].state, heard |-> manager[c][a].heard,
                          echo |-> manager[c][a].echo, seen |-> FALSE]
    BY <1>2, ResolveFacts
  <2>2. /\ manager'[c][a].state = manager[c][a].state
        /\ manager'[c][a].heard = manager[c][a].heard
        /\ manager'[c][a].echo = manager[c][a].echo
    BY <2>1
  <2>. QED  BY <1>2, <2>2
<1>. QED  BY <1>1, <1>2

LEMMA TickFields ==
  ASSUME TypeOK, Tick, NEW c \in Contexts, NEW a \in Addresses
  PROVE  /\ manager'[c][a].state = manager[c][a].state
         /\ manager[c][a].state # "none" =>
              /\ manager'[c][a].heard = Least(manager[c][a].heard + 1, Cutoff + 1)
              /\ manager'[c][a].echo = IF manager[c][a].echo = None THEN None
                                       ELSE Least(manager[c][a].echo + 1, EchoDelay)
<1>. DEFINE h == Least(manager[c][a].heard + 1, Cutoff + 1)
            e == IF manager[c][a].echo = None THEN None
                 ELSE Least(manager[c][a].echo + 1, EchoDelay)
<1>1. CASE manager[c][a].state = "none"
  BY <1>1, TickFacts
<1>2. CASE manager[c][a].state # "none"
  <2>1. manager'[c][a] = [state |-> manager[c][a].state, heard |-> h, echo |-> e,
                          seen |-> manager[c][a].seen]
    BY <1>2, TickFacts
  <2>. HIDE DEF h, e
  <2>2. /\ manager'[c][a].state = manager[c][a].state
        /\ manager'[c][a].heard = h /\ manager'[c][a].echo = e
    BY <2>1
  <2>. QED  BY <2>2 DEF h, e
<1>. QED  BY <1>1, <1>2

LEMMA CircuitOthers ==
  ASSUME TypeOK, NEW d \in Contexts, NEW b \in Addresses,
         connect(d, b) \/ received(d, b),
         NEW c \in Contexts, NEW a \in Addresses, c # d \/ a # b
  PROVE  manager'[c][a] = manager[c][a]
<1>0. manager \in [Contexts -> [Addresses -> Manager]]
  BY DEF TypeOK
<1>1. \E r : manager' = [manager EXCEPT ![d][b] = r]
  BY DEF connect, received
<1>. QED  BY <1>0, <1>1

LEMMA ConnectFields ==
  ASSUME TypeOK, NEW d \in Contexts, NEW b \in Addresses, connect(d, b)
  PROVE  /\ manager'[d][b].heard = 0 /\ manager'[d][b].echo = None
         /\ manager'[d][b].seen = FALSE
<1>. DEFINE r == [NoManager EXCEPT !.state = "connected"]
<1>0. manager \in [Contexts -> [Addresses -> Manager]]
  BY DEF TypeOK
<1>1. manager' = [manager EXCEPT ![d][b] = r]
  BY DEF connect
<1>2. r.heard = 0 /\ r.echo = None /\ r.seen = FALSE
  BY DEF NoManager
<1>. HIDE DEF r
<1>3. manager'[d][b] = r
  BY <1>0, <1>1
<1>. QED  BY <1>2, <1>3

LEMMA ReceivedFields ==
  ASSUME TypeOK, NEW d \in Contexts, NEW b \in Addresses, received(d, b)
  PROVE  /\ manager'[d][b].heard = 0 /\ manager'[d][b].echo = None
         /\ manager'[d][b].seen = manager[d][b].seen
<1>. DEFINE r == [manager[d][b] EXCEPT !.heard = 0, !.echo = None]
<1>0. manager \in [Contexts -> [Addresses -> Manager]] /\ manager[d][b] \in Manager
  BY DEF TypeOK
<1>1. manager' = [manager EXCEPT ![d][b] = r]
  BY DEF received
<1>2. r.heard = 0 /\ r.echo = None /\ r.seen = manager[d][b].seen
  BY <1>0 DEF Manager
<1>. HIDE DEF r
<1>3. manager'[d][b] = r
  BY <1>0, <1>1
<1>. QED  BY <1>2, <1>3

\* The circuits keep their type.
LEMMA ManagerType ==
  ASSUME TypeOK, Next
  PROVE  manager' \in [Contexts -> [Addresses -> Manager]]
<1>. DEFINE Typed == \A c \in Contexts, a \in Addresses : manager'[c][a] \in Manager
<1>0. /\ manager \in [Contexts -> [Addresses -> Manager]]
      /\ \A c \in Contexts, a \in Addresses : manager[c][a] \in Manager
      /\ NoManager \in Manager
  BY DEF TypeOK, NoManager, Manager
<1>1. ASSUME NEW b \in Addresses, broadcast_beacon(b) \/ Hang(b)
      PROVE  manager' \in [Contexts -> [Addresses -> Manager]]
  BY <1>0, <1>1 DEF broadcast_beacon, Hang
<1>2. ASSUME NEW b \in Addresses, Restart(b)
      PROVE  manager' \in [Contexts -> [Addresses -> Manager]]
  <2>1. \A c \in Contexts, a \in Addresses : manager'[c][a] \in Manager
    <3>. SUFFICES ASSUME NEW c \in Contexts, NEW a \in Addresses PROVE manager'[c][a] \in Manager
      OBVIOUS
    <3>1. manager[c][a] \in Manager
      BY <1>0
    <3>2. \/ manager'[c][a] = [state |-> "dead", heard |-> manager[c][a].heard, echo |-> None,
                                seen |-> manager[c][a].seen]
          \/ manager'[c][a] = manager[c][a]
      BY <1>2, RestartFacts
    <3>. QED  BY <3>1, <3>2 DEF Manager
  <2>2. \A c \in Contexts : DOMAIN manager'[c] = Addresses
    BY <1>0, <1>2 DEF Restart
  <2>3. \A c \in Contexts : manager'[c] = [a \in Addresses |-> manager'[c][a]]
    BY <1>0, <1>2, <2>2 DEF Restart
  <2>4. manager' = [c \in Contexts |-> manager'[c]]
    BY <1>2 DEF Restart
  <2>. QED  BY <2>1, <2>3, <2>4
<1>3. ASSUME NEW d \in Contexts, NEW b \in Addresses, connect(d, b)
      PROVE  manager' \in [Contexts -> [Addresses -> Manager]]
  <2>1. [NoManager EXCEPT !.state = "connected"] \in Manager
    BY <1>0 DEF Manager
  <2>. QED  BY <1>0, <1>3, <2>1 DEF connect
<1>4. ASSUME NEW d \in Contexts, NEW b \in Addresses, received(d, b)
      PROVE  manager' \in [Contexts -> [Addresses -> Manager]]
  <2>. DEFINE r == [manager[d][b] EXCEPT !.heard = 0, !.echo = None]
  <2>1. r \in Manager
    <3>1. manager[d][b] \in Manager
      BY <1>0
    <3>2. ASSUME NEW m \in Manager, NEW x, x = [m EXCEPT !.heard = 0, !.echo = None]
          PROVE  x \in Manager
      <4>1. x = [state |-> m.state, heard |-> 0, echo |-> None, seen |-> m.seen]
        BY <3>2 DEF Manager
      <4>. QED  BY <4>1 DEF Manager
    <3>. QED  BY <3>1, <3>2
  <2>2. manager' = [manager EXCEPT ![d][b] = r]
    BY <1>4 DEF received
  <2>. HIDE DEF r
  <2>. QED  BY <1>0, <2>1, <2>2
<1>5. ASSUME NEW d \in Contexts, disconnect(d)
      PROVE  manager' \in [Contexts -> [Addresses -> Manager]]
  BY <1>0, <1>5 DEF disconnect
<1>6. CASE Survey
  <2>1. \A c \in Contexts, a \in Addresses : manager'[c][a] \in Manager
    <3>. SUFFICES ASSUME NEW c \in Contexts, NEW a \in Addresses PROVE manager'[c][a] \in Manager
      OBVIOUS
    <3>1. manager[c][a] \in Manager
      BY <1>0
    <3>. DEFINE s == c \in Circuits(a)
    <3>2. \E e \in {0, manager[c][a].echo} :
            manager'[c][a] = [state |-> manager[c][a].state, heard |-> manager[c][a].heard,
                              echo |-> e, seen |-> s]
      BY <1>6, SurveyFacts
    <3>3. s \in BOOLEAN
      OBVIOUS
    <3>. HIDE DEF s
    <3>. QED  BY <3>1, <3>2, <3>3 DEF Manager
  <2>2. manager' = [c \in Contexts |-> [a \in Addresses |-> manager'[c][a]]]
    BY <1>6 DEF Survey
  <2>. QED  BY <2>1, <2>2
<1>7. CASE Resolve
  <2>1. \A c \in Contexts, a \in Addresses : manager'[c][a] \in Manager
    <3>. SUFFICES ASSUME NEW c \in Contexts, NEW a \in Addresses PROVE manager'[c][a] \in Manager
      OBVIOUS
    <3>1. manager[c][a] \in Manager
      BY <1>0
    <3>2. \/ manager'[c][a] = [state |-> "dead", heard |-> manager[c][a].heard, echo |-> None,
                                seen |-> FALSE]
          \/ manager'[c][a] = [state |-> manager[c][a].state, heard |-> manager[c][a].heard,
                                echo |-> manager[c][a].echo, seen |-> FALSE]
      BY <1>7, ResolveFacts
    <3>3. /\ [state |-> "dead", heard |-> manager[c][a].heard, echo |-> None,
              seen |-> FALSE] \in Manager
          /\ [state |-> manager[c][a].state, heard |-> manager[c][a].heard,
              echo |-> manager[c][a].echo, seen |-> FALSE] \in Manager
      BY <3>1 DEF Manager
    <3>. QED  BY <3>2, <3>3
  <2>2. manager' = [c \in Contexts |-> [a \in Addresses |-> manager'[c][a]]]
    BY <1>7 DEF Resolve
  <2>. QED  BY <2>1, <2>2
<1>8. CASE ResolveKeyError
  BY <1>0, <1>8 DEF ResolveKeyError
<1>9. CASE Tick
  <2>1. \A c \in Contexts, a \in Addresses : manager'[c][a] \in Manager
    <3>. SUFFICES ASSUME NEW c \in Contexts, NEW a \in Addresses PROVE manager'[c][a] \in Manager
      OBVIOUS
    <3>1. manager[c][a] \in Manager
      BY <1>0
    <3>. DEFINE h == Least(manager[c][a].heard + 1, Cutoff + 1)
                e == IF manager[c][a].echo = None THEN None
                     ELSE Least(manager[c][a].echo + 1, EchoDelay)
    <3>2. h \in Nat /\ e \in Nat \cup {None}
      BY <3>1, TimeoutAssumption DEF Least, Cutoff, Manager
    <3>3. \/ manager'[c][a] = [state |-> manager[c][a].state, heard |-> h, echo |-> e,
                               seen |-> manager[c][a].seen]
          \/ manager'[c][a] = manager[c][a]
      BY <1>9, TickFacts
    <3>. HIDE DEF h, e
    <3>. QED  BY <3>1, <3>2, <3>3 DEF Manager
  <2>2. manager' = [c \in Contexts |-> [a \in Addresses |-> manager'[c][a]]]
    BY <1>9 DEF Tick
  <2>. QED  BY <2>1, <2>2
<1>. QED  BY <1>1, <1>2, <1>3, <1>4, <1>5, <1>6, <1>7, <1>8, <1>9 DEF Next, Turn

LEMMA NextType == TypeOK /\ [Next]_vars => TypeOK'
<1>. SUFFICES ASSUME TypeOK, [Next]_vars PROVE TypeOK'
  OBVIOUS
<1>. USE DEF server
<1>0. CASE UNCHANGED vars
  BY <1>0 DEF vars, TypeOK
<1>m. CASE Next
  <2>0. manager' \in [Contexts -> [Addresses -> Manager]]
    BY <1>m, ManagerType
  <2>1. ASSUME NEW b \in Addresses, broadcast_beacon(b) PROVE TypeOK'
    <3>1. /\ DOMAIN due' = Addresses /\ DOMAIN period' = Addresses
          /\ UNCHANGED <<up, manager, listeners, monitor, checking, last_heard, restarts>>
      BY <2>1 DEF broadcast_beacon, TypeOK
    <3>2. CASE Observe(b)
      <4>1. /\ DOMAIN last_beacon' \subseteq Addresses /\ last_beacon' \in [DOMAIN last_beacon' -> Nat]
            /\ DOMAIN last_beacon' = DOMAIN last_beacon \cup {b}
        BY <3>2 DEF Observe, With, TypeOK
      <4>2. /\ DOMAIN last_beacon_interval' \subseteq DOMAIN last_beacon'
            /\ last_beacon_interval' \in [DOMAIN last_beacon_interval' -> Nat]
        BY <3>2, <4>1 DEF Observe, With, TypeOK
      <4>3. unnoticed' \in [Addresses -> Nat \cup {None}]
        BY <3>2 DEF Observe, TypeOK
      <4>. QED  BY <3>1, <4>1, <4>2, <4>3 DEF TypeOK
    <3>3. CASE /\ unnoticed' = [unnoticed EXCEPT ![b] = None]
               /\ UNCHANGED <<last_beacon, last_beacon_interval>>
      BY <3>1, <3>3 DEF TypeOK
    <3>. QED  BY <2>1, <3>2, <3>3 DEF broadcast_beacon
  <2>2. ASSUME NEW b \in Addresses, Hang(b) PROVE TypeOK'
    BY <2>2 DEF Hang, TypeOK
  <2>3. ASSUME NEW b \in Addresses, Restart(b) PROVE TypeOK'
    BY <2>0, <2>3 DEF Restart, TypeOK
  <2>4. ASSUME NEW d \in Contexts, NEW b \in Addresses, connect(d, b) \/ received(d, b) PROVE TypeOK'
    BY <2>0, <2>4 DEF connect, received, TypeOK
  <2>5. ASSUME NEW d \in Contexts, disconnect(d) PROVE TypeOK'
    BY <2>0, <2>5 DEF disconnect, TypeOK
  <2>6. CASE Survey
    <3>1. \A a \in servers : a \in Addresses /\ LastHeard(a) \in Nat
      BY HeardType DEF servers
    <3>2. last_heard' \in [DOMAIN last_heard' -> Nat] /\ DOMAIN last_heard' \subseteq Addresses
      BY <2>6, <3>1 DEF Survey
    <3>3. checking' \in [DOMAIN checking' -> Int] /\ DOMAIN checking' \subseteq Addresses
      <4>. DEFINE now == {a \in servers : StartsChecking(a)}
      <4>1. checking' = [a \in DOMAIN checking \cup now |->
                           IF a \in now THEN RESPONSIVENESS_TIMEOUT ELSE checking[a]]
        BY <2>6 DEF Survey
      <4>2. now \subseteq Addresses
        BY <3>1
      <4>. HIDE DEF now
      <4>. QED  BY <4>1, <4>2, TimeoutAssumption DEF TypeOK
    <3>4. monitor' \in [at : {"survey", "resolve", "dead"}, done : BOOLEAN]
      BY <2>6 DEF Survey, TypeOK
    <3>. QED  BY <2>0, <2>6, <3>2, <3>3, <3>4 DEF Survey, TypeOK
  <2>7. CASE Resolve
    <3>1. checking' \in [DOMAIN checking' -> Int] /\ DOMAIN checking' \subseteq Addresses
      BY <2>7 DEF Resolve, Without, TypeOK
    <3>2. last_heard' \in [DOMAIN last_heard' -> Nat] /\ DOMAIN last_heard' \subseteq Addresses
      <4>1. last_heard' = <<>>
        BY <2>7 DEF Resolve
      <4>. QED  BY <4>1
    <3>3. monitor' \in [at : {"survey", "resolve", "dead"}, done : BOOLEAN]
      <4>1. monitor' = [at |-> "survey", done |-> TRUE]
        BY <2>7 DEF Resolve
      <4>. QED  BY <4>1
    <3>. QED  BY <2>0, <2>7, <3>1, <3>2, <3>3 DEF Resolve, TypeOK
  <2>8. CASE ResolveKeyError
    BY <2>0, <2>8 DEF ResolveKeyError, TypeOK
  <2>9. CASE Tick
    <3>1. checking' \in [DOMAIN checking' -> Int] /\ DOMAIN checking' \subseteq Addresses
      <4>1. \A a \in DOMAIN checking : checking[a] - 1 \in Int
        BY DEF TypeOK
      <4>2. checking' = [a \in DOMAIN checking |-> IF checking[a] < 0 THEN -1 ELSE checking[a] - 1]
        BY <2>9 DEF Tick
      <4>. QED  BY <4>1, <4>2 DEF TypeOK
    <3>2. last_beacon' \in [DOMAIN last_beacon' -> Nat] /\ DOMAIN last_beacon' = DOMAIN last_beacon
      <4>1. \A a \in DOMAIN last_beacon : Least(last_beacon[a] + 1, BeaconAge) \in Nat
        BY PeriodAssumption DEF Least, TypeOK
      <4>. QED  BY <2>9, <4>1 DEF Tick
    <3>. QED  BY <2>0, <2>9, <3>1, <3>2 DEF Tick, TypeOK
  <2>. QED  BY <1>m, <2>1, <2>2, <2>3, <2>4, <2>5, <2>6, <2>7, <2>8, <2>9 DEF Next, Turn
<1>. QED  BY <1>0, <1>m
---------------------------------------------------------------------------
(***************************************************************************)
(* A server that answers is never given up.                                *)
(***************************************************************************)
LEMMA NextListeners == TypeOK /\ OnlyListeners /\ [Next]_vars => OnlyListeners'
<1>. SUFFICES ASSUME TypeOK, OnlyListeners, [Next]_vars, NEW c \in Contexts, NEW a \in Addresses,
                     manager'[c][a].state # "none"
              PROVE  c \in listeners'
  BY DEF OnlyListeners
<1>. USE DEF server
<1>0. CASE UNCHANGED vars
  BY <1>0 DEF vars, OnlyListeners
<1>1. ASSUME NEW b \in Addresses, broadcast_beacon(b) \/ Hang(b) PROVE c \in listeners'
  BY <1>1 DEF broadcast_beacon, Hang, OnlyListeners
<1>2. ASSUME NEW b \in Addresses, Restart(b) PROVE c \in listeners'
  <2>1. manager[c][a].state # "none" /\ UNCHANGED listeners
    BY <1>2, RestartFields DEF Restart
  <2>. QED  BY <2>1 DEF OnlyListeners
<1>3. ASSUME NEW d \in Contexts, NEW b \in Addresses, connect(d, b) PROVE c \in listeners'
  <2>1. UNCHANGED listeners /\ d \in listeners
    BY <1>3 DEF connect
  <2>2. c # d \/ a # b => manager[c][a].state # "none"
    BY <1>3, CircuitOthers
  <2>. QED  BY <2>1, <2>2 DEF OnlyListeners
<1>4. ASSUME NEW d \in Contexts, NEW b \in Addresses, received(d, b) PROVE c \in listeners'
  <2>1. UNCHANGED listeners /\ manager[d][b].state = "connected"
    BY <1>4 DEF received
  <2>2. c # d \/ a # b => manager[c][a].state # "none"
    BY <1>4, CircuitOthers
  <2>. QED  BY <2>1, <2>2 DEF OnlyListeners
<1>5. ASSUME NEW d \in Contexts, disconnect(d) PROVE c \in listeners'
  BY <1>5 DEF disconnect, OnlyListeners, NoManager, TypeOK
<1>6. CASE Survey
  <2>1. manager[c][a].state # "none"
    BY <1>6, SurveyFields
  <2>2. UNCHANGED listeners
    BY <1>6 DEF Survey
  <2>. QED  BY <2>1, <2>2 DEF OnlyListeners
<1>7. CASE Resolve
  <2>1. manager[c][a].state # "none"
    BY <1>7, ResolveFields
  <2>. QED  BY <1>7, <2>1 DEF Resolve, OnlyListeners
<1>8. CASE ResolveKeyError
  BY <1>8 DEF ResolveKeyError, OnlyListeners
<1>9. CASE Tick
  <2>1. manager[c][a].state # "none"
    BY <1>9, TickFields
  <2>. QED  BY <1>9, <2>1 DEF Tick, OnlyListeners
<1>. QED  BY <1>0, <1>1, <1>2, <1>3, <1>4, <1>5, <1>6, <1>7, <1>8, <1>9 DEF Next, Turn

\* The first half of a turn: checks begin with an Echo, and what was heard
\* since the last turn is seen.
LEMMA SurveyFair ==
  ASSUME TypeOK, OnlyListeners, ChecksAreFair, Survey,
         NEW c \in Contexts, NEW a \in Addresses, up'[a], manager'[c][a].state = "connected"
  PROVE  Awaited(c, a)' /\ Answered(c, a)'
<1>. DEFINE m == manager[c][a]
            now == {b \in servers : StartsChecking(b)}
<1>0. m \in Manager
  BY DEF TypeOK
<1>1. /\ manager'[c][a].state = m.state /\ manager'[c][a].heard = m.heard
      /\ manager'[c][a].echo = IF a \in now /\ m.echo = None THEN 0 ELSE m.echo
      /\ manager'[c][a].seen = (c \in Circuits(a))
  BY SurveyFields
<1>2. m.state = "connected" /\ up[a] /\ monitor = [at |-> "survey", done |-> FALSE]
  BY <1>1 DEF Survey, server
<1>3. Awaited(c, a) /\ Answered(c, a)
  BY <1>2 DEF ChecksAreFair
<1>4. c \in Circuits(a) /\ a \in servers
  BY <1>2 DEF OnlyListeners, Circuits, servers
<1>5. checking' = [b \in DOMAIN checking \cup now |->
                     IF b \in now THEN RESPONSIVENESS_TIMEOUT ELSE checking[b]]
  BY DEF Survey
<1>6. /\ last_heard' = [b \in servers |-> LastHeard(b)]
      /\ monitor' = [at |-> "resolve", done |-> FALSE]
  <2>1. monitor' = [monitor EXCEPT !.at = "resolve"]
    BY DEF Survey
  <2>2. monitor' = [at |-> "resolve", done |-> FALSE]
    BY <1>2, <2>1
  <2>. QED  BY <2>2 DEF Survey
<1>. HIDE DEF now
<1>7. Awaited(c, a)'
  BY <1>0, <1>1, <1>3, <1>5, TimeoutAssumption DEF Awaited, Manager
<1>8. Answered(c, a)'
  <2>. SUFFICES ASSUME manager'[c][a].echo = None, a \in DOMAIN checking'
                PROVE  manager'[c][a].seen /\ Alive(a)'
    BY <1>6 DEF Answered
  <2>1. a \notin now /\ m.echo = None /\ a \in DOMAIN checking
    BY <1>1, <1>5, NoneAssumption
  <2>2. m.heard <= 1
    BY <1>2, <1>3, <2>1 DEF Answered
  <2>3. LastHeard(a) \in Nat /\ LastHeard(a) <= m.heard
    BY <1>4, HeardType
  <2>4. LastHeard(a) < Cutoff
    BY <1>0, <2>2, <2>3, TimeoutAssumption DEF Cutoff, Manager
  <2>. QED  BY <1>1, <1>4, <1>6, <2>4 DEF Alive
<1>. QED  BY <1>7, <1>8

\* The second half disconnects no circuit to a server that is up.
LEMMA ResolveSpares ==
  ASSUME TypeOK, ChecksAreFair, Resolve,
         NEW c \in Contexts, NEW a \in Addresses, up[a], manager[c][a].state = "connected"
  PROVE  /\ manager'[c][a].state = "connected"
         /\ manager'[c][a].heard = manager[c][a].heard
         /\ manager'[c][a].echo = manager[c][a].echo
<1>. DEFINE m == manager[c][a]
<1>0. m \in Manager /\ a \in DOMAIN checking => checking[a] \in Int
  BY DEF TypeOK
<1>1. Awaited(c, a) /\ Answered(c, a) /\ monitor.at = "resolve"
  BY DEF ChecksAreFair, Resolve
<1>2. m.seen => ~Unresponsive(a)
  <2>. SUFFICES ASSUME m.seen, a \in DOMAIN checking, ~Alive(a), checking[a] < 0 PROVE FALSE
    BY DEF Unresponsive
  <2>1. CASE m.echo # None
    <3>1. m.echo \in Nat /\ checking[a] \in Int
      BY <2>1 DEF TypeOK, Manager
    <3>. QED  BY <1>1, <2>1, <3>1, TimeoutAssumption DEF Awaited
  <2>2. CASE m.echo = None
    <3>1. checking[a] \in Int
      BY DEF TypeOK
    <3>. QED  BY <1>1, <2>2, <3>1 DEF Answered
  <2>. QED  BY <2>1, <2>2
<1>. QED  BY <1>2, ResolveFields

LEMMA ResolveFair ==
  ASSUME TypeOK, ChecksAreFair, Resolve,
         NEW c \in Contexts, NEW a \in Addresses, up'[a], manager'[c][a].state = "connected"
  PROVE  Awaited(c, a)' /\ Answered(c, a)'
<1>1. up[a] /\ manager[c][a].state = "connected"
  BY ResolveFields DEF Resolve, server
<1>2. /\ manager'[c][a].heard = manager[c][a].heard
      /\ manager'[c][a].echo = manager[c][a].echo
  BY <1>1, ResolveSpares
<1>3. Awaited(c, a) /\ Answered(c, a) /\ monitor.at = "resolve"
  BY <1>1 DEF ChecksAreFair, Resolve
<1>4. monitor' = [at |-> "survey", done |-> TRUE]
  BY DEF Resolve
<1>5. a \in DOMAIN checking' => /\ a \in DOMAIN checking /\ checking'[a] = checking[a]
                                /\ ~Alive(a)
  BY DEF Resolve, Without
<1>. QED  BY <1>2, <1>3, <1>4, <1>5 DEF Awaited, Answered

\* Time passes for the Echo and for the check alike.
LEMMA TickFair ==
  ASSUME TypeOK, ChecksAreFair, Tick,
         NEW c \in Contexts, NEW a \in Addresses, up'[a], manager'[c][a].state = "connected"
  PROVE  Awaited(c, a)' /\ Answered(c, a)'
<1>. DEFINE m == manager[c][a]
<1>0. m \in Manager
  BY DEF TypeOK
<1>1. up[a] /\ m.state = "connected"
  BY TickFields DEF Tick
<1>2. /\ manager'[c][a].heard = Least(m.heard + 1, Cutoff + 1)
      /\ manager'[c][a].echo = IF m.echo = None THEN None ELSE Least(m.echo + 1, EchoDelay)
  BY <1>1, TickFields
<1>3. Awaited(c, a) /\ Answered(c, a)
  BY <1>1 DEF ChecksAreFair
<1>4. /\ monitor.at = "dead" \/ monitor = [at |-> "survey", done |-> TRUE]
      /\ monitor'.at = monitor.at /\ monitor'.done = FALSE
      /\ m.echo # None => m.echo < EchoDelay
      /\ DOMAIN checking' = DOMAIN checking
      /\ a \in DOMAIN checking =>
           checking'[a] = IF checking[a] < 0 THEN -1 ELSE checking[a] - 1
  BY <1>1 DEF Tick, TypeOK
<1>5. Awaited(c, a)'
  <2>. SUFFICES ASSUME manager'[c][a].echo # None
                PROVE  /\ manager'[c][a].echo <= EchoDelay
                       /\ a \in DOMAIN checking' =>
                            checking'[a] + manager'[c][a].echo >= RESPONSIVENESS_TIMEOUT
    BY DEF Awaited
  <2>1. m.echo # None /\ m.echo \in Nat /\ manager'[c][a].echo = m.echo + 1
    BY <1>0, <1>2, <1>4, TimeoutAssumption DEF Least, Manager
  <2>2. a \in DOMAIN checking => checking[a] \in Int
    BY DEF TypeOK
  <2>. QED  BY <1>3, <1>4, <2>1, <2>2, TimeoutAssumption DEF Awaited
<1>6. Answered(c, a)'
  <2>. SUFFICES ASSUME manager'[c][a].echo = None, a \in DOMAIN checking', monitor'.at # "dead"
                PROVE  monitor'.at = "survey" /\ manager'[c][a].heard <= 1
    BY <1>4 DEF Answered
  <2>1. m.echo = None
    <3>1. m.echo # None => Least(m.echo + 1, EchoDelay) \in Nat
      BY <1>0, TimeoutAssumption DEF Least, Manager
    <3>. QED  BY <1>2, <3>1, NoneAssumption
  <2>2. monitor = [at |-> "survey", done |-> TRUE]
    BY <1>4
  <2>3. m.heard = 0
    BY <1>0, <1>3, <1>4, <2>1, <2>2 DEF Answered, Manager
  <2>. QED  BY <1>2, <1>4, <2>2, <2>3, TimeoutAssumption DEF Least, Cutoff
<1>. QED  BY <1>5, <1>6

LEMMA NextFair == TypeOK /\ OnlyListeners /\ ChecksAreFair /\ [Next]_vars => ChecksAreFair'
<1>. SUFFICES ASSUME TypeOK, OnlyListeners, ChecksAreFair, [Next]_vars,
                     NEW c \in Contexts, NEW a \in Addresses,
                     up'[a], manager'[c][a].state = "connected"
              PROVE  Awaited(c, a)' /\ Answered(c, a)'
  BY DEF ChecksAreFair
<1>. USE DEF server
<1>0. ASSUME up[a], manager'[c][a] = manager[c][a], UNCHANGED <<monitor, checking, last_heard>>
      PROVE  Awaited(c, a)' /\ Answered(c, a)'
  <2>1. Awaited(c, a) /\ Answered(c, a)
    BY <1>0 DEF ChecksAreFair
  <2>. QED  BY <1>0, <2>1 DEF Awaited, Answered, Alive
<1>1. CASE UNCHANGED vars
  BY <1>0, <1>1 DEF vars
<1>2. ASSUME NEW b \in Addresses, broadcast_beacon(b) \/ Hang(b)
      PROVE  Awaited(c, a)' /\ Answered(c, a)'
  <2>1. UNCHANGED <<manager, monitor, checking, last_heard>> /\ up[a]
    BY <1>2 DEF broadcast_beacon, Hang, TypeOK
  <2>. QED  BY <1>0, <2>1
<1>3. ASSUME NEW b \in Addresses, Restart(b) PROVE Awaited(c, a)' /\ Answered(c, a)'
  <2>1. manager'[c][a] = manager[c][a] /\ manager[c][a].state = "connected" /\ a # b
    BY <1>3, RestartFields
  <2>2. UNCHANGED <<monitor, checking, last_heard>> /\ up[a]
    BY <1>3, <2>1 DEF Restart, TypeOK
  <2>. QED  BY <1>0, <2>1, <2>2
<1>4. ASSUME NEW d \in Contexts, NEW b \in Addresses, connect(d, b)
      PROVE  Awaited(c, a)' /\ Answered(c, a)'
  <2>1. UNCHANGED <<up, monitor, checking, last_heard>>
    BY <1>4 DEF connect
  <2>2. CASE c # d \/ a # b
    <3>1. manager'[c][a] = manager[c][a]
      BY <1>4, <2>2, CircuitOthers
    <3>. QED  BY <1>0, <2>1, <3>1
  <2>3. CASE c = d /\ a = b
    <3>1. /\ manager'[c][a].heard = 0 /\ manager'[c][a].echo = None
          /\ manager'[c][a].seen = FALSE
      BY <1>4, <2>3, ConnectFields
    <3>. QED  BY <2>1, <3>1 DEF Awaited, Answered, TypeOK
  <2>. QED  BY <2>2, <2>3
<1>5. ASSUME NEW d \in Contexts, NEW b \in Addresses, received(d, b)
      PROVE  Awaited(c, a)' /\ Answered(c, a)'
  <2>1. UNCHANGED <<up, monitor, checking, last_heard>>
    BY <1>5 DEF received
  <2>2. CASE c # d \/ a # b
    <3>1. manager'[c][a] = manager[c][a]
      BY <1>5, <2>2, CircuitOthers
    <3>. QED  BY <1>0, <2>1, <3>1
  <2>3. CASE c = d /\ a = b
    <3>1. /\ manager'[c][a].heard = 0 /\ manager'[c][a].echo = None
          /\ manager'[c][a].seen = manager[c][a].seen
      BY <1>5, <2>3, ReceivedFields
    <3>2. Awaited(c, a)'
      BY <3>1 DEF Awaited
    <3>3. up[a] /\ manager[c][a].state = "connected" /\ manager[c][a] \in Manager
      BY <1>5, <2>3 DEF received, TypeOK
    <3>4. Awaited(c, a) /\ Answered(c, a)
      BY <3>3 DEF ChecksAreFair
    <3>5. a \in DOMAIN checking => checking[a] \in Int
      BY DEF TypeOK
    <3>6. CASE manager[c][a].echo # None
      <4>1. a \in DOMAIN checking => checking[a] >= 1
        BY <3>3, <3>4, <3>5, <3>6, TimeoutAssumption DEF Awaited, Manager
      <4>. QED  BY <2>1, <3>1, <3>2, <4>1 DEF Answered, TypeOK
    <3>7. CASE manager[c][a].echo = None
      BY <2>1, <3>1, <3>2, <3>4, <3>7 DEF Answered, Alive, TypeOK
    <3>. QED  BY <3>6, <3>7
  <2>. QED  BY <2>2, <2>3
<1>6. ASSUME NEW d \in Contexts, disconnect(d) PROVE Awaited(c, a)' /\ Answered(c, a)'
  <2>1. manager'[c][a] = manager[c][a] /\ UNCHANGED <<up, monitor, checking, last_heard>>
    BY <1>6 DEF disconnect, NoManager, TypeOK
  <2>. QED  BY <1>0, <2>1
<1>7. CASE Survey
  BY <1>7, SurveyFair
<1>8. CASE Resolve
  BY <1>8, ResolveFair
<1>9. CASE ResolveKeyError
  <2>1. monitor'.at = "dead" /\ UNCHANGED <<up, manager, checking>>
    BY <1>9 DEF ResolveKeyError, TypeOK
  <2>2. Awaited(c, a)
    BY <2>1 DEF ChecksAreFair
  <2>. QED  BY <2>1, <2>2 DEF Awaited, Answered
<1>10. CASE Tick
  BY <1>10, TickFair
<1>. QED  BY <1>1, <1>2, <1>3, <1>4, <1>5, <1>6, <1>7, <1>8, <1>9, <1>10 DEF Next, Turn

\* Every server that is up and answers Echoes within EchoDelay keeps its
\* circuits, even if all its Beacons are lost: when the second half of a turn
\* acts on a deadline, the answer it would have waited for has been seen.
THEOREM LiveKept == Spec => LiveStaysConnected
<1>. DEFINE Inv == TypeOK /\ OnlyListeners /\ ChecksAreFair
<1>1. Init => Inv
  <2>1. Init => OnlyListeners /\ ChecksAreFair
    BY DEF Init, NoManager, OnlyListeners, ChecksAreFair
  <2>. QED  BY <2>1, InitType
<1>2. Inv /\ [Next]_vars => Inv'
  BY NextType, NextListeners, NextFair
<1>3. Inv /\ [Next]_vars =>
        [Resolve => \A c \in Contexts, a \in Addresses :
           (up[a] /\ manager[c][a].state = "connected") => manager'[c][a].state = "connected"]_vars
  BY ResolveSpares
<1>. QED  BY <1>1, <1>2, <1>3, PTL DEF Spec, LiveStaysConnected

---------------------------------------------------------------------------
(***************************************************************************)
(* A restart is noticed by its second Beacon.                              *)
(***************************************************************************)

\* A server that has just restarted and sends a Beacon that arrives: the
\* first may be taken for a regular one, the second follows it at once.
LEMMA BeaconUnderWay ==
  ASSUME TypeOK, RestartIsUnderWay, NEW a \in Addresses, broadcast_beacon(a), unnoticed'[a] # None
  PROVE  /\ unnoticed'[a] = 1 /\ due'[a] = 0
         /\ a \in DOMAIN last_beacon' /\ last_beacon'[a] = 0
         /\ a \in DOMAIN last_beacon_interval' /\ last_beacon_interval'[a] > 0
<1>. DEFINE last == IF a \in DOMAIN last_beacon_interval THEN last_beacon_interval[a] ELSE 0
            found == a \in DOMAIN last_beacon => Faster(last_beacon[a], last)
<1>1. Observe(a)
  BY DEF broadcast_beacon, TypeOK
<1>2. /\ ~found /\ unnoticed[a] # None /\ unnoticed'[a] = unnoticed[a] + 1
      /\ last_beacon' = With(last_beacon, a, 0)
      /\ last_beacon_interval' = IF a \in DOMAIN last_beacon
                                 THEN With(last_beacon_interval, a, last_beacon[a])
                                 ELSE last_beacon_interval
  BY <1>1 DEF Observe, TypeOK
<1>3. /\ up[a] /\ unnoticed[a] \in {0, 1}
      /\ a \in DOMAIN last_beacon_interval /\ last_beacon_interval[a] > 0 /\ due[a] = 0
      /\ unnoticed[a] = 0 => period[a] = 1
      /\ unnoticed[a] = 1 => a \in DOMAIN last_beacon /\ last_beacon[a] = 0
  BY <1>2 DEF RestartIsUnderWay, broadcast_beacon
<1>4. a \in DOMAIN last_beacon /\ ~(4 * last_beacon[a] < last_beacon_interval[a])
  BY <1>2, <1>3 DEF Faster
<1>5. last_beacon[a] \in Nat /\ last_beacon_interval[a] \in Nat
  BY <1>3, <1>4 DEF TypeOK
<1>6. last_beacon[a] > 0 /\ unnoticed[a] = 0 /\ period[a] = 1
  BY <1>3, <1>4, <1>5
<1>7. due'[a] = 0
  BY <1>6, PeriodAssumption DEF broadcast_beacon, beacon_period, TypeOK
<1>8. a \in DOMAIN last_beacon' /\ last_beacon'[a] = 0
  BY <1>2 DEF With
<1>9. a \in DOMAIN last_beacon_interval' /\ last_beacon_interval'[a] = last_beacon[a]
  BY <1>2, <1>4 DEF With
<1>. QED  BY <1>2, <1>6, <1>7, <1>8, <1>9

\* What is not about a changes nothing for a.
LEMMA BeaconOthers ==
  ASSUME TypeOK, NEW b \in Addresses, broadcast_beacon(b), NEW a \in Addresses, a # b
  PROVE  /\ up'[a] = up[a] /\ period'[a] = period[a] /\ due'[a] = due[a]
         /\ unnoticed'[a] = unnoticed[a]
         /\ a \in DOMAIN last_beacon_interval =>
              /\ a \in DOMAIN last_beacon_interval'
              /\ last_beacon_interval'[a] = last_beacon_interval[a]
         /\ a \in DOMAIN last_beacon =>
              a \in DOMAIN last_beacon' /\ last_beacon'[a] = last_beacon[a]
<1>1. /\ up'[a] = up[a] /\ period'[a] = period[a] /\ due'[a] = due[a]
  BY DEF broadcast_beacon, TypeOK
<1>2. CASE Observe(b)
  BY <1>1, <1>2 DEF Observe, With, TypeOK
<1>3. CASE /\ unnoticed' = [unnoticed EXCEPT ![b] = None]
           /\ UNCHANGED <<last_beacon, last_beacon_interval>>
  BY <1>1, <1>3 DEF TypeOK
<1>. QED  BY <1>2, <1>3 DEF broadcast_beacon

LEMMA NextRestart == TypeOK /\ RestartIsUnderWay /\ [Next]_vars => RestartIsUnderWay'
<1>. SUFFICES ASSUME TypeOK, RestartIsUnderWay, [Next]_vars, NEW a \in Addresses, unnoticed'[a] # None
              PROVE  /\ unnoticed'[a] \in {0, 1}
                     /\ up'[a] => /\ a \in DOMAIN last_beacon_interval'
                                  /\ last_beacon_interval'[a] > 0 /\ due'[a] = 0
                                  /\ unnoticed'[a] = 0 => period'[a] = 1
                                  /\ unnoticed'[a] = 1 => a \in DOMAIN last_beacon' /\ last_beacon'[a] = 0
  BY DEF RestartIsUnderWay
<1>. USE DEF server
<1>1. CASE UNCHANGED <<server, last_beacon, last_beacon_interval, unnoticed>>
  BY <1>1 DEF RestartIsUnderWay
<1>2. ASSUME NEW b \in Addresses, broadcast_beacon(b)
      PROVE  /\ unnoticed'[a] \in {0, 1}
             /\ up'[a] => /\ a \in DOMAIN last_beacon_interval'
                          /\ last_beacon_interval'[a] > 0 /\ due'[a] = 0
                          /\ unnoticed'[a] = 0 => period'[a] = 1
                          /\ unnoticed'[a] = 1 => a \in DOMAIN last_beacon' /\ last_beacon'[a] = 0
  <2>1. CASE a = b
    BY <1>2, <2>1, BeaconUnderWay
  <2>2. CASE a # b
    BY <1>2, <2>2, BeaconOthers DEF RestartIsUnderWay
  <2>. QED  BY <2>1, <2>2
<1>3. ASSUME NEW b \in Addresses, Hang(b)
      PROVE  /\ unnoticed'[a] \in {0, 1}
             /\ up'[a] => /\ a \in DOMAIN last_beacon_interval'
                          /\ last_beacon_interval'[a] > 0 /\ due'[a] = 0
                          /\ unnoticed'[a] = 0 => period'[a] = 1
                          /\ unnoticed'[a] = 1 => a \in DOMAIN last_beacon' /\ last_beacon'[a] = 0
  BY <1>3 DEF Hang, RestartIsUnderWay, TypeOK
<1>4. ASSUME NEW b \in Addresses, Restart(b)
      PROVE  /\ unnoticed'[a] \in {0, 1}
             /\ up'[a] => /\ a \in DOMAIN last_beacon_interval'
                          /\ last_beacon_interval'[a] > 0 /\ due'[a] = 0
                          /\ unnoticed'[a] = 0 => period'[a] = 1
                          /\ unnoticed'[a] = 1 => a \in DOMAIN last_beacon' /\ last_beacon'[a] = 0
  <2>1. CASE a = b
    <3>1. /\ period'[a] = 1 /\ due'[a] = 0 /\ UNCHANGED last_beacon_interval
          /\ unnoticed'[a] = IF a \in DOMAIN last_beacon_interval /\ last_beacon_interval[a] > 0
                             THEN 0 ELSE None
      BY <1>4, <2>1 DEF Restart, TypeOK
    <3>. QED  BY <3>1
  <2>2. CASE a # b
    BY <1>4, <2>2 DEF Restart, RestartIsUnderWay, TypeOK
  <2>. QED  BY <2>1, <2>2
<1>5. ASSUME NEW d \in Contexts, NEW b \in Addresses, connect(d, b) \/ received(d, b)
      PROVE  UNCHANGED <<server, last_beacon, last_beacon_interval, unnoticed>>
  BY <1>5 DEF connect, received
<1>6. ASSUME NEW d \in Contexts, disconnect(d)
      PROVE  UNCHANGED <<server, last_beacon, last_beacon_interval, unnoticed>>
  BY <1>6 DEF disconnect
<1>7. Turn => UNCHANGED <<server, last_beacon, last_beacon_interval, unnoticed>>
  BY DEF Turn, Survey, Resolve, ResolveKeyError
<1>8. CASE Tick
  <2>1. unnoticed[a] # None /\ unnoticed'[a] = unnoticed[a] /\ up'[a] = up[a]
        /\ (up[a] => due[a] > 0)
    BY <1>8 DEF Tick
  <2>2. ~up[a] /\ unnoticed[a] \in {0, 1}
    BY <2>1 DEF RestartIsUnderWay, TypeOK
  <2>. QED  BY <2>1, <2>2
<1>9. CASE UNCHANGED vars
  BY <1>1, <1>9 DEF vars
<1>. QED  BY <1>1, <1>2, <1>3, <1>4, <1>5, <1>6, <1>7, <1>8, <1>9 DEF Next

\* A server that had settled into its rhythm and restarts is noticed by its
\* second Beacon, when none is lost: the first two of broadcast_beacon_loop
\* follow each other in less than a quarter of any interval that was known,
\* whatever the beacon period.
THEOREM RestartNoticed == Spec => []RestartIsNoticed
<1>1. Init => TypeOK /\ RestartIsUnderWay
  BY InitType DEF Init, RestartIsUnderWay
<1>2. TypeOK /\ RestartIsUnderWay /\ [Next]_vars => TypeOK' /\ RestartIsUnderWay'
  BY NextType, NextRestart
<1>3. RestartIsUnderWay => RestartIsNoticed
  BY DEF RestartIsUnderWay, RestartIsNoticed
<1>. QED  BY <1>1, <1>2, <1>3, PTL DEF Spec
=============================================================================
