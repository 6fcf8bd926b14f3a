-------------------------- MODULE MCAsyncioClient --------------------------
(* Instances of AsyncioClient.                                             *)
EXTENDS AsyncioClient

CONSTANTS s1, s2, n1, n2

Pv(n, i) == [name |-> n, priority |-> i]
AllPVs   == {Pv(n1, 0), Pv(n1, 1), Pv(n2, 0)}

\* Server s1 has both names, s2 has n1 too or nothing.
OnBoth   == [n \in {n1, n2} |-> IF n = n1 THEN {s1, s2} ELSE {s1}]
OnlyOnA  == [n \in {n1, n2} |-> {s1}]

\* One PV that two servers have, with much going wrong; a name asked for with
\* two priorities; two names of which one is on two servers.
Several == {[wanted |-> {Pv(n1, 0)}, hosts |-> OnBoth, faults |-> 3, giveups |-> 1],
            [wanted |-> {Pv(n1, 0), Pv(n1, 1)}, hosts |-> OnlyOnA, faults |-> 1, giveups |-> 1],
            [wanted |-> {Pv(n1, 0), Pv(n2, 0)}, hosts |-> OnBoth, faults |-> 1, giveups |-> 0]}

\* A server stops answering, and nothing else happens.
Unresponsive == {[wanted |-> {Pv(n1, 0)}, hosts |-> OnBoth, faults |-> 0, giveups |-> 1]}
=============================================================================
