------------------------------ MODULE Monitors ------------------------------
(***************************************************************************)
(* What a Channel Access server promises to the clients that monitor a     *)
(* value, without tasks, queues or batches: each subscription is shown     *)
(* newer and newer values, some may be skipped, nothing is shown before it *)
(* was written, to somebody who has not subscribed, or after the           *)
(* subscription was cancelled; and the latest value is shown in the end.   *)
(* ServerSubscriptions is shown to implement this.                         *)
(***************************************************************************)
EXTENDS Integers

CONSTANTS Subscriptions, MaxVersion

VARIABLES
  value,   \* the number of the latest value written
  state,   \* of each subscription: see States
  seen     \* the latest value shown to each subscription, 0 if none yet,
           \* -1 once it has been cancelled

vars == <<value, state, seen>>

\* idle: not (or no longer) served; paused: the client turned events off
States == {"idle", "live", "paused", "cancelled"}
Served == {"live", "paused"}

Init ==
  /\ value = 1
  /\ state = [s \in Subscriptions |-> "idle"]
  /\ seen = [s \in Subscriptions |-> 0]

Write ==
  /\ value < MaxVersion /\ value' = value + 1
  /\ UNCHANGED <<state, seen>>

\* Some subscriptions change state together: those of one circuit share its
\* flow control and its fate.
Move(from, to) ==
  /\ state' \in [Subscriptions -> States] /\ state' # state
  /\ \A s \in Subscriptions : state'[s] # state[s] => state[s] \in from /\ state'[s] = to
  /\ UNCHANGED <<value, seen>>

Add    == Move({"idle"}, "live") \/ Move({"idle"}, "paused")
Pause  == Move({"live"}, "paused")
Resume == Move({"paused"}, "live")
Lose   == Move(Served, "idle")

Cancel(s) ==
  /\ state[s] \in Served
  /\ state' = [state EXCEPT ![s] = "cancelled"]
  /\ seen' = [seen EXCEPT ![s] = -1]
  /\ UNCHANGED value

\* One message may carry values for several subscriptions.
Show ==
  /\ seen' \in [Subscriptions -> -1..value] /\ seen' # seen
  /\ \A s \in Subscriptions : seen'[s] # seen[s] => state[s] \in Served /\ seen'[s] > seen[s]
  /\ UNCHANGED <<value, state>>

\* Stuttering is ruled out first: most steps of an implementation stutter.
Next ==
  \/ Write
  \/ /\ seen' # seen \/ state' # state
     /\ \/ Add \/ Pause \/ Resume \/ Lose \/ Show
        \/ \E s \in Subscriptions : Cancel(s)

Spec == Init /\ [][Next]_vars

\* Whoever is served is shown the latest value in the end.
LatestIsShown ==
  \A s \in Subscriptions : []<>(state[s] = "live" => seen[s] = value)
FairSpec == Spec /\ LatestIsShown
=============================================================================
