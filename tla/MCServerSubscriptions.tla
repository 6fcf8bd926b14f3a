----------------------- MODULE MCServerSubscriptions -----------------------
(* Instances of ServerSubscriptions: who may subscribe to what.            *)
EXTENDS ServerSubscriptions, TLC

CONSTANTS a, b, i, j, x

Sub(c, n, s) == [circuit |-> c, id |-> n, sid |-> s, spec |-> x]

\* One circuit, two channels to the same data.
OneCircuit  == {Sub(a, 1, i), Sub(a, 2, j)}

\* Two circuits that subscribe to the same data, one channel each.
TwoCircuits == {Sub(a, 1, i), Sub(b, 1, i)}

\* Nothing distinguishes the two circuits.
Symmetry == Permutations({a, b})
=============================================================================
