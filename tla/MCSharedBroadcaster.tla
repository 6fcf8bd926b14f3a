------------------------ MODULE MCSharedBroadcaster ------------------------
(* Two servers, one with both names and one with the first only. *)
EXTENDS SharedBroadcaster
CONSTANTS c1, n1, n2, s1, s2
TwoServers == s1 :> {n1, n2} @@ s2 :> {n1}
=============================================================================
