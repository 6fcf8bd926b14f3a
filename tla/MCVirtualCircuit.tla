-------------------------- MODULE MCVirtualCircuit --------------------------
(***************************************************************************)
(* VirtualCircuit for TLC.  The channel ids, the server's ids and the      *)
(* native types are only compared with each other: permuting any of them   *)
(* maps behaviours to behaviours and keeps the properties.                 *)
(***************************************************************************)
EXTENDS VirtualCircuit, TLC

Symmetry == Permutations(Cids) \cup Permutations(Sids) \cup Permutations(Natives)

=============================================================================
