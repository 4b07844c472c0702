-------------------------- MODULE MCConsistentRead --------------------------
(***************************************************************************)
(* Finite instances of ConsistentRead for TLC.                             *)
(***************************************************************************)
EXTENDS ConsistentRead, TLC

Symmetry == Permutations(Server \ {Reader}) \cup Permutations(Read)
=============================================================================
