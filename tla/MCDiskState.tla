----------------------------- MODULE MCDiskState ----------------------------
(***************************************************************************)
(* Finite instances of DiskState for TLC.                                  *)
(***************************************************************************)
EXTENDS DiskState, TLC

Symmetry == Permutations(Candidate)
=============================================================================
