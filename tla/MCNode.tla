------------------------------- MODULE MCNode -------------------------------
(***************************************************************************)
(* A finite instance of Node for TLC: AppendEntries with one entry each    *)
(* before and after two messages without any.                              *)
(***************************************************************************)
EXTENDS Node

FourMessages == <<1, 0, 0, 1>>
=============================================================================
