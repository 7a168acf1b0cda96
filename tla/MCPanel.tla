------------------------------- MODULE MCPanel -------------------------------
(***************************************************************************)
(* Panel for TLC: with two hosts a choice, a list and a cache can each be  *)
(* right or wrong about which one it is.                                   *)
(***************************************************************************)
EXTENDS Panel
=============================================================================
