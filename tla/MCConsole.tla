------------------------------ MODULE MCConsole ------------------------------
(***************************************************************************)
(* Console for TLC: a few frames each way are enough for every pump to     *)
(* have unread input when something ends.                                  *)
(***************************************************************************)
EXTENDS Console
=============================================================================
