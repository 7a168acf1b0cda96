----------------------------- MODULE MCNotifier -----------------------------
(***************************************************************************)
(* Values of the constants of Notifier for TLC.                            *)
(***************************************************************************)
EXTENDS Notifier

\* An operation of two changes, and the longest script.
LifecycleOps == {"create and start", "delete"}

\* Everything, and the failures of creations only.
SomeSettings ==
  {[webhook |-> TRUE, statuses |-> BOOLEAN, actions |-> AllOps],
   [webhook |-> TRUE, statuses |-> {FALSE}, actions |-> {"create"}]}
=============================================================================
