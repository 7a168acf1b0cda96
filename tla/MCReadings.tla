----------------------------- MODULE MCReadings -----------------------------
(***************************************************************************)
(* Values of the constants of Readings for TLC.                            *)
(***************************************************************************)
EXTENDS Readings

\* Whatever two requests may meet on a container.
EveryOp == AllOps
=============================================================================
