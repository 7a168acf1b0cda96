---------------------------- MODULE MCOperations ----------------------------
(***************************************************************************)
(* Values of the constants of Operations for TLC.                          *)
(***************************************************************************)
EXTENDS Operations

\* The shortest and the longest scripts.
LifecycleOps == {"create", "create and start", "delete"}
=============================================================================
