--------------------------- MODULE MCHostRegistry ---------------------------
(***************************************************************************)
(* Values of the constants of HostRegistry for TLC.                        *)
(***************************************************************************)
EXTENDS HostRegistry

CONSTANTS w1, w2, r1, r2

\* One worker serves everything.
OnOneWorker == [r \in Reqs |-> w1]

\* r2 is served by the second worker, the others by the first.
OnTwoWorkers == [r \in Reqs |-> IF r = r2 THEN w2 ELSE w1]
=============================================================================
