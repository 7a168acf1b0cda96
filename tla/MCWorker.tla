------------------------------- MODULE MCWorker ------------------------------
(***************************************************************************)
(* Worker for TLC: with one request more than connections every kind meets *)
(* a pool that the others have used up.                                    *)
(***************************************************************************)
EXTENDS Worker

Order == <<"operation", "listing", "registration", "removal", "stats", "login", "console">>

Rank(k) == CHOOSE i \in 1..Len(Order) : Order[i] = k

\* Requests differ in their kind only, so one assignment of kinds stands for all
\* its permutations.
SortedInit == Init /\ \A r, s \in Requests : r < s => Rank(kind[r]) <= Rank(kind[s])

SortedSpec == SortedInit /\ [][Next]_vars /\ Fairness
=============================================================================
