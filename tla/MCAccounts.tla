------------------------------ MODULE MCAccounts ------------------------------
(***************************************************************************)
(* Values of the constants of Accounts for TLC.                            *)
(***************************************************************************)
EXTENDS Accounts

CONSTANTS ann, bob, annAt, bobAt, old, new

Row(n, e, a) == [name |-> n, email |-> e, admin |-> a, active |-> TRUE,
                 password |-> old]

\* The seeded admin, and one more account that may be an admin as well.
SeedAndOne ==
  {[i \in Ids |-> CASE i = 1 -> Row(ann, annAt, TRUE)
                    [] i = 2 -> Row(bob, bobAt, a)
                    [] OTHER -> NoUser] : a \in BOOLEAN}
=============================================================================
