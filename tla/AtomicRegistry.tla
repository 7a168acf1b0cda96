--------------------------- MODULE AtomicRegistry ---------------------------
(***************************************************************************)
(* What the host registry promises its callers, with every request taking  *)
(* effect in one step: a table of registered daemons in which neither a    *)
(* name nor an address occurs twice.  HostRegistry, which splits a request *)
(* at the statements and awaits of the code, implements it when a single   *)
(* worker process serves the database.                                     *)
(***************************************************************************)
CONSTANTS Names, Addresses

VARIABLE table      \* the registered hosts

Entry == [name : Names, addr : Addresses, active : BOOLEAN]

Init == table = {}

\* register_host: refuses a name or an address that is already in the table.
Register(n, a) ==
  /\ \A e \in table : e.name # n /\ e.addr # a
  /\ table' = table \cup {[name |-> n, addr |-> a, active |-> TRUE]}

\* DELETE /hosts/{id}
Remove(e) == table' = table \ {e}

\* A host is disabled by hand, and enabled again by the next boot.
Switch(e, b) == table' = (table \ {e}) \cup {[e EXCEPT !.active = b]}

Next ==
  \/ \E n \in Names, a \in Addresses : Register(n, a)
  \/ \E e \in table : Remove(e) \/ \E b \in BOOLEAN : Switch(e, b)

Spec == Init /\ [][Next]_table
=============================================================================
