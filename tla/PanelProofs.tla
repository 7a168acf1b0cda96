---------------------------- MODULE PanelProofs ----------------------------
(***************************************************************************)
(* Theorems about Panel for every set of hosts.  Each row of the cache and *)
(* the fetch under way belong to their key, because a fetch that nobody    *)
(* observes any more is aborted; a click carries the key it was made with. *)
(***************************************************************************)
EXTENDS Panel, FiniteSetTheorems, TLAPS

\* A host's entry of the cache holds that host's containers, or none.
RowsAreTheKeys == \A h \in Hosts : cache[h] \in {h, Nobody, Failed}

\* The fetch under way is that of the key on the page.
FetchIsTheKeys == Key # Automatic => fetch \in {"idle", "asked", Failed, Key}

\* A click names the host that was indicated and whose rows were shown.
ClickIsAimed ==
  click.at = "sent" /\ click.key # Automatic =>
    click.named = click.key /\ click.seen = click.key

PanelInv == TypeOK /\ RowsAreTheKeys /\ FetchIsTheKeys /\ ClickIsAimed

-----------------------------------------------------------------------------
\* The only host is a host.
LEMMA OnlyHost ==
  ASSUME NEW S \in SUBSET Hosts, Cardinality(S) = 1
  PROVE  (CHOOSE h \in S : TRUE) \in S
<1>1. S # {}
  BY FS_EmptySet
<1>2. QED
  BY <1>1

\* The key of the page is a key; what is indicated is a host or none, and the
\* key itself unless that is "Automatic".
LEMMA KeyTyped ==
  ASSUME NEW c \in Keys, NEW k \in SUBSET Hosts
  PROVE  /\ HostId(c, k) \in Keys
         /\ EffectiveHostId(c, k) \in Hosts \cup {Nobody}
         /\ HostId(c, k) # Automatic => /\ HostId(c, k) \in Hosts
                                        /\ EffectiveHostId(c, k) = HostId(c, k)
<1>1. HostId(c, k) \in Keys
  BY DEF HostId, Keys
<1>2. Cardinality(k) = 1 => (CHOOSE h \in k : TRUE) \in Hosts
  BY OnlyHost
<1>3. QED
  BY <1>1, <1>2 DEF EffectiveHostId, Keys

\* The server takes the host that is named, or none; a host in any case.
LEMMA ResolvedTyped ==
  ASSUME TypeOK, NEW k \in Keys
  PROVE  /\ Resolved(k) \in Hosts \cup {Nobody}
         /\ k # Automatic => Resolved(k) \in {k, Nobody}
<1>1. active \in SUBSET Hosts
  BY DEF TypeOK
<1>2. Cardinality(active) = 1 => (CHOOSE h \in active : TRUE) \in Hosts
  BY <1>1, OnlyHost
<1>3. QED
  BY <1>1, <1>2 DEF Resolved, Keys

\* The page shows the containers of a host, or none.
LEMMA ShownTyped == TypeOK => Shown \in Hosts \cup {Nobody}
BY DEF Shown

\* Rows that are shown while a host is chosen are that host's.
LEMMA RowsShown == PanelInv => ShownIsChosen
<1> SUFFICES ASSUME PanelInv, Key # Automatic, Shown # Nobody PROVE Shown = Key
  BY DEF ShownIsChosen
<1>1. Key \in Hosts
  BY KeyTyped DEF PanelInv, TypeOK, Key
<1>2. cache[Key] \in {Key, Nobody, Failed}
  BY <1>1 DEF PanelInv, RowsAreTheKeys
<1>3. Shown = cache[Key] /\ cache[Key] \in Hosts
  BY DEF Shown, Entry
<1>4. QED
  BY <1>2, <1>3, PanelAssumption DEF PanelAssumption

\* Whatever the key becomes, a fetch that goes on is that of the same key.
LEMMA Abandoned ==
  ASSUME FetchIsTheKeys, NEW k, Abandon(k), k # Automatic
  PROVE  fetch' \in {"idle", "asked", Failed, k}
BY DEF Abandon, FetchIsTheKeys

-----------------------------------------------------------------------------
\* The tab opens with nothing cached.
LEMMA InitPanel == Init => PanelInv
BY KeyTyped
   DEF Init, PanelInv, TypeOK, RowsAreTheKeys, FetchIsTheKeys, ClickIsAimed, Clicks,
       NoClick, Keys, Pages

\* Every step keeps the invariant: one case per action.
LEMMA StepPanel == PanelInv /\ [Next]_vars => PanelInv'
<1> SUFFICES ASSUME PanelInv, [Next]_vars PROVE PanelInv'
  OBVIOUS
<1> USE DEF PanelInv, server, list, rows
<1>0. /\ Key \in Keys /\ (Key # Automatic => Key \in Hosts)
      /\ chosen \in Keys /\ known \in SUBSET Hosts
  BY KeyTyped DEF TypeOK, Key
<1>1. CASE FetchHosts
  BY <1>1 DEF FetchHosts, TypeOK, RowsAreTheKeys, FetchIsTheKeys, ClickIsAimed, Key
<1>2. CASE ReceiveHosts
  <2>1. Key' = HostId(chosen, listing.hosts) /\ listing.hosts \in SUBSET Hosts
    BY <1>2 DEF ReceiveHosts, Key, TypeOK
  <2>2. fetch' \in {fetch, "idle"}
    BY <1>2 DEF ReceiveHosts, Abandon
  <2>3. TypeOK'
    BY <1>2, <2>1, <2>2 DEF ReceiveHosts, TypeOK
  <2>4. FetchIsTheKeys'
    BY <1>2, <2>1, Abandoned DEF ReceiveHosts, FetchIsTheKeys
  <2>5. QED
    BY <1>2, <2>3, <2>4 DEF ReceiveHosts, RowsAreTheKeys, ClickIsAimed
<1>3. CASE Ask
  BY <1>3 DEF Ask, TypeOK, RowsAreTheKeys, FetchIsTheKeys, ClickIsAimed, Key
<1>4. CASE Answer \/ AnswerFails
  <2>1. /\ fetch' \in Hosts \cup {Failed}
        /\ Key # Automatic => fetch' \in {Key, Failed}
    BY <1>0, <1>4, ResolvedTyped DEF Answer, AnswerFails
  <2>2. UNCHANGED <<active, chosen, page, known, listing, cache, click>>
    BY <1>4 DEF Answer, AnswerFails
  <2>3. QED
    BY <2>1, <2>2 DEF TypeOK, RowsAreTheKeys, FetchIsTheKeys, ClickIsAimed, Key
<1>5. CASE Receive
  <2>1. /\ cache' = [cache EXCEPT ![Key] = fetch] /\ fetch' = "idle"
        /\ UNCHANGED <<active, chosen, page, known, listing, click>>
    BY <1>5 DEF Receive, Entry
  <2>2. fetch \in Hosts \cup {Failed} /\ (Key # Automatic => fetch \in {Failed, Key})
    BY <1>5 DEF Receive, TypeOK, FetchIsTheKeys
  <2>3. cache \in [Keys -> Hosts \cup {Nobody, Failed}]
    BY DEF TypeOK
  <2>4. cache' \in [Keys -> Hosts \cup {Nobody, Failed}]
    BY <2>1, <2>2, <2>3
  <2>5. \A h \in Hosts : h \in Keys /\ h # Automatic
    BY PanelAssumption DEF PanelAssumption, Keys
  <2>6. RowsAreTheKeys'
    <3> SUFFICES ASSUME NEW h \in Hosts PROVE cache'[h] \in {h, Nobody, Failed}
      BY DEF RowsAreTheKeys
    <3>1. CASE h = Key
      BY <1>0, <2>1, <2>2, <2>3, <2>5, <3>1
    <3>2. CASE h # Key
      BY <2>1, <2>3, <2>5, <3>2 DEF RowsAreTheKeys
    <3>3. QED
      BY <3>1, <3>2
  <2>7. QED
    BY <2>1, <2>4, <2>6 DEF TypeOK, FetchIsTheKeys, ClickIsAimed
<1>6. ASSUME NEW k \in Keys, Collect(k) PROVE PanelInv'
  <2>1. /\ cache' = [cache EXCEPT ![k] = Nobody]
        /\ UNCHANGED <<active, chosen, page, known, listing, fetch, click>>
    BY <1>6 DEF Collect
  <2>2. cache \in [Keys -> Hosts \cup {Nobody, Failed}]
    BY DEF TypeOK
  <2>3. cache' \in [Keys -> Hosts \cup {Nobody, Failed}]
    BY <2>1, <2>2
  <2>4. \A h \in Hosts : cache'[h] \in {cache[h], Nobody}
    BY <2>1, <2>2 DEF Keys
  <2>5. QED
    BY <2>1, <2>3, <2>4 DEF TypeOK, RowsAreTheKeys, FetchIsTheKeys, ClickIsAimed, Key
<1>7. ASSUME NEW h \in Hosts, Choose(h) PROVE PanelInv'
  <2>1. Key' = h /\ h \in Keys
    BY <1>7 DEF Choose, Key, HostId, Keys
  <2>2. fetch' \in {fetch, "idle"}
    BY <1>7 DEF Choose, Abandon
  <2>3. TypeOK'
    BY <1>7, <2>1, <2>2 DEF Choose, TypeOK
  <2>4. FetchIsTheKeys'
    BY <1>7, <2>1, Abandoned DEF Choose, FetchIsTheKeys
  <2>5. QED
    BY <1>7, <2>3, <2>4 DEF Choose, RowsAreTheKeys, ClickIsAimed
<1>8. ASSUME NEW h \in Hosts, Register(h) \/ Remove(h) PROVE PanelInv'
  BY <1>8 DEF Register, Remove, TypeOK, RowsAreTheKeys, FetchIsTheKeys, ClickIsAimed, Key
<1>9. ASSUME NEW p \in Pages, Navigate(p) PROVE PanelInv'
  BY <1>9 DEF Navigate, TypeOK, RowsAreTheKeys, FetchIsTheKeys, ClickIsAimed, Key
<1>10. CASE Click
  <2>1. /\ click' = [at |-> "sent", key |-> Key, named |-> Indicated, seen |-> Shown,
                     on |-> Nobody]
        /\ UNCHANGED <<active, chosen, page, known, listing, cache, fetch>>
        /\ Shown # Nobody
    BY <1>10 DEF Click
  <2>2. Indicated \in Hosts \cup {Nobody} /\ (Key # Automatic => Indicated = Key)
    BY <1>0, KeyTyped DEF Indicated, Key
  <2>3. Shown \in Hosts \cup {Nobody} /\ (Key # Automatic => Shown = Key)
    BY <2>1, ShownTyped, RowsShown DEF ShownIsChosen
  <2>4. click' \in Clicks
    BY <1>0, <2>1, <2>2, <2>3 DEF Clicks
  <2>5. ClickIsAimed'
    BY <2>1, <2>2, <2>3 DEF ClickIsAimed
  <2>6. QED
    BY <2>1, <2>4, <2>5 DEF TypeOK, RowsAreTheKeys, FetchIsTheKeys, Key
<1>11. CASE Serve
  <2>1. Resolved(click.key) \in Hosts \cup {Nobody}
    BY ResolvedTyped DEF TypeOK, Clicks
  <2>2. /\ click' = [NoClick EXCEPT !.at = "served", !.on = Resolved(click.key)]
        /\ UNCHANGED <<active, chosen, page, known, listing, cache, fetch>>
    BY <1>11 DEF Serve
  <2>3. click' \in Clicks /\ click'.at = "served"
    BY <2>1, <2>2 DEF Clicks, NoClick, Keys
  <2>4. QED
    BY <2>2, <2>3 DEF TypeOK, RowsAreTheKeys, FetchIsTheKeys, ClickIsAimed, Key
<1>12. CASE Settle
  <2>1. click' \in Clicks /\ click'.at = "none"
    BY <1>12 DEF Settle, NoClick, Clicks, Keys
  <2>2. /\ UNCHANGED <<active, chosen, page, known, listing, cache>>
        /\ fetch' \in {fetch, "asked"}
    BY <1>12 DEF Settle
  <2>3. QED
    BY <2>1, <2>2 DEF TypeOK, RowsAreTheKeys, FetchIsTheKeys, ClickIsAimed, Key
<1>13. CASE UNCHANGED vars
  BY <1>13 DEF vars, TypeOK, RowsAreTheKeys, FetchIsTheKeys, ClickIsAimed, Key
<1>14. QED
  BY <1>1, <1>2, <1>3, <1>4, <1>5, <1>6, <1>7, <1>8, <1>9, <1>10, <1>11, <1>12, <1>13
     DEF Next

-----------------------------------------------------------------------------
\* The invariant holds in every state of the tab.
LEMMA PanelInvariant == Spec => []PanelInv
BY InitPanel, StepPanel, PTL DEF Spec

\* Every variable of the tab keeps its type.
THEOREM TypeCorrect == Spec => []TypeOK
<1>1. PanelInv => TypeOK
  BY DEF PanelInv
<1>2. QED
  BY <1>1, PanelInvariant, PTL

\* Rows that are shown while a host is chosen are rows of that host, however
\* switching, refetching, hosts that come and go, and late answers interleave
\* (useHosts.ts, containersQueryKey).
THEOREM RowsAreOfTheChosen == Spec => []ShownIsChosen
BY RowsShown, PanelInvariant, PTL

\* An action on such a row reaches the host that was indicated and whose rows
\* were shown at the click, or none, whatever happens before the server gets
\* the request.
THEOREM ActionsHitTheChosen == Spec => ActsOnTheChosen
<1>1. PanelInv /\ [Next]_vars =>
        [(/\ click.at = "sent" /\ click'.at = "served"
          /\ click.key # Automatic /\ click'.on # Nobody) =>
             click'.on = click.named /\ click'.on = click.seen]_vars
  <2> SUFFICES ASSUME PanelInv, [Next]_vars,
                      click.at = "sent", click'.at = "served",
                      click.key # Automatic, click'.on # Nobody
               PROVE  click'.on = click.named /\ click'.on = click.seen
    OBVIOUS
  <2>1. Serve
    BY DEF Next, vars, server, list, rows, FetchHosts, ReceiveHosts, Ask, Answer,
           AnswerFails, Receive, Collect, Choose, Register, Remove, Navigate, Click,
           Settle, NoClick
  <2>2. click.key \in Keys
    BY DEF PanelInv, TypeOK, Clicks
  <2>3. click'.on = Resolved(click.key)
    BY <2>1 DEF Serve, NoClick
  <2>4. click'.on = click.key
    BY <2>2, <2>3, ResolvedTyped DEF PanelInv
  <2>5. QED
    BY <2>4 DEF PanelInv, ClickIsAimed
<1>2. QED
  BY <1>1, PanelInvariant, PTL DEF Spec, ActsOnTheChosen
=============================================================================
