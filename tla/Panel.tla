-------------------------------- MODULE Panel --------------------------------
(***************************************************************************)
(* One browser tab of the panel: which LXD host the operator has chosen,   *)
(* which one the tab indicates, whose containers it shows, and which one   *)
(* the server takes for a request.                                         *)
(*                                                                         *)
(* The tab knows the registered hosts from a list that it fetches when it  *)
(* is opened, focused or told to, and that it does not poll.  Containers   *)
(* are fetched per query key ["containers", hostId], polled, and cached    *)
(* (React Query).  hostId is null, "Automatic", unless the operator chose  *)
(* a host that is still on the list; the server then takes the only host.  *)
(***************************************************************************)
EXTENDS FiniteSets

CONSTANTS
  Hosts,      \* rows of the hosts table; one that leaves comes back as itself,
              \* enabled again, or not at all
  Automatic,  \* null, no host_id
  Nobody,     \* no host
  Failed      \* a fetch that ended with an error

Keys == Hosts \cup {Automatic}
Pages == {"hosts", "containers", "dashboard"}

ASSUME PanelAssumption ==
  /\ {Automatic, Nobody, Failed} \cap Hosts = {}
  /\ Automatic # Nobody /\ Failed # Nobody

VARIABLES
  active,     \* the server: the active rows of the hosts table
  chosen,     \* ui.activeHostId, kept in localStorage
  page,       \* what the tab shows
  known,      \* the active hosts on the cached list; none before it is there
  listing,    \* GET /hosts: whether an answer is on its way, and which
  cache,      \* per key: whose containers are cached, or that the last fetch failed
  fetch,      \* GET /containers of the key on the page: idle, asked, or an answer
  click       \* the action on a container that is under way, see Clicks

vars == <<active, chosen, page, known, listing, cache, fetch, click>>
server == <<active>>
list == <<known, listing>>
rows == <<cache, fetch>>

\* at: where the request is; key: its host_id; named, seen: the host that was
\* indicated, and whose containers were shown, at the click; on: the host that
\* the server took.
Clicks ==
  [at : {"none", "sent", "served"}, key : Keys,
   named : Hosts \cup {Nobody}, seen : Hosts \cup {Nobody}, on : Hosts \cup {Nobody}]

NoClick ==
  [at |-> "none", key |-> Automatic, named |-> Nobody, seen |-> Nobody, on |-> Nobody]

(***************************************************************************)
(* The hooks                                                               *)
(***************************************************************************)
\* useActiveHostId
HostId(c, k) == IF c \in k THEN c ELSE Automatic

\* Mutant: gives the choice back instead of null when there is no host to name.
EffectiveOrAutomatic(c, k) ==
  IF HostId(c, k) # Automatic THEN HostId(c, k)
  ELSE IF Cardinality(k) = 1 THEN CHOOSE h \in k : TRUE
  ELSE HostId(c, k)

\* useEffectiveHostId, which selector and indicator show.
EffectiveHostId(c, k) ==
  IF HostId(c, k) # Automatic THEN HostId(c, k)
  ELSE IF Cardinality(k) = 1 THEN CHOOSE h \in k : TRUE
  ELSE Nobody

\* Mutant: the key lacks the host.
SharedEntry(k) == Automatic

\* The entry of the cache for a key.
Entry(k) == k

Key == HostId(chosen, known)
Indicated == EffectiveHostId(chosen, known)

\* Whether the query of the page runs: that of the dashboard is disabled
\* without a host id.
Enabled(p, k) == p = "containers" \/ (p = "dashboard" /\ k # Automatic)

\* Whose containers the page lists, if it does: an error hides them.
Shown ==
  IF Enabled(page, Key) /\ cache[Entry(Key)] \in Hosts THEN cache[Entry(Key)] ELSE Nobody

(***************************************************************************)
(* The server: resolve_host                                                *)
(***************************************************************************)
Resolved(k) ==
  IF k # Automatic THEN IF k \in active THEN k ELSE Nobody
  ELSE IF Cardinality(active) = 1 THEN CHOOSE h \in active : TRUE ELSE Nobody

(***************************************************************************)
(* The list                                                                *)
(***************************************************************************)
Init ==
  /\ active \in SUBSET Hosts
  /\ chosen \in Keys
  /\ page \in Pages
  /\ known = {} /\ listing = [at |-> "idle", hosts |-> {}]
  /\ cache = [k \in Keys |-> Nobody]
  /\ fetch = "idle"
  /\ click = NoClick

\* Another key is shown: the query that nobody observes any more is aborted,
\* for its queryFn has passed the signal on to fetch().
Abandon(k) == fetch' = IF k = Key THEN fetch ELSE "idle"

\* The list is fetched when the tab is opened, and again when the window gets
\* the focus, a page mounts, or a POST or DELETE of this tab is through; a later
\* fetch starts an earlier one over.  A fetch that fails changes nothing.
FetchHosts ==
  /\ listing' = [at |-> "answered", hosts |-> active]
  /\ UNCHANGED <<server, chosen, page, known, rows, click>>

ReceiveHosts ==
  /\ listing.at = "answered"
  /\ known' = listing.hosts
  /\ listing' = [at |-> "idle", hosts |-> {}]
  /\ Abandon(HostId(chosen, listing.hosts))
  /\ UNCHANGED <<server, chosen, page, cache, click>>

(***************************************************************************)
(* The containers                                                          *)
(***************************************************************************)
\* Mutant: no polling after an error.
AskUnlessFailed ==
  /\ Enabled(page, Key) /\ fetch = "idle" /\ cache[Entry(Key)] # Failed
  /\ fetch' = "asked"
  /\ UNCHANGED <<server, chosen, page, list, cache, click>>

\* On mount, and polled every 5 or 10 s, or 60 s after an error.
Ask ==
  /\ Enabled(page, Key) /\ fetch = "idle"
  /\ fetch' = "asked"
  /\ UNCHANGED <<server, chosen, page, list, cache, click>>

\* The server resolves the host, or refuses with 404, 409 or 422.
Answer ==
  /\ fetch = "asked"
  /\ fetch' = IF Resolved(Key) = Nobody THEN Failed ELSE Resolved(Key)
  /\ UNCHANGED <<server, chosen, page, list, cache, click>>

\* LXD is unreachable: 502.
AnswerFails ==
  /\ fetch = "asked" /\ Resolved(Key) # Nobody
  /\ fetch' = Failed
  /\ UNCHANGED <<server, chosen, page, list, cache, click>>

\* An error hides the data that were there.
Receive ==
  /\ fetch \notin {"idle", "asked"}
  /\ cache' = [cache EXCEPT ![Entry(Key)] = fetch]
  /\ fetch' = "idle"
  /\ UNCHANGED <<server, chosen, page, list, click>>

\* gcTime: an entry that nobody observes for five minutes is dropped.
Collect(k) ==
  /\ k # Key \/ page = "hosts"
  /\ cache[k] # Nobody /\ cache' = [cache EXCEPT ![k] = Nobody]
  /\ UNCHANGED <<server, chosen, page, list, fetch, click>>

(***************************************************************************)
(* The operator                                                            *)
(***************************************************************************)
\* The selector offers the hosts on the list and tells of a change only; it has
\* no option for "Automatic" that can be picked.
Choose(h) ==
  /\ h \in known \ {Indicated}
  /\ chosen' = h
  /\ Abandon(h)
  /\ UNCHANGED <<server, page, list, cache, click>>

Navigate(p) ==
  /\ p # page /\ page' = p
  /\ fetch' = "idle"
  /\ UNCHANGED <<server, chosen, list, cache, click>>

\* An action of a row: the closure has the host id of the last rendering.
Click ==
  /\ page = "containers" /\ Shown # Nobody /\ click.at = "none"
  /\ click' = [at |-> "sent", key |-> Key, named |-> Indicated, seen |-> Shown,
               on |-> Nobody]
  /\ UNCHANGED <<server, chosen, page, list, rows>>

\* Mutant: the path of the request lacks the host_id.
ServeUnnamed ==
  /\ click.at = "sent"
  /\ click' = [NoClick EXCEPT !.at = "served", !.on = Resolved(Automatic)]
  /\ UNCHANGED <<server, chosen, page, list, rows>>

Serve ==
  /\ click.at = "sent"
  /\ click' = [NoClick EXCEPT !.at = "served", !.on = Resolved(click.key)]
  /\ UNCHANGED <<server, chosen, page, list, rows>>

\* onSettled invalidates ["containers"]: the query on the page is fetched
\* again, and one that is under way is started over if it has data already.
Settle ==
  /\ click.at = "served"
  /\ click' = NoClick
  /\ \/ Enabled(page, Key) /\ fetch' = "asked"
     \/ ~ Enabled(page, Key) /\ UNCHANGED fetch
     \/ fetch # "idle" /\ Shown = Nobody /\ UNCHANGED fetch
  /\ UNCHANGED <<server, chosen, page, list, cache>>

(***************************************************************************)
(* Hosts come and go                                                       *)
(***************************************************************************)
\* Through this tab, another one, another admin or a boot hook.
Register(h) ==
  /\ h \notin active /\ active' = active \cup {h}
  /\ UNCHANGED <<chosen, page, list, rows, click>>

Remove(h) ==
  /\ active' = active \ {h} /\ h \in active
  /\ UNCHANGED <<chosen, page, list, rows, click>>

Next ==
  \/ FetchHosts \/ ReceiveHosts
  \/ Ask \/ Answer \/ AnswerFails \/ Receive \/ \E k \in Keys : Collect(k)
  \/ \E h \in Hosts : Choose(h) \/ Register(h) \/ Remove(h)
  \/ \E p \in Pages : Navigate(p)
  \/ Click \/ Serve \/ Settle

Spec == Init /\ [][Next]_vars

\* The browser polls, answers arrive, and LXD answers well now and then.
\* Nobody has to focus the window, click or choose.
FairSpec ==
  /\ Spec
  /\ WF_vars(ReceiveHosts)
  /\ WF_vars(Ask) /\ SF_vars(Answer) /\ WF_vars(Receive)
  /\ WF_vars(Serve) /\ WF_vars(Settle)

(***************************************************************************)
(* Properties                                                              *)
(***************************************************************************)
\* Every variable has its type.
TypeOK ==
  /\ active \subseteq Hosts /\ chosen \in Keys /\ page \in Pages
  /\ known \subseteq Hosts
  /\ listing \in [at : {"idle", "answered"}, hosts : SUBSET Hosts]
  /\ cache \in [Keys -> Hosts \cup {Nobody, Failed}]
  /\ fetch \in {"idle", "asked", Failed} \cup Hosts
  /\ click \in Clicks

\* "Centralising the key here keeps the cache from serving one host's
\* containers after the operator switches to another" (useHosts.ts): rows that
\* are shown while a host is chosen are rows of that host.
ShownIsChosen == Key # Automatic /\ Shown # Nobody => Shown = Key

\* An action on such a row reaches the host that was indicated and whose rows
\* were shown, or none, whatever became of the table, of the choice and of the
\* cache before the server got the request.
ActsOnTheChosen ==
  [][(/\ click.at = "sent" /\ click'.at = "served"
      /\ click.key # Automatic /\ click'.on # Nobody) =>
         click'.on = click.named /\ click'.on = click.seen]_vars

Still == <>[][FALSE]_<<active, chosen, page, known, click>>

\* While nothing changes the page of containers shows, again and again, what
\* the server serves, however often LXD did not answer before.
ContainersCatchUp ==
  Still => []<>(page = "containers" /\ Resolved(Key) # Nobody => Shown = Resolved(Key))

\* "With a single registered host the choice is implicit (Automatic), which
\* keeps the common case one click-free" (HostSelector.tsx): the dashboard of a
\* panel with one host, which is on the list, shows that host at last.
DashboardLoads ==
  Still => []<>(page = "dashboard" /\ Indicated # Nobody /\ known = active =>
                  Shown = Indicated)
=============================================================================
