------------------------------ MODULE Readings ------------------------------
(***************************************************************************)
(* The requests that only look, next to those that change things:          *)
(*   - the lists and the details of containers, images, networks, storage; *)
(*   - the list of containers, which asks for the state of every container *)
(*     concurrently and lets none of them spoil the answer ("rows");       *)
(*   - the rows of any list, built of objects that pylxd fills in only     *)
(*     when they are read: one more call each ("summary");                 *)
(*   - the stream of the statistics of a container, which polls for as     *)
(*     long as somebody listens ("stream");                                *)
(*   - the probes of a host, which answer 200 when its daemon is down.     *)
(*                                                                         *)
(* A state is read in two calls, find and state, and only the first one is *)
(* prepared for an error of LXD: what happens in between shows up as a 500 *)
(* or as a stream that breaks off.  Nor is building the rows of a list.    *)
(***************************************************************************)
EXTENDS Operations

VARIABLE
  view  \* what a request has seen of each name: "nothing", a thing that is
        \* "listed", a container that is "found", its state "known" or "unknown",
        \* a row that is "shown"; in the end "told" (an error event), "left"
        \* (nobody listens), "gone" (a thing) or "broken" (a connection)

readingVars == <<vars, view>>

Views == {"nothing", "listed", "found", "known", "unknown", "shown", "told", "left",
          "gone", "broken"}
Mark(r, n, v) == view' = [view EXCEPT ![r][n] = v]
MarkMine(r, v) == Mark(r, job[r].name, v)
Mine(r) == view[r][job[r].name]

\* Nothing but the request itself moves: readings leave no trace.
OnlyLooks == UNCHANGED <<lxd, account, hosts, nextId, audit, notified, job, outcome,
                         done, crashes, mock>>

IsThere(r, c, n) == Accepts(c, n, lxd[client[r].daemon])

\* LXD refuses a call for reasons of its own; the mock does only what it must.
MayFail(r, c, n) == mock => ~ IsThere(r, c, n)

ReadingInit == Init /\ view = [r \in Reqs |-> [n \in Names |-> "nothing"]]

\* A call went well: the next one, or the answer.
Advance(r) ==
  /\ step' = [step EXCEPT ![r] = @ + 1]
  /\ IF step[r] = Len(Script(job[r].op))
     THEN Finish(r, 200)
     ELSE UNCHANGED <<pc, answer>>

(***************************************************************************)
(* Lists and details                                                       *)
(***************************************************************************)
\* The lists whose rows are filled in when they are read; that of the snapshots
\* comes complete.
Lists == {"list", "list images", "list networks", "list pools", "list volumes"}

\* The call that returns the list.
Listing(r) == pc[r] = "look" /\ job[r].op \in Lists /\ CallOf(r).verb = "all"

Looks(r) ==
  pc[r] = "look" /\ job[r].op \in ReadingOps \ {"stats"} /\ ~ Listing(r) /\ HasTurn(r)

Look(r) ==
  /\ Looks(r)
  /\ LET c == CallOf(r) IN
       /\ IsThere(r, c, job[r].name)
       /\ CASE c = Do("find", "container") -> MarkMine(r, "found")
            [] c.verb = "state" -> MarkMine(r, "known")
            [] OTHER -> UNCHANGED view
  /\ Advance(r)
  /\ OnlyLooks /\ UNCHANGED client

\* What a refused call is answered with.  Only the statistics of the details
\* are given up for the rest, and only when the container is not found again.
Refused(r) ==
  IF Bare(CallOf(r)) THEN 500
  ELSE CASE job[r].op = "details with stats" /\ step[r] > 1 -> 200
         [] job[r].op = "list volumes" -> 502
         [] OTHER -> 404

LookInVain(r) ==
  /\ Looks(r)
  /\ MayFail(r, CallOf(r), job[r].name)
  /\ Finish(r, Refused(r))
  /\ OnlyLooks /\ UNCHANGED <<client, step, view>>

\* The connection breaks: no LXDAPIException, so no endpoint catches it.
LookBreaks(r) ==
  /\ Fragile /\ ~ mock /\ pc[r] = "look" /\ job[r].op \in ReadingOps \ {"stats"}
  /\ MarkMine(r, "broken")
  /\ Finish(r, 500)
  /\ OnlyLooks /\ UNCHANGED <<client, step>>

(***************************************************************************)
(* Lists                                                                   *)
(***************************************************************************)
\* The thing of a list that has the name n; a pool has one volume here.
Item(r, n) == <<CallOf(r).kind, n>>
MayList(r, n) == job[r].op = "list volumes" => n = job[r].name
Exists(r, n) == lxd[client[r].daemon][Item(r, n)] # "absent"

List(r) ==
  /\ Listing(r) /\ HasTurn(r)
  /\ view' = [view EXCEPT ![r] =
       [n \in Names |-> IF MayList(r, n) /\ Exists(r, n) THEN "listed" ELSE "nothing"]]
  /\ Goto(r, IF job[r].op = "list" THEN "rows" ELSE "summary")
  /\ OnlyLooks /\ UNCHANGED <<client, step, answer>>

\* The list itself is refused, with an error that nothing turns into a 502.
ListInVain(r) ==
  /\ Listing(r) /\ ~ mock
  /\ Finish(r, 500)
  /\ OnlyLooks /\ UNCHANGED <<client, step, view>>

IsOpen(r, n) == pc[r] = "rows" /\ view[r][n] \in {"listed", "found"}

\* _safe_state: the container is found, then its state is read; in the mock at
\* one go.
Row(r, n) ==
  /\ IsOpen(r, n) /\ HasTurn(r)
  /\ IsThere(r, Do("find", "container"), n)
  /\ Mark(r, n, IF mock \/ view[r][n] = "found" THEN "known" ELSE "found")
  /\ OnlyLooks /\ UNCHANGED <<client, step, pc, answer>>

\* Mutant: only an LXDClientError is caught, which a state call never raises.
RowFailsUnshielded(r, n) ==
  /\ IsOpen(r, n) /\ HasTurn(r)
  /\ MayFail(r, Do("find", "container"), n)
  /\ IF view[r][n] = "found" THEN Finish(r, 500) /\ UNCHANGED view
                             ELSE Mark(r, n, "unknown") /\ UNCHANGED <<pc, answer>>
  /\ OnlyLooks /\ UNCHANGED <<client, step>>

\* Whatever either call raises, a broken connection too.
RowFails(r, n) ==
  /\ IsOpen(r, n) /\ HasTurn(r)
  /\ MayFail(r, Do("find", "container"), n)
  /\ Mark(r, n, "unknown")
  /\ OnlyLooks /\ UNCHANGED <<client, step, pc, answer>>

\* gather has the states of all rows.
Settle(r) ==
  /\ pc[r] = "rows" /\ \A n \in Names : ~ IsOpen(r, n)
  /\ Goto(r, "summary")
  /\ OnlyLooks /\ UNCHANGED <<client, step, answer, view>>

IsDue(r, n) == pc[r] = "summary" /\ view[r][n] \in {"listed", "known", "unknown"}

\* A row is built: its thing is fetched, in the event loop.  The mock has its
\* things at hand.  The code goes by the order of the list, any order does here.
Summarise(r, n) ==
  /\ IsDue(r, n) /\ (mock \/ Exists(r, n))
  /\ Mark(r, n, "shown")
  /\ OnlyLooks /\ UNCHANGED <<client, step, pc, answer>>

\* It is gone by now, or LXD or the connection fails; nothing catches that.
SummaryFails(r, n) ==
  /\ IsDue(r, n) /\ ~ mock
  /\ Mark(r, n, IF Exists(r, n) THEN "broken" ELSE "gone")
  /\ Finish(r, 500)
  /\ OnlyLooks /\ UNCHANGED <<client, step>>

AnswerList(r) ==
  /\ pc[r] = "summary" /\ \A n \in Names : ~ IsDue(r, n)
  /\ Finish(r, 200)
  /\ OnlyLooks /\ UNCHANGED <<client, step, view>>

(***************************************************************************)
(* The stream of statistics                                                *)
(***************************************************************************)
\* The response starts: from here on it has the status 200.
Open(r) ==
  /\ pc[r] = "look" /\ job[r].op = "stats"
  /\ Goto(r, "stream")
  /\ answer' = [answer EXCEPT ![r] = 200]
  /\ OnlyLooks /\ UNCHANGED <<client, step, view>>

\* A call of a poll; after the last one the event is sent and the generator
\* sleeps.
Poll(r) ==
  /\ pc[r] = "stream" /\ HasTurn(r) /\ IsThere(r, CallOf(r), job[r].name)
  /\ LET last == step[r] = Len(Script("stats")) IN
       /\ step' = [step EXCEPT ![r] = IF last THEN 1 ELSE @ + 1]
       /\ MarkMine(r, IF last THEN "known" ELSE "found")
  /\ OnlyLooks /\ UNCHANGED <<client, pc, answer>>

\* An error event ends the stream, or an error does that the generator does
\* not catch.
PollFails(r) ==
  /\ pc[r] = "stream" /\ HasTurn(r) /\ MayFail(r, CallOf(r), job[r].name)
  /\ IF Bare(CallOf(r)) THEN UNCHANGED view ELSE MarkMine(r, "told")
  /\ Goto(r, "done")
  /\ OnlyLooks /\ UNCHANGED <<client, step, answer>>

PollBreaks(r) ==
  /\ Fragile /\ ~ mock /\ pc[r] = "stream"
  /\ MarkMine(r, "broken")
  /\ Goto(r, "done")
  /\ OnlyLooks /\ UNCHANGED <<client, step, answer>>

\* The browser closes the stream, and the generator is cancelled in its await.
Unsubscribe(r) ==
  /\ pc[r] = "stream" /\ (mock => step[r] = 1)
  /\ MarkMine(r, "left")
  /\ Goto(r, "done")
  /\ OnlyLooks /\ UNCHANGED <<client, step, answer>>

(***************************************************************************)
(* The probes of a host                                                    *)
(***************************************************************************)
\* _get_host_or_404: the row of exactly this id.
FindHost(r) ==
  /\ pc[r] = "resolve" /\ job[r].op \in Probes
  /\ IF job[r].host \in Used
     THEN /\ client' = [client EXCEPT ![r] = [id |-> job[r].host, daemon |-> hosts[job[r].host]]]
          /\ Goto(r, "look") /\ UNCHANGED answer
     ELSE Finish(r, 404) /\ UNCHANGED client
  /\ OnlyLooks /\ UNCHANGED <<step, view>>

Probing(r) == pc[r] = "look" /\ job[r].op \in Probes

Probe(r) == Probing(r) /\ Advance(r) /\ OnlyLooks /\ UNCHANGED <<client, view>>

\* An LXDProbeError: the host is described as unreachable, or, when only its
\* resources are missing, without them.
ProbeFails(r) ==
  /\ Probing(r)
  /\ Finish(r, 200)
  /\ OnlyLooks /\ UNCHANGED <<client, step, view>>

\* httpx cannot even build the client: unreadable PEM, an address that is no
\* URL.  That is no LXDProbeError.
ProbeBreaks(r) ==
  /\ Fragile /\ Probing(r) /\ step[r] = 1
  /\ MarkMine(r, "broken")
  /\ Finish(r, 500)
  /\ OnlyLooks /\ UNCHANGED <<client, step>>

ServeReading(r) ==
  \/ Look(r) \/ LookInVain(r) \/ LookBreaks(r)
  \/ List(r) \/ ListInVain(r) \/ Settle(r) \/ AnswerList(r)
  \/ \E n \in Names : Row(r, n) \/ RowFails(r, n) \/ Summarise(r, n) \/ SummaryFails(r, n)
  \/ FindHost(r) \/ Probe(r) \/ ProbeFails(r) \/ ProbeBreaks(r)

Stream(r) == Open(r) \/ Poll(r) \/ PollFails(r) \/ PollBreaks(r) \/ Unsubscribe(r)

ReadingNext ==
  \/ Next /\ UNCHANGED view
  \/ \E r \in Reqs : ServeReading(r) \/ Stream(r)

ReadingSpec == ReadingInit /\ [][ReadingNext]_readingVars

(***************************************************************************)
(* Properties                                                              *)
(***************************************************************************)
OfAContainer == {"details", "details with stats", "state", "snapshots", "stats"}

\* A reading that ended in a way its client was not told of: a 500, or a stream
\* that broke off without an error event.
EndsUnannounced(r) ==
  /\ pc[r] = "done"
  /\ \/ answer[r] = 500
     \/ job[r].op = "stats" /\ answer[r] = 200 /\ Mine(r) \notin {"told", "left"}

\* "On error an event of type error is emitted" (container_stats_sse), "Stats
\* are best-effort" (get_container): true of a container that is not there, at
\* the first look or at any later poll.  Only one that was found a moment ago,
\* in the same reading or poll, a broken connection, or one to a remote daemon
\* that does not even open, ends a reading unannounced.
SurprisesAreRaces ==
  [][\A r \in Reqs :
       job[r] # NoJob /\ job[r].op \in OfAContainer
         /\ ~ EndsUnannounced(r) /\ EndsUnannounced(r)' =>
       \/ Mine(r)' \in {"found", "broken"}
       \/ pc[r] = "connect" /\ client[r].daemon \in Remote]_readingVars

\* The row of a listed thing that could not be built, in a step of r: the thing
\* is there no more, or LXD or the connection failed.
Unbuilt(r) ==
  \E n \in Names :
    /\ IsDue(r, n)
    /\ ~ Exists(r, n) \/ view'[r][n] = "broken"

\* "One instance being down must not blank the whole list" (list_containers):
\* true as far as their states go, whatever they raise and whatever other
\* requests do to the containers.  The list is answered with a row for each
\* container, unless one of them cannot be fetched when its row is built.
\* "Only an unknown host_id is an error" (host_health): a daemon that is down
\* is reported with a 200.
OutagesStayLocal ==
  [][\A r \in Reqs :
       /\ pc[r] \in {"rows", "summary"} /\ pc'[r] = "done" =>
            \/ answer'[r] = 200 /\ \A n \in Names : view[r][n] \in {"nothing", "shown"}
            \/ answer'[r] = 500 /\ pc[r] = "summary" /\ ~ mock /\ Unbuilt(r)
       /\ pc[r] = "look" /\ pc'[r] = "done" /\ job[r].op \in Probes =>
            answer'[r] = 200 \/ view'[r][job[r].name] = "broken"]_readingVars
=============================================================================
