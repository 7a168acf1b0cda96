----------------------------- MODULE Operations -----------------------------
(***************************************************************************)
(* The requests that change something inside LXD: containers, snapshots,   *)
(* images, networks and storage volumes.  All of them go through the same  *)
(* stages: authenticate, resolve the host, open a client, make a script of *)
(* LXD calls, write the audit entry, schedule the notification, answer.    *)
(* A request that only looks goes the same way up to its calls, which are  *)
(* in Readings; what becomes of a notification is in Notifier.             *)
(*                                                                         *)
(* Every LXD call is awaited in a thread, so between two of them other     *)
(* requests act on the same container, and accounts and hosts come and go. *)
(* The audit entry is written after the last call, in a transaction of its *)
(* own, with foreign keys to rows that were read before the first one.     *)
(***************************************************************************)
EXTENDS Scripts

CONSTANTS
  Reqs,         \* HTTP requests; each one is served at most once
  Users,
  Daemons,      \* LXD daemons, one per registered address
  Names,        \* names of containers, images, networks and volumes; the
                \* snapshot of a container has the name of its container here
  Ops,          \* the operations requested, a subset of AllOps
  MaxId,        \* bound: host ids are 1 .. MaxId
  IdsReused,    \* SQLite hands out max(id)+1, PostgreSQL a sequence
  Leavers,      \* bound: the users whose account an admin may remove
  Moving,       \* bound: the daemons that may be registered and removed
  Remote,       \* the daemons that are reached over TLS
  MaxCrashes,   \* bound: worker crashes
  Fragile,      \* whether connections to LXD may break, or not even be set up
  Modes,        \* the settings of LXD_MOCK: TRUE, MockLXDClient takes the calls
  Ephemeral,    \* the names whose containers are created ephemeral, which
                \* LXD deletes when they stop
  NoDaemon, NoJob

Things == Kinds \X Names
Ids == 1 .. MaxId

Job == [op : AllOps, name : Names, user : Users, host : Ids \cup {0},
        meant : Daemons \cup {NoDaemon}]
Entry == [by : Reqs, ok : BOOLEAN, host : Ids \cup {0}]

ASSUME OperationsAssumption ==
  /\ Ops \subseteq AllOps
  /\ MaxId \in Nat \ {0} /\ MaxCrashes \in Nat
  /\ Ephemeral \subseteq Names
  /\ Leavers \subseteq Users /\ Moving \subseteq Daemons
  /\ Remote \subseteq Daemons
  /\ {IdsReused, Fragile} \cup Modes \subseteq BOOLEAN
  /\ NoDaemon \notin Daemons /\ NoJob \notin Job

VARIABLES
  lxd,        \* per daemon: what exists, and which containers run
  account,    \* the users table: active, disabled or gone
  hosts,      \* the hosts table: the daemon at the address of a row
  nextId,     \* the next value of the id sequence (PostgreSQL)
  audit,      \* the audit_logs rows
  notified,   \* the events for which a notification was scheduled
  pc, job,
  client,     \* the LXD client of a request: host_id and daemon
  step,       \* the call of its script a request is at
  outcome,    \* whether the script went through
  done,       \* history: the changes LXD made for a request, in order
  answer,     \* the status code sent, 0 before
  crashes,
  mock        \* LXD_MOCK, which stays what it is

vars == <<lxd, account, hosts, nextId, audit, notified, pc, job,
          client, step, outcome, done, answer, crashes, mock>>

(***************************************************************************)
(* What LXD and its stand-in do with a call                                *)
(***************************************************************************)
Changes == {"create", "delete", "start", "stop", "restart", "restore"}

\* The states in which LXD carries out a call; s is what a daemon has.
LxdAccepts(c, n, s) ==
  LET t == s[<<c.kind, n>>] IN
  CASE c.verb = "all" -> TRUE
    [] c.verb \in {"find", "peek", "alias", "state"} -> t # "absent"
    [] c.verb = "create" -> t = "absent"
    [] c.verb \in {"delete", "start", "restore"} -> t = "present"
    [] c.verb \in {"stop", "restart"} -> t = "running"

\* MockLXDClient minds only whether the thing is there, and not even that when
\* it creates a container, an image or a network.
MockAccepts(c, n, s) ==
  LET t == s[<<c.kind, n>>] IN
  CASE c.verb = "all" -> TRUE
    [] c.verb = "create" -> c.kind = "snapshot" => t = "absent"
    [] OTHER -> t # "absent"

Accepts(c, n, s) == IF mock THEN MockAccepts(c, n, s) ELSE LxdAccepts(c, n, s)

\* A call on a container.  A container takes its snapshots with it; so does one
\* that the mock overwrites.  The mock does not know of ephemeral containers.
AfterContainer(c, n, s) ==
  LET only(t) == [s EXCEPT ![<<"container", n>>] = t]
      alone(t) == [s EXCEPT ![<<"container", n>>] = t, ![<<"snapshot", n>>] = "absent"]
  IN
  CASE c.verb = "create" -> alone("present")
    [] c.verb = "delete" -> alone("absent")
    [] c.verb = "stop" ->
         IF n \in Ephemeral /\ ~ mock THEN alone("absent") ELSE only("present")
    [] c.verb \in {"start", "restart"} -> only("running")
    [] OTHER -> s

\* A call on anything else.  The mock does not keep volumes.
AfterOther(c, n, s) ==
  CASE c.verb = "create" ->
         IF mock /\ c.kind = "volume" THEN s ELSE [s EXCEPT ![<<c.kind, n>>] = "present"]
    [] c.verb = "delete" -> [s EXCEPT ![<<c.kind, n>>] = "absent"]
    [] OTHER -> s

\* What a daemon has after it carried out a call.
After(c, n, s) ==
  IF c.kind = "container" THEN AfterContainer(c, n, s) ELSE AfterOther(c, n, s)

(***************************************************************************)
(* The tables                                                              *)
(***************************************************************************)
Used == {i \in Ids : hosts[i] # NoDaemon}

IsNewId(i) ==
  IF IdsReused THEN (\A j \in Used : j < i) /\ (i = 1 \/ i - 1 \in Used)
               ELSE i = nextId

\* Mutant: an id that is unknown falls back to the only host.
ResolvesLeniently(h) ==
  {i \in Used : i = h \/ (h \notin Used /\ Used = {i})}

\* The host rows that resolve_host may return for a host_id; 0 stands for None.
Resolves(h) ==
  {i \in Used : i = h \/ (h = 0 /\ Used = {i})}

\* What resolve_host, or opening a client, answers when there is none.
Unresolved(h) == IF h # 0 THEN 404 ELSE IF Used = {} THEN 409 ELSE 422

(***************************************************************************)
(* The stages of a request                                                 *)
(***************************************************************************)
Goto(r, l) == pc' = [pc EXCEPT ![r] = l]
Finish(r, code) == Goto(r, "done") /\ answer' = [answer EXCEPT ![r] = code]

CallOf(r) == Script(job[r].op)[step[r]]

Init ==
  /\ \E found \in [Daemons \X Names -> {"absent", "present", "running"}] :
       /\ \A x \in DOMAIN found : x[2] \in Ephemeral => found[x] # "present"
       /\ lxd = [d \in Daemons |->
                  [t \in Things |-> CASE t[1] = "pool" -> "present"
                                      [] t[1] = "container" -> found[<<d, t[2]>>]
                                      [] OTHER -> "absent"]]
  /\ account = [u \in Users |-> "active"]
  /\ hosts \in [Ids -> Daemons \cup {NoDaemon}]
  /\ \A i, j \in Used : hosts[i] = hosts[j] => i = j
  /\ \E k \in 0 .. MaxId : Used = 1 .. k /\ nextId = k + 1
  /\ audit = {} /\ notified = {}
  /\ pc = [r \in Reqs |-> "idle"]
  /\ job = [r \in Reqs |-> NoJob]
  /\ client = [r \in Reqs |-> [id |-> 0, daemon |-> NoDaemon]]
  /\ step = [r \in Reqs |-> 1]
  /\ outcome = [r \in Reqs |-> FALSE]
  /\ done = [r \in Reqs |-> <<>>]
  /\ answer = [r \in Reqs |-> 0]
  /\ crashes = 0
  /\ mock \in Modes

\* Somebody with a token sends a request.  The host_id is the row of a daemon
\* the panel lists, or left out while the choice is "Automatic"; a probe names
\* it in its path.
Send(r) ==
  /\ pc[r] = "idle"
  /\ \E op \in Ops, n \in Names, u \in Users, h \in Used \cup {0} :
       /\ op \in Probes => h # 0
       /\ job' = [job EXCEPT ![r] =
                [op |-> op, name |-> n, user |-> u, host |-> h,
                 meant |-> IF h = 0 THEN NoDaemon ELSE hosts[h]]]
  /\ Goto(r, "authenticate")
  /\ UNCHANGED <<lxd, account, hosts, nextId, audit, notified, client, step,
                 outcome, done, answer, crashes, mock>>

\* get_current_user, in a thread of its own: the row is read once.
Authenticate(r) ==
  /\ pc[r] = "authenticate"
  /\ LET state == account[job[r].user] IN
       \/ state = "active" /\ Goto(r, "resolve") /\ UNCHANGED answer
       \/ state = "disabled" /\ Finish(r, 403)
       \/ state = "gone" /\ Finish(r, 401)
  /\ UNCHANGED <<lxd, account, hosts, nextId, audit, notified, job, client, step,
                 outcome, done, crashes, mock>>

\* get_lxd_client: resolve_host, then open_client with what the row said.
Resolve(r) ==
  /\ pc[r] = "resolve" /\ job[r].op \notin Probes
  /\ IF Resolves(job[r].host) = {}
     THEN Finish(r, Unresolved(job[r].host)) /\ UNCHANGED client
     ELSE \E i \in Resolves(job[r].host) :
            /\ client' = [client EXCEPT ![r] = [id |-> i, daemon |-> hosts[i]]]
            /\ Goto(r, "connect") /\ UNCHANGED answer
  /\ UNCHANGED <<lxd, account, hosts, nextId, audit, notified, job, step, outcome,
                 done, crashes, mock>>

\* What is answered when a client does not open: connect_socket turns whatever
\* it meets into an LXDClientError, connect_tls only a connection that fails and
\* neither an error that the daemon answers nor one of its own temporary files.
ConnectErrors(d) == IF mock THEN {} ELSE {502} \cup (IF d \in Remote THEN {500} ELSE {})

\* The client opens, or it does not and nothing is recorded; the mock always
\* opens.
Connect(r) ==
  /\ pc[r] = "connect"
  /\ \/ Goto(r, IF job[r].op \in ChangingOps THEN "call" ELSE "look") /\ UNCHANGED answer
     \/ \E code \in ConnectErrors(client[r].daemon) : Finish(r, code)
  /\ UNCHANGED <<lxd, account, hosts, nextId, audit, notified, job, client, step,
                 outcome, done, crashes, mock>>

\* The mock never suspends: a handler that started its script goes on with it.
\* A probe goes past the mock.
HasTurn(r) ==
  mock => \A q \in Reqs \ {r} :
            pc[q] \in {"call", "look", "stream"} /\ step[q] > 1 => job[q].op \in Probes

\* LXD makes the change call c asks for.
Make(r, c) ==
  LET d == client[r].daemon IN
    /\ Accepts(c, job[r].name, lxd[d])
    /\ lxd' = [lxd EXCEPT ![d] = After(c, job[r].name, @)]
    /\ done' = IF c.verb \in Changes THEN [done EXCEPT ![r] = Append(@, c.verb)]
                                     ELSE done

\* A call succeeds and the script goes on, after "peek" with or without stop.
Call(r) ==
  /\ pc[r] = "call" /\ HasTurn(r)
  /\ LET c == CallOf(r)
         d == client[r].daemon
         next == IF c.verb = "peek" /\ lxd[d][<<c.kind, job[r].name>>] # "running"
                 THEN step[r] + 3 ELSE step[r] + 1
         last == next > Len(Script(job[r].op))
     IN /\ Make(r, c)
        /\ step' = [step EXCEPT ![r] = next]
        /\ outcome' = [outcome EXCEPT ![r] = last]
        /\ IF last THEN Goto(r, "audit") ELSE UNCHANGED pc
  /\ UNCHANGED <<account, hosts, nextId, audit, notified, job, client, answer,
                 crashes, mock>>

\* Mutant: a refusal is only logged.
RefusedCallIsIgnored(r) ==
  /\ pc[r] = "call" /\ HasTurn(r)
  /\ outcome' = [outcome EXCEPT ![r] = TRUE]
  /\ Goto(r, "audit")
  /\ UNCHANGED <<lxd, account, hosts, nextId, audit, notified, job, client, step,
                 done, answer, crashes, mock>>

\* Mutant: the error is answered before it is recorded.
RefusedCallIsAnswered(r) ==
  /\ pc[r] = "call" /\ HasTurn(r)
  /\ Finish(r, 502)
  /\ UNCHANGED <<lxd, account, hosts, nextId, audit, notified, job, client, step,
                 outcome, done, crashes, mock>>

\* Mutant: the client retries a call that LXD refused.
RefusedCallIsRetried(r) ==
  /\ pc[r] = "call" /\ HasTurn(r) /\ step[r] > 1
  /\ step' = [step EXCEPT ![r] = @ - 1]
  /\ UNCHANGED <<lxd, account, hosts, nextId, audit, notified, pc, job, client,
                 outcome, done, answer, crashes, mock>>

\* LXD answers with an error, which LXDClient turns into an LXDClientError:
\* the thing is not in the state for it, or LXD has reasons of its own.
Refuse(r) ==
  /\ pc[r] = "call" /\ HasTurn(r)
  /\ mock => ~ Accepts(CallOf(r), job[r].name, lxd[client[r].daemon])
  /\ outcome' = [outcome EXCEPT ![r] = FALSE]
  /\ Goto(r, "audit")
  /\ UNCHANGED <<lxd, account, hosts, nextId, audit, notified, job, client, step,
                 done, answer, crashes, mock>>

\* The connection breaks, before LXD acted or after.  That is no
\* LXDAPIException, so no handler catches it.
Break(r) ==
  /\ Fragile /\ ~ mock /\ pc[r] = "call"
  /\ Make(r, CallOf(r)) \/ UNCHANGED <<lxd, done>>
  /\ Finish(r, 500)
  /\ UNCHANGED <<account, hosts, nextId, audit, notified, job, client, step,
                 outcome, crashes, mock>>

\* Mutant: a failing INSERT is swallowed and the event is sent all the same.
AuditInVain(r) ==
  /\ pc[r] = "audit"
  /\ audit' = IF account[job[r].user] # "gone" /\ client[r].id \in Used
              THEN audit \cup {[by |-> r, ok |-> outcome[r], host |-> client[r].id]}
              ELSE audit
  /\ Goto(r, "notify") /\ UNCHANGED answer
  /\ UNCHANGED <<lxd, account, hosts, nextId, notified, job, client, step, outcome,
                 done, crashes, mock>>

\* record_and_notify: INSERT and COMMIT.  user_id and host_id are foreign
\* keys; when a row is gone by now the IntegrityError makes it a 500.
Audit(r) ==
  /\ pc[r] = "audit"
  /\ IF account[job[r].user] # "gone" /\ client[r].id \in Used
     THEN /\ audit' = audit \cup {[by |-> r, ok |-> outcome[r], host |-> client[r].id]}
          /\ Goto(r, "notify") /\ UNCHANGED answer
     ELSE Finish(r, 500) /\ UNCHANGED audit
  /\ UNCHANGED <<lxd, account, hosts, nextId, notified, job, client, step, outcome,
                 done, crashes, mock>>

\* What pylxd returns for these has little more than a name: the answer is built
\* with one more GET, after the entry, and nobody catches what that raises.
AnswersLazily == {"create", "create and start", "import", "create volume"}

\* schedule_notification, and the answer.
Notify(r) ==
  /\ pc[r] = "notify"
  /\ notified' = notified \cup {[by |-> r, ok |-> outcome[r]]}
  /\ \/ Finish(r, IF outcome[r] THEN 200 ELSE 502)
     \/ outcome[r] /\ job[r].op \in AnswersLazily /\ ~ mock /\ Finish(r, 500)
  /\ UNCHANGED <<lxd, account, hosts, nextId, audit, job, client, step, outcome,
                 done, crashes, mock>>

(***************************************************************************)
(* Meanwhile: accounts, hosts, crashes                                     *)
(***************************************************************************)
\* PATCH and DELETE /users/{id}.
Leave(u, state) ==
  /\ u \in Leavers /\ account[u] # "gone" /\ account[u] # state
  /\ account' = [account EXCEPT ![u] = state]
  /\ UNCHANGED <<lxd, hosts, nextId, audit, notified, pc, job, client, step,
                 outcome, done, answer, crashes, mock>>

\* POST /hosts
RegisterHost(d) ==
  /\ d \in Moving /\ \A i \in Used : hosts[i] # d
  /\ \E i \in Ids :
       /\ IsNewId(i)
       /\ hosts' = [hosts EXCEPT ![i] = d]
       /\ nextId' = i + 1
  /\ UNCHANGED <<lxd, account, audit, notified, pc, job, client, step, outcome,
                 done, answer, crashes, mock>>

\* Mutant: no ON DELETE SET NULL.
ForgetNothing(i) == audit

Forget(i) == {[e EXCEPT !.host = IF @ = i THEN 0 ELSE @] : e \in audit}

\* DELETE /hosts/{id}
RemoveHost(i) ==
  /\ i \in Used /\ hosts[i] \in Moving
  /\ hosts' = [hosts EXCEPT ![i] = NoDaemon]
  /\ audit' = Forget(i)
  /\ UNCHANGED <<lxd, account, nextId, notified, pc, job, client, step, outcome,
                 done, answer, crashes, mock>>

\* The worker that serves r dies.  Each request may be served by its own.
Crash(r) ==
  /\ crashes < MaxCrashes /\ pc[r] \notin {"idle", "done", "lost"}
  /\ crashes' = crashes + 1
  /\ Goto(r, "lost")
  /\ UNCHANGED <<lxd, account, hosts, nextId, audit, notified, job, client, step,
                 outcome, done, answer, mock>>

Serve(r) ==
  \/ Authenticate(r) \/ Resolve(r) \/ Connect(r) \/ Call(r) \/ Refuse(r)
  \/ Break(r) \/ Audit(r) \/ Notify(r)

Next ==
  \/ \E r \in Reqs : Send(r) \/ Serve(r) \/ Crash(r)
  \/ \E u \in Users : Leave(u, "disabled") \/ Leave(u, "gone")
  \/ \E d \in Daemons : RegisterHost(d)
  \/ \E i \in Ids : RemoveHost(i)

Spec == Init /\ [][Next]_vars

(***************************************************************************)
(* Properties                                                              *)
(***************************************************************************)
\* The stages of a request; "look", "rows" and "summary" are those of a reading.
Stages == {"authenticate", "resolve", "connect", "call", "look", "rows", "summary",
           "audit", "notify"}

\* Every variable has its type.
TypeOK ==
  /\ lxd \in [Daemons -> [Things -> {"absent", "present", "running"}]]
  /\ account \in [Users -> {"active", "disabled", "gone"}]
  /\ hosts \in [Ids -> Daemons \cup {NoDaemon}]
  /\ nextId \in 1 .. MaxId + 1
  /\ audit \subseteq Entry
  /\ notified \subseteq [by : Reqs, ok : BOOLEAN]
  /\ pc \in [Reqs -> Stages \cup {"stream", "idle", "done", "lost"}]
  /\ job \in [Reqs -> Job \cup {NoJob}]
  /\ client \in [Reqs -> [id : Ids \cup {0}, daemon : Daemons \cup {NoDaemon}]]
  /\ step \in [Reqs -> 1 .. 6]
  /\ outcome \in [Reqs -> BOOLEAN]
  /\ done \in [Reqs -> Seq(Changes)]
  /\ answer \in [Reqs -> {0, 200, 401, 403, 404, 409, 422, 500, 502}]
  /\ crashes \in 0 .. MaxCrashes
  /\ mock \in Modes

\* The changes that make up an operation, in order: a delete may stop the
\* container first.
Ways(op) ==
  CASE op \in {"create", "snapshot", "import", "create network", "create volume"} ->
         {<<"create">>}
    [] op = "create and start" -> {<<"create", "start">>}
    [] op \in {"start", "stop", "restart", "restore"} -> {<<op>>}
    [] op = "delete" -> {<<"delete">>, <<"stop", "delete">>}
    [] op \in {"delete snapshot", "delete image", "delete network"} -> {<<"delete">>}

IsMade(r) == done[r] \in Ways(job[r].op)

\* The operations that end with a look at the result, or consist of two
\* changes: these may fail although LXD did what was asked.
LooksAfterwards == {"create and start", "start", "stop", "restart", "snapshot",
                    "import", "create network"}

\* The trail is true: a success entry means that LXD made every change the
\* operation consists of, for this request; a failure entry that it did not,
\* unless the operation looks at its result afterwards.
TrailIsTrue ==
  \A e \in audit :
    /\ e.ok => IsMade(e.by)
    /\ ~ e.ok /\ job[e.by].op \notin LooksAfterwards => ~ IsMade(e.by)

\* "The notification only fires for events that actually landed in the DB"
\* (record_and_notify), whatever user, host or worker disappears meanwhile.
NotifiedEventsLanded ==
  \A n \in notified : \E e \in audit : e.by = n.by /\ e.ok = n.ok

\* An entry that names a host names the one whose daemon made the changes,
\* also when the host was removed while LXD was at work.
EntryNamesTheDaemon ==
  \A e \in audit : e.host # 0 => hosts[e.host] = client[e.by].daemon

\* A request that names a host changes nothing on another daemon than the one
\* that had the id when the operator chose it.
ChangesTheHostMeant ==
  \A r \in Reqs :
    done[r] # <<>> /\ job[r].meant # NoDaemon => client[r].daemon = job[r].meant

\* Nobody is told how a change ended before the trail tells it, whatever
\* happens to accounts, hosts, connections and workers meanwhile.
AnsweredIsRecorded ==
  \A r \in Reqs : answer[r] \in {200, 502} /\ done[r] # <<>> =>
    \E e \in audit : e.by = r

\* "Immutable record of every mutating operation" (README.md): what LXD did for
\* a request that has ended is in the trail.
OutcomesAreRecorded ==
  \A r \in Reqs : pc[r] \in {"done", "lost"} /\ done[r] # <<>> =>
    \E e \in audit : e.by = r

\* Every request is answered, or dies with its worker.
EveryRequestEnds == \A r \in Reqs : pc[r] \in Stages ~> pc[r] \in {"done", "lost"}
=============================================================================
