# A verification of lxdash

lxdash is a web panel for LXD: a FastAPI backend that keeps users, LXD hosts
and an audit trail in a relational database and forwards operations to one or
more LXD daemons, and a React frontend. This directory holds TLA+ models of its
parts, the TLC configurations that check them on small instances, and theorems
that TLAPS checks for every instance. `PROJECT.json` maps every definition to
the source lines it was translated from.

    tlc -workers 2 -config <run>.cfg <module>     # the runs are listed below
    tlapm <module>Proofs.tla                      # the theorems of section 5

## 1. Inventory

| component | state it keeps | operations | what is hard | what makes it correct |
|---|---|---|---|---|
| Host registry and bootstrap (`services/host_service.py`, `routers/hosts.py`, `routers/bootstrap.py`, `services/lxd_bootstrap.py`) | table `hosts`; whether the local daemon is set up | POST /hosts, POST /bootstrap/register, POST /bootstrap/cluster, DELETE /hosts/{id} | check-then-insert over awaits and over worker processes; a preseed that cannot be taken back | one row per name and per daemon; the trail names the right one |
| Boot hook (`main.py`, `entrypoint.sh`) | none of its own | register or reactivate the local daemon | runs in every worker at once, after every crash | a worker always gets to serve |
| Audit trail (`services/audit_service.py`, `models/audit_log.py`) | table `audit_logs` | `record_and_notify` | written after the fact, with foreign keys to rows read before | true, complete, and about the right user and host |
| LXD operations (`routers/containers.py`, `images.py`, `networks.py`, `storage.py`, `services/lxd_client.py`, `dependencies.py`) | none; they change LXD | 14 operations, each a script of LXD calls | awaits between the calls; other requests, accounts and hosts change meanwhile; broken connections | the trail tells what LXD did; the request reaches the host it names |
| Mock LXD (`services/lxd_client_mock.py`) | containers, images, networks of one process | the same calls | more lenient than LXD, never suspends | as above |
| Console bridge (`routers/console.py`, `lxd_client.py`, `Terminal.tsx`) | one browser socket, two LXD sockets, two pumps | open, type, resize, close | three sockets that end in any order; `asyncio.gather` does not cancel | all of it comes down, the browser is told |
| Accounts and authentication (`routers/users.py`, `auth.py`, `services/auth_service.py`) | table `users`, stateless tokens | create, update, reset, delete, login, refresh | an ORM row is read before the check and written after it | unique names and addresses, an admin remains, no lost update |
| Discord notifier (`services/discord_notifier.py`, `services/audit_service.py`) | HTTP client, filters | start, stop, notify | tasks that nobody awaits, a stop while they run, an answer after the timeout | only events that landed in the trail are sent, once, and each is tried |
| Reading endpoints and daemon probe (`routers/*.py`, `services/lxd_probe.py`) | none | lists, details, state, health, metrics | a list asks for the state of every container at once, and fetches each again for its row; find and state are two calls | no state that cannot be read spoils a list, no daemon that is down a probe; a 500 has a cause that can be named |
| Metrics (`routers/metrics.py`) | a generator per subscriber | poll | the container disappears; a second session in the event loop | the stream ends with an error event |
| Session pool (`database.py`) | 5 + 10 connections per worker | check out, return, time out | consoles hold one for their lifetime; endpoints wait for one in the event loop | every request ends, connections come back, operations keep theirs |
| Browser panel (`lib/`, `store/`, `components/layout/`) | chosen host, token, query cache | choose, poll, click | polls and clicks cross changes by other admins | what is shown is what is acted on |
| Schemas, migrations, configuration, seed, pages, delivery | tables, settings, static files | validation, rendering | local and pure | left to tests |

How they interact: a request authenticates against `users` in a thread of its
own, resolves its `host_id` against `hosts`, opens an LXD client, makes its
calls in threads, writes `audit_logs` in a transaction of its own, schedules the
notification as a task and answers. The boot hook and the registry endpoints
write `hosts`; the foreign keys of `audit_logs` point at `users` and `hosts`
(ON DELETE SET NULL). Several worker processes share the database and nothing
else. The console takes the same first steps over a WebSocket. The panel polls
the reading endpoints and sends the mutating ones.

The hazards of this code are listed, each at its line, in `PROJECT.json` under
"hazards", with the properties that would catch them; a hazard without a
property says why.

## 2. Modules

* **HostRegistry** — one action per SQL statement or await of the registry
  endpoints and the boot hook. Inside a worker the handlers are coroutines:
  `loop[w]` is the coroutine that occupies the event loop of worker `w`,
  `Continue` goes on to the next statement without an await, `Release` gives
  the loop back where the code awaits or answers. Statements of different
  workers interleave freely. `pc` names the statement, `host` the ORM object
  the handler holds, `job` the request body. `Preseed` and the probe are what
  the code sees of LXD. `Crash` kills a worker with its requests; `Boot`
  restarts it. `Disable` stands for an operator who clears `is_active` in the
  database, which no endpoint does but `ensure_host` reckons with.
* **AtomicRegistry** — the promise: a table in which a registration takes effect
  in one step and refuses a name or an address that is in it. HostRegistry
  implements it under `table <- {hosts[i] : i \in Used}` with one worker.
* **Scripts** — `Script(op)` is the sequence of LXD calls of a handler, composed
  of the methods of `LXDClient` it calls, for the 14 operations that change LXD
  and the 12 endpoints that only look. Looks that pylxd takes on its own within
  the same await (at a network it created, at a container it started) are calls
  of the script, too.
* **Operations** — the operations that change LXD. `Call` and `Refuse` make one
  call of the script; `LxdAccepts`, `MockAccepts` and
  `After` say what LXD and its stand-in do with it; `done` is what LXD changed
  for the request, and `Ways(op)` the sequences of changes an operation may
  consist of. The stages are those of the
  code: authenticate, resolve, connect, call, audit, notify. `Connect` opens the
  client or fails; `ConnectErrors` says with what: `connect_socket` turns
  whatever it meets into an `LXDClientError` (502), `connect_tls` only a
  `ClientConnectionFailed`, so that a daemon in `Remote` may also cost the
  request a 500 with no reason. `Break` is an
  exception that is no `LXDAPIException`, before or after LXD acted.
  `AnswersLazily` names the operations whose answer is built from an object that
  pylxd has not filled in: one more GET after the entry, which nothing catches. `Leave`,
  `RegisterHost` and `RemoveHost` are the other endpoints as a request sees
  them: their steps in detail are in HostRegistry and Accounts.
* **Readings** — Operations with the requests that only look. They share the
  stages up to `Connect`; `view` is what each has seen of each container. A list
  has one row per container, and their calls interleave (`Row`, `RowFails`);
  then, at "summary", each row of any list is built from an object that has only
  a name, and reading its fields fetches it once more, outside the shield and in
  the event loop (`Summarise`, `SummaryFails`);
  a stream repeats its two calls until its end (`Poll`, `PollFails`,
  `Unsubscribe`); a probe goes past `LXDClient` and the mock.
* **Notifier** — Operations with what becomes of a scheduled event. `Begin` is
  the task that posts, `Take` is Discord that takes a request off the wire, at
  any time later or never, `Answered` and `GiveUp` are the two ways in which
  `notify_event` returns, `Stop` closes the client at the end of lifespan and
  `GoDown` ends the worker with the tasks it still has. `settings` are those
  that `start` reads.
* **Console** — the endpoint up to the accept (`Prepare`, `Reject`, `Exec`,
  `Dial`, `Accept`; the sockets of a TLS host are never dialed, since
  `_socket_path_from_base` refuses their URL once the exec has started), the
  exceptions that are not translated on the way (`ExecBreaks`), the bridge
  (`PumpTo`, `PumpFrom`), its end (`Gather`, `Close`), and the browser, LXD and
  the mock session as the environment.
* **Accounts** — one action per SQL statement of the users and auth endpoints.
  `me` is the row the authentication read, `user` the one the handler works on;
  the session has one identity per row, so both are the same object when an
  admin works on the own account. `Column` is the ORM's rule to write only the
  columns whose value differs from the loaded one.
* **Panel** — one browser tab. `known` is the cached list of hosts, `cache` the
  cached containers per query key, `fetch` the one fetch that the page observes,
  `click` the action under way; `Key` and `Indicated` are the hooks
  `useActiveHostId` and `useEffectiveHostId`, and `Resolved` is `resolve_host`
  of the server. `Register` and `Remove` are the registry as a tab sees it: they
  happen in this tab, another one or a boot hook.
* **Worker** — the event loop, the threads and the connection pool of one
  worker. `Endpoints` is what the kinds of endpoints do to loop and pool, in
  order: a statement in a thread, statements in the loop that keep or give back
  the connection, awaits. `Stalled` is a coroutine that waits for a connection
  in the loop, `TimeOut` the end of that wait. The endpoints are those of the
  other modules, seen from below.
* **HostRegistryProofs, OperationsProofs, ReadingsProofs, NotifierProofs,
  ConsoleProofs, AccountsProofs, PanelProofs, WorkerProofs** — the theorems
  (section 5). ReadingsProofs and NotifierProofs build on OperationsProofs as
  their modules build on Operations.
* **MCHostRegistry, MCOperations, MCReadings, MCNotifier, MCConsole, MCAccounts,
  MCPanel, MCWorker** — values of the constants for TLC. MCWorker also sorts the
  requests by kind, since a permutation of them is the same situation.

Abstractions. Names, addresses, payloads and passwords are model values. An
address stands for the pair (address, connection_type), since the schema derives
the second from the first. In Operations a thing is (kind, name) and is absent,
present or running; a container has one snapshot, of its own name. Tokens are
the username in them; expiry and hashing are left out. Row ids are taken from
max(id)+1 (SQLite, `IdsReused = TRUE`) or from a sequence (PostgreSQL, `FALSE`).
In Panel the cache holds whose containers they are, not the containers; React
Query is external and modelled by what the options given to it ask for, with the
retry of a failed fetch counted as part of that fetch; a row that leaves `hosts`
comes back as itself or not at all. Mutants are definitions next to the original
whose comment begins with "Mutant:"; no specification uses them.

## 3. Runs

| run | question | bounds |
|---|---|---|
| `registry_one_worker` | Types, unique addresses, attribution of the trail, and the refinement to AtomicRegistry, with one worker | two concurrent requests of all four kinds and the boot hook, two names, the local and a remote address, three ids reused as in SQLite, one crash, row 1 may be disabled by hand |
| `registry_two_workers` | Unique names, attribution, the trail tells the request; liveness: both workers boot, every request ends | a request on each worker, two boot hooks, four ids from a sequence, one crash |
| `registry_duplicate_daemon` | violated: two workers register one daemon twice | two POST /hosts, no crash |
| `operations_trail` (Readings) | A success entry tells of changes that were made, a failure entry of changes that were not; a state that cannot be read spoils no list and a daemon that is down no probe; what makes a list fail, and when a reading of a container ends unannounced | two requests over all 14 operations and 12 readings, on the same names, on LXD, reached over TLS (`Remote = {d1}`, which has the answers of a socket and one more), and on the mock, from every state of the containers, broken connections |
| `operations_hosts` (Notifier) | Which host a request acts on and its entry names; notified and answered changes are in the trail; Discord shows what the trail has, once; every request ends and every event is tried | one request (create and start, or delete), two daemons that are registered and removed, ids 1..3, an account that is disabled or deleted, a crash, a stop of the worker, broken connections, ephemeral containers, two settings |
| `operations_unrecorded` | violated: a change without an entry | one request, one account that may be deleted |
| `console_bridge` | Rejections reach the browser; a browser that leaves or a data socket that ends brings everything down; no pump is left | two frames, two chunks, any socket may break, any dial may fail, LXD and mock |
| `console_unclean` | violated: the browser is dropped without a close frame when the exec ends | nothing breaks on its own |
| `accounts` | Unique accounts, refused requests change nothing, no lost update, an admin remains, logins are attributed | two concurrent requests over all six operations by two admins, three names and addresses, four ids |
| `panel_hosts` | Rows and actions belong to the chosen host; the page of containers catches up after errors, switches and late answers | two hosts, a list and a fetch in flight, one action under way, three pages, the host table changes at any time |
| `panel_dashboard` | violated: the dashboard of a single, unchosen host never loads | as above |
| `worker_pool` | Every request ends, connections come back, operations never make the loop wait, with a pool that is used up | three requests of all seven kinds, two connections, LXD may fail, consoles may stay |

Why the bounds are enough: the properties relate at most two requests (a check
and an insert, a read and a delete, two demotions) and one row, name or id that
both touch; a third request would only repeat one of the roles, and the theorems
of section 5 confirm this for the safety properties of every module.
`operations_hosts` has one request because what disturbs it there (accounts,
hosts, workers, Discord) are no requests of the module; that it holds for any
number of them is proved. Two requests on one container are what the readings
need: one that looks twice, and one that acts in between. Three and four ids
allow a row to be removed and its id to be given out again while a request still
holds it. Two frames and two chunks leave unread input on both sides when
something ends. Two connections and three requests let each kind of request meet
a pool that the others have used up, consoles that stay included, and a request
with two sessions. Two hosts are what it takes for a choice, a list or a cache
to be about the wrong one. Each bound is a constant and is named where it is
declared. `CHECK_DEADLOCK FALSE` is used except in the panel runs, because the
systems really stop: every request is served once, and then nobody has to do
anything. A tab never stops polling, so there deadlock is checked.

Fairness. `FairSpec` (HostRegistry, Console) and `NotifierFairSpec` ask weak
fairness of the handlers only: asyncio resumes each ready coroutine, an await of
LXD ends at the latest with the timeout of the HTTP client or a broken
connection, and uvicorn (re)starts its workers. Nothing is asked of users,
admins, crashes, of LXD answering well, or of the shell. For the notifier the
loop starts the tasks it was given (`Begin`), and httpx ends a post whose peer
is silent for longer than the timeout (`GiveUp`); nothing is asked of Discord,
not even that it ever takes a request. In Panel it is the browser that polls and
delivers what arrived (weak fairness); strong fairness of `Answer` says that
LXD, asked again and again, answers well now and then, without which nothing
could be shown. That the window gets the focus, that a page is opened or a host
chosen is not asked. In Worker a ready coroutine gets a loop that is free again
and again (strong fairness: asyncio runs ready coroutines in order), a wait for
a connection ends with one or with the timeout, and a console need not end.

What the violated runs show is in `PROJECT.json` under "findings", with the line
of the documentation each of them contradicts.

## 4. What the checks show

With one worker the registry behaves like the atomic table of AtomicRegistry,
through crashes, rows disabled by hand and failed probes. With several workers
(the default of `entrypoint.sh`) this is true of names, which have a unique
index, and not of addresses, which have none. Registrations record the name and
address that were asked for, also if the row is read back after another request
removed it: it fails then, without an entry. The same is true of operations: the
trail never tells a falsehood, and who gets an answer of the operation (2xx or
502) finds it in the trail; but it is not complete, since an entry whose user or
host is gone when it is written is lost with a 500. Audit rows and
requests name the right host as long as ids are not reused. With SQLite ids and
one worker the rows the registry writes keep naming the right host, because the
deletion clears the reference in the transaction that frees the id, and nothing
is inserted between a request's own INSERT and its entry. With SQLite ids and a
second worker that is not so, and TLC finds both `AuditAttribution` and
`AuditTellsTheRequest` violated: the second worker removes the new row and
registers another, which gets the id, before the first one reads its row back or
writes its entry. A request that outlives its host may, with SQLite ids, act on,
or be recorded for, the one that got the id.

Discord shows an event only if the trail has it, with the same outcome, and
once: the task is made after the commit and never posts again. The price is that
an event may be lost (a timeout, a status of 429, a worker that stops while it
posts), which no document excludes. Each event that passes the filters is tried
and done with as long as its worker is up. The comment of
`schedule_notification` that a strong reference is held is not true:
`_active_tasks` is never added to. The model does not let a task be collected
for that reason, since the event loop and the connection refer to a task that
waits for them.

Readings leave no trace. That "one instance being down must not blank the whole
list" is true of states: each state call of the list of containers is shielded,
and whatever it raises costs a row its addresses. It is not true of containers
that go. `containers.all()` returns objects with a name only, so
`_container_to_summary` fetches each of them again when it reads `c.status`, after
the gather, outside the shield and in the event loop. A container that is deleted
after the list was made, or any error of LXD at that moment, makes the whole list
a 500, and it is the same for the lists of images, networks, pools and volumes.
`OutagesStayLocal` is the exact promise that remains: a list is answered with a
row for each thing, or one of them could not be fetched when its row was built.
The calls that make the lists are not wrapped, so the 502 of their handlers
cannot occur and a refusal is a 500. The answers to create, import and create
volume are built in the same way: the trail and Discord may tell of a success
whose client gets a 500.

Probes answer 200 whether their daemon is up or not, but for one case: httpx
cannot build its client (a PEM that does not parse), which is no `LXDProbeError`;
the property makes that exception by name.

What a reading says of its own container is less than the comments promise, too.
`get_container_state` finds the container and then reads its state, and only the
first of the two calls turns an error of LXD into an `LXDClientError`. A
container that disappears between them ends the stream without the error event
of its docstring, and makes the "best-effort" statistics of the details a 500.
`SurprisesAreRaces` says that this gap, a broken connection, and one to a remote
daemon that does not open are the only ways. The last is `connect_tls`, which
expects `ClientConnectionFailed` only: a daemon that answers the handshake with
an error, or temporary files that cannot be written, end any request with a 500
in place of the 502, and a console with a failed handshake in place of its
rejection.

The console comes down whichever side ends first, though with the real session
the browser does not learn why. Two admins can still lock each other out by
demoting each other at the same time; `LastAdminStays` is the exact promise that
remains: the last admin only goes by the hand of somebody who has lost the
rights since they were checked.

In the panel an explicit choice is safe: rows and actions belong to the chosen
host whatever happens to the table, the list and the cache in between, since the
id is in the key and in the path. Both properties are stated for a chosen host
because they do not hold under "Automatic": its key names no host, so the rows of
a host that was replaced stay on the screen until the next poll, and an action on
them reaches the new one. The dashboard does not work under "Automatic" at all.

A worker whose connections are out may stand still: login, console, statistics,
registrations and removals wait for a connection in the event loop, while the
coroutines that hold the connections cannot run. It gets over it by the timeout
of the pool, at the price of a request that is answered 500; for a registration
whose row is committed already this means a host that nobody recorded.
Operations on LXD never get there, since they keep the connection they
authenticated with until their audit entry is committed.

## 5. Theorems

`HostRegistryProofs` proves, from the named assumptions on the constants only
(`RegistryAssumption`, `SentinelAssumption`):

* `TypeCorrect`: `Spec => []TypeOK`. TypeOK is not inductive: an action copies
  the name of the request body into a row, so a process that has started must
  hold a job of its kind, and one that works on a row must have loaded it. The
  inductive invariant is `Typed == TypeOK /\ Shape`.
* `NamesAreUnique`: `Spec => []UniqueNames`, for any number of workers.
  `TableSteps` splits the steps by what they do to the table (nothing, an
  insertion of a free name, a removal, a switch of `active`); each keeps names
  apart.
* `AddressesAreUnique`: `OneWorker => (Spec => []UniqueAddresses)`. The
  invariant is `LoopHeld /\ Checked /\ UniqueAddresses`: a process between the
  check of the name and the audit entry occupies the loop of its worker, and one
  that is about to insert still sees its address free. With one worker no other
  process can insert in between, which is where the assumption is used; the run
  `registry_duplicate_daemon` shows that it cannot be dropped.
* `RegistryKeepsPromise`: `OneWorker => (Spec => ImplementsAtomicRegistry)`, the
  refinement as a step simulation. `AddressInv` makes the row of an INSERT new in
  name and address; `Fresh` (the sequence is ahead of every row) and `NewIdIsFree`
  make its id new, so that the insertion adds exactly one record to the abstract
  table. A removal takes one record away, since names tell rows apart; reads, a
  switch of `active`, crashes and all else leave the table as it is.
* `TrailNamesTheHost` and `TrailTellsTheRequest`: `IdsStayPut => (Spec =>
  []AuditAttribution)`, and the same for `AuditTellsTheRequest`, where
  `IdsStayPut == OneWorker \/ ~ IdsReused`. A new entry copies what the handler
  has in hand, so the invariant `TrailInv` says that a request between INSERT
  and entry holds a row of the name and address it asked for and that the row of
  that id, if there is one, is the same (`Registered`); that only a DELETE gets
  to the statements of one (`Deletes`); and that an entry's request has not been
  forgotten. The hypothesis is used at one place: no other row takes the id
  in the meantime (a sequence hands none out twice; with one worker `LoopHeld`
  excludes an INSERT there). Without it both are false (section 4).

`OperationsProofs` proves, from `OperationsAssumption`:

* `TypeCorrect`: `Spec => []TypeOK`. `TypeOK` alone is not inductive: `step` is
  bounded by the script of the job, so a request that is at its calls must have
  a job of a changing operation and be inside its script (`InScript`), and no
  script has a "peek", which skips the stop, but at its beginning
  (`ScriptLengths`). The invariant is `InPlace`.
* `NotifiedLanded` and `AnsweredRecorded`: both follow from `Trail`
  (`TrailHolds`), which says for each request where it is once its entry is
  there, that an event is notified by a request that is done and has its entry,
  and that a 200 or 502 that followed a change has its entry. `EntriesStay` is
  the lemma that a removed host rewrites an entry but never takes it away.
* `EntriesNameTheirDaemon` and `ChangesReachTheHostMeant`: under `~ IdsReused`,
  `Spec => []EntryNamesTheDaemon` and `Spec => []ChangesTheHostMeant`. The
  invariant `Identities` says that all ids in use or in hand are behind the
  sequence, so that an id that is in use again can only mean what it meant
  (`IdsStay`). The assumption is that of PostgreSQL; with the reused ids of
  SQLite neither is true.
* `TrailTellsWhatLxdDid`: `Spec => []TrailIsTrue`. An entry is written with the
  outcome, and the outcome is set by the last call; so the invariant `TruthInv`
  follows what has been done from the first call on. `SoFar(op, k)` is the set
  of sequences of changes that the calls before the `k`-th may add up to: `Truthful`
  says that a request at its `k`-th call has done one of these and, when it is
  about to record, that its outcome tells whether that is one of `Ways(op)`.
  `ScriptsAddUp` goes through the 14 scripts, `AddsChange` and `AddsNothing` say
  what a call that LXD takes contributes, `CallTruthful` and `RefuseTruthful`
  put the two together; `ToldBy` keeps what an entry tells once it is there.

`ReadingsProofs` proves, from `OperationsAssumption`:

* `OnlyRacesSurprise`: `ReadingSpec => SurprisesAreRaces`, an action property
  about the step with which a reading ends. The invariant `ReadsOn` ties `view`,
  the place and the step of each reading: past its first call a reading has seen
  its container (`"found"`), since every script of a container finds it before
  any call that the client does not wrap (`Cautious`, `ContainerScripts`). An
  unwrapped error can then only meet a container that was found, a connection
  that broke, or the opening of a client of a daemon in `Remote`; the steps up to
  there and after the end are gone through one by one.
* `ListsAndProbesAnswer`: `ReadingSpec => OutagesStayLocal`, an action property,
  from the same invariant, which also says in which ways a list may have seen a
  thing at its rows and at its summary: none of them is an exception before the
  rows are built, and a list that is answered has built a row for each.
* `TrailAmongReadings`: `ReadingSpec => [](TypeOK /\ TrailIsTrue)`. Readings
  are no stutters of Operations, as they use `pc`, `step` and `answer`; so the
  invariant of the trail is shown to survive them (`ReadingTruth`), and the one
  of the readings to survive the changes.

`NotifierProofs` proves `PostsTrue` and `NotifierTypeCorrect`. The steps of the
notifier are stutters of Operations (`StepsBelow`), so `Trail` carries over;
with it, `Posted` is inductive: what is on the wire was scheduled, at most once,
and an event that is scheduled stays so (`ScheduledStays`), because its request
is done and keeps its job. `OperationsBelow` states the refinement itself,
`NotifierSpec => Spec`; `TrailBelow` and `HostsBelow` carry the theorems on
entries, answers and hosts over to the specification that the run
`operations_hosts` checks.

`AccountsProofs` proves all six properties of the run `accounts`, from
`AccountsAssumption` (the installed tables have unique names and addresses):

* `TypeCorrect`, with `InHand`: which of `me` and `user` a request holds at each
  stage. A step of one request leaves what the others hold (`OneAtATime`).
* `AccountsUnique`: `Rows` splits the steps into those that write a name or an
  address, all of which pass `Collides`, and the rest.
* `RefusedIsHarmless`: the invariant `Clean` keeps the set of requests that
  wrote away from the refusals; `Endings` says with which codes each step ends.
* `NoLostUpdate`: a change to a row is one its request asked for. The invariant
  is `Fresh`: a new row takes an id that no row has, so an insertion changes no
  row; an update writes only the columns of its body (`Changes`).
* `LoginsNameTheirAccount`, for ids that are not reused: the invariant
  `Recalled` says that a row in hand names the account that has the id now, if
  any has. The assumption cannot be dropped: with the reused ids of SQLite and
  three requests, one may log in, one delete the account and one create another,
  which gets the id and the entry of the login.
* `LastAdminKept`: the invariant `SparesItself`, with which a step that takes
  the rights from an admin is never that admin's own request.

`WorkerProofs` proves `OperationsNeverStall`:
`Spec => []OperationsKeepTheirConnection`, for any number of requests and
connections, without a count of the pool. The invariant `Connections` says where
an operation is and that between authentication and audit entry it has a
connection; it is inductive because a step changes one request only
(`OneAtATime`) and none but the commit of its entry takes the connection away
(`OperationStep`). `TypeCorrect` proves `TypeOK`, the limit of the pool included:
it needs that the owners are a finite set, that one coroutine runs at a time
(whoever becomes ready waits for a loop that is free) and that what is left of an
endpoint is a tail of its steps (`PoolInv`).

`ConsoleProofs` proves `TypeCorrect`. `TypeOK` bounds the frames typed by those
sent and the chunks shown by those LXD may send; neither bound is inductive by
itself, since a pump moves a frame from one count to the other. The invariant
`Counts` is about the sums.

`PanelProofs` proves the types and both safety properties of the run
`panel_hosts`:

* `RowsAreOfTheChosen`: `Spec => []ShownIsChosen`. The invariant `PanelInv` says
  that what the cache has under the key of a host is of that host, and that a
  fetch in flight was asked for the current key, so that its answer is filed
  where it belongs.
* `ActionsHitTheChosen`: `Spec => ActsOnTheChosen`. A click that was sent names the
  host that was indicated and whose rows were shown (`ClickIsAimed`), and the
  server resolves an id that names a host to that host or to none.

Two definitions of the models were changed because of the proofs. `Ways(op)`
replaces a description of an operation by the changes filtered out of its
script, which left nothing to prove the outcome against but the script itself;
now the trail is compared with what the operation means. The codes of a reading
that is refused (`Refused`) came from the arms of a CASE that overlapped, for an
unwrapped call on a container; TLC took the first, the semantics of TLA+ leaves
it open. The arms are now apart, in the order of the code.

Every type invariant, safety invariant and action property of the passing runs
is stated by one of these theorems, for every value of the constants, under the
hypotheses named above. Only model-checked: the properties of progress
(`BootCompletes`, `EveryRequestEnds`, `EventsAreTried`,
`RejectionsReachTheBrowser`, `BrowserTearsDown`, `DataTearsDown`, `PumpsEnd`,
`ContainersCatchUp`, `ConnectionsReturn`), since liveness under fairness and
ENABLED are out of the prover's reach.

## 6. Not modelled, and why

GET of the tables (hosts, users, audit entries) and of the bootstrap status read
with one statement and answer. Validation in the schemas, configuration but for
the settings of the notifier, migrations and rendering are pure and local. The
session of the browser (its two copies of the token) is in the plan below. Field
contents (frames of the console, TLS material, statistics, embeds) are data no
property tells apart. `Operations.Resolves` takes every row for active, since no
endpoint makes one inactive; what a row disabled by hand does is in HostRegistry
(`Disable`). The rows of a list are built in any order, where the code goes by
the order of the list. pylxd is external: which of its objects have only a name,
and which calls it adds on its own, is taken from how the code uses it. The mock
is taken to be served by one worker, as its state is per process. The
notifications of logins, of the registry and of users take the way that Notifier
models for operations. Discord is external: what it does with a request it took
is not ours.

## 7. Plan

Order by what matters most to an operator: registry, operations, readings,
notifier, console, accounts, the panel and the worker are done (modules, runs,
and theorems on all of them). Next:

1. **Session** — the two copies of the token in a tab, 401 and logout, next to
   Panel.
2. Theorems: safety facts that the properties of progress rest on (a console
   that is being closed starts no pump, a coroutine that waits for a connection
   is one that the timeout ends).
