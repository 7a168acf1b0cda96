---------------------------- MODULE HostRegistry ----------------------------
(***************************************************************************)
(* The registry of LXD daemons: the "hosts" table, the requests that add   *)
(* and remove rows (POST /hosts, POST /bootstrap/register, POST            *)
(* /bootstrap/cluster, DELETE /hosts/{id}) and the boot hook that adopts   *)
(* the local daemon.                                                       *)
(*                                                                         *)
(* Several uvicorn worker processes share one database.  Inside a worker   *)
(* the handlers are coroutines of one event loop: between two awaits a     *)
(* handler runs alone in its worker (loop[w] = p), but every SQL statement *)
(* of it interleaves with those of the other workers.  So a step here is   *)
(* one statement, and the loop is given back where the code awaits or      *)
(* answers.                                                                *)
(***************************************************************************)
EXTENDS Integers

CONSTANTS
  Workers,      \* uvicorn worker processes (UVICORN_WORKERS of them)
  Reqs,         \* HTTP requests; each one is served at most once
  WorkerOf,     \* the worker whose socket accepts the request
  Ops,          \* the requests that are made, a subset of RequestOps
  Names,
  LocalNames,   \* what default_host_name gives for the local daemon: the name
                \* LXD reports, or the OS hostname
  Addresses,    \* (address, connection_type): the schema derives one from
                \* the other ("/..." is a socket, "https://..." is tls)
  Socket,       \* the address of the local daemon, LXD_SOCKET_PATH
  MaxId,        \* bound: row ids are 1 .. MaxId
  MaxCrashes,   \* bound: worker crashes in a behaviour
  HandEdits,    \* bound: the rows an operator may disable by hand
  DaemonAtStart,\* what the local daemon may be when the panel is installed
  IdsReused,    \* SQLite hands out max(id)+1, PostgreSQL a sequence
  NoRow, NoJob, Idle

DaemonStates == {"uninitialized", "initialized"}
RequestOps == {"create", "register", "cluster", "delete"}
Procs == Reqs \cup Workers
Ids == 1 .. MaxId

ASSUME RegistryAssumption ==
  /\ Reqs \cap Workers = {}
  /\ WorkerOf \in [Reqs -> Workers]
  /\ Ops \subseteq RequestOps
  /\ Socket \in Addresses /\ LocalNames \subseteq Names
  /\ MaxId \in Nat \ {0} /\ MaxCrashes \in Nat
  /\ DaemonAtStart \subseteq DaemonStates
  /\ IdsReused \in BOOLEAN
  /\ Idle \notin Procs

Row == [name : Names, addr : Addresses, active : BOOLEAN]
Loaded == [id : Ids, name : Names, addr : Addresses]
Job == [op : RequestOps \cup {"boot"}, name : Names, addr : Addresses, id : Ids]
Entry == [by : Reqs, op : RequestOps, ok : BOOLEAN, name : Names,
          addr : Addresses, host : Ids \cup {0}]

ASSUME SentinelAssumption ==
  /\ NoRow \notin Row \cup Loaded
  /\ NoJob \notin Job

VARIABLES
  hosts,    \* the hosts table, by id
  nextId,   \* the next value of the id sequence (PostgreSQL)
  audit,    \* the audit_logs rows about hosts
  daemon,   \* whether the local daemon has been set up
  pc,       \* the statement a process is at
  job,      \* the request body; for a worker, what its boot hook registers
  host,     \* the ORM object the process holds
  loop,     \* the coroutine that occupies a worker's event loop
  answer,   \* the status code sent, 0 before
  crashes

vars == <<hosts, nextId, audit, daemon, pc, job, host, loop, answer,
          crashes>>

(***************************************************************************)
(* The table                                                               *)
(***************************************************************************)
Used == {x \in Ids : hosts[x] # NoRow}
NameTaken(n) == \E i \in Used : hosts[i].name = n
\* Mutant: an address that only a disabled row has counts as free.
ActiveAddressTaken(a) == \E i \in Used : hosts[i].active /\ hosts[i].addr = a
AddressTaken(a) == \E i \in Used : hosts[i].addr = a

\* Mutant: ids start over from the largest one in use.
IsIdAfterLargest(i) == (\A j \in Used : j < i) /\ (i = 1 \/ i - 1 \in Used)

\* INTEGER PRIMARY KEY without AUTOINCREMENT: the largest rowid plus one.
IsNewId(i) ==
  IF IdsReused THEN /\ \A j \in Used : j < i
                    /\ i = 1 \/ i - 1 \in Used
               ELSE i = nextId

\* Mutant: rows counted from zero.
LoadFromZero(i) == [id |-> i - 1, name |-> hosts[i].name, addr |-> hosts[i].addr]

\* What db.query(Host).filter(Host.address == a).first() may return.
Load(i) == [id |-> i, name |-> hosts[i].name, addr |-> hosts[i].addr]

(***************************************************************************)
(* The event loop of a worker                                              *)
(***************************************************************************)
On(p) == IF p \in Workers THEN p ELSE WorkerOf[p]

\* p is the coroutine that runs, or is resumed from an await.
Runs(p) == loop[On(p)] \in {Idle, p}
Hold(p) == loop' = [loop EXCEPT ![On(p)] = p]
Release(p) == loop' = [loop EXCEPT ![On(p)] = Idle]
Goto(p, l) == pc' = [pc EXCEPT ![p] = l]

\* Mutant: there is an await before the next statement.
ContinueAfterAwait(p, l) == Release(p) /\ Goto(p, l) /\ UNCHANGED answer

\* The handler goes on to statement l without an await.
Continue(p, l) == Hold(p) /\ Goto(p, l) /\ UNCHANGED answer

\* Mutant: lifespan does not swallow the exceptions of the boot hook.
FinishOrDie(p, code) ==
  /\ Release(p)
  /\ IF p \in Workers
     THEN Goto(p, IF code = 200 THEN "serving" ELSE "down") /\ UNCHANGED answer
     ELSE Goto(p, "done") /\ answer' = [answer EXCEPT ![p] = code]

\* The handler ends with a status code; a boot hook ends by serving requests,
\* whatever came of it: main.py swallows its exceptions.
Finish(p, code) ==
  /\ Release(p)
  /\ IF p \in Workers
     THEN Goto(p, "serving") /\ UNCHANGED answer
     ELSE Goto(p, "done") /\ answer' = [answer EXCEPT ![p] = code]

\* record_and_notify, in its own transaction.
Record(p, ok, n, a, i) ==
  audit' = audit \cup {[by |-> p, op |-> job[p].op, ok |-> ok, name |-> n,
                        addr |-> a, host |-> i]}

(***************************************************************************)
(* Starting                                                                *)
(***************************************************************************)
\* Unused fields get one fixed value.
Bodies ==
  {j \in Job : /\ j.op \in Ops
               /\ j.op # "create" => j.addr = Socket
               /\ j.op = "delete" => j.name = CHOOSE n \in Names : TRUE
               /\ j.op # "delete" => j.id = MaxId}

BootJobs ==
  {j \in Job : /\ j.op = "boot" /\ j.name \in LocalNames
               /\ j.addr = Socket /\ j.id = MaxId}

Init ==
  /\ hosts = [x \in Ids |-> NoRow]
  /\ nextId = 1
  /\ audit = {}
  /\ daemon \in DaemonAtStart
  /\ pc = [x \in Procs |-> IF x \in Workers THEN "down" ELSE "idle"]
  /\ job = [x \in Procs |-> NoJob]
  /\ host = [x \in Procs |-> NoRow]
  /\ loop = [x \in Workers |-> Idle]
  /\ answer = [x \in Reqs |-> 0]
  /\ crashes = 0

\* uvicorn (re)starts a worker; lifespan awaits the probe of the socket.
Boot(w) ==
  /\ pc[w] = "down"
  /\ \E j \in BootJobs : job' = [job EXCEPT ![w] = j]
  /\ Goto(w, "probe")
  /\ UNCHANGED <<hosts, nextId, audit, daemon, host, loop, answer, crashes>>

\* An authenticated admin's request reaches its handler.
Accept(r) ==
  /\ pc[r] = "idle" /\ pc[On(r)] = "serving"
  /\ \E j \in Bodies :
       /\ job' = [job EXCEPT ![r] = j]
       /\ Goto(r, IF j.op = "delete" THEN "lookup" ELSE "probe")
  /\ UNCHANGED <<hosts, nextId, audit, daemon, host, loop, answer, crashes>>

(***************************************************************************)
(* Awaiting LXD                                                            *)
(***************************************************************************)
\* fetch_server_info raised: a timeout, a refused connection, no permission.
ProbeFails(p) ==
  /\ pc[p] = "probe" /\ Runs(p)
  /\ IF job[p].op = "create"
     THEN Record(p, FALSE, job[p].name, job[p].addr, 0)
     ELSE UNCHANGED audit
  /\ Finish(p, 502)
  /\ UNCHANGED <<hosts, nextId, daemon, job, host, crashes>>

\* The daemon answers; the coroutine is ready to be resumed.  Only the two
\* bootstrap requests look at the cluster state.
ProbeAnswers(p) ==
  /\ pc[p] = "probe"
  /\ \/ job[p].op = "create" /\ Goto(p, "name")
     \/ job[p].op = "boot" /\ Goto(p, "existing")
     \/ job[p].op = "register" /\ daemon = "initialized" /\ Goto(p, "existing")
     \/ job[p].op = "cluster" /\ daemon = "uninitialized" /\ Goto(p, "preseed")
  /\ UNCHANGED <<hosts, nextId, audit, daemon, job, host, loop, answer,
                 crashes>>

\* check_status says that the request does not fit the daemon: nothing to
\* adopt, nothing to set up, or (whatever the daemon) a certificate that is
\* not trusted.
WrongState(r) ==
  /\ pc[r] = "probe" /\ job[r].op \in {"register", "cluster"} /\ Runs(r)
  /\ Finish(r, 409)
  /\ UNCHANGED <<hosts, nextId, audit, daemon, job, host, crashes>>

\* POST /1.0/cluster takes effect in LXD before the handler hears of it.  LXD
\* refuses a second one; the answer to a first one may be lost.
Preseed(r) ==
  /\ pc[r] = "preseed" /\ daemon = "uninitialized"
  /\ daemon' = "initialized"
  /\ Goto(r, "name") \/ Goto(r, "refused")
  /\ UNCHANGED <<hosts, nextId, audit, job, host, loop, answer, crashes>>

PreseedFails(r) ==
  /\ pc[r] \in {"preseed", "refused"} /\ Runs(r)
  /\ Record(r, FALSE, job[r].name, job[r].addr, 0)
  /\ Finish(r, 502)
  /\ UNCHANGED <<hosts, nextId, daemon, job, host, crashes>>

(***************************************************************************)
(* ensure_host and bootstrap_register: is the address there already?       *)
(***************************************************************************)
CheckExisting(p) ==
  /\ pc[p] = "existing" /\ Runs(p)
  /\ \/ /\ ~ AddressTaken(job[p].addr)
        /\ Continue(p, "name")
        /\ UNCHANGED host
     \/ \E i \in Used :
          /\ hosts[i].addr = job[p].addr
          /\ host' = [host EXCEPT ![p] = Load(i)]
          /\ IF p \in Workers /\ ~ hosts[i].active
             THEN Continue(p, "reactivate")
             ELSE Finish(p, 200)
  /\ UNCHANGED <<hosts, nextId, audit, daemon, job, crashes>>

\* UPDATE hosts SET is_active = 1 WHERE id = ?
Reactivate(w) ==
  /\ pc[w] = "reactivate"
  /\ LET i == host[w].id IN
       hosts' = IF i \in Used THEN [hosts EXCEPT ![i].active = TRUE] ELSE hosts
  /\ Finish(w, 200)
  /\ UNCHANGED <<nextId, audit, daemon, job, host, crashes>>

(***************************************************************************)
(* register_host                                                           *)
(***************************************************************************)
\* HostConflictError: only POST /hosts and POST /bootstrap/cluster record it.
Conflict(p) ==
  /\ IF job[p].op \in {"create", "cluster"}
     THEN Record(p, FALSE, job[p].name, job[p].addr, 0)
     ELSE UNCHANGED audit
  /\ Finish(p, 409)

\* Mutant: waits for the name to become free instead of refusing it.
CheckNameAgain(p) ==
  /\ pc[p] = "name" /\ Runs(p)
  /\ ~ NameTaken(job[p].name) /\ Continue(p, "address")
  /\ UNCHANGED <<hosts, nextId, audit, daemon, job, host, crashes>>

CheckName(p) ==
  /\ pc[p] = "name" /\ Runs(p)
  /\ IF NameTaken(job[p].name)
     THEN Conflict(p)
     ELSE Continue(p, "address") /\ UNCHANGED audit
  /\ UNCHANGED <<hosts, nextId, daemon, job, host, crashes>>

CheckAddress(p) ==
  /\ pc[p] = "address"
  /\ IF AddressTaken(job[p].addr)
     THEN Conflict(p)
     ELSE Continue(p, "insert") /\ UNCHANGED audit
  /\ UNCHANGED <<hosts, nextId, daemon, job, host, crashes>>

\* Mutant: no unique index on the name.
InsertUnindexed(p) ==
  /\ pc[p] = "insert"
  /\ \E i \in Ids :
       /\ IsNewId(i)
       /\ hosts' = [hosts EXCEPT ![i] = [name |-> job[p].name, addr |-> job[p].addr,
                                         active |-> TRUE]]
       /\ host' = [host EXCEPT ![p] = [id |-> i, name |-> job[p].name,
                                       addr |-> job[p].addr]]
       /\ nextId' = i + 1
  /\ Continue(p, "refresh")
  /\ UNCHANGED <<audit, daemon, job, crashes>>

\* INSERT and COMMIT under the write lock.  The unique index on the name is
\* the only constraint; the IntegrityError it raises is not caught (500).
Insert(p) ==
  /\ pc[p] = "insert"
  /\ IF NameTaken(job[p].name)
     THEN Finish(p, 500) /\ UNCHANGED <<hosts, nextId, host>>
     ELSE \E i \in Ids :
            /\ IsNewId(i)
            /\ hosts' = [hosts EXCEPT ![i] = [name |-> job[p].name,
                                              addr |-> job[p].addr,
                                              active |-> TRUE]]
            /\ host' = [host EXCEPT ![p] = [id |-> i, name |-> job[p].name,
                                            addr |-> job[p].addr]]
            /\ nextId' = i + 1
            /\ Continue(p, "refresh")
  /\ UNCHANGED <<audit, daemon, job, crashes>>

\* db.refresh(host): SELECT by id; a row that is gone is a 500.
Refresh(p) ==
  /\ pc[p] = "refresh"
  /\ LET i == host[p].id IN
       IF i \in Used
       THEN /\ host' = [host EXCEPT ![p] = Load(i)]
            /\ IF p \in Workers THEN Finish(p, 200) ELSE Continue(p, "audit")
       ELSE Finish(p, 500) /\ UNCHANGED host
  /\ UNCHANGED <<hosts, nextId, audit, daemon, job, crashes>>

\* The success entry; its host_id is a foreign key, checked by the INSERT.
Audit(r) ==
  /\ pc[r] = "audit"
  /\ IF host[r].id \in Used
     THEN /\ Record(r, TRUE, host[r].name, host[r].addr, host[r].id)
          /\ Finish(r, 201)
     ELSE Finish(r, 500) /\ UNCHANGED audit
  /\ UNCHANGED <<hosts, nextId, daemon, job, host, crashes>>

(***************************************************************************)
(* DELETE /hosts/{id}                                                      *)
(***************************************************************************)
Lookup(r) ==
  /\ pc[r] = "lookup" /\ Runs(r)
  /\ IF job[r].id \in Used
     THEN host' = [host EXCEPT ![r] = Load(job[r].id)] /\ Continue(r, "remove")
     ELSE Finish(r, 404) /\ UNCHANGED host
  /\ UNCHANGED <<hosts, nextId, audit, daemon, job, crashes>>

\* Mutant: a foreign key without ON DELETE SET NULL, on a connection that does
\* not enforce foreign keys.
ForgetNothing(i) == audit

\* ON DELETE SET NULL: the audit rows of the host lose their host_id.
Forget(i) == {[e EXCEPT !.host = IF @ = i THEN 0 ELSE @] : e \in audit}

\* DELETE FROM hosts WHERE id = ?; a row that is gone only makes a warning.
Remove(r) ==
  /\ pc[r] = "remove"
  /\ hosts' = [hosts EXCEPT ![host[r].id] = NoRow]
  /\ audit' = Forget(host[r].id)
  /\ Continue(r, "auditDelete")
  /\ UNCHANGED <<nextId, daemon, job, host, crashes>>

AuditDelete(r) ==
  /\ pc[r] = "auditDelete"
  /\ Record(r, TRUE, host[r].name, host[r].addr, 0)
  /\ Finish(r, 204)
  /\ UNCHANGED <<hosts, nextId, daemon, job, host, crashes>>

(***************************************************************************)
(* The environment                                                         *)
(***************************************************************************)
\* No endpoint clears is_active; an operator does it in the database.
Disable(i) ==
  /\ i \in HandEdits \cap Used /\ hosts[i].active
  /\ hosts' = [hosts EXCEPT ![i].active = FALSE]
  /\ UNCHANGED <<nextId, audit, daemon, pc, job, host, loop, answer, crashes>>

\* A worker process dies, and its requests with it; committed rows stay.
Crash(w) ==
  /\ crashes < MaxCrashes /\ pc[w] # "down"
  /\ crashes' = crashes + 1
  /\ pc' = [x \in Procs |->
             IF x = w THEN "down"
             ELSE IF On(x) = w /\ pc[x] # "idle" /\ pc[x] # "done" THEN "lost"
             ELSE pc[x]]
  /\ loop' = [loop EXCEPT ![w] = Idle]
  /\ UNCHANGED <<hosts, nextId, audit, daemon, job, host, answer>>

(***************************************************************************)
(* The specification                                                       *)
(***************************************************************************)
Request(r) ==
  \/ WrongState(r) \/ Preseed(r) \/ PreseedFails(r)
  \/ Audit(r) \/ Lookup(r) \/ Remove(r) \/ AuditDelete(r)

Register(p) ==
  \/ ProbeFails(p) \/ ProbeAnswers(p) \/ CheckExisting(p)
  \/ CheckName(p) \/ CheckAddress(p) \/ Insert(p) \/ Refresh(p)

Next ==
  \/ \E w \in Workers : Boot(w) \/ Reactivate(w) \/ Crash(w)
  \/ \E r \in Reqs : Accept(r) \/ Request(r)
  \/ \E p \in Procs : Register(p)
  \/ \E i \in Ids : Disable(i)

Spec == Init /\ [][Next]_vars

\* uvicorn starts its workers and restarts the ones that died; an await ends,
\* at the latest with the timeout of the HTTP client; asyncio resumes every
\* ready coroutine.  Nobody has to send a request.
Fairness ==
  /\ \A w \in Workers : WF_vars(Boot(w) \/ Reactivate(w))
  /\ \A r \in Reqs : WF_vars(Request(r))
  /\ \A p \in Procs : WF_vars(Register(p))

FairSpec == Spec /\ Fairness

(***************************************************************************)
(* Properties                                                              *)
(***************************************************************************)
Statements == {"probe", "existing", "reactivate", "name", "address", "insert",
               "refresh", "preseed", "refused", "audit", "lookup", "remove",
               "auditDelete"}

\* Every variable has its type.
TypeOK ==
  /\ hosts \in [Ids -> Row \cup {NoRow}]
  /\ nextId \in 1 .. MaxId + 1
  /\ audit \subseteq Entry
  /\ daemon \in DaemonStates
  /\ pc \in [Procs -> Statements \cup {"down", "serving", "idle", "done", "lost"}]
  /\ job \in [Procs -> Job \cup {NoJob}]
  /\ host \in [Procs -> Loaded \cup {NoRow}]
  /\ loop \in [Workers -> Procs \cup {Idle}]
  /\ answer \in [Reqs -> {0, 200, 201, 204, 404, 409, 500, 502}]
  /\ crashes \in 0 .. MaxCrashes

\* No two rows have the same name, however the check-then-insert sequences of
\* the workers interleave (models/host.py: the unique index).
UniqueNames ==
  \A i, j \in Used : hosts[i].name = hosts[j].name => i = j

\* No two rows name the same daemon: "two rows for one daemon would make
\* host_id ambiguous in a way the operator cannot reason about"
\* (host_service.py, register_host).  No index enforces it; it rests on the
\* two SELECTs and the INSERT being one uninterrupted piece of a coroutine.
UniqueAddresses ==
  \A i, j \in Used : hosts[i].addr = hosts[j].addr => i = j

\* An audit row that names a host names the one it is about: the row its
\* host_id refers to exists and has the address the request worked on.
AuditAttribution ==
  \A e \in audit : e.host # 0 =>
    /\ e.host \in Used
    /\ hosts[e.host].addr = e.addr

\* The trail of a registration tells what was asked for, although name and
\* address are read back from the table after the commit.
AuditTellsTheRequest ==
  \A e \in audit : e.ok /\ e.op # "delete" =>
    e.name = job[e.by].name /\ e.addr = job[e.by].addr

\* A missing daemon, a name that is taken or a race with another worker never
\* stops the application from booting (main.py, ensure_local_host).
BootCompletes == \A w \in Workers : []<>(pc[w] = "serving")

\* Every request that reached a handler is answered, or dies with its worker.
EveryRequestEnds ==
  \A r \in Reqs : pc[r] \in Statements ~> pc[r] \in {"done", "lost"}

(***************************************************************************)
(* The promise                                                             *)
(***************************************************************************)
Promise == INSTANCE AtomicRegistry WITH table <- {hosts[i] : i \in Used}

\* Seen from outside, every request changes the table in one step.
ImplementsAtomicRegistry == Promise!Spec
=============================================================================
