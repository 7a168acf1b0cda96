------------------------- MODULE HostRegistryProofs -------------------------
(***************************************************************************)
(* Theorems about HostRegistry for every number of workers, requests,      *)
(* names, addresses and row ids.                                           *)
(***************************************************************************)
EXTENDS HostRegistry, TLAPS

HoldsRow == {"refresh", "audit", "remove", "auditDelete", "reactivate"}

\* What TypeOK needs to be inductive: a process that has started has the job
\* of its kind, and one that works on a row has loaded it.
Shape ==
  /\ \A v \in Workers : pc[v] # "down" => job[v] \in BootJobs
  /\ \A s \in Reqs : pc[s] # "idle" => job[s] \in Bodies
  /\ \A q \in Procs : pc[q] \in HoldsRow => host[q] \in Loaded

Typed == TypeOK /\ Shape

-----------------------------------------------------------------------------
\* The initial state is typed and has the shape.
LEMMA InitTyped == Init => Typed
<1> SUFFICES ASSUME Init PROVE Typed
  OBVIOUS
<1> USE RegistryAssumption DEF RegistryAssumption, Init, Procs, DaemonStates, Ids
<1>1. hosts \in [Ids -> Row \cup {NoRow}]
  OBVIOUS
<1>2. nextId \in 1 .. MaxId + 1
  OBVIOUS
<1>3. pc \in [Procs -> Statements \cup {"down", "serving", "idle", "done", "lost"}]
  OBVIOUS
<1>4. /\ job \in [Procs -> Job \cup {NoJob}] /\ host \in [Procs -> Loaded \cup {NoRow}]
  OBVIOUS
<1>5. loop \in [Workers -> Procs \cup {Idle}] /\ answer \in [Reqs -> {0, 200, 201, 204, 404, 409, 500, 502}]
  OBVIOUS
<1>6. TypeOK
  BY <1>1, <1>2, <1>3, <1>4, <1>5 DEF TypeOK
<1>7. Shape
  <2>0. \A r \in Reqs : r \notin Workers
    BY Zenon
  <2>1. \A s \in Reqs : pc[s] = "idle"
    BY <2>0
  <2>2. \A v \in Workers : pc[v] = "down"
    OBVIOUS
  <2>3. \A q \in Procs : pc[q] \notin HoldsRow
    BY <2>1, <2>2 DEF HoldsRow
  <2>4. QED
    BY ONLY <2>1, <2>2, <2>3 DEF Shape
<1>8. QED
  BY <1>6, <1>7 DEF Typed

\* A request's job names what an audit entry may record.
LEMMA RequestJobs ==
  ASSUME NEW r \in Reqs, Typed, pc[r] # "idle"
  PROVE  /\ job[r] \in Job /\ job[r].op \in RequestOps
         /\ job[r].name \in Names /\ job[r].addr \in Addresses /\ job[r].id \in Ids
BY RegistryAssumption DEF RegistryAssumption, Typed, Shape, Bodies, Job

\* The job a boot hook is given has the local daemon's address.
LEMMA BootsHaveJobs ==
  ASSUME NEW w \in Workers, Typed, pc[w] # "down"
  PROVE  /\ job[w] \in Job /\ job[w].op = "boot"
         /\ job[w].name \in Names /\ job[w].addr \in Addresses /\ job[w].id \in Ids
BY RegistryAssumption DEF RegistryAssumption, Typed, Shape, BootJobs, Job

\* The three ways a statement ends: in an await, in the next statement, in an
\* answer.
Locations == Statements \cup {"down", "serving", "idle", "done", "lost"}
Codes == {0, 200, 201, 204, 404, 409, 500, 502}

\* A process that only moves to another statement leaves every type alone.
LEMMA Waits ==
  ASSUME Typed, NEW p \in Procs, NEW l \in Locations, Goto(p, l)
  PROVE  /\ pc' \in [Procs -> Locations]
         /\ pc'[p] = l /\ \A u \in Procs \ {p} : pc'[u] = pc[u]
BY DEF Typed, TypeOK, Goto, Locations

\* So does one that moves on and keeps the event loop.
LEMMA Continues ==
  ASSUME Typed, NEW p \in Procs, NEW l \in Locations, Continue(p, l)
  PROVE  /\ pc' \in [Procs -> Locations] /\ answer' = answer
         /\ loop' \in [Workers -> Procs \cup {Idle}]
         /\ pc'[p] = l /\ \A u \in Procs \ {p} : pc'[u] = pc[u]
BY RegistryAssumption
   DEF RegistryAssumption, Typed, TypeOK, Continue, Hold, Goto, On, Procs, Locations

\* So does one that answers with a code the program uses.
LEMMA Finishes ==
  ASSUME Typed, NEW p \in Procs, NEW c \in Codes, Finish(p, c)
  PROVE  /\ pc' \in [Procs -> Locations]
         /\ answer' \in [Reqs -> Codes]
         /\ loop' \in [Workers -> Procs \cup {Idle}]
         /\ pc'[p] \in {"serving", "done"} /\ \A u \in Procs \ {p} : pc'[u] = pc[u]
         /\ p \in Workers => answer' = answer
BY RegistryAssumption
   DEF RegistryAssumption, Typed, TypeOK, Finish, Release, Goto, On, Procs, Locations,
       Statements, Codes

\* What record_and_notify appends is an audit row.
LEMMA Records ==
  ASSUME Typed, NEW r \in Reqs, pc[r] # "idle", NEW ok \in BOOLEAN,
         NEW n \in Names, NEW a \in Addresses, NEW i \in Ids \cup {0},
         Record(r, ok, n, a, i)
  PROVE  audit' \subseteq Entry
BY RequestJobs DEF Typed, TypeOK, Record, Entry

\* What a failed request appends is an audit row too.
LEMMA RecordsFailure ==
  ASSUME Typed, NEW p \in Procs, pc[p] \in Statements,
         job[p].op \in {"create", "cluster"},
         Record(p, FALSE, job[p].name, job[p].addr, 0)
  PROVE  audit' \subseteq Entry
<1>1. p \in Reqs /\ pc[p] # "idle"
  BY BootsHaveJobs DEF Procs, Statements
<1>2. QED
  BY <1>1, Records, RequestJobs

\* A conflict ends the request and may append a failure.
LEMMA Conflicts ==
  ASSUME Typed, NEW p \in Procs, pc[p] \in Statements, Conflict(p)
  PROVE  audit' \subseteq Entry /\ Finish(p, 409)
<1>1. CASE job[p].op \in {"create", "cluster"}
  BY <1>1, RecordsFailure DEF Conflict
<1>2. CASE job[p].op \notin {"create", "cluster"}
  BY <1>2 DEF Conflict, Typed, TypeOK
<1>3. QED
  BY <1>1, <1>2

\* Switching a row on or off leaves a row.
LEMMA Switches ==
  ASSUME Typed, NEW k \in Used, NEW b \in BOOLEAN,
         hosts' = [hosts EXCEPT ![k].active = b]
  PROVE  hosts' \in [Ids -> Row \cup {NoRow}]
<1>1. k \in Ids /\ hosts[k] \in Row
  BY DEF Typed, TypeOK, Used
<1>2. [hosts[k] EXCEPT !.active = b] \in Row
  BY <1>1 DEF Row
<1>3. hosts' = [hosts EXCEPT ![k] = [hosts[k] EXCEPT !.active = b]]
  BY <1>1 DEF Typed, TypeOK
<1>4. QED
  BY <1>1, <1>2, <1>3 DEF Typed, TypeOK

\* What a SELECT by id returns is a loaded row.
LEMMA Loads ==
  ASSUME Typed, NEW i \in Used
  PROVE  /\ i \in Ids /\ hosts[i] \in Row /\ Load(i) \in Loaded
BY DEF Typed, TypeOK, Used, Row, Load, Loaded

\* A statement of p that leaves the jobs and the other processes alone keeps
\* Shape, provided p has its row wherever it goes.
LEMMA ShapeKept ==
  ASSUME Typed, NEW p \in Procs, pc[p] \in Statements,
         job' = job,
         \A u \in Procs \ {p} : pc'[u] = pc[u] /\ host'[u] = host[u],
         pc'[p] \in HoldsRow => host'[p] \in Loaded
  PROVE  Shape'
BY DEF Typed, Shape, Statements, Procs

\* Every step keeps the types and the shape: one case per action.
LEMMA StepTyped == Typed /\ [Next]_vars => Typed'
<1> SUFFICES ASSUME Typed, [Next]_vars PROVE Typed'
  OBVIOUS
<1> USE RegistryAssumption DEF RegistryAssumption
<1>1. ASSUME NEW w \in Workers, Boot(w) PROVE Typed'
  <2>1. TypeOK'
    BY <1>1, Waits, RequestJobs, BootsHaveJobs
       DEF Typed, TypeOK, HoldsRow, Shape, Procs, Locations, Statements, Codes, Boot, BootJobs
  <2>2. Shape'
    BY <1>1, Waits
       DEF Typed, TypeOK, HoldsRow, Shape, Procs, Locations, Statements, Codes, Boot, BootJobs
  <2>3. QED
    BY <2>1, <2>2 DEF Typed
<1>2. ASSUME NEW w \in Workers, Reactivate(w) PROVE Typed'
  <2>1. hosts' \in [Ids -> Row \cup {NoRow}]
    BY <1>2, Switches DEF Typed, TypeOK, Reactivate
  <2>2. TypeOK'
    BY <1>2, <2>1, Finishes DEF Typed, TypeOK, Procs, Locations, Codes, Reactivate
  <2>3. Shape'
    BY <1>2, Finishes, ShapeKept DEF Procs, Codes, Statements, HoldsRow, Reactivate
  <2>4. QED
    BY <2>2, <2>3 DEF Typed
<1>3. ASSUME NEW w \in Workers, Crash(w) PROVE Typed'
  <2> DEFINE Locs == Statements \cup {"down", "serving", "idle", "done", "lost"}
  <2>0. pc' \in [Procs -> Locs]
    <3>1. \A u \in Procs : pc[u] \in Locs
      BY DEF Typed, TypeOK
    <3> DEFINE after(u) == IF u = w THEN "down"
                           ELSE IF On(u) = w /\ pc[u] # "idle" /\ pc[u] # "done"
                           THEN "lost" ELSE pc[u]
    <3>2. \A u \in Procs : after(u) \in Locs
      BY <3>1
    <3>3. pc' = [u \in Procs |-> after(u)]
      BY <1>3 DEF Crash
    <3> HIDE DEF after
    <3>4. QED
      BY <3>2, <3>3
  <2>1. TypeOK'
    <3>1. crashes' \in 0 .. MaxCrashes
      BY <1>3 DEF Typed, TypeOK, Crash
    <3>2. loop' \in [Workers -> Procs \cup {Idle}]
      BY <1>3 DEF Typed, TypeOK, Crash
    <3>3. QED
      BY <1>3, <2>0, <3>1, <3>2 DEF Typed, TypeOK, Crash
  <2>2. \A u \in Procs : pc'[u] \in {pc[u], "down", "lost"}
    BY <1>3 DEF Crash
  <2>3. \A v \in Workers : pc'[v] # "down" => pc[v] # "down"
    <3>1. \A v \in Workers : On(v) = v
      BY DEF On
    <3>2. \A v \in Workers : v # w => pc'[v] = pc[v]
      BY <1>3, <3>1 DEF Crash, Procs
    <3>3. pc'[w] = "down"
      BY <1>3 DEF Crash, Procs
    <3>4. QED
      BY <3>2, <3>3
  <2>4. \A s \in Reqs : pc'[s] # "idle" => pc[s] # "idle"
    <3>1. \A s \in Reqs : s # w
      BY Zenon
    <3>2. QED
      BY <1>3, <3>1 DEF Crash, Procs
  <2>5. Shape'
    BY <1>3, <2>2, <2>3, <2>4 DEF Typed, Shape, HoldsRow, Crash
  <2>6. QED
    BY <2>1, <2>5 DEF Typed
<1>4. ASSUME NEW r \in Reqs, Accept(r) PROVE Typed'
  <2>1. TypeOK'
    BY <1>4, Waits, RequestJobs, BootsHaveJobs
       DEF Typed, TypeOK, HoldsRow, Shape, Procs, Locations, Statements, Codes, Accept, Bodies
  <2>2. Shape'
    BY <1>4, Waits
       DEF Typed, TypeOK, HoldsRow, Shape, Procs, Locations, Statements, Codes, Accept, Bodies
  <2>3. QED
    BY <2>1, <2>2 DEF Typed
<1>5. ASSUME NEW i \in Ids, Disable(i) PROVE Typed'
  <2>1. hosts' \in [Ids -> Row \cup {NoRow}]
    BY <1>5, Switches DEF Disable
  <2>2. QED
    BY <1>5, <2>1 DEF Typed, TypeOK, Shape, Disable
<1>6. ASSUME NEW p \in Procs, ProbeFails(p) PROVE Typed'
  <2>1. audit' \subseteq Entry
    BY <1>6, RecordsFailure DEF Typed, TypeOK, ProbeFails, Statements
  <2>2. TypeOK'
    BY <1>6, <2>1, Finishes DEF Typed, TypeOK, Procs, Locations, Codes, ProbeFails
  <2>3. Shape'
    BY <1>6, Finishes, ShapeKept DEF Codes, Statements, HoldsRow, ProbeFails
  <2>4. QED
    BY <2>2, <2>3 DEF Typed
<1>7. ASSUME NEW p \in Procs, ProbeAnswers(p) PROVE Typed'
  <2>1. TypeOK'
    BY <1>7, Waits, RequestJobs, BootsHaveJobs
       DEF Typed, TypeOK, HoldsRow, Shape, Procs, Locations, Statements, Codes, ProbeAnswers
  <2>2. Shape'
    BY <1>7, Waits, ShapeKept
       DEF Typed, TypeOK, HoldsRow, Shape, Procs, Locations, Statements, Codes, ProbeAnswers
  <2>3. QED
    BY <2>1, <2>2 DEF Typed
<1>8. ASSUME NEW p \in Procs, CheckExisting(p) PROVE Typed'
  <2>1. TypeOK'
    BY <1>8, Continues, Finishes, Loads, RequestJobs, BootsHaveJobs, SMTT(20)
       DEF Typed, TypeOK, HoldsRow, Shape, Procs, Locations, Statements, Codes, CheckExisting
  <2>2. Shape'
    BY <1>8, Continues, Finishes, Loads, ShapeKept
       DEF Typed, TypeOK, HoldsRow, Shape, Procs, Locations, Statements, Codes, CheckExisting
  <2>3. QED
    BY <2>1, <2>2 DEF Typed
<1>9. ASSUME NEW p \in Procs, CheckName(p) PROVE Typed'
  <2>1. CASE Conflict(p)
    <3>1. audit' \subseteq Entry /\ Finish(p, 409)
      BY <1>9, <2>1, Conflicts DEF CheckName, Statements
    <3>2. TypeOK'
      BY <1>9, <3>1, Finishes DEF Typed, TypeOK, Procs, Locations, Codes, CheckName
    <3>3. Shape'
      BY <1>9, <3>1, Finishes, ShapeKept DEF Codes, Statements, HoldsRow, CheckName
    <3>4. QED
      BY <3>2, <3>3 DEF Typed
  <2>2. CASE Continue(p, "address") /\ audit' = audit
    <3>1. TypeOK'
      BY <1>9, <2>2, Continues DEF Typed, TypeOK, Procs, Locations, Statements, CheckName
    <3>2. Shape'
      BY <1>9, <2>2, Continues, ShapeKept DEF Locations, Statements, HoldsRow, CheckName
    <3>3. QED
      BY <3>1, <3>2 DEF Typed
  <2>3. QED
    BY <1>9, <2>1, <2>2 DEF CheckName
<1>10. ASSUME NEW p \in Procs, CheckAddress(p) PROVE Typed'
  <2>1. CASE Conflict(p)
    <3>1. audit' \subseteq Entry /\ Finish(p, 409)
      BY <1>10, <2>1, Conflicts DEF CheckAddress, Statements
    <3>2. TypeOK'
      BY <1>10, <3>1, Finishes DEF Typed, TypeOK, Procs, Locations, Codes, CheckAddress
    <3>3. Shape'
      BY <1>10, <3>1, Finishes, ShapeKept DEF Codes, Statements, HoldsRow, CheckAddress
    <3>4. QED
      BY <3>2, <3>3 DEF Typed
  <2>2. CASE Continue(p, "insert") /\ audit' = audit
    <3>1. TypeOK'
      BY <1>10, <2>2, Continues DEF Typed, TypeOK, Procs, Locations, Statements, CheckAddress
    <3>2. Shape'
      BY <1>10, <2>2, Continues, ShapeKept DEF Locations, Statements, HoldsRow, CheckAddress
    <3>3. QED
      BY <3>1, <3>2 DEF Typed
  <2>3. QED
    BY <1>10, <2>1, <2>2 DEF CheckAddress
<1>11. ASSUME NEW p \in Procs, Insert(p) PROVE Typed'
  <2> DEFINE n == job[p].name
             a == job[p].addr
  <2>1. n \in Names /\ a \in Addresses
    BY <1>11, RequestJobs, BootsHaveJobs DEF Insert, Procs
  <2>2. CASE NameTaken(n)
    <3>1. TypeOK'
      BY <1>11, <2>2, Finishes DEF Typed, TypeOK, Procs, Locations, Codes, Insert
    <3>2. Shape'
      BY <1>11, <2>2, Finishes, ShapeKept DEF Codes, Statements, HoldsRow, Insert
    <3>3. QED
      BY <3>1, <3>2 DEF Typed
  <2>3. CASE ~ NameTaken(n)
    <3>1. PICK k \in Ids :
            /\ hosts' = [hosts EXCEPT ![k] = [name |-> n, addr |-> a, active |-> TRUE]]
            /\ host' = [host EXCEPT ![p] = [id |-> k, name |-> n, addr |-> a]]
            /\ nextId' = k + 1
            /\ Continue(p, "refresh")
      BY <1>11, <2>3 DEF Insert
    <3>2. /\ [name |-> n, addr |-> a, active |-> TRUE] \in Row
          /\ [id |-> k, name |-> n, addr |-> a] \in Loaded
      BY <2>1 DEF Row, Loaded
    <3> HIDE DEF n, a
    <3>3. /\ hosts' \in [Ids -> Row \cup {NoRow}]
          /\ host' \in [Procs -> Loaded \cup {NoRow}] /\ host'[p] \in Loaded
          /\ \A u \in Procs \ {p} : host'[u] = host[u]
      BY <3>1, <3>2 DEF Typed, TypeOK
    <3>4. nextId' \in 1 .. MaxId + 1
      BY <3>1 DEF Ids
    <3>5. TypeOK'
      BY <1>11, <3>1, <3>3, <3>4, Continues
         DEF Typed, TypeOK, Procs, Locations, Statements, Insert
    <3>6. Shape'
      BY <1>11, <3>1, <3>3, Continues, ShapeKept DEF Locations, Statements, Insert
    <3>7. QED
      BY <3>5, <3>6 DEF Typed
  <2>4. QED
    BY <2>2, <2>3
<1>12. ASSUME NEW p \in Procs, Refresh(p) PROVE Typed'
  <2>1. TypeOK'
    BY <1>12, Continues, Finishes, Loads, RequestJobs, BootsHaveJobs
       DEF Typed, TypeOK, HoldsRow, Shape, Procs, Locations, Statements, Codes, Refresh
  <2>2. Shape'
    BY <1>12, Continues, Finishes, Loads, ShapeKept
       DEF Typed, TypeOK, HoldsRow, Shape, Procs, Locations, Statements, Codes, Refresh
  <2>3. QED
    BY <2>1, <2>2 DEF Typed
<1>13. ASSUME NEW r \in Reqs, WrongState(r) PROVE Typed'
  <2>1. TypeOK'
    BY <1>13, Finishes, RequestJobs, BootsHaveJobs
       DEF Typed, TypeOK, HoldsRow, Shape, Procs, Locations, Statements, Codes, WrongState
  <2>2. Shape'
    BY <1>13, Finishes, ShapeKept
       DEF Typed, TypeOK, HoldsRow, Shape, Procs, Locations, Statements, Codes, WrongState
  <2>3. QED
    BY <2>1, <2>2 DEF Typed
<1>14. ASSUME NEW r \in Reqs, Preseed(r) PROVE Typed'
  <2>1. TypeOK'
    BY <1>14, Waits, RequestJobs, BootsHaveJobs
       DEF Typed, TypeOK, HoldsRow, Shape, Procs, Locations, Statements, Codes, Preseed, DaemonStates
  <2>2. Shape'
    BY <1>14, Waits, ShapeKept
       DEF Typed, TypeOK, HoldsRow, Shape, Procs, Locations, Statements, Codes, Preseed, DaemonStates
  <2>3. QED
    BY <2>1, <2>2 DEF Typed
<1>15. ASSUME NEW r \in Reqs, PreseedFails(r) PROVE Typed'
  <2>1. audit' \subseteq Entry
    BY <1>15, Records, RequestJobs DEF PreseedFails
  <2>2. TypeOK'
    BY <1>15, <2>1, Finishes DEF Typed, TypeOK, Procs, Locations, Codes, PreseedFails
  <2>3. Shape'
    BY <1>15, Finishes, ShapeKept DEF Procs, Codes, Statements, HoldsRow, PreseedFails
  <2>4. QED
    BY <2>2, <2>3 DEF Typed
<1>16. ASSUME NEW r \in Reqs, Audit(r) PROVE Typed'
  <2>1. host[r] \in Loaded
    BY <1>16 DEF Audit, Typed, Shape, HoldsRow, Procs
  <2>2. audit' \subseteq Entry
    BY <1>16, <2>1, Records, ZenonT(40) DEF Audit, Loaded, Typed, TypeOK
  <2>3. Finish(r, 201) \/ Finish(r, 500)
    BY <1>16 DEF Audit
  <2>4. TypeOK'
    BY <1>16, <2>2, <2>3, Finishes DEF Typed, TypeOK, Procs, Locations, Codes, Audit
  <2>5. Shape'
    BY <1>16, <2>3, Finishes, ShapeKept DEF Procs, Codes, Statements, HoldsRow, Audit
  <2>6. QED
    BY <2>4, <2>5 DEF Typed
<1>17. ASSUME NEW r \in Reqs, Lookup(r) PROVE Typed'
  <2>1. TypeOK'
    BY <1>17, Continues, Finishes, Loads, RequestJobs, BootsHaveJobs, SMTT(20)
       DEF Typed, TypeOK, HoldsRow, Shape, Procs, Locations, Statements, Codes, Lookup
  <2>2. Shape'
    BY <1>17, Continues, Finishes, Loads, ShapeKept
       DEF Typed, TypeOK, HoldsRow, Shape, Procs, Locations, Statements, Codes, Lookup
  <2>3. QED
    BY <2>1, <2>2 DEF Typed
<1>18. ASSUME NEW r \in Reqs, Remove(r) PROVE Typed'
  <2>1. host[r] \in Loaded
    BY <1>18 DEF Remove, Typed, Shape, HoldsRow, Procs
  <2>2. audit' \subseteq Entry
    <3>1. \A e \in audit : [e EXCEPT !.host = IF @ = host[r].id THEN 0 ELSE @] \in Entry
      BY DEF Typed, TypeOK, Entry
    <3>2. QED
      BY <1>18, <3>1 DEF Remove, Forget
  <2>3. hosts' \in [Ids -> Row \cup {NoRow}]
    BY <1>18 DEF Remove, Typed, TypeOK
  <2>4. TypeOK'
    BY <1>18, <2>2, <2>3, Continues DEF Typed, TypeOK, Procs, Locations, Statements, Remove
  <2>5. Shape'
    BY <1>18, <2>1, Continues, ShapeKept DEF Procs, Locations, Statements, Remove
  <2>6. QED
    BY <2>4, <2>5 DEF Typed
<1>19. ASSUME NEW r \in Reqs, AuditDelete(r) PROVE Typed'
  <2>1. host[r] \in Loaded
    BY <1>19 DEF AuditDelete, Typed, Shape, HoldsRow, Procs
  <2>2. audit' \subseteq Entry
    BY <1>19, <2>1, Records DEF AuditDelete, Loaded
  <2>3. TypeOK'
    BY <1>19, <2>2, Finishes DEF Typed, TypeOK, Procs, Locations, Codes, AuditDelete
  <2>4. Shape'
    BY <1>19, Finishes, ShapeKept DEF Procs, Codes, Statements, HoldsRow, AuditDelete
  <2>5. QED
    BY <2>3, <2>4 DEF Typed
<1>20. CASE UNCHANGED vars
  BY <1>20 DEF vars, Typed, TypeOK, Shape
<1>21. QED
  BY <1>1, <1>2, <1>3, <1>4, <1>5, <1>6, <1>7, <1>8, <1>9, <1>10, <1>11, <1>12, <1>13,
     <1>14, <1>15, <1>16, <1>17, <1>18, <1>19, <1>20 DEF Next, Register, Request

\* Every variable keeps its type, whatever the interleaving of the workers.
THEOREM TypeCorrect == Spec => []TypeOK
<1>1. Spec => []Typed
  BY InitTyped, StepTyped, PTL DEF Spec
<1>2. Typed => TypeOK
  BY DEF Typed
<1>3. QED
  BY <1>1, <1>2, PTL

-----------------------------------------------------------------------------
(***************************************************************************)
(* Which statements can add a row                                          *)
(***************************************************************************)
NoNewRow ==
  \A x \in Ids : hosts'[x] # NoRow =>
    /\ hosts[x] # NoRow
    /\ hosts'[x].name = hosts[x].name /\ hosts'[x].addr = hosts[x].addr

NewRow(p, k) ==
  /\ pc[p] = "insert" /\ ~ NameTaken(job[p].name)
  /\ hosts' = [hosts EXCEPT ![k] = [name |-> job[p].name, addr |-> job[p].addr,
                                    active |-> TRUE]]

\* How a statement changes the table, and that only INSERT takes an id.
SameTable == hosts' = hosts /\ nextId' = nextId
Switched(k, b) == hosts' = [hosts EXCEPT ![k].active = b] /\ nextId' = nextId
Removed(k) == hosts' = [hosts EXCEPT ![k] = NoRow] /\ nextId' = nextId
Inserted(p, k) ==
  /\ Insert(p) /\ NewRow(p, k)
  /\ IsNewId(k) /\ nextId' = k + 1
  /\ host' = [host EXCEPT ![p] = [id |-> k, name |-> job[p].name, addr |-> job[p].addr]]

\* An INSERT takes the next id, unless the name is in the table.
LEMMA Inserts ==
  ASSUME NEW p \in Procs, Insert(p)
  PROVE  SameTable \/ \E k \in Ids : Inserted(p, k)
<1>1. CASE NameTaken(job[p].name)
  BY <1>1 DEF Insert, SameTable
<1>2. CASE ~ NameTaken(job[p].name)
  <2>1. PICK k \in Ids :
          /\ IsNewId(k) /\ nextId' = k + 1
          /\ hosts' = [hosts EXCEPT ![k] = [name |-> job[p].name, addr |-> job[p].addr,
                                            active |-> TRUE]]
          /\ host' = [host EXCEPT ![p] = [id |-> k, name |-> job[p].name,
                                          addr |-> job[p].addr]]
    BY <1>2 DEF Insert
  <2>2. NewRow(p, k)
    BY <1>2, <2>1 DEF Insert, NewRow
  <2>3. Inserted(p, k)
    BY <2>1, <2>2 DEF Inserted
  <2>4. QED
    BY <2>3
<1>3. QED
  BY <1>1, <1>2

\* Every step leaves the table alone, switches a row, removes one or inserts one.
LEMMA TableChanges ==
  ASSUME Typed, [Next]_vars
  PROVE  \/ SameTable
         \/ \E k \in Used, b \in BOOLEAN : Switched(k, b)
         \/ \E r \in Reqs : Remove(r) /\ Removed(host[r].id) /\ host[r].id \in Ids
         \/ \E p \in Procs, k \in Ids : Inserted(p, k)
<1>1. ASSUME NEW w \in Workers, Reactivate(w)
      PROVE  SameTable \/ \E k \in Used, b \in BOOLEAN : Switched(k, b)
  BY <1>1 DEF Reactivate, SameTable, Switched
<1>2. ASSUME NEW i \in Ids, Disable(i)
      PROVE  \E k \in Used, b \in BOOLEAN : Switched(k, b)
  BY <1>2 DEF Disable, Switched
<1>3. ASSUME NEW r \in Reqs, Remove(r) PROVE Removed(host[r].id) /\ host[r].id \in Ids
  BY <1>3 DEF Remove, Removed, Typed, Shape, HoldsRow, Loaded, Procs
<1>4. CASE \E p \in Procs : Register(p)
  <2>1. PICK p \in Procs : Register(p)
    BY <1>4
  <2>2. Insert(p) \/ SameTable
    BY <2>1 DEF Register, ProbeFails, ProbeAnswers, CheckExisting, CheckName,
                CheckAddress, Refresh, SameTable
  <2>3. QED
    BY <2>2, Inserts
<1>5. CASE \E r \in Reqs : Accept(r) \/ Request(r)
  <2>1. PICK r \in Reqs : Accept(r) \/ Request(r)
    BY <1>5
  <2>2. Remove(r) \/ SameTable
    BY <2>1 DEF Accept, Request, WrongState, Preseed, PreseedFails, Audit, Lookup,
                AuditDelete, SameTable
  <2>3. QED
    BY <2>2, <1>3
<1>6. CASE \E w \in Workers : Boot(w) \/ Reactivate(w) \/ Crash(w)
  BY <1>6, <1>1 DEF Boot, Crash, SameTable
<1>7. QED
  BY <1>2, <1>4, <1>5, <1>6 DEF Next, vars, SameTable

\* Switching a row changes whether it is active and nothing else.
LEMMA SwitchedRow ==
  ASSUME Typed, NEW k \in Used, NEW b \in BOOLEAN, Switched(k, b)
  PROVE  /\ k \in Ids /\ hosts[k] \in Row /\ hosts'[k] = [hosts[k] EXCEPT !.active = b]
         /\ hosts'[k] # NoRow
         /\ hosts'[k].name = hosts[k].name /\ hosts'[k].addr = hosts[k].addr
         /\ \A x \in Ids : x # k => hosts'[x] = hosts[x]
<1>1. k \in Ids /\ hosts[k] \in Row
  BY DEF Typed, TypeOK, Used
<1>2. hosts' = [hosts EXCEPT ![k] = [hosts[k] EXCEPT !.active = b]]
  BY <1>1 DEF Switched, Typed, TypeOK
<1>3. /\ [hosts[k] EXCEPT !.active = b] \in Row
      /\ [hosts[k] EXCEPT !.active = b].name = hosts[k].name
      /\ [hosts[k] EXCEPT !.active = b].addr = hosts[k].addr
  BY <1>1 DEF Row
<1>4. \A x \in Ids : hosts'[x] = IF x = k THEN [hosts[k] EXCEPT !.active = b]
                                 ELSE hosts[x]
  BY <1>1, <1>2 DEF Typed, TypeOK
<1>5. [hosts[k] EXCEPT !.active = b] # NoRow
  BY <1>3, SentinelAssumption DEF SentinelAssumption
<1>6. QED
  BY <1>1, <1>3, <1>4, <1>5

\* An inserted row holds what the job asks for; the others stay.
LEMMA InsertedRow ==
  ASSUME Typed, NEW p \in Procs, NEW k \in Ids, Inserted(p, k)
  PROVE  /\ job[p].name \in Names /\ job[p].addr \in Addresses
         /\ hosts'[k] = [name |-> job[p].name, addr |-> job[p].addr, active |-> TRUE]
         /\ hosts'[k] # NoRow
         /\ \A x \in Ids : x # k => hosts'[x] = hosts[x]
<1>1. job[p].name \in Names /\ job[p].addr \in Addresses
  BY RequestJobs, BootsHaveJobs DEF Inserted, Insert, Procs
<1>2. \A x \in Ids : hosts'[x] = IF x = k
                                 THEN [name |-> job[p].name, addr |-> job[p].addr,
                                       active |-> TRUE]
                                 ELSE hosts[x]
  BY DEF Inserted, NewRow, Typed, TypeOK
<1>3. hosts'[k] = [name |-> job[p].name, addr |-> job[p].addr, active |-> TRUE]
  BY <1>2
<1>4. hosts'[k] \in Row
  BY <1>1, <1>3 DEF Row
<1>5. QED
  BY <1>1, <1>2, <1>3, <1>4, SentinelAssumption DEF SentinelAssumption

\* INSERT is the only statement that adds a row; the others keep the names
\* and the addresses of the rows they leave.
LEMMA TableSteps ==
  ASSUME Typed, [Next]_vars
  PROVE  NoNewRow \/ \E p \in Procs, k \in Ids : Insert(p) /\ NewRow(p, k)
<1>1. SameTable => NoNewRow
  BY DEF NoNewRow, SameTable
<1>2. ASSUME NEW k \in Used, NEW b \in BOOLEAN, Switched(k, b) PROVE NoNewRow
  BY <1>2, SwitchedRow DEF NoNewRow, Used
<1>3. ASSUME NEW k \in Ids, Removed(k) PROVE NoNewRow
  <2>1. \A x \in Ids : hosts'[x] \in {NoRow, hosts[x]}
    BY <1>3 DEF Removed, Typed, TypeOK
  <2>2. QED
    BY <2>1 DEF NoNewRow
<1>4. QED
  BY <1>1, <1>2, <1>3, TableChanges DEF Inserted

\* Every step keeps the names apart; only INSERT could do otherwise.
LEMMA NamesStep == Typed /\ UniqueNames /\ [Next]_vars => UniqueNames'
<1> SUFFICES ASSUME Typed, UniqueNames, [Next]_vars PROVE UniqueNames'
  OBVIOUS
<1>1. CASE NoNewRow
  BY <1>1 DEF NoNewRow, UniqueNames, Used
<1>2. ASSUME NEW p \in Procs, NEW k \in Ids, NewRow(p, k) PROVE UniqueNames'
  <2>1. \A x \in Ids : hosts'[x] = IF x = k THEN [name |-> job[p].name,
                                        addr |-> job[p].addr, active |-> TRUE]
                                   ELSE hosts[x]
    BY <1>2 DEF NewRow, Typed, TypeOK
  <2>2. hosts'[k].name = job[p].name
    BY <2>1
  <2>3. \A x \in Ids : x # k => hosts'[x] = hosts[x]
    BY <2>1
  <2>4. \A x \in Used : hosts[x].name # job[p].name
    BY <1>2 DEF NewRow, NameTaken
  <2>5. QED
    BY <2>2, <2>3, <2>4 DEF UniqueNames, Used
<1>3. QED
  BY <1>1, <1>2, TableSteps

\* No two rows ever have the same name, however many workers race.
THEOREM NamesAreUnique == Spec => []UniqueNames
<1>1. Init => UniqueNames
  BY DEF Init, UniqueNames, Used
<1>2. Spec => [](Typed /\ UniqueNames)
  BY <1>1, InitTyped, StepTyped, NamesStep, PTL DEF Spec
<1>3. QED
  BY <1>2, PTL

-----------------------------------------------------------------------------
(***************************************************************************)
(* The event loop: between two awaits a coroutine runs alone in its worker *)
(***************************************************************************)
Critical == {"reactivate", "address", "insert", "refresh", "audit", "remove",
             "auditDelete"}

LoopHeld == \A q \in Procs : pc[q] \in Critical => loop[On(q)] = q

\* Every process lives in some worker.
LEMMA OnIsWorker ==
  ASSUME NEW p \in Procs
  PROVE  On(p) \in Workers
BY RegistryAssumption DEF RegistryAssumption, On, Procs

\* A coroutine that runs is the only one of its worker past an await.
LEMMA RunsAlone ==
  ASSUME Typed, LoopHeld, NEW p \in Procs, Runs(p), NEW u \in Procs \ {p},
         pc[u] \in Critical
  PROVE  On(u) # On(p)
BY RegistryAssumption DEF RegistryAssumption, LoopHeld, Runs

\* A move to a statement outside the critical ones keeps LoopHeld.
LEMMA LoopWaits ==
  ASSUME Typed, LoopHeld, NEW p \in Procs, NEW l \in Locations \ Critical, Goto(p, l),
         loop' = loop
  PROVE  LoopHeld'
<1>1. pc'[p] = l /\ \A u \in Procs \ {p} : pc'[u] = pc[u]
  BY Waits
<1>2. QED
  BY <1>1 DEF LoopHeld, On

\* So does a move to a critical one that takes the loop.
LEMMA LoopContinues ==
  ASSUME Typed, LoopHeld, NEW p \in Procs, NEW l \in Locations, Runs(p), Continue(p, l)
  PROVE  LoopHeld'
<1>1. pc'[p] = l /\ \A u \in Procs \ {p} : pc'[u] = pc[u]
  BY Continues
<1>2. /\ loop'[On(p)] = p
      /\ \A v \in Workers \ {On(p)} : loop'[v] = loop[v]
  BY OnIsWorker DEF Continue, Hold, Typed, TypeOK
<1>3. \A u \in Procs \ {p} : pc[u] \in Critical =>
        On(u) \in Workers \ {On(p)} /\ loop[On(u)] = u
  BY OnIsWorker, RunsAlone DEF LoopHeld
<1>4. QED
  BY <1>1, <1>2, <1>3 DEF LoopHeld, On

\* So does an answer, which gives the loop back.
LEMMA LoopFinishes ==
  ASSUME Typed, LoopHeld, NEW p \in Procs, NEW c \in Codes, Runs(p), Finish(p, c)
  PROVE  LoopHeld'
<1>1. pc'[p] \in {"serving", "done"} /\ \A u \in Procs \ {p} : pc'[u] = pc[u]
  BY Finishes
<1>2. \A v \in Workers \ {On(p)} : loop'[v] = loop[v]
  BY OnIsWorker DEF Finish, Release, Typed, TypeOK
<1>3. \A u \in Procs \ {p} : pc[u] \in Critical =>
        On(u) \in Workers \ {On(p)} /\ loop[On(u)] = u
  BY OnIsWorker, RunsAlone DEF LoopHeld
<1>4. QED
  BY <1>1, <1>2, <1>3 DEF LoopHeld, On, Critical

\* A process at a critical statement is the one that runs.
LEMMA CriticalRuns ==
  ASSUME LoopHeld, NEW p \in Procs, pc[p] \in Critical
  PROVE  Runs(p)
BY DEF LoopHeld, Runs

\* Every step keeps LoopHeld: one case per action.
LEMMA LoopStep == Typed /\ LoopHeld /\ [Next]_vars => LoopHeld'
<1> SUFFICES ASSUME Typed, LoopHeld, [Next]_vars PROVE LoopHeld'
  OBVIOUS
<1>1. ASSUME NEW w \in Workers, Boot(w) PROVE LoopHeld'
  BY <1>1, LoopWaits DEF Boot, Procs, Locations, Statements, Critical
<1>2. ASSUME NEW w \in Workers, Reactivate(w) PROVE LoopHeld'
  BY <1>2, LoopFinishes, CriticalRuns DEF Reactivate, Procs, Codes, Critical
<1>3. ASSUME NEW w \in Workers, Crash(w) PROVE LoopHeld'
  <2>1. \A v \in Workers \ {w} : loop'[v] = loop[v]
    BY <1>3 DEF Crash, Typed, TypeOK
  <2>2. \A u \in Procs : On(u) = w => pc'[u] \notin Critical
    BY <1>3 DEF Crash, Critical
  <2>3. \A u \in Procs : pc'[u] \in {pc[u], "down", "lost"}
    BY <1>3 DEF Crash
  <2>4. QED
    BY <2>1, <2>2, <2>3, OnIsWorker DEF LoopHeld, On, Critical
<1>4. ASSUME NEW r \in Reqs, Accept(r) PROVE LoopHeld'
  BY <1>4, LoopWaits DEF Accept, Procs, Locations, Statements, Critical
<1>5. ASSUME NEW i \in Ids, Disable(i) PROVE LoopHeld'
  BY <1>5 DEF Disable, LoopHeld, On
<1>6. ASSUME NEW p \in Procs, ProbeFails(p) PROVE LoopHeld'
  BY <1>6, LoopFinishes DEF ProbeFails, Codes
<1>7. ASSUME NEW p \in Procs, ProbeAnswers(p) PROVE LoopHeld'
  BY <1>7, LoopWaits DEF ProbeAnswers, Locations, Statements, Critical
<1>8. ASSUME NEW p \in Procs, CheckExisting(p) PROVE LoopHeld'
  <2>1. Continue(p, "name") \/ Continue(p, "reactivate") \/ Finish(p, 200)
    BY <1>8 DEF CheckExisting
  <2>2. Runs(p)
    BY <1>8 DEF CheckExisting
  <2>3. QED
    BY <2>1, <2>2, LoopFinishes, LoopContinues DEF Locations, Statements, Codes
<1>9. ASSUME NEW p \in Procs, CheckName(p) PROVE LoopHeld'
  <2>1. Continue(p, "address") \/ Finish(p, 409)
    BY <1>9 DEF CheckName, Conflict
  <2>2. Runs(p)
    BY <1>9 DEF CheckName
  <2>3. QED
    BY <2>1, <2>2, LoopFinishes, LoopContinues DEF Locations, Statements, Codes
<1>10. ASSUME NEW p \in Procs, CheckAddress(p) PROVE LoopHeld'
  <2>1. Continue(p, "insert") \/ Finish(p, 409)
    BY <1>10 DEF CheckAddress, Conflict
  <2>2. Runs(p)
    BY <1>10, CriticalRuns DEF CheckAddress, Critical
  <2>3. QED
    BY <2>1, <2>2, LoopFinishes, LoopContinues DEF Locations, Statements, Codes
<1>11. ASSUME NEW p \in Procs, Insert(p) PROVE LoopHeld'
  <2>1. Continue(p, "refresh") \/ Finish(p, 500)
    BY <1>11 DEF Insert
  <2>2. Runs(p)
    BY <1>11, CriticalRuns DEF Insert, Critical
  <2>3. QED
    BY <2>1, <2>2, LoopFinishes, LoopContinues DEF Locations, Statements, Codes
<1>12. ASSUME NEW p \in Procs, Refresh(p) PROVE LoopHeld'
  BY <1>12, LoopFinishes, LoopContinues, CriticalRuns
     DEF Refresh, Locations, Statements, Codes, Critical
<1>13. ASSUME NEW r \in Reqs, WrongState(r) PROVE LoopHeld'
  BY <1>13, LoopFinishes DEF WrongState, Procs, Codes
<1>14. ASSUME NEW r \in Reqs, Preseed(r) PROVE LoopHeld'
  BY <1>14, LoopWaits DEF Preseed, Procs, Locations, Statements, Critical
<1>15. ASSUME NEW r \in Reqs, PreseedFails(r) PROVE LoopHeld'
  BY <1>15, LoopFinishes DEF PreseedFails, Procs, Codes
<1>16. ASSUME NEW r \in Reqs, Audit(r) PROVE LoopHeld'
  <2>1. Finish(r, 201) \/ Finish(r, 500)
    BY <1>16 DEF Audit
  <2>2. r \in Procs /\ Runs(r)
    BY <1>16, CriticalRuns DEF Audit, Procs, Critical
  <2>3. QED
    BY <2>1, <2>2, LoopFinishes DEF Codes
<1>17. ASSUME NEW r \in Reqs, Lookup(r) PROVE LoopHeld'
  BY <1>17, LoopFinishes, LoopContinues DEF Lookup, Procs, Locations, Statements, Codes
<1>18. ASSUME NEW r \in Reqs, Remove(r) PROVE LoopHeld'
  BY <1>18, LoopContinues, CriticalRuns DEF Remove, Procs, Locations, Statements, Critical
<1>19. ASSUME NEW r \in Reqs, AuditDelete(r) PROVE LoopHeld'
  BY <1>19, LoopFinishes, CriticalRuns DEF AuditDelete, Procs, Codes, Critical
<1>20. CASE UNCHANGED vars
  BY <1>20 DEF vars, LoopHeld, On
<1>21. QED
  BY <1>1, <1>2, <1>3, <1>4, <1>5, <1>6, <1>7, <1>8, <1>9, <1>10, <1>11, <1>12, <1>13,
     <1>14, <1>15, <1>16, <1>17, <1>18, <1>19, <1>20 DEF Next, Register, Request

-----------------------------------------------------------------------------
(***************************************************************************)
(* One worker                                                              *)
(***************************************************************************)
OneWorker == \A v1, v2 \in Workers : v1 = v2

\* The SELECT on the address still holds when the INSERT runs.
Checked == \A q \in Procs : pc[q] = "insert" => ~ AddressTaken(job[q].addr)

AddressInv == LoopHeld /\ Checked /\ UniqueAddresses

\* With one worker, at most one process is at a critical statement.
LEMMA OneInserts ==
  ASSUME OneWorker, LoopHeld,
         NEW p \in Procs, NEW u \in Procs, pc[p] \in Critical, pc[u] \in Critical
  PROVE  p = u
BY OnIsWorker DEF OneWorker, LoopHeld

\* A process reaches the INSERT only from the SELECT on the address.
LEMMA InsertIsChecked ==
  ASSUME Typed, [Next]_vars, NEW q \in Procs, pc'[q] = "insert"
  PROVE  /\ job'[q] = job[q]
         /\ \/ pc[q] = "insert"
            \/ hosts' = hosts /\ ~ AddressTaken(job[q].addr)
<1> DEFINE Goal == /\ job'[q] = job[q]
                   /\ \/ pc[q] = "insert"
                      \/ hosts' = hosts /\ ~ AddressTaken(job[q].addr)
<1>1. ASSUME NEW w \in Workers, Boot(w) PROVE Goal
  BY <1>1, Waits DEF Boot, Procs, Locations, Statements, Codes, Typed, TypeOK
<1>2. ASSUME NEW w \in Workers, Reactivate(w) PROVE Goal
  BY <1>2, Finishes DEF Reactivate, Procs, Locations, Statements, Codes
<1>3. ASSUME NEW w \in Workers, Crash(w) PROVE Goal
  <2>1. pc'[q] \in {pc[q], "down", "lost"}
    BY <1>3 DEF Crash
  <2>2. QED
    BY <1>3, <2>1 DEF Crash
<1>4. ASSUME NEW r \in Reqs, Accept(r) PROVE Goal
  BY <1>4, Waits DEF Accept, Procs, Locations, Statements, Codes, Typed, TypeOK
<1>5. ASSUME NEW i \in Ids, Disable(i) PROVE Goal
  BY <1>5 DEF Disable, Procs, Locations, Statements, Codes
<1>6. ASSUME NEW p \in Procs, ProbeFails(p) PROVE Goal
  BY <1>6, Finishes DEF ProbeFails, Procs, Locations, Statements, Codes
<1>7. ASSUME NEW p \in Procs, ProbeAnswers(p) PROVE Goal
  BY <1>7, Waits DEF ProbeAnswers, Procs, Locations, Statements, Codes
<1>8. ASSUME NEW p \in Procs, CheckExisting(p) PROVE Goal
  <2>1. Continue(p, "name") \/ Continue(p, "reactivate") \/ Finish(p, 200)
    BY <1>8 DEF CheckExisting
  <2>2. QED
    BY <1>8, <2>1, Continues, Finishes DEF CheckExisting, Locations, Statements, Codes
<1>9. ASSUME NEW p \in Procs, CheckName(p) PROVE Goal
  <2>1. Continue(p, "address") \/ Finish(p, 409)
    BY <1>9 DEF CheckName, Conflict
  <2>2. QED
    BY <1>9, <2>1, Continues, Finishes DEF CheckName, Locations, Statements, Codes
<1>10. ASSUME NEW p \in Procs, CheckAddress(p) PROVE Goal
  <2>1. CASE Conflict(p)
    BY <1>10, <2>1, Finishes DEF CheckAddress, Conflict, Codes
  <2>2. CASE Continue(p, "insert") /\ ~ AddressTaken(job[p].addr)
    BY <1>10, <2>2, Continues DEF CheckAddress, Locations, Statements
  <2>3. QED
    BY <1>10, <2>1, <2>2 DEF CheckAddress
<1>11. ASSUME NEW p \in Procs, Insert(p) PROVE Goal
  <2>1. Continue(p, "refresh") \/ Finish(p, 500)
    BY <1>11 DEF Insert
  <2>2. QED
    BY <1>11, <2>1, Continues, Finishes DEF Insert, Locations, Statements, Codes
<1>12. ASSUME NEW p \in Procs, Refresh(p) PROVE Goal
  BY <1>12, Continues, Finishes DEF Refresh, Procs, Locations, Statements, Codes
<1>13. ASSUME NEW r \in Reqs, WrongState(r) PROVE Goal
  BY <1>13, Finishes DEF WrongState, Procs, Locations, Statements, Codes
<1>14. ASSUME NEW r \in Reqs, Preseed(r) PROVE Goal
  BY <1>14, Waits DEF Preseed, Procs, Locations, Statements, Codes
<1>15. ASSUME NEW r \in Reqs, PreseedFails(r) PROVE Goal
  BY <1>15, Finishes DEF PreseedFails, Procs, Locations, Statements, Codes
<1>16. ASSUME NEW r \in Reqs, Audit(r) PROVE Goal
  <2>1. Finish(r, 201) \/ Finish(r, 500)
    BY <1>16 DEF Audit
  <2>2. QED
    BY <1>16, <2>1, Finishes DEF Audit, Procs, Statements, Codes
<1>17. ASSUME NEW r \in Reqs, Lookup(r) PROVE Goal
  BY <1>17, Continues, Finishes DEF Lookup, Procs, Locations, Statements, Codes
<1>18. ASSUME NEW r \in Reqs, Remove(r) PROVE Goal
  BY <1>18, Continues DEF Remove, Procs, Locations, Statements, Codes
<1>19. ASSUME NEW r \in Reqs, AuditDelete(r) PROVE Goal
  BY <1>19, Finishes DEF AuditDelete, Procs, Locations, Statements, Codes
<1>20. CASE UNCHANGED vars
  BY <1>20 DEF vars
<1>21. QED
  BY <1>1, <1>2, <1>3, <1>4, <1>5, <1>6, <1>7, <1>8, <1>9, <1>10, <1>11, <1>12, <1>13,
     <1>14, <1>15, <1>16, <1>17, <1>18, <1>19, <1>20 DEF Next, Register, Request

\* With one worker, every step keeps the addresses apart.
LEMMA AddressStep ==
  OneWorker /\ Typed /\ AddressInv /\ [Next]_vars => AddressInv'
<1> SUFFICES ASSUME OneWorker, Typed, AddressInv, [Next]_vars PROVE AddressInv'
  OBVIOUS
<1> USE DEF AddressInv
<1>1. LoopHeld'
  BY LoopStep
<1>2. CASE NoNewRow
  <2>1. \A a : ~ AddressTaken(a) => ~ AddressTaken(a)'
    BY <1>2 DEF NoNewRow, AddressTaken, Used
  <2>2. Checked'
    BY <2>1, InsertIsChecked DEF Checked, AddressTaken, Used
  <2>3. UniqueAddresses'
    BY <1>2 DEF NoNewRow, UniqueAddresses, Used
  <2>4. QED
    BY <1>1, <2>2, <2>3
<1>3. ASSUME NEW p \in Procs, NEW k \in Ids, Insert(p), NewRow(p, k)
      PROVE  AddressInv'
  <2>1. ~ AddressTaken(job[p].addr)
    BY <1>3 DEF NewRow, Checked
  <2>2. \A x \in Ids : hosts'[x] = IF x = k THEN [name |-> job[p].name,
                                        addr |-> job[p].addr, active |-> TRUE]
                                   ELSE hosts[x]
    BY <1>3 DEF NewRow, Typed, TypeOK
  <2>3. /\ hosts'[k].addr = job[p].addr
        /\ \A x \in Ids : x # k => hosts'[x] = hosts[x]
    BY <2>2
  <2>4. UniqueAddresses'
    BY <2>1, <2>3 DEF UniqueAddresses, AddressTaken, Used
  <2>5. pc'[p] # "insert"
    BY <1>3, Continues, Finishes DEF Insert, Locations, Statements, Codes
  <2>6. \A q \in Procs : pc'[q] # "insert"
    <3> SUFFICES ASSUME NEW q \in Procs, pc'[q] = "insert" PROVE FALSE
      OBVIOUS
    <3>1. pc[q] = "insert" \/ hosts' = hosts
      BY InsertIsChecked
    <3>2. CASE pc[q] = "insert"
      BY <1>3, <2>5, <3>2, OneInserts DEF Insert, Critical
    <3>3. CASE hosts' = hosts
      <4>1. hosts[k] # NoRow
        <5>1. job[p].name \in Names /\ job[p].addr \in Addresses
          BY <1>3, RequestJobs, BootsHaveJobs DEF Insert, Procs
        <5>2. [name |-> job[p].name, addr |-> job[p].addr, active |-> TRUE] \in Row
          BY <5>1 DEF Row
        <5>3. hosts[k] \in Row
          BY <2>2, <3>3, <5>2
        <5>4. QED
          BY <5>3, SentinelAssumption DEF SentinelAssumption
      <4>2. QED
        BY <2>1, <2>3, <3>3, <4>1 DEF AddressTaken, Used
    <3>4. QED
      BY <3>1, <3>2, <3>3
  <2>7. QED
    BY <1>1, <2>4, <2>6 DEF Checked
<1>4. QED
  BY <1>2, <1>3, TableSteps

\* Nothing runs and nothing is registered at first.
LEMMA InitAddress == Init => AddressInv
<1>1. Init => \A q \in Procs : pc[q] \in {"down", "idle"}
  BY DEF Init
<1>2. Init => \A x \in Ids : hosts[x] = NoRow
  BY DEF Init
<1>3. QED
  BY <1>1, <1>2 DEF AddressInv, LoopHeld, Checked, UniqueAddresses, Used, Critical

\* With a single worker process, whatever the requests, the interleaving of
\* their coroutines and the crashes, no daemon is ever registered twice.
THEOREM AddressesAreUnique == OneWorker => (Spec => []UniqueAddresses)
<1> SUFFICES ASSUME OneWorker PROVE Spec => []UniqueAddresses
  OBVIOUS
<1>1. Init => AddressInv
  BY InitAddress
<1>2. Typed /\ AddressInv /\ [Next]_vars => AddressInv'
  BY AddressStep
<1>3. AddressInv => UniqueAddresses
  BY DEF AddressInv
<1>4. QED
  BY <1>1, <1>2, <1>3, InitTyped, StepTyped, PTL DEF Spec

-----------------------------------------------------------------------------
(***************************************************************************)
(* The refinement of AtomicRegistry                                        *)
(***************************************************************************)
\* The sequence of PostgreSQL is ahead of every row.
Fresh == ~ IdsReused => \A j \in Used : j < nextId

\* A new id is no row's, however ids are handed out.
LEMMA NewIdIsFree ==
  ASSUME Fresh, NEW k \in Ids, IsNewId(k)
  PROVE  k \notin Used
BY RegistryAssumption DEF RegistryAssumption, Fresh, IsNewId, Ids, Used

\* INSERT moves the sequence past the row it adds.
LEMMA FreshStep == Typed /\ Fresh /\ [Next]_vars => Fresh'
<1> SUFFICES ASSUME Typed, Fresh, [Next]_vars, ~ IdsReused
             PROVE  \A j \in Used' : j < nextId'
  BY DEF Fresh
<1>1. CASE SameTable
  BY <1>1 DEF SameTable, Fresh, Used
<1>2. ASSUME NEW k \in Used, NEW b \in BOOLEAN, Switched(k, b)
      PROVE  \A j \in Used' : j < nextId'
  BY <1>2, SwitchedRow DEF Switched, Fresh, Used
<1>3. ASSUME NEW k \in Ids, Removed(k) PROVE \A j \in Used' : j < nextId'
  <2>1. \A x \in Ids : hosts'[x] \in {NoRow, hosts[x]}
    BY <1>3 DEF Removed, Typed, TypeOK
  <2>2. QED
    BY <1>3, <2>1 DEF Removed, Fresh, Used
<1>4. ASSUME NEW p \in Procs, NEW k \in Ids, Inserted(p, k)
      PROVE  \A j \in Used' : j < nextId'
  <2>1. k = nextId /\ nextId' = k + 1 /\ k \in Int
    BY <1>4 DEF Inserted, IsNewId, Ids
  <2>2. \A x \in Ids : x # k => hosts'[x] = hosts[x]
    BY <1>4, InsertedRow
  <2>3. \A j \in Used' : j = k \/ j < k
    BY <2>1, <2>2 DEF Fresh, Used
  <2>4. \A j \in Used' : j \in Int
    BY DEF Used, Ids
  <2>5. QED
    BY <2>1, <2>3, <2>4
<1>5. QED
  BY <1>1, <1>2, <1>3, <1>4, TableChanges

Table == {hosts[i] : i \in Used}

\* The table starts empty.
LEMMA StartsEmpty == Init => Promise!Init
BY DEF Init, Promise!Init, Used

\* With one worker, every step is a step of the promise or none.
LEMMA StepKeepsPromise ==
  ASSUME Typed, UniqueNames, Checked, Fresh, [Next]_vars
  PROVE  Promise!Next \/ UNCHANGED Table
<1>1. CASE SameTable
  BY <1>1 DEF SameTable, Table, Used
<1>2. ASSUME NEW k \in Used, NEW b \in BOOLEAN, Switched(k, b)
      PROVE  Promise!Next
  <2>1. /\ k \in Ids /\ hosts'[k] = [hosts[k] EXCEPT !.active = b] /\ hosts'[k] # NoRow
        /\ \A x \in Ids : x # k => hosts'[x] = hosts[x]
    BY <1>2, SwitchedRow
  <2>2. Used' = Used
    BY <2>1 DEF Used
  <2>3. \A i \in Used : hosts[i] = hosts[k] => i = k
    BY DEF UniqueNames
  <2>4. Table' = (Table \ {hosts[k]}) \cup {[hosts[k] EXCEPT !.active = b]}
    BY <2>1, <2>2, <2>3 DEF Table, Used
  <2>5. hosts[k] \in Table
    BY DEF Table
  <2>6. Promise!Switch(hosts[k], b)
    BY <2>4 DEF Promise!Switch, Table
  <2>7. QED
    BY <2>5, <2>6 DEF Promise!Next, Promise!Switch, Table
<1>3. ASSUME NEW k \in Ids, Removed(k) PROVE Promise!Next \/ UNCHANGED Table
  <2>1. /\ hosts'[k] = NoRow
        /\ \A x \in Ids : x # k => hosts'[x] = hosts[x]
    BY <1>3 DEF Removed, Typed, TypeOK
  <2>2. CASE k \in Used
    <3>1. Used' = Used \ {k}
      BY <2>1 DEF Used
    <3>2. \A i \in Used : hosts[i] = hosts[k] => i = k
      BY <2>2 DEF UniqueNames
    <3>3. Table' = Table \ {hosts[k]}
      BY <2>1, <2>2, <3>1, <3>2 DEF Table, Used
    <3>4. hosts[k] \in Table
      BY <2>2 DEF Table
    <3>5. Promise!Remove(hosts[k])
      BY <3>3 DEF Promise!Remove, Table
    <3>6. QED
      BY <3>4, <3>5 DEF Promise!Next, Promise!Remove, Table
  <2>3. CASE k \notin Used
    <3>1. Used' = Used /\ \A i \in Used : hosts'[i] = hosts[i]
      BY <2>1, <2>3 DEF Used
    <3>2. QED
      BY <3>1 DEF Table
  <2>4. QED
    BY <2>2, <2>3
<1>4. ASSUME NEW p \in Procs, NEW k \in Ids, Inserted(p, k) PROVE Promise!Next
  <2> DEFINE n == job[p].name
             a == job[p].addr
  <2>1. /\ n \in Names /\ a \in Addresses
        /\ hosts'[k] = [name |-> n, addr |-> a, active |-> TRUE] /\ hosts'[k] # NoRow
        /\ \A x \in Ids : x # k => hosts'[x] = hosts[x]
    BY <1>4, InsertedRow
  <2>2. k \notin Used
    BY <1>4, NewIdIsFree DEF Inserted
  <2>3. ~ NameTaken(n) /\ ~ AddressTaken(a)
    BY <1>4 DEF Inserted, NewRow, Checked
  <2> HIDE DEF n, a
  <2>4. Used' = Used \cup {k}
    BY <2>1 DEF Used
  <2>5. Table' = Table \cup {[name |-> n, addr |-> a, active |-> TRUE]}
    BY <2>1, <2>2, <2>4 DEF Table, Used
  <2>6. \A e \in Table : e.name # n /\ e.addr # a
    BY <2>3 DEF Table, NameTaken, AddressTaken
  <2>7. Promise!Register(n, a)
    BY <2>5, <2>6 DEF Promise!Register, Table
  <2>8. QED
    BY <2>1, <2>7 DEF Promise!Next, Promise!Register
<1>5. QED
  BY <1>1, <1>2, <1>3, <1>4, TableChanges

\* With a single worker process the requests, split at every statement and
\* await and interleaved with each other, the boot hook and crashes, change
\* the table as if each of them took effect in one step: the detailed registry
\* implements AtomicRegistry.
THEOREM RegistryKeepsPromise == OneWorker => (Spec => ImplementsAtomicRegistry)
<1> SUFFICES ASSUME OneWorker PROVE Spec => ImplementsAtomicRegistry
  OBVIOUS
<1> DEFINE Inv == Typed /\ UniqueNames /\ AddressInv /\ Fresh
<1>1. Init => Inv
  BY InitTyped, InitAddress, RegistryAssumption
     DEF RegistryAssumption, Init, UniqueNames, Fresh, Used
<1>2. Inv /\ [Next]_vars => Inv'
  BY StepTyped, NamesStep, AddressStep, FreshStep
<1>3. Inv /\ [Next]_vars => [Promise!Next]_({hosts[i] : i \in Used})
  BY StepKeepsPromise DEF AddressInv, Table
<1> HIDE DEF Inv
<1>4. QED
  BY <1>1, <1>2, <1>3, StartsEmpty, PTL DEF Spec, ImplementsAtomicRegistry, Promise!Spec

-----------------------------------------------------------------------------
(***************************************************************************)
(* The trail                                                               *)
(***************************************************************************)
\* No row takes the id of a removed one while a request holds that id: a
\* sequence never hands an id out twice, and with one worker nothing is
\* inserted between a request's INSERT and its audit row.
IdsStayPut == OneWorker \/ ~ IdsReused

\* A request that has inserted its row knows it by the name and address it
\* asked for, and so does the row as long as it is there.
RegisteredAs(q) ==
  /\ host[q].name = job[q].name /\ host[q].addr = job[q].addr
  /\ ~ IdsReused => host[q].id < nextId
  /\ host[q].id \in Used =>
       /\ hosts[host[q].id].name = job[q].name
       /\ hosts[host[q].id].addr = job[q].addr

Registered == \A q \in Procs : pc[q] \in {"refresh", "audit"} => RegisteredAs(q)

\* Only a DELETE gets to the statements of one.
Deletes == \A r \in Reqs :
  pc[r] \in {"lookup", "remove", "auditDelete"} => job[r].op = "delete"

\* Only a request that has been made has entries.
Requested == \A e \in audit : pc[e.by] # "idle"

\* The steps of a process itself.
Acts(q) ==
  \/ q \in Workers /\ (Boot(q) \/ Reactivate(q))
  \/ q \in Reqs /\ (Accept(q) \/ Request(q))
  \/ Register(q)

\* A process is left alone by every step but its own and a crash.
LEMMA OnlyTheActor ==
  ASSUME Typed, [Next]_vars, NEW q \in Procs
  PROVE  \/ pc'[q] = pc[q] /\ job'[q] = job[q] /\ host'[q] = host[q]
         \/ pc'[q] \in {"down", "lost"}
         \/ Acts(q)
<1> DEFINE Goal == \/ pc'[q] = pc[q] /\ job'[q] = job[q] /\ host'[q] = host[q]
                   \/ pc'[q] \in {"down", "lost"}
                   \/ Acts(q)
<1>0. ASSUME NEW p \in Procs, NEW l \in Locations, Goto(p, l), p # q
      PROVE  pc'[q] = pc[q]
  BY <1>0, Waits
<1>1. ASSUME NEW p \in Procs, p # q,
             \/ \E l \in Locations : Continue(p, l)
             \/ \E c \in Codes : Finish(p, c)
      PROVE  pc'[q] = pc[q]
  BY <1>1, Continues, Finishes
<1>2. ASSUME NEW w \in Workers, w # q, Boot(w) PROVE Goal
  BY <1>0, <1>2 DEF Boot, Procs, Locations, Statements, Typed, TypeOK
<1>3. ASSUME NEW w \in Workers, w # q, Reactivate(w) PROVE Goal
  BY <1>1, <1>3 DEF Reactivate, Procs, Codes
<1>4. ASSUME NEW w \in Workers, Crash(w) PROVE Goal
  <2>1. pc'[q] \in {pc[q], "down", "lost"}
    BY <1>4 DEF Crash
  <2>2. QED
    BY <1>4, <2>1 DEF Crash
<1>5. ASSUME NEW r \in Reqs, r # q, Accept(r) PROVE Goal
  BY <1>0, <1>5 DEF Accept, Procs, Locations, Statements, Typed, TypeOK
<1>6. ASSUME NEW i \in Ids, Disable(i) PROVE Goal
  BY <1>6 DEF Disable
<1>7. ASSUME NEW p \in Procs, p # q, ProbeFails(p) PROVE Goal
  BY <1>1, <1>7 DEF ProbeFails, Codes
<1>8. ASSUME NEW p \in Procs, p # q, ProbeAnswers(p) PROVE Goal
  BY <1>0, <1>8 DEF ProbeAnswers, Locations, Statements
<1>9. ASSUME NEW p \in Procs, p # q, CheckExisting(p) PROVE Goal
  <2>1. Continue(p, "name") \/ Continue(p, "reactivate") \/ Finish(p, 200)
    BY <1>9 DEF CheckExisting
  <2>2. pc'[q] = pc[q]
    BY <1>1, <1>9, <2>1 DEF Locations, Statements, Codes
  <2>3. QED
    BY <1>9, <2>2 DEF CheckExisting, Typed, TypeOK
<1>10. ASSUME NEW p \in Procs, p # q, CheckName(p) PROVE Goal
  <2>1. Continue(p, "address") \/ Finish(p, 409)
    BY <1>10 DEF CheckName, Conflict
  <2>2. QED
    BY <1>1, <1>10, <2>1 DEF CheckName, Locations, Statements, Codes
<1>11. ASSUME NEW p \in Procs, p # q, CheckAddress(p) PROVE Goal
  <2>1. Continue(p, "insert") \/ Finish(p, 409)
    BY <1>11 DEF CheckAddress, Conflict
  <2>2. QED
    BY <1>1, <1>11, <2>1 DEF CheckAddress, Locations, Statements, Codes
<1>12. ASSUME NEW p \in Procs, p # q, Insert(p) PROVE Goal
  <2>1. Continue(p, "refresh") \/ Finish(p, 500)
    BY <1>12 DEF Insert
  <2>2. host'[q] = host[q]
    BY <1>12 DEF Insert, Typed, TypeOK
  <2>3. QED
    BY <1>1, <1>12, <2>1, <2>2 DEF Insert, Locations, Statements, Codes
<1>13. ASSUME NEW p \in Procs, p # q, Refresh(p) PROVE Goal
  <2>1. Continue(p, "audit") \/ Finish(p, 200) \/ Finish(p, 500)
    BY <1>13 DEF Refresh
  <2>2. host'[q] = host[q]
    BY <1>13 DEF Refresh, Typed, TypeOK
  <2>3. QED
    BY <1>1, <1>13, <2>1, <2>2 DEF Refresh, Locations, Statements, Codes
<1>14. ASSUME NEW r \in Reqs, r # q, WrongState(r) \/ PreseedFails(r) \/ AuditDelete(r)
       PROVE  Goal
  <2>1. Finish(r, 409) \/ Finish(r, 502) \/ Finish(r, 204)
    BY <1>14 DEF WrongState, PreseedFails, AuditDelete
  <2>2. pc'[q] = pc[q]
    BY <1>1, <1>14, <2>1 DEF Procs, Codes
  <2>3. UNCHANGED <<job, host>>
    BY <1>14 DEF WrongState, PreseedFails, AuditDelete
  <2>4. QED
    BY <2>2, <2>3
<1>15. ASSUME NEW r \in Reqs, r # q, Preseed(r) PROVE Goal
  BY <1>0, <1>15 DEF Preseed, Procs, Locations, Statements
<1>16. ASSUME NEW r \in Reqs, r # q, Audit(r) PROVE Goal
  <2>1. Finish(r, 201) \/ Finish(r, 500)
    BY <1>16 DEF Audit
  <2>2. QED
    BY <1>1, <1>16, <2>1 DEF Audit, Procs, Codes
<1>17. ASSUME NEW r \in Reqs, r # q, Lookup(r) PROVE Goal
  <2>1. Continue(r, "remove") \/ Finish(r, 404)
    BY <1>17 DEF Lookup
  <2>2. host'[q] = host[q]
    BY <1>17 DEF Lookup, Typed, TypeOK
  <2>3. QED
    BY <1>1, <1>17, <2>1, <2>2 DEF Lookup, Procs, Locations, Statements, Codes
<1>18. ASSUME NEW r \in Reqs, r # q, Remove(r) PROVE Goal
  BY <1>1, <1>18 DEF Remove, Procs, Locations, Statements
<1>19. ASSUME UNCHANGED vars PROVE Goal
  BY <1>19 DEF vars
<1>20. ASSUME \E p \in Procs : p # q /\ Register(p) PROVE Goal
  BY <1>20, <1>7, <1>8, <1>9, <1>10, <1>11, <1>12, <1>13 DEF Register
<1>21. ASSUME \E r \in Reqs : r # q /\ (Accept(r) \/ Request(r)) PROVE Goal
  BY <1>21, <1>5, <1>14, <1>15, <1>16, <1>17, <1>18 DEF Request
<1>22. ASSUME \E w \in Workers : w # q /\ (Boot(w) \/ Reactivate(w)) PROVE Goal
  BY <1>22, <1>2, <1>3
<1>23. Acts(q) => Goal
  OBVIOUS
<1> HIDE DEF Goal
<1>24. ASSUME \E p \in Procs : Register(p) PROVE Goal
  BY <1>20, <1>23, <1>24 DEF Acts
<1>25. ASSUME \E r \in Reqs : Accept(r) \/ Request(r) PROVE Goal
  BY <1>21, <1>23, <1>25 DEF Acts
<1>26. ASSUME \E w \in Workers : Boot(w) \/ Reactivate(w) \/ Crash(w) PROVE Goal
  BY <1>4, <1>22, <1>23, <1>26 DEF Acts
<1>27. Goal
  BY <1>6, <1>19, <1>24, <1>25, <1>26 DEF Next
<1>28. QED
  BY <1>27 DEF Goal

\* A request that has been made stays made, and keeps its body.
LEMMA RequestsStay ==
  ASSUME Typed, [Next]_vars, NEW r \in Reqs, pc[r] # "idle"
  PROVE  pc'[r] # "idle" /\ job'[r] = job[r]
<1> USE RegistryAssumption DEF RegistryAssumption
<1>1. r \in Procs /\ r \notin Workers
  BY Zenon DEF Procs
<1>2. \/ job' = job
      \/ \E w \in Workers : Boot(w)
      \/ \E q \in Reqs : Accept(q)
  BY ZenonT(40) DEF Next, vars, Reactivate, Crash, Request, WrongState, Preseed, PreseedFails,
         Audit, Lookup, Remove, AuditDelete, Register, ProbeFails, ProbeAnswers,
         CheckExisting, CheckName, CheckAddress, Insert, Refresh, Disable
<1>3. ASSUME NEW w \in Workers, Boot(w) PROVE job'[r] = job[r]
  BY <1>1, <1>3 DEF Boot, Typed, TypeOK
<1>4. ASSUME NEW q \in Reqs, Accept(q) PROVE job'[r] = job[r]
  BY <1>1, <1>4 DEF Accept, Typed, TypeOK
<1>5. ASSUME Acts(r) PROVE \E l \in Locations \ {"idle"} : Goto(r, l)
  <2>1. CASE Accept(r)
    BY <2>1 DEF Accept, Locations, Statements
  <2>2. CASE Request(r)
    BY <1>1, <2>2
       DEF Request, WrongState, Preseed, PreseedFails, Audit, Lookup, Remove, AuditDelete,
           Finish, Continue, Locations, Statements
  <2>3. CASE Register(r)
    BY <1>1, <2>3
       DEF Register, ProbeFails, ProbeAnswers, CheckExisting, CheckName, CheckAddress,
           Conflict, Insert, Refresh, Finish, Continue, Locations, Statements
  <2>4. QED
    BY <1>1, <1>5, <2>1, <2>2, <2>3 DEF Acts
<1>6. Acts(r) => pc'[r] # "idle"
  BY <1>1, <1>5, Waits
<1>7. QED
  BY <1>1, <1>2, <1>3, <1>4, <1>6, OnlyTheActor

\* Each process gets to the reading back and the audit row only from its INSERT.
LEMMA ReachesAudit ==
  ASSUME Typed, NEW q \in Procs, Acts(q), pc'[q] \in {"refresh", "audit"}
  PROVE  Insert(q) \/ Refresh(q)
<1> USE RegistryAssumption DEF RegistryAssumption, Locations, Statements, Codes
<1> DEFINE Leaves == \/ \E l \in Locations \ {"refresh", "audit"} : Goto(q, l)
                     \/ \E l \in Locations \ {"refresh", "audit"} : Continue(q, l)
                     \/ \E c \in Codes : Finish(q, c)
<1>1. ~ Leaves
  BY Waits, Continues, Finishes
<1>2. q \in Workers /\ Boot(q) => Leaves
  BY DEF Boot
<1>3. q \in Workers /\ Reactivate(q) => Leaves
  BY DEF Reactivate
<1>4. q \in Reqs /\ Accept(q) => Leaves
  BY DEF Accept
<1>5. WrongState(q) => Leaves
  BY DEF WrongState
<1>6. Preseed(q) => Leaves
  BY DEF Preseed
<1>7. PreseedFails(q) => Leaves
  BY DEF PreseedFails
<1>8. Audit(q) => Leaves
  <2>1. Audit(q) => Finish(q, 201) \/ Finish(q, 500)
    BY DEF Audit
  <2>2. QED
    BY <2>1
<1>9. Lookup(q) => Leaves
  BY DEF Lookup
<1>10. Remove(q) => Leaves
  BY DEF Remove
<1>11. AuditDelete(q) => Leaves
  BY DEF AuditDelete
<1>12. ProbeFails(q) => Leaves
  BY DEF ProbeFails
<1>13. ProbeAnswers(q) => Leaves
  BY DEF ProbeAnswers
<1>14. CheckExisting(q) => Leaves
  BY DEF CheckExisting
<1>15. CheckName(q) => Leaves
  <2>1. CheckName(q) => Continue(q, "address") \/ Finish(q, 409)
    BY DEF CheckName, Conflict
  <2>2. QED
    BY <2>1
<1>16. CheckAddress(q) => Leaves
  <2>1. CheckAddress(q) => Continue(q, "insert") \/ Finish(q, 409)
    BY DEF CheckAddress, Conflict
  <2>2. QED
    BY <2>1
<1> HIDE DEF Leaves
<1>17. QED
  BY <1>1, <1>2, <1>3, <1>4, <1>5, <1>6, <1>7, <1>8, <1>9,
     <1>10, <1>11, <1>12, <1>13, <1>14, <1>15, <1>16
     DEF Acts, Request, Register

\* A row that others insert does not take the id a process holds.
LEMMA HeldIdStays ==
  ASSUME IdsStayPut, Typed, LoopHeld, NEW q \in Procs, pc[q] \in {"refresh", "audit"},
         RegisteredAs(q), NEW p \in Procs, NEW k \in Ids, Inserted(p, k)
  PROVE  host[q].id # k
<1>1. CASE OneWorker
  BY <1>1, OneInserts DEF Inserted, Insert, Critical
<1>2. CASE ~ IdsReused
  <2>1. k = nextId /\ host[q].id < nextId /\ k \in Int
    BY <1>2 DEF Inserted, IsNewId, RegisteredAs, Ids
  <2>2. QED
    BY <2>1
<1>3. QED
  BY <1>1, <1>2 DEF IdsStayPut

\* A registration that is not yet in the trail still knows its row.
LEMMA RegisteredStep ==
  ASSUME IdsStayPut, Typed, LoopHeld, Fresh, Registered, [Next]_vars
  PROVE  Registered'
<1> SUFFICES ASSUME NEW q \in Procs, pc'[q] \in {"refresh", "audit"}
             PROVE  RegisteredAs(q)'
  BY DEF Registered
<1> USE DEF RegisteredAs
<1>1. ASSUME pc'[q] = pc[q], job'[q] = job[q], host'[q] = host[q]
      PROVE  RegisteredAs(q)'
  <2>0. pc[q] \in {"refresh", "audit"} /\ RegisteredAs(q)
    BY <1>1 DEF Registered
  <2>1. host[q].id \in Ids
    BY <2>0 DEF Typed, Shape, HoldsRow, Loaded
  <2>2. CASE SameTable
    BY <1>1, <2>0, <2>2 DEF SameTable, Used
  <2>3. ASSUME NEW k \in Used, NEW b \in BOOLEAN, Switched(k, b) PROVE RegisteredAs(q)'
    <3>1. /\ hosts'[k].name = hosts[k].name /\ hosts'[k].addr = hosts[k].addr
          /\ \A x \in Ids : x # k => hosts'[x] = hosts[x]
      BY <2>3, SwitchedRow
    <3>2. nextId' = nextId
      BY <2>3 DEF Switched
    <3>3. QED
      BY <1>1, <2>0, <3>1, <3>2 DEF Used
  <2>4. ASSUME NEW k \in Ids, Removed(k) PROVE RegisteredAs(q)'
    <3>1. \A x \in Ids : hosts'[x] \in {NoRow, hosts[x]}
      BY <2>4 DEF Removed, Typed, TypeOK
    <3>2. nextId' = nextId
      BY <2>4 DEF Removed
    <3>3. QED
      BY <1>1, <2>0, <3>1, <3>2 DEF Used
  <2>5. ASSUME NEW p \in Procs, NEW k \in Ids, Inserted(p, k) PROVE RegisteredAs(q)'
    <3>1. host[q].id # k
      BY <2>0, <2>5, HeldIdStays
    <3>2. \A x \in Ids : x # k => hosts'[x] = hosts[x]
      BY <2>5, InsertedRow
    <3>3. ~ IdsReused => host[q].id < nextId'
      BY <2>0, <2>1, <2>5 DEF Inserted, IsNewId, Ids, Typed, TypeOK
    <3>4. QED
      BY <1>1, <2>0, <2>1, <3>1, <3>2, <3>3 DEF Used
  <2>6. QED
    BY <2>2, <2>3, <2>4, <2>5, TableChanges
<1>2. ASSUME Insert(q) PROVE RegisteredAs(q)'
  <2>1. ~ NameTaken(job[q].name)
    BY <1>2, Finishes DEF Insert, Codes
  <2>2. PICK k \in Ids : Inserted(q, k)
    <3>1. PICK k \in Ids :
            /\ IsNewId(k) /\ nextId' = k + 1
            /\ hosts' = [hosts EXCEPT ![k] = [name |-> job[q].name, addr |-> job[q].addr,
                                              active |-> TRUE]]
            /\ host' = [host EXCEPT ![q] = [id |-> k, name |-> job[q].name,
                                            addr |-> job[q].addr]]
      BY <1>2, <2>1 DEF Insert
    <3>2. NewRow(q, k)
      BY <1>2, <2>1, <3>1 DEF Insert, NewRow
    <3>3. QED
      BY <1>2, <3>1, <3>2 DEF Inserted
  <2>3. host'[q] = [id |-> k, name |-> job[q].name, addr |-> job[q].addr]
    BY <2>2 DEF Inserted, Typed, TypeOK
  <2>4. hosts'[k] = [name |-> job[q].name, addr |-> job[q].addr, active |-> TRUE]
    BY <2>2, InsertedRow
  <2>5. nextId' = k + 1 /\ job' = job
    BY <1>2, <2>2 DEF Inserted, Insert
  <2>6. QED
    BY <2>3, <2>4, <2>5 DEF Ids
<1>3. ASSUME Refresh(q) PROVE RegisteredAs(q)'
  <2>1. RegisteredAs(q) /\ hosts' = hosts /\ nextId' = nextId /\ job' = job
    BY <1>3 DEF Refresh, Registered
  <2>2. host[q].id \in Used /\ host'[q] = Load(host[q].id)
    BY <1>3, Finishes DEF Refresh, Codes, Typed, TypeOK
  <2>3. ~ IdsReused => host[q].id < nextId
    BY <2>2 DEF Fresh
  <2>4. QED
    BY <2>1, <2>2, <2>3 DEF Load, Used
<1>4. QED
  BY <1>1, <1>2, <1>3, OnlyTheActor, ReachesAudit

\* A DELETE stays a DELETE, and nothing else becomes one.
LEMMA DeletesStep == Typed /\ Deletes /\ [Next]_vars => Deletes'
<1> SUFFICES ASSUME Typed, Deletes, [Next]_vars, NEW r \in Reqs,
                    pc'[r] \in {"lookup", "remove", "auditDelete"}
             PROVE  job'[r].op = "delete"
  BY DEF Deletes
<1> USE RegistryAssumption DEF RegistryAssumption
<1>1. r \in Procs /\ r \notin Workers
  BY Zenon DEF Procs
<1>2. CASE pc'[r] = pc[r] /\ job'[r] = job[r]
  BY <1>2 DEF Deletes
<1>3. CASE Accept(r)
  <2>1. PICK j \in Bodies : /\ job' = [job EXCEPT ![r] = j]
                            /\ Goto(r, IF j.op = "delete" THEN "lookup" ELSE "probe")
    BY <1>3 DEF Accept
  <2>2. job'[r] = j
    BY <1>1, <2>1 DEF Typed, TypeOK
  <2>3. pc'[r] = IF j.op = "delete" THEN "lookup" ELSE "probe"
    BY <1>1, <2>1 DEF Goto, Typed, TypeOK
  <2>4. QED
    BY <2>2, <2>3
<1>4. CASE Lookup(r) \/ Remove(r) \/ AuditDelete(r)
  BY <1>4 DEF Deletes, Lookup, Remove, AuditDelete
<1>5. CASE Acts(r) /\ ~ (Accept(r) \/ Lookup(r) \/ Remove(r) \/ AuditDelete(r))
  <2> DEFINE Leaves == \/ \E l \in Locations \ {"lookup", "remove", "auditDelete"} : Goto(r, l)
                       \/ \E l \in Locations \ {"lookup", "remove", "auditDelete"} :
                            Continue(r, l)
                       \/ \E c \in Codes : Finish(r, c)
  <2>1. ~ Leaves
    BY <1>1, Waits, Continues, Finishes
  <2> USE DEF Locations, Statements, Codes
  <2>2. WrongState(r) => Leaves
    BY DEF WrongState
  <2>3. Preseed(r) => Leaves
    BY DEF Preseed
  <2>4. PreseedFails(r) => Leaves
    BY DEF PreseedFails
  <2>5. Audit(r) => Leaves
    <3>1. Audit(r) => Finish(r, 201) \/ Finish(r, 500)
      BY DEF Audit
    <3>2. QED
      BY <3>1
  <2>6. ProbeFails(r) => Leaves
    BY DEF ProbeFails
  <2>7. ProbeAnswers(r) => Leaves
    BY DEF ProbeAnswers
  <2>8. CheckExisting(r) => Leaves
    BY DEF CheckExisting
  <2>9. CheckName(r) => Leaves
    <3>1. CheckName(r) => Continue(r, "address") \/ Finish(r, 409)
      BY DEF CheckName, Conflict
    <3>2. QED
      BY <3>1
  <2>10. CheckAddress(r) => Leaves
    <3>1. CheckAddress(r) => Continue(r, "insert") \/ Finish(r, 409)
      BY DEF CheckAddress, Conflict
    <3>2. QED
      BY <3>1
  <2>11. Insert(r) => Leaves
    <3>1. Insert(r) => Continue(r, "refresh") \/ Finish(r, 500)
      BY DEF Insert
    <3>2. QED
      BY <3>1
  <2>12. Refresh(r) => Leaves
    <3>1. Refresh(r) => Continue(r, "audit") \/ Finish(r, 200) \/ Finish(r, 500)
      BY DEF Refresh
    <3>2. QED
      BY <3>1
  <2> HIDE DEF Leaves
  <2>13. QED
    BY <1>1, <1>5, <2>1, <2>2, <2>3, <2>4, <2>5, <2>6, <2>7, <2>8, <2>9, <2>10, <2>11, <2>12
       DEF Acts, Request, Register
<1>6. QED
  BY <1>1, <1>2, <1>3, <1>4, <1>5, OnlyTheActor

\* The entry of a failed request.
Failure(r) == [by |-> r, op |-> job[r].op, ok |-> FALSE, name |-> job[r].name,
               addr |-> job[r].addr, host |-> 0]

\* The entry of a registration.
Success(r) == [by |-> r, op |-> job[r].op, ok |-> TRUE, name |-> host[r].name,
               addr |-> host[r].addr, host |-> host[r].id]

\* The entry of a DELETE.
Deletion(r) == [by |-> r, op |-> job[r].op, ok |-> TRUE, name |-> host[r].name,
                addr |-> host[r].addr, host |-> 0]

\* How a step changes the trail: a failure, a success, a DELETE that forgets
\* the row, the entry about it, or not at all.
LEMMA TrailChanges ==
  ASSUME Typed, [Next]_vars
  PROVE  \/ audit' = audit /\ ~ \E r \in Reqs : Remove(r)
         \/ \E r \in Reqs : pc[r] # "idle" /\ SameTable /\ audit' = audit \cup {Failure(r)}
         \/ \E r \in Reqs : /\ pc[r] = "audit" /\ host[r].id \in Used
                            /\ SameTable /\ audit' = audit \cup {Success(r)}
         \/ \E r \in Reqs : Remove(r)
         \/ \E r \in Reqs : /\ pc[r] = "auditDelete"
                            /\ SameTable /\ audit' = audit \cup {Deletion(r)}
<1> DEFINE Fails == \E r \in Reqs : /\ pc[r] # "idle" /\ SameTable
                                    /\ audit' = audit \cup {Failure(r)}
           Goal == \/ audit' = audit
                   \/ Fails
                   \/ \E r \in Reqs : /\ pc[r] = "audit" /\ host[r].id \in Used
                                      /\ SameTable /\ audit' = audit \cup {Success(r)}
                   \/ \E r \in Reqs : Remove(r)
                   \/ \E r \in Reqs : /\ pc[r] = "auditDelete"
                                      /\ SameTable /\ audit' = audit \cup {Deletion(r)}
<1>1. ASSUME NEW p \in Procs, pc[p] \in Statements, SameTable,
             \/ audit' = audit
             \/ /\ job[p].op \in {"create", "cluster"}
                /\ Record(p, FALSE, job[p].name, job[p].addr, 0)
      PROVE  audit' = audit \/ Fails
  <2>1. CASE audit' = audit
    BY <2>1
  <2>2. CASE /\ job[p].op \in {"create", "cluster"}
             /\ Record(p, FALSE, job[p].name, job[p].addr, 0)
    <3>1. p \in Reqs /\ pc[p] # "idle"
      BY <1>1, <2>2, BootsHaveJobs DEF Procs, Statements
    <3>2. audit' = audit \cup {Failure(p)}
      BY <2>2 DEF Record, Failure
    <3>3. QED
      BY <1>1, <3>1, <3>2
  <2>3. QED
    BY <1>1, <2>1, <2>2
<1>2. ASSUME NEW p \in Procs, ProbeFails(p) PROVE Goal
  BY <1>1, <1>2 DEF ProbeFails, Statements, SameTable
<1>3. ASSUME NEW p \in Procs, CheckName(p) PROVE Goal
  BY <1>1, <1>3 DEF CheckName, Conflict, Statements, SameTable
<1>4. ASSUME NEW p \in Procs, CheckAddress(p) PROVE Goal
  BY <1>1, <1>4 DEF CheckAddress, Conflict, Statements, SameTable
<1>5. ASSUME NEW r \in Reqs, PreseedFails(r) PROVE Goal
  BY <1>5 DEF PreseedFails, Record, Failure, SameTable
<1>6. ASSUME NEW r \in Reqs, Audit(r) PROVE Goal
  <2>1. SameTable
    BY <1>6 DEF Audit, SameTable
  <2>2. CASE host[r].id \in Used
    BY <1>6, <2>1, <2>2 DEF Audit, Record, Success
  <2>3. CASE host[r].id \notin Used
    BY <1>6, <2>3 DEF Audit
  <2>4. QED
    BY <2>2, <2>3
<1>7. ASSUME NEW r \in Reqs, AuditDelete(r) PROVE Goal
  <2>1. SameTable /\ pc[r] = "auditDelete" /\ audit' = audit \cup {Deletion(r)}
    BY <1>7 DEF AuditDelete, Record, Deletion, SameTable
  <2>2. QED
    BY <2>1
<1>8. ASSUME NEW p \in Procs, ProbeAnswers(p) \/ CheckExisting(p) \/ Insert(p) \/ Refresh(p)
      PROVE  Goal
  BY <1>8 DEF ProbeAnswers, CheckExisting, Insert, Refresh
<1>9. ASSUME NEW r \in Reqs, Accept(r) \/ WrongState(r) \/ Preseed(r) \/ Lookup(r)
      PROVE  Goal
  BY <1>9 DEF Accept, WrongState, Preseed, Lookup
<1>10. ASSUME NEW w \in Workers, Boot(w) \/ Reactivate(w) \/ Crash(w) PROVE Goal
  BY <1>10 DEF Boot, Reactivate, Crash
<1>11. ASSUME NEW i \in Ids, Disable(i) PROVE Goal
  BY <1>11 DEF Disable
<1>12. ASSUME NEW r \in Reqs, Remove(r) PROVE Goal
  BY <1>12
<1>13. ASSUME UNCHANGED vars PROVE Goal
  BY <1>13 DEF vars
<1>14. Goal => \/ audit' = audit /\ ~ \E r \in Reqs : Remove(r)
               \/ Fails
               \/ \E r \in Reqs : /\ pc[r] = "audit" /\ host[r].id \in Used
                                  /\ SameTable /\ audit' = audit \cup {Success(r)}
               \/ \E r \in Reqs : Remove(r)
               \/ \E r \in Reqs : /\ pc[r] = "auditDelete"
                                  /\ SameTable /\ audit' = audit \cup {Deletion(r)}
  OBVIOUS
<1> HIDE DEF Goal
<1>15. Goal
  BY <1>2, <1>3, <1>4, <1>5, <1>6, <1>7, <1>8, <1>9, <1>10, <1>11, <1>12, <1>13
     DEF Next, Request, Register
<1>16. QED
  BY <1>14, <1>15

\* What an entry says of the host it names, of the request it is about.
Attributed(e) == e.host # 0 => e.host \in Used /\ hosts[e.host].addr = e.addr
Telling(e) ==
  e.ok /\ e.op # "delete" => e.name = job[e.by].name /\ e.addr = job[e.by].addr

\* The entries there are stay true.
LEMMA EntriesStayTrue ==
  ASSUME Typed, Fresh, Requested, [Next]_vars, NEW e \in audit,
         Attributed(e), Telling(e), \A r \in Reqs : Remove(r) => e.host # host[r].id
  PROVE  Attributed(e)' /\ Telling(e)' /\ pc'[e.by] # "idle"
<1>1. e.by \in Reqs /\ e.host \in Ids \cup {0}
  BY DEF Typed, TypeOK, Entry
<1>2. pc'[e.by] # "idle" /\ job'[e.by] = job[e.by]
  BY <1>1, RequestsStay DEF Requested
<1>3. Telling(e)'
  BY <1>2 DEF Telling
<1>4. Attributed(e)'
  <2>1. CASE SameTable
    BY <2>1 DEF SameTable, Attributed, Used
  <2>2. ASSUME NEW k \in Used, NEW b \in BOOLEAN, Switched(k, b) PROVE Attributed(e)'
    BY <2>2, SwitchedRow DEF Attributed, Used
  <2>3. ASSUME NEW r \in Reqs, Remove(r), Removed(host[r].id) PROVE Attributed(e)'
    <3>1. e.host # 0 => hosts'[e.host] = hosts[e.host]
      BY <1>1, <2>3 DEF Removed, Typed, TypeOK
    <3>2. QED
      BY <3>1 DEF Attributed, Used
  <2>4. ASSUME NEW p \in Procs, NEW k \in Ids, Inserted(p, k) PROVE Attributed(e)'
    <3>1. k \notin Used
      BY <2>4, NewIdIsFree DEF Inserted
    <3>2. \A x \in Ids : x # k => hosts'[x] = hosts[x]
      BY <2>4, InsertedRow
    <3>3. QED
      BY <3>1, <3>2 DEF Attributed, Used
  <2>5. QED
    BY <2>1, <2>2, <2>3, <2>4, TableChanges
<1>5. QED
  BY <1>2, <1>3, <1>4

Truthful == \A e \in audit : Attributed(e) /\ Telling(e) /\ pc[e.by] # "idle"

\* Every step leaves a trail that is true.
LEMMA TruthfulStep ==
  ASSUME Typed, Fresh, Registered, Deletes, Truthful, [Next]_vars
  PROVE  Truthful'
<1> USE RegistryAssumption DEF RegistryAssumption
<1>0. Requested
  BY DEF Requested, Truthful
<1>1. ASSUME ~ \E r \in Reqs : Remove(r), NEW e \in audit
      PROVE  Attributed(e)' /\ Telling(e)' /\ pc'[e.by] # "idle"
  BY <1>0, <1>1, EntriesStayTrue DEF Truthful
<1>2. CASE audit' = audit /\ ~ \E r \in Reqs : Remove(r)
  BY <1>1, <1>2 DEF Truthful
<1>3. ASSUME NEW r \in Reqs, Remove(r) PROVE Truthful'
  <2> DEFINE i == host[r].id
             Forgot(e) == [e EXCEPT !.host = IF @ = i THEN 0 ELSE @]
  <2>1. audit' = {Forgot(e) : e \in audit}
    BY <1>3 DEF Remove, Forget
  <2>2. /\ Removed(i) /\ i \in Ids
        /\ job' = job
    BY <1>3 DEF Remove, Removed, Typed, Shape, HoldsRow, Loaded, Procs
  <2>3. \A x \in Ids : x # i => hosts'[x] = hosts[x]
    BY <2>2 DEF Removed, Typed, TypeOK
  <2>4. ASSUME NEW f \in audit'
        PROVE  Attributed(f)' /\ Telling(f)' /\ pc'[f.by] # "idle"
    <3>0. PICK e \in audit : f = Forgot(e)
      BY <2>1
    <3>1. /\ e \in Entry /\ e.by \in Reqs
          /\ Attributed(e) /\ Telling(e) /\ pc[e.by] # "idle"
      BY DEF Typed, TypeOK, Entry, Truthful
    <3>2. /\ f.by = e.by /\ f.ok = e.ok /\ f.op = e.op
          /\ f.name = e.name /\ f.addr = e.addr
          /\ f.host = IF e.host = i THEN 0 ELSE e.host
      BY <3>0, <3>1 DEF Entry
    <3>3. pc'[e.by] # "idle" /\ job'[e.by] = job[e.by]
      BY <3>1, RequestsStay
    <3> HIDE DEF Forgot, i
    <3>4. Attributed(f)'
      BY <2>2, <2>3, <3>1, <3>2 DEF Attributed, Used
    <3>5. Telling(f)'
      BY <3>1, <3>2, <3>3 DEF Telling
    <3>6. QED
      BY <3>2, <3>3, <3>4, <3>5
  <2>5. QED
    BY <2>4 DEF Truthful
<1>5. ASSUME NEW r \in Reqs, NEW f, SameTable, audit' = audit \cup {f},
             ~ \E q \in Reqs : Remove(q),
             f.by = r, pc[r] # "idle",
             f.host # 0 => f.host \in Used /\ hosts[f.host].addr = f.addr,
             f.ok /\ f.op # "delete" => f.name = job[r].name /\ f.addr = job[r].addr
      PROVE  Truthful'
  <2>1. pc'[r] # "idle" /\ job'[r] = job[r]
    BY <1>5, RequestsStay
  <2>2. Attributed(f)'
    BY <1>5 DEF SameTable, Attributed, Used
  <2>3. Telling(f)'
    BY <1>5, <2>1 DEF Telling
  <2>4. QED
    BY <1>1, <1>5, <2>1, <2>2, <2>3 DEF Truthful
<1>6. CASE \E r \in Reqs : Remove(r)
  BY <1>3, <1>6
<1>7. ASSUME NEW r \in Reqs, ~ \E q \in Reqs : Remove(q),
             pc[r] # "idle", SameTable, audit' = audit \cup {Failure(r)}
      PROVE  Truthful'
  <2>1. Failure(r).by = r /\ Failure(r).host = 0 /\ ~ Failure(r).ok
    BY DEF Failure
  <2>2. QED
    BY <1>5, <1>7, <2>1
<1>8. ASSUME NEW r \in Reqs, ~ \E q \in Reqs : Remove(q),
             pc[r] = "audit", host[r].id \in Used, SameTable,
             audit' = audit \cup {Success(r)}
      PROVE  Truthful'
  <2>1. /\ Success(r).by = r /\ Success(r).host = host[r].id
        /\ Success(r).name = host[r].name /\ Success(r).addr = host[r].addr
    BY DEF Success
  <2>2. RegisteredAs(r)
    BY <1>8 DEF Registered, Procs
  <2>3. QED
    BY <1>5, <1>8, <2>1, <2>2 DEF RegisteredAs
<1>9. ASSUME NEW r \in Reqs, ~ \E q \in Reqs : Remove(q),
             pc[r] = "auditDelete", SameTable, audit' = audit \cup {Deletion(r)}
      PROVE  Truthful'
  <2>1. Deletion(r).by = r /\ Deletion(r).host = 0 /\ Deletion(r).op = "delete"
    BY <1>9 DEF Deletion, Deletes
  <2>2. QED
    BY <1>5, <1>9, <2>1
<1>10. QED
  BY <1>2, <1>6, <1>7, <1>8, <1>9, TrailChanges

TrailInv == Typed /\ LoopHeld /\ Fresh /\ Registered /\ Deletes /\ Truthful

\* The invariant of the trail, for ids that stay put.
LEMMA TrailInvariant == IdsStayPut => (Spec => []TrailInv)
<1> SUFFICES ASSUME IdsStayPut PROVE Spec => []TrailInv
  OBVIOUS
<1>1. Init => TrailInv
  <2>1. Init => Typed
    BY InitTyped
  <2>2. Init => \A q \in Procs : pc[q] \in {"down", "idle"}
    BY DEF Init
  <2>3. Init => \A x \in Ids : hosts[x] = NoRow
    BY DEF Init
  <2>4. Init => audit = {}
    BY DEF Init
  <2>5. QED
    BY <2>1, <2>2, <2>3, <2>4
       DEF TrailInv, LoopHeld, Critical, Fresh, Used, Registered, Deletes, Truthful, Procs
<1>2. TrailInv /\ [Next]_vars => TrailInv'
  BY StepTyped, LoopStep, FreshStep, RegisteredStep, DeletesStep, TruthfulStep DEF TrailInv
<1>3. QED
  BY <1>1, <1>2, PTL DEF Spec

\* With one worker, or with ids that are never handed out again, however the
\* requests of any number of workers interleave and crash, an audit row that
\* names a host names the one it is about.  (With the reused ids of SQLite and
\* two workers it does not: the row of a registration is removed and another
\* takes its id before the registration is in the trail.)
THEOREM TrailNamesTheHost == IdsStayPut => (Spec => []AuditAttribution)
<1>1. TrailInv => AuditAttribution
  BY DEF TrailInv, Truthful, Attributed, AuditAttribution
<1>2. QED
  BY <1>1, TrailInvariant, PTL

\* Under the same condition the trail of a registration tells what was asked
\* for, although name and address are read back from the table after the
\* commit.
THEOREM TrailTellsTheRequest == IdsStayPut => (Spec => []AuditTellsTheRequest)
<1>1. TrailInv => AuditTellsTheRequest
  BY DEF TrailInv, Truthful, Telling, AuditTellsTheRequest
<1>2. QED
  BY <1>1, TrailInvariant, PTL
=============================================================================
