----------------------------- MODULE WorkerProofs -----------------------------
(***************************************************************************)
(* That the pool is not exceeded and an operation keeps its connection, for *)
(* any number of requests and connections.                                 *)
(***************************************************************************)
EXTENDS Worker, FiniteSetTheorems, TLAPS

\* What the steps of Worker apply to a request.
Functions ==
  /\ phase \in [Requests -> Phases] /\ own \in [Requests -> BOOLEAN]
  /\ DOMAIN rest = Requests

\* An operation has either not authenticated, or it is between authentication and
\* audit entry and has a connection unless its session is being closed, or it is
\* through.
Kept(q) ==
  \/ /\ rest[q] = <<"auth", "await", "audit">>
     /\ phase[q] \in {"new", "thread", "closing", "over"}
  \/ /\ rest[q] \in {<<"await", "audit">>, <<"audit">>}
     /\ phase[q] \in {"ready", "running", "away"} /\ own[q]
  \/ /\ rest[q] \in {<<"await", "audit">>, <<"audit">>}
     /\ phase[q] \in {"closing", "over"}
  \/ /\ rest[q] = <<>>
     /\ phase[q] \in {"ready", "running", "away", "closing", "over"}

Connections == Functions /\ \A q \in Requests : kind[q] = "operation" => Kept(q)

\* At the start nothing has a connection and every operation is new.
LEMMA ConnectionsInit == Init => Connections
  BY DEF Init, Connections, Functions, Kept, Phases, Endpoints, Kinds

Step(r) == Arrive(r) \/ Thread(r) \/ Resume(r) \/ Run(r) \/ Wake(r) \/ Fail(r)

\* What a step of another request leaves to q.
SameFor(q) == rest'[q] = rest[q] /\ phase'[q] = phase[q] /\ own'[q] = own[q]

\* Heads and tails of the steps of an operation.
LEMMA OperationSteps ==
  /\ Head(<<"auth", "await", "audit">>) = "auth"
  /\ Tail(<<"auth", "await", "audit">>) = <<"await", "audit">>
  /\ Head(<<"await", "audit">>) = "await" /\ Tail(<<"await", "audit">>) = <<"audit">>
  /\ Head(<<"audit">>) = "audit" /\ Tail(<<"audit">>) = <<>>
  /\ <<"auth", "await", "audit">> # <<>> /\ <<"await", "audit">> # <<>> /\ <<"audit">> # <<>>
  OBVIOUS

\* A step of one request leaves all that the others have.
LEMMA OneAtATime ==
  ASSUME Functions, NEW r \in Requests, Step(r)
  PROVE  kind' = kind /\ Functions' /\ \A q \in Requests \ {r} : SameFor(q)
<1> USE DEF Functions, Phases, Goes, Holds, Proceed, SameFor
<1>1. CASE Arrive(r)
  BY <1>1 DEF Arrive
<1>2. CASE Authenticate(r)
  BY <1>2 DEF Authenticate
<1>3. CASE TimeOutInThread(r)
  BY <1>3 DEF TimeOutInThread
<1>4. CASE Close(r)
  BY <1>4 DEF Close
<1>5. CASE Resume(r)
  BY <1>5 DEF Resume
<1>6. CASE Select(r) \/ Commit(r) \/ Refuse(r) \/ Second(r)
  BY <1>6 DEF Select, Commit, Refuse, Second
<1>7. CASE TimeOut(r) \/ Await(r) \/ Return(r)
  BY <1>7 DEF TimeOut, Await, Return
<1>8. CASE Wake(r) \/ Fail(r)
  BY <1>8 DEF Wake, Fail
<1> QED
  BY <1>1, <1>2, <1>3, <1>4, <1>5, <1>6, <1>7, <1>8 DEF Step, Thread, Run

\* A step of an operation keeps its connection or ends it.
LEMMA OperationStep ==
  ASSUME Functions, NEW r \in Requests, Step(r), kind[r] = "operation", Kept(r)
  PROVE  Kept(r)'
<1> USE OperationSteps DEF Functions, Phases, Goes, Holds, Proceed, At, Kept
<1>1. CASE Arrive(r)
  BY <1>1 DEF Arrive
<1>2. CASE Authenticate(r)
  BY <1>2 DEF Authenticate
<1>3. CASE TimeOutInThread(r)
  BY <1>3 DEF TimeOutInThread
<1>4. CASE Close(r)
  BY <1>4 DEF Close
<1>5. CASE Resume(r)
  BY <1>5 DEF Resume
<1>6. CASE Select(r) \/ Second(r) \/ Refuse(r)
  BY <1>6 DEF Select, Second, Refuse
<1>7. CASE Commit(r)
  BY <1>7 DEF Commit
<1>8. CASE TimeOut(r)
  BY <1>8 DEF TimeOut, Stalled
<1>9. CASE Await(r)
  BY <1>9 DEF Await
<1>10. CASE Return(r)
  BY <1>10 DEF Return
<1>11. CASE Wake(r) \/ Fail(r)
  BY <1>11 DEF Wake, Fail
<1> QED
  BY <1>1, <1>2, <1>3, <1>4, <1>5, <1>6, <1>7, <1>8, <1>9, <1>10, <1>11
  DEF Step, Thread, Run

\* The invariant is inductive.
LEMMA ConnectionsStep == Connections /\ [Next]_vars => Connections'
<1> SUFFICES ASSUME Connections, [Next]_vars PROVE Connections'
  OBVIOUS
<1>1. ASSUME NEW r \in Requests, Step(r) PROVE Connections'
  <2>1. kind' = kind /\ Functions' /\ \A p \in Requests \ {r} : SameFor(p)
    BY <1>1, OneAtATime DEF Connections
  <2>2. ASSUME NEW q \in Requests, kind'[q] = "operation" PROVE Kept(q)'
    <3>1. CASE q = r
      BY <1>1, <2>1, <2>2, <3>1, OperationStep DEF Connections
    <3>2. CASE q # r
      BY <2>1, <2>2, <3>2 DEF Connections, SameFor, Kept
    <3> QED
      BY <3>1, <3>2
  <2> QED
    BY <2>1, <2>2 DEF Connections
<1>2. CASE UNCHANGED vars
  BY <1>2 DEF vars, Connections, Functions, Kept
<1> QED
  BY <1>1, <1>2 DEF Next, Step

\* An operation never stalls the event loop (get_current_user, record_and_notify).
THEOREM OperationsNeverStall == Spec => []OperationsKeepTheirConnection
<1>1. Connections => OperationsKeepTheirConnection
  BY DEF Connections, Kept, OperationsKeepTheirConnection, Stalled, At
<1> QED
  BY <1>1, ConnectionsInit, ConnectionsStep, PTL DEF Spec

(***************************************************************************)
(* The loop and the pool                                                   *)
(***************************************************************************)
Owners == {r \in Requests : own[r]}

\* The steps that are left: one of them at least for who authenticates.
Queued(r) ==
  /\ rest[r] \in Seq(Steps) /\ Len(rest[r]) <= 4
  /\ phase[r] = "thread" => rest[r] # <<>>

OneRuns == \A r, s \in Requests : phase[r] = "running" /\ phase[s] = "running" => r = s

PoolInv ==
  /\ Functions
  /\ kind \in [Requests -> Kinds] /\ starved \in [Requests -> BOOLEAN]
  /\ \A r \in Requests : Queued(r)
  /\ OneRuns
  /\ IsFiniteSet(Owners) /\ Cardinality(Owners) <= Size

\* At the start nobody has a connection, and every endpoint has its steps.
LEMMA PoolInit == ASSUME Init PROVE PoolInv
<1>1. ASSUME NEW k \in Kinds PROVE Endpoints[k] \in Seq(Steps) /\ Len(Endpoints[k]) <= 4
  <2>1. k \in {"operation", "listing", "registration", "removal", "stats", "login", "console"}
    BY DEF Kinds, Endpoints
  <2>2. /\ <<"auth", "await", "audit">> \in Seq(Steps) /\ <<"auth", "await">> \in Seq(Steps)
        /\ <<"auth", "await", "write", "audit">> \in Seq(Steps)
        /\ <<"auth", "write", "audit">> \in Seq(Steps)
        /\ <<"auth", "second", "await">> \in Seq(Steps)
        /\ <<"audit">> \in Seq(Steps) /\ <<"select", "shell">> \in Seq(Steps)
    BY DEF Steps
  <2>3. Endpoints[k] \in
          {<<"auth", "await", "audit">>, <<"auth", "await">>, <<"auth", "await", "write", "audit">>,
           <<"auth", "write", "audit">>, <<"auth", "second", "await">>, <<"audit">>,
           <<"select", "shell">>}
    BY <2>1 DEF Endpoints
  <2>4. Len(Endpoints[k]) <= 4
    <3>1. /\ Len(<<"auth", "await", "audit">>) <= 4 /\ Len(<<"auth", "await">>) <= 4
          /\ Len(<<"auth", "await", "write", "audit">>) <= 4
          /\ Len(<<"auth", "write", "audit">>) <= 4 /\ Len(<<"auth", "second", "await">>) <= 4
          /\ Len(<<"audit">>) <= 4 /\ Len(<<"select", "shell">>) <= 4
      OBVIOUS
    <3> QED
      BY <2>3, <3>1, Zenon
  <2> QED
    BY <2>2, <2>3, <2>4, Zenon
<1>2. /\ kind \in [Requests -> Kinds]
      /\ \A r \in Requests : phase[r] = "new" /\ rest[r] = Endpoints[kind[r]] /\ ~ own[r]
  BY DEF Init
<1>3. \A r \in Requests : Queued(r)
  BY <1>1, <1>2 DEF Queued
<1>4. Owners = {}
  BY <1>2 DEF Owners
<1>5. IsFiniteSet(Owners) /\ Cardinality(Owners) <= Size
  BY <1>4, FS_EmptySet, WorkerAssumption DEF WorkerAssumption
<1>6. Functions /\ starved \in [Requests -> BOOLEAN] /\ OneRuns
  BY <1>2 DEF Init, Functions, Phases, OneRuns
<1> QED
  BY <1>2, <1>3, <1>5, <1>6 DEF PoolInv

\* A connection is taken while there is one, and given back.
LEMMA PoolBound ==
  ASSUME Functions, IsFiniteSet(Owners), Cardinality(Owners) <= Size, NEW r \in Requests,
         NEW b \in BOOLEAN, Holds(r, b), b => own[r] \/ Cardinality(Owners) < Size
  PROVE  IsFiniteSet(Owners') /\ Cardinality(Owners') <= Size
<1>1. own' = [own EXCEPT ![r] = b] /\ own \in [Requests -> BOOLEAN]
  BY DEF Holds, Functions
<1>2. Size \in Nat /\ Cardinality(Owners) \in Nat
  BY WorkerAssumption, FS_CardinalityType DEF WorkerAssumption
<1>3. CASE ~ b
  <2>1. Owners' \subseteq Owners
    BY <1>1, <1>3 DEF Owners
  <2>2. IsFiniteSet(Owners') /\ Cardinality(Owners') <= Cardinality(Owners)
    BY <2>1, FS_Subset
  <2>3. Cardinality(Owners') \in Nat
    BY <2>2, FS_CardinalityType
  <2> QED
    BY <1>2, <2>2, <2>3
<1>4. CASE b /\ own[r]
  <2>1. Owners' = Owners
    BY <1>1, <1>4 DEF Owners
  <2> QED
    BY <2>1
<1>5. CASE b /\ ~ own[r]
  <2>1. Owners' = Owners \cup {r} /\ r \notin Owners
    BY <1>1, <1>5 DEF Owners
  <2>2. IsFiniteSet(Owners') /\ Cardinality(Owners') = Cardinality(Owners) + 1
    BY <2>1, FS_AddElement
  <2> QED
    BY <1>2, <1>5, <2>2
<1> QED
  BY <1>3, <1>4, <1>5

\* What is left of the steps after the first one.
LEMMA Tails ==
  ASSUME NEW s \in Seq(Steps), s # <<>>, Len(s) <= 4
  PROVE  Tail(s) \in Seq(Steps) /\ Len(Tail(s)) <= 4
<1>1. Tail(s) \in Seq(Steps) /\ Len(Tail(s)) = Len(s) - 1 /\ Len(s) \in Nat
  OBVIOUS
<1> QED
  BY <1>1

\* What a step may do to the pool and the loop.
Pooled(r) ==
  /\ own' = own \/ Holds(r, FALSE) \/ (Holds(r, TRUE) /\ (own[r] \/ Cardinality(Owners) < Size))
  /\ phase'[r] = "running" => phase[r] = "running" \/ LoopIsFree
  /\ starved' \in [Requests -> BOOLEAN]

\* Every step of a request keeps its steps a sequence, the pool and the loop.
LEMMA StepPooled ==
  ASSUME PoolInv, NEW r \in Requests, Step(r)
  PROVE  Queued(r)' /\ Pooled(r)
<1> USE DEF Goes, Proceed, Pooled
<1>0. /\ phase \in [Requests -> Phases] /\ DOMAIN rest = Requests
      /\ starved \in [Requests -> BOOLEAN]
      /\ rest[r] \in Seq(Steps) /\ Len(rest[r]) <= 4
      /\ phase[r] = "thread" => rest[r] # <<>>
      /\ rest[r] # <<>> => Tail(rest[r]) \in Seq(Steps) /\ Len(Tail(rest[r])) <= 4
  BY Tails DEF PoolInv, Functions, Queued
<1>1. Out = Cardinality(Owners)
  BY DEF Out, Owners
<1>2. ASSUME rest' = rest, phase'[r] # "thread" \/ rest[r] # <<>> PROVE Queued(r)'
  BY <1>0, <1>2 DEF Queued
<1>3. ASSUME rest' = [rest EXCEPT ![r] = Tail(@)], rest[r] # <<>>, phase'[r] # "thread"
      PROVE  Queued(r)'
  <2>1. rest'[r] = Tail(rest[r])
    BY <1>0, <1>3
  <2> QED
    BY <1>0, <1>3, <2>1 DEF Queued
<1>4. CASE Arrive(r)
  BY <1>0, <1>2, <1>4 DEF Arrive, At
<1>5. CASE Authenticate(r)
  <2>1. Pooled(r) /\ phase'[r] \in {"ready", "closing"}
    BY <1>0, <1>1, <1>5 DEF Authenticate
  <2>2. Queued(r)'
    BY <1>0, <1>2, <1>3, <1>5, <2>1 DEF Authenticate
  <2> QED
    BY <2>1, <2>2
<1>6. CASE TimeOutInThread(r)
  BY <1>0, <1>2, <1>6 DEF TimeOutInThread
<1>7. CASE Close(r)
  BY <1>0, <1>2, <1>7 DEF Close
<1>8. CASE Resume(r)
  BY <1>0, <1>2, <1>8 DEF Resume
<1>9. CASE Select(r) \/ Commit(r) \/ Second(r)
  <2>1. /\ phase' = phase /\ phase[r] = "running" /\ starved' = starved
        /\ rest' = [rest EXCEPT ![r] = Tail(@)] /\ rest[r] # <<>>
    BY <1>9 DEF Select, Commit, Second, At
  <2>2. Pooled(r)
    BY <1>0, <1>1, <1>9, <2>1 DEF Select, Commit, Second, Connected
  <2> QED
    BY <1>3, <2>1, <2>2
<1>10. CASE Refuse(r)
  <2>1. /\ phase' = phase /\ phase[r] = "running" /\ starved' = starved /\ rest[r] # <<>>
        /\ rest' = [rest EXCEPT ![r] = IF kind[r] = "registration" THEN Tail(@) ELSE <<>>]
    BY <1>10 DEF Refuse, At
  <2>2. Pooled(r)
    BY <1>0, <1>1, <1>10, <2>1 DEF Refuse, Connected
  <2>3. rest'[r] = Tail(rest[r]) \/ rest'[r] = <<>>
    BY <1>0, <2>1
  <2>4. Queued(r)'
    BY <1>0, <2>1, <2>3 DEF Queued
  <2> QED
    BY <2>2, <2>4
<1>11. CASE TimeOut(r) \/ Return(r)
  BY <1>0, <1>2, <1>11 DEF TimeOut, Return
<1>12. CASE Await(r)
  <2>1. rest[r] # <<>> /\ phase'[r] = "away" /\ own' = own /\ starved' = starved
        /\ rest' = [rest EXCEPT ![r] = Tail(@)]
    BY <1>0, <1>12 DEF Await, At
  <2> QED
    BY <1>0, <1>3, <2>1
<1>13. CASE Wake(r)
  BY <1>0, <1>2, <1>13 DEF Wake
<1>14. CASE Fail(r)
  <2>1. phase'[r] = "ready" /\ own' = own /\ starved' = starved
        /\ rest' = [rest EXCEPT ![r] = IF kind[r] = "registration" THEN <<"audit">> ELSE <<>>]
    BY <1>0, <1>14 DEF Fail
  <2>2. rest'[r] = <<"audit">> \/ rest'[r] = <<>>
    BY <1>0, <2>1
  <2>3. /\ <<"audit">> \in Seq(Steps) /\ Len(<<"audit">>) <= 4
        /\ <<>> \in Seq(Steps) /\ Len(<<>>) <= 4
    BY DEF Steps
  <2>4. Queued(r)'
    BY <2>1, <2>2, <2>3, Zenon DEF Queued
  <2> QED
    BY <1>0, <2>1, <2>4
<1> QED
  BY <1>4, <1>5, <1>6, <1>7, <1>8, <1>9, <1>10, <1>11, <1>12, <1>13, <1>14 DEF Step, Thread, Run

\* The invariant of the pool is inductive.
LEMMA PoolStep == ASSUME PoolInv, [Next]_vars PROVE PoolInv'
<1>1. ASSUME NEW r \in Requests, Step(r) PROVE PoolInv'
  <2>1. kind' = kind /\ Functions' /\ \A p \in Requests \ {r} : SameFor(p)
    BY <1>1, OneAtATime DEF PoolInv
  <2>2. Queued(r)' /\ Pooled(r)
    BY <1>1, StepPooled
  <2>3. \A p \in Requests : Queued(p)'
    BY <2>1, <2>2 DEF PoolInv, SameFor, Queued
  <2>4. OneRuns'
    BY <2>1, <2>2 DEF PoolInv, OneRuns, Pooled, SameFor, LoopIsFree
  <2>5. IsFiniteSet(Owners') /\ Cardinality(Owners') <= Size
    <3>1. CASE own' = own
      BY <3>1 DEF PoolInv, Owners
    <3>2. CASE own' # own
      BY <2>2, <3>2, PoolBound DEF PoolInv, Pooled
    <3> QED
      BY <3>1, <3>2
  <2> QED
    BY <2>1, <2>2, <2>3, <2>4, <2>5 DEF PoolInv, Pooled
<1>2. CASE UNCHANGED vars
  BY <1>2 DEF vars, PoolInv, Functions, Queued, OneRuns, Owners
<1> QED
  BY <1>1, <1>2 DEF Next, Step

\* Every variable has its type, one coroutine of a worker runs at a time, and
\* the pool is never exceeded (QueuePool: pool_size + max_overflow), whatever
\* times out or fails.
THEOREM TypeCorrect == Spec => []TypeOK
<1>1. PoolInv => TypeOK
  <2> SUFFICES ASSUME PoolInv PROVE TypeOK
    OBVIOUS
  <2>1. ASSUME NEW r \in Requests
        PROVE  Len(rest[r]) <= 4 /\ \A i \in 1 .. Len(rest[r]) : rest[r][i] \in Steps
    BY DEF PoolInv, Queued
  <2> QED
    BY <2>1 DEF PoolInv, Functions, OneRuns, Owners, Out, TypeOK
<1>2. Init => PoolInv
  BY PoolInit
<1>3. PoolInv /\ [Next]_vars => PoolInv'
  BY PoolStep
<1> QED
  BY <1>1, <1>2, <1>3, PTL DEF Spec
===============================================================================
