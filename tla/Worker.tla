------------------------------- MODULE Worker --------------------------------
(***************************************************************************)
(* One uvicorn worker: its event loop, its threads and its pool of         *)
(* database connections.                                                   *)
(*                                                                         *)
(* A session checks a connection out with its first statement and gives it *)
(* back with a commit or when it is closed.  get_current_user is a def and *)
(* runs in a thread, which may wait for a connection; the endpoints are    *)
(* async def, so a statement of theirs that has to wait for a connection   *)
(* waits in the event loop, and no coroutine of the worker can go on.      *)
(***************************************************************************)
EXTENDS Naturals, Sequences, FiniteSets

CONSTANTS
  Requests,   \* the requests a worker gets, each once
  Size        \* connections: pool_size + max_overflow

ASSUME WorkerAssumption == Size \in Nat \ {0}

VARIABLES
  kind,       \* what the request asks for
  phase,      \* see Phases
  rest,       \* the steps it has before it
  own,        \* whether its session has a connection
  starved     \* whether a wait for a connection has timed out

vars == <<kind, phase, rest, own, starved>>

\* The steps of an endpoint that matter to loop and pool: a statement in a
\* thread (auth); statements in the loop that keep the connection (select), end
\* with a commit (write, audit) or have a session of their own (second);
\* awaiting LXD (await), or browser and LXD (shell).
Endpoints ==
  [operation    |-> <<"auth", "await", "audit">>,
   listing      |-> <<"auth", "await">>,
   registration |-> <<"auth", "await", "write", "audit">>,
   removal      |-> <<"auth", "write", "audit">>,
   stats        |-> <<"auth", "second", "await">>,
   login        |-> <<"audit">>,
   console      |-> <<"select", "shell">>]

Kinds == DOMAIN Endpoints
Steps == {"auth", "select", "write", "audit", "second", "await", "shell"}

\* not arrived; in a thread before the endpoint; ready to run; the coroutine that
\* has the loop; suspended; in the thread that closes the session; answered
Phases == {"new", "thread", "ready", "running", "away", "closing", "over"}

Out == Cardinality({r \in Requests : own[r]})

LoopIsFree == \A r \in Requests : phase[r] # "running"

At(r, step) == rest[r] # <<>> /\ Head(rest[r]) = step

Goes(r, p) == phase' = [phase EXCEPT ![r] = p]

Holds(r, b) == own' = [own EXCEPT ![r] = b]

Proceed(r) == rest' = [rest EXCEPT ![r] = Tail(@)]

Init ==
  /\ kind \in [Requests -> Kinds]
  /\ phase = [r \in Requests |-> "new"]
  /\ rest = [r \in Requests |-> Endpoints[kind[r]]]
  /\ own = [r \in Requests |-> FALSE]
  /\ starved = [r \in Requests |-> FALSE]

Arrive(r) ==
  /\ phase[r] = "new" /\ LoopIsFree
  /\ Goes(r, IF At(r, "auth") THEN "thread" ELSE "ready")
  /\ UNCHANGED <<kind, rest, own, starved>>

(***************************************************************************)
(* Threads                                                                 *)
(***************************************************************************)
\* Mutant: authentication has a session of its own and closes it.
AuthenticateAndClose(r) ==
  /\ phase[r] = "thread" /\ Out < Size
  /\ Goes(r, "ready") /\ Proceed(r)
  /\ UNCHANGED <<kind, own, starved>>

\* The SELECT of get_current_user, after which the request is let in or refused.
Authenticate(r) ==
  /\ phase[r] = "thread" /\ Out < Size
  /\ Holds(r, TRUE)
  /\ \/ Goes(r, "ready") /\ Proceed(r)
     \/ Goes(r, "closing") /\ UNCHANGED rest
  /\ UNCHANGED <<kind, starved>>

\* pool_timeout is over: TimeoutError, 500.
TimeOutInThread(r) ==
  /\ phase[r] = "thread" /\ Out = Size
  /\ starved' = [starved EXCEPT ![r] = TRUE] /\ Goes(r, "closing")
  /\ UNCHANGED <<kind, rest, own>>

\* Mutant: an exception passes by the close.
CloseUnlessStarved(r) ==
  /\ phase[r] = "closing"
  /\ Goes(r, "over") /\ Holds(r, own[r] /\ starved[r])
  /\ UNCHANGED <<kind, rest, starved>>

\* The finally of get_db.  It needs no loop to be through.
Close(r) ==
  /\ phase[r] = "closing"
  /\ Goes(r, "over") /\ Holds(r, FALSE)
  /\ UNCHANGED <<kind, rest, starved>>

(***************************************************************************)
(* The event loop                                                          *)
(***************************************************************************)
Resume(r) ==
  /\ phase[r] = "ready" /\ LoopIsFree
  /\ Goes(r, "running")
  /\ UNCHANGED <<kind, rest, own, starved>>

\* Mutant: an overflow without a limit.
ConnectedAnyway(r) == TRUE

\* The session of the request has a connection, or gets one.
Connected(r) == own[r] \/ Out < Size

\* The console authenticates and resolves in the loop.
Select(r) ==
  /\ phase[r] = "running" /\ At(r, "select") /\ Connected(r)
  /\ Holds(r, TRUE) /\ Proceed(r)
  /\ UNCHANGED <<kind, phase, starved>>

\* Statements, and the commit that gives the connection back.
Commit(r) ==
  /\ phase[r] = "running" /\ (At(r, "write") \/ At(r, "audit")) /\ Connected(r)
  /\ Holds(r, FALSE) /\ Proceed(r)
  /\ UNCHANGED <<kind, phase, starved>>

\* A registration in conflict writes its audit entry next, a removal of no host
\* ends with 404.
Refuse(r) ==
  /\ phase[r] = "running" /\ At(r, "write") /\ Connected(r)
  /\ Holds(r, TRUE)
  /\ rest' = [rest EXCEPT ![r] = IF kind[r] = "registration" THEN Tail(@) ELSE <<>>]
  /\ UNCHANGED <<kind, phase, starved>>

\* The throwaway session, beside the one that authenticated; closed at once.
Second(r) ==
  /\ phase[r] = "running" /\ At(r, "second") /\ Out < Size
  /\ Proceed(r)
  /\ UNCHANGED <<kind, phase, own, starved>>

\* The coroutine of r waits for a connection, and the loop with it.
Stalled(r) ==
  /\ phase[r] = "running" /\ Out = Size
  /\ \/ At(r, "second")
     \/ ~ own[r] /\ (At(r, "select") \/ At(r, "write") \/ At(r, "audit"))

\* Mutant: it waits for good.
NoTimeOut(r) == Stalled(r) /\ starved[r] /\ UNCHANGED vars

\* pool_timeout is over: TimeoutError, 500.
TimeOut(r) ==
  /\ Stalled(r)
  /\ starved' = [starved EXCEPT ![r] = TRUE] /\ Goes(r, "closing")
  /\ UNCHANGED <<kind, rest, own>>

Await(r) ==
  /\ phase[r] = "running" /\ (At(r, "await") \/ At(r, "shell"))
  /\ Goes(r, "away") /\ Proceed(r)
  /\ UNCHANGED <<kind, own, starved>>

\* LXD answers, or the console is closed.
Wake(r) ==
  /\ phase[r] = "away"
  /\ Goes(r, "ready")
  /\ UNCHANGED <<kind, rest, own, starved>>

\* LXD cannot be reached: a registration is recorded as failed, the others end.
Fail(r) ==
  /\ phase[r] = "away"
  /\ Goes(r, "ready")
  /\ rest' = [rest EXCEPT ![r] = IF kind[r] = "registration" THEN <<"audit">> ELSE <<>>]
  /\ UNCHANGED <<kind, own, starved>>

\* The endpoint returns.  Dependencies are closed before the response is sent,
\* so a stream of statistics has no connection.
Return(r) ==
  /\ phase[r] = "running" /\ rest[r] = <<>>
  /\ Goes(r, "closing")
  /\ UNCHANGED <<kind, rest, own, starved>>

Thread(r) == Authenticate(r) \/ TimeOutInThread(r) \/ Close(r)

Run(r) ==
  Select(r) \/ Commit(r) \/ Refuse(r) \/ Second(r) \/ TimeOut(r) \/ Await(r) \/ Return(r)

Next ==
  \E r \in Requests :
    Arrive(r) \/ Thread(r) \/ Resume(r) \/ Run(r) \/ Wake(r) \/ Fail(r)

Spec == Init /\ [][Next]_vars

\* Threads and the coroutine that has the loop go on; a ready coroutine gets the
\* loop when it is free again and again; LXD answers or its client times out.  A
\* console may stay open.
Fairness ==
  \A r \in Requests :
    /\ WF_vars(Thread(r)) /\ WF_vars(Run(r)) /\ SF_vars(Resume(r))
    /\ WF_vars(kind[r] # "console" /\ (Wake(r) \/ Fail(r)))

FairSpec == Spec /\ Fairness

(***************************************************************************)
(* Properties                                                              *)
(***************************************************************************)
\* Every variable has its type; one coroutine runs; the pool is not exceeded.
TypeOK ==
  /\ kind \in [Requests -> Kinds] /\ phase \in [Requests -> Phases]
  /\ \A r \in Requests : Len(rest[r]) <= 4 /\ \A i \in 1..Len(rest[r]) : rest[r][i] \in Steps
  /\ own \in [Requests -> BOOLEAN] /\ starved \in [Requests -> BOOLEAN]
  /\ \A r, s \in Requests : phase[r] = "running" /\ phase[s] = "running" => r = s
  /\ Out <= Size

\* An operation never stalls the loop, and so never loses its audit entry to a
\* pool that is used up: it keeps the connection it authenticated with until
\* the entry is committed.
OperationsKeepTheirConnection ==
  \A r \in Requests : kind[r] = "operation" => ~ Stalled(r)

\* A loop that waits for a connection which only its own coroutines could give
\* back comes free again: every request that is no console ends.
EveryRequestEnds ==
  \A r \in Requests : phase[r] # "new" /\ kind[r] # "console" ~> phase[r] = "over"

\* After the rush only consoles that are open have connections.
ConnectionsReturn ==
  <>[](\A r \in Requests : own[r] => kind[r] = "console" /\ phase[r] # "over")
=============================================================================
