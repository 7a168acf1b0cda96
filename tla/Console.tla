------------------------------ MODULE Console ------------------------------
(***************************************************************************)
(* One console: the WebSocket endpoint that bridges a browser terminal to  *)
(* the PTY of a container, over a data and a control WebSocket to LXD (or  *)
(* the pipes of a local shell under LXD_MOCK).                             *)
(*                                                                         *)
(* The handler authenticates, resolves the host, opens a client, starts an *)
(* interactive exec, dials both sockets at once, accepts the browser and   *)
(* then runs two pumps under asyncio.gather.  gather ends with the first   *)
(* pump that raises; it does not cancel the other one.                     *)
(***************************************************************************)
EXTENDS Naturals, Sequences

CONSTANTS
  Modes,       \* the settings of LXD_MOCK: TRUE, _MockConsoleSession
  MaxFrames,   \* bound: frames that the browser sends
  MaxChunks,   \* bound: chunks of output
  Drops,       \* the LXD sockets that may break on their own
  DialFails,   \* whether opening one of the two sockets may fail
  Breaks       \* whether LXD may fail in ways that LXDClient does not know

Links == {"data", "control"}
Frames == {"key", "resize"}

ASSUME ConsoleAssumption ==
  /\ {DialFails, Breaks} \cup Modes \subseteq BOOLEAN
  /\ MaxFrames \in Nat /\ MaxChunks \in Nat
  /\ Drops \subseteq Links

VARIABLES
  stage,     \* where container_console is
  browser,   \* the socket to the browser: waiting, open, closed
  code,      \* how the server closed it: none, 1008, or aborted
  link,      \* the sockets to LXD: none, dialing, open, failed, closed
  shell,     \* the process in the container
  pump,      \* the two pumps: off, on, returned, disconnected, raised
  closed,    \* the session's _closed flag
  inbox,     \* frames of the browser that the server has not read
  sent, typed, shown, pending, \* counts: frames sent, keys delivered, chunks
                               \* shown to the browser, chunks not read yet
  mock         \* LXD_MOCK, which stays what it is

vars == <<stage, browser, code, link, shell, pump, closed, inbox, sent, typed,
          shown, pending, mock>>
traffic == <<inbox, sent, typed, shown, pending>>

Pumps == {"to", "from"}
Raised == {"disconnected", "raised"}

Init ==
  /\ stage = "authenticate" /\ browser = "waiting" /\ code = "none"
  /\ link = [l \in Links |-> "none"]
  /\ shell = "none"
  /\ pump = [p \in Pumps |-> "off"]
  /\ closed = FALSE
  /\ inbox = <<>> /\ sent = 0 /\ typed = 0 /\ shown = 0 /\ pending = 0
  /\ mock \in Modes

(***************************************************************************)
(* Up to the accept                                                        *)
(***************************************************************************)
NextStage(s) ==
  CASE s = "authenticate" -> "resolve"
    [] s = "resolve" -> "connect"
    [] s = "connect" -> "exec"

\* _authenticate_ws, resolve_host and open_client: each goes on or rejects.
Prepare ==
  /\ stage \in {"authenticate", "resolve", "connect"}
  /\ stage' \in {NextStage(stage), "reject"}
  /\ UNCHANGED <<browser, code, link, shell, pump, closed, traffic, mock>>

\* Mutant: closes without accepting first, which answers the handshake with 403.
RejectUnaccepted ==
  /\ stage = "reject"
  /\ stage' = "done"
  /\ IF browser = "waiting" THEN browser' = "closed" /\ code' = "aborted"
                            ELSE UNCHANGED <<browser, code>>
  /\ UNCHANGED <<link, shell, pump, closed, traffic, mock>>

\* _reject accepts, so that the close frame is delivered, and closes with 1008.
\* A browser that has left makes accept raise.
Reject ==
  /\ stage = "reject"
  /\ stage' = "done"
  /\ IF browser = "waiting" THEN browser' = "closed" /\ code' = "1008"
                            ELSE UNCHANGED <<browser, code>>
  /\ UNCHANGED <<link, shell, pump, closed, traffic, mock>>

\* raw_interactive_execute: LXD starts the process and waits for its sockets.
\* Those of a remote daemon are not dialed: the console is rejected by then, for
\* want of a socket path.  The mock starts a local shell, and has its pipes at
\* once.
Exec ==
  /\ stage = "exec"
  /\ \/ stage' = "reject" /\ UNCHANGED <<link, shell>>
     \/ /\ shell' = "running"
        /\ IF mock
           THEN stage' = "accept" /\ link' = [l \in Links |-> "open"]
           ELSE \/ stage' = "dial" /\ link' = [l \in Links |-> "dialing"]
                \/ stage' = "reject" /\ UNCHANGED link
  /\ UNCHANGED <<browser, code, pump, closed, traffic, mock>>

\* The endpoint raises: before the accept the handshake fails, afterwards the
\* server drops the connection without a close frame.
Abort ==
  /\ stage' = "done"
  /\ IF browser = "closed" THEN UNCHANGED <<browser, code>>
                           ELSE browser' = "closed" /\ code' = "aborted"

\* What is no LXDAPIException at the exec, like the ConnectionError of requests,
\* and no ClientConnectionFailed when a remote daemon is connected to.
ExecBreaks ==
  /\ Breaks /\ ~ mock /\ stage \in {"connect", "exec"}
  /\ Abort
  /\ UNCHANGED <<link, shell, pump, closed, traffic, mock>>

\* asyncio.gather over two _open_lxd_websocket: it raises as soon as one fails
\* and the other goes on regardless.
Dial(l) ==
  /\ link[l] = "dialing"
  /\ \/ link' = [link EXCEPT ![l] = "open"]
     \/ DialFails /\ link' = [link EXCEPT ![l] = "failed"]
  /\ stage' = IF stage # "dial" THEN stage
              ELSE IF link'[l] = "failed" THEN "reject"
              ELSE IF \A k \in Links : link'[k] = "open" THEN "accept" ELSE "dial"
  /\ UNCHANGED <<browser, code, shell, pump, closed, traffic, mock>>

\* When the browser has left, accept() raises, before the session is entered,
\* or only the first receive() tells: that is up to the server.
Accept ==
  /\ stage = "accept"
  /\ \/ /\ browser' = IF browser = "waiting" THEN "open" ELSE browser
        /\ stage' = "resize" /\ UNCHANGED code
     \/ browser = "closed" /\ Abort
  /\ UNCHANGED <<link, shell, pump, closed, traffic, mock>>

(***************************************************************************)
(* The bridge                                                              *)
(***************************************************************************)
Raise(p, how) == pump' = [pump EXCEPT ![p] = how]

\* The first resize, inside "async with session": it raises when the control
\* socket is closed.  The mock ignores it.
FirstResize ==
  /\ stage = "resize"
  /\ IF mock \/ link["control"] = "open"
     THEN stage' = "bridge" /\ pump' = [p \in Pumps |-> "on"]
     ELSE stage' = "close" /\ Raise("to", "raised")
  /\ UNCHANGED <<browser, code, link, shell, closed, traffic, mock>>

\* Mutant: a frame may be handled again.
ForwardAgain ==
  /\ inbox # <<>>
  /\ inbox' \in {inbox, Tail(inbox)}
  /\ typed' = typed + 1 /\ UNCHANGED pump

\* One frame of the browser: keys go to the data socket, a resize to the
\* control socket unless the session is closed.
Forward ==
  /\ inbox # <<>>
  /\ inbox' = Tail(inbox)
  /\ IF Head(inbox) = "key"
     THEN IF ~ closed /\ link["data"] = "open"
          THEN typed' = typed + 1 /\ UNCHANGED pump
          ELSE Raise("to", "raised") /\ UNCHANGED typed
     ELSE /\ UNCHANGED typed
          /\ IF mock \/ closed \/ link["control"] = "open"
             THEN UNCHANGED pump
             ELSE Raise("to", "raised")

\* Mutant: only reads the disconnect once the session is closed.
PumpToDeaf ==
  /\ pump["to"] = "on"
  /\ \/ Forward
     \/ /\ inbox = <<>> /\ browser = "closed" /\ closed
        /\ Raise("to", "disconnected") /\ UNCHANGED <<inbox, typed>>
  /\ UNCHANGED <<stage, browser, code, link, shell, closed, sent, shown, pending, mock>>

\* pump_to_container; websocket.receive() reports the disconnect last.
PumpTo ==
  /\ pump["to"] = "on"
  /\ \/ Forward
     \/ /\ inbox = <<>> /\ browser = "closed"
        /\ Raise("to", "disconnected") /\ UNCHANGED <<inbox, typed>>
  /\ UNCHANGED <<stage, browser, code, link, shell, closed, sent, shown, pending, mock>>

\* Mutant: the real recv_data reports the end of the output like the mock.
ReturnAtEndOfOutput ==
  closed' = TRUE /\ link' = [l \in Links |-> "closed"] /\ Raise("from", "returned")

\* At the end of the output recv_data of the mock closes the session and
\* returns None; that of the real one raises ConnectionClosed.
EndOfOutput ==
  IF mock
  THEN closed' = TRUE /\ link' = [l \in Links |-> "closed"] /\ Raise("from", "returned")
  ELSE Raise("from", "raised") /\ UNCHANGED <<closed, link>>

\* recv_data of the mock looks at the flag first, the real one has what was
\* received before the socket closed.
Deaf == mock /\ closed

\* pump_from_container.  Writing to a browser that has left raises, or the
\* server drops the bytes.  The mock writes an empty chunk twice a second.
PumpFrom ==
  /\ pump["from"] = "on"
  /\ \/ /\ ~ Deaf /\ pending > 0
        /\ pending' = pending - 1
        /\ IF browser = "open" THEN shown' = shown + 1 /\ UNCHANGED pump
           ELSE UNCHANGED shown /\ (UNCHANGED pump \/ Raise("from", "disconnected"))
        /\ UNCHANGED <<closed, link>>
     \/ /\ mock /\ ~ closed /\ browser = "closed"
        /\ Raise("from", "disconnected")
        /\ UNCHANGED <<closed, link, shown, pending>>
     \/ /\ Deaf \/ (pending = 0 /\ link["data"] = "closed")
        /\ EndOfOutput
        /\ UNCHANGED <<shown, pending>>
  /\ UNCHANGED <<stage, browser, code, shell, inbox, sent, typed,
                 mock>>

\* gather ends with the first exception; pump_to_container never returns.
Gather ==
  /\ stage = "bridge"
  /\ \E p \in Pumps : pump[p] \in Raised
  /\ stage' = "close"
  /\ UNCHANGED <<browser, code, link, shell, pump, closed, traffic, mock>>

\* Mutant: closes the control socket only.
CloseControl == [link EXCEPT !["control"] = "closed"]

CloseBoth == [l \in Links |-> "closed"]

\* __aexit__ closes the session.  A WebSocketDisconnect is the end, whatever
\* else was raised goes up to the server.
Close ==
  /\ stage = "close"
  /\ closed' = TRUE
  /\ link' = CloseBoth
  /\ \/ /\ \E p \in Pumps : pump[p] = "disconnected"
        /\ stage' = "done" /\ UNCHANGED <<browser, code>>
     \/ (\E p \in Pumps : pump[p] = "raised") /\ Abort
  /\ UNCHANGED <<shell, pump, traffic, mock>>

(***************************************************************************)
(* The browser and LXD                                                     *)
(***************************************************************************)
BrowserSends(f) ==
  /\ browser = "open" /\ sent < MaxFrames
  /\ sent' = sent + 1 /\ inbox' = Append(inbox, f)
  /\ UNCHANGED <<stage, browser, code, link, shell, pump, closed, typed, shown,
                 pending, mock>>

\* The tab is closed, at any time.
BrowserLeaves ==
  /\ browser # "closed"
  /\ browser' = "closed"
  /\ UNCHANGED <<stage, code, link, shell, pump, closed, traffic, mock>>

Output ==
  /\ shell = "running" /\ link["data"] = "open" /\ shown + pending < MaxChunks
  /\ pending' = pending + 1
  /\ UNCHANGED <<stage, browser, code, link, shell, pump, closed, inbox, sent,
                 typed, shown, mock>>

ShellExits ==
  /\ shell = "running"
  /\ shell' = "exited"
  /\ UNCHANGED <<stage, browser, code, link, pump, closed, traffic, mock>>

\* LXD closes the sockets of an exec that has ended, and ends an exec whose
\* sockets are closed; a dead shell closes its pipes, a closed session kills it.
Reap ==
  \/ /\ shell = "exited" /\ \E l \in Links : link[l] = "open"
     /\ link' = [l \in Links |-> IF link[l] = "open" THEN "closed" ELSE link[l]]
     /\ UNCHANGED <<stage, browser, code, shell, pump, closed, traffic, mock>>
  \/ /\ shell = "running" /\ \A l \in Links : link[l] = "closed"
     /\ shell' = "exited"
     /\ UNCHANGED <<stage, browser, code, link, pump, closed, traffic, mock>>

Drop(l) ==
  /\ l \in Drops /\ link[l] = "open" /\ ~ mock
  /\ link' = [link EXCEPT ![l] = "closed"]
  /\ UNCHANGED <<stage, browser, code, shell, pump, closed, traffic, mock>>

Handler ==
  \/ Prepare \/ Reject \/ Exec \/ ExecBreaks \/ Accept \/ FirstResize
  \/ Gather \/ Close

Next ==
  \/ Handler \/ PumpTo \/ PumpFrom \/ Output \/ ShellExits \/ Reap \/ BrowserLeaves
  \/ \E l \in Links : Dial(l) \/ Drop(l)
  \/ \E f \in Frames : BrowserSends(f)

Spec == Init /\ [][Next]_vars

\* asyncio runs every task that is ready, and every dial ends.  LXD closes the
\* sockets of an exec that has ended.  Nobody has to type, leave or exit.
FairSpec ==
  /\ Spec
  /\ WF_vars(Handler) /\ WF_vars(PumpTo) /\ WF_vars(PumpFrom) /\ WF_vars(Reap)
  /\ \A l \in Links : WF_vars(Dial(l))

(***************************************************************************)
(* Properties                                                              *)
(***************************************************************************)
\* Every variable has its type.
TypeOK ==
  /\ stage \in {"authenticate", "resolve", "connect", "exec", "dial", "reject",
                "accept", "resize", "bridge", "close", "done"}
  /\ browser \in {"waiting", "open", "closed"}
  /\ code \in {"none", "1008", "aborted"}
  /\ link \in [Links -> {"none", "dialing", "open", "failed", "closed"}]
  /\ shell \in {"none", "running", "exited"}
  /\ pump \in [Pumps -> {"off", "on", "returned"} \cup Raised]
  /\ closed \in BOOLEAN
  /\ inbox \in Seq(Frames)
  /\ sent \in 0 .. MaxFrames /\ typed \in 0 .. sent
  /\ shown \in 0 .. MaxChunks /\ pending \in 0 .. MaxChunks
  /\ mock \in Modes

\* "The connection is accepted first and then closed with code 1008"
\* (container_console): a browser that is still there when the console is
\* rejected gets to know, unless it leaves before.
RejectionsReachTheBrowser ==
  stage = "reject" ~> stage = "done" /\ code \in {"none", "1008"}

LinksDown == \A l \in Links : link[l] \notin {"dialing", "open"}

\* "Closing any of the three WebSockets tears the other two down" (console.py):
\* a browser that leaves the bridge ends the exec and the handler, ...
BrowserTearsDown ==
  stage = "bridge" /\ browser = "closed" ~> stage = "done" /\ LinksDown

\* ... and so does an end of the data socket, which the browser gets to know.
\* Not with the mock, whose pump returns instead of raising.
DataTearsDown ==
  ~ mock /\ stage = "bridge" /\ link["data"] = "closed" ~>
    stage = "done" /\ browser = "closed"

\* No pump outlives its console for good: gather leaves the other one running.
PumpsEnd == stage = "done" ~> \A p \in Pumps : pump[p] # "on"

\* "... and the browser gets a clean disconnect" (console.py) when the exec ends.
CleanDisconnect == code # "aborted"
=============================================================================
