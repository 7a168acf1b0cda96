------------------------------ MODULE Notifier ------------------------------
(***************************************************************************)
(* The Discord notifier: what becomes of the events that Operations        *)
(* schedules once their entries are committed.                             *)
(*                                                                         *)
(* schedule_notification starts a task in the event loop of the worker and *)
(* returns; the answer of the request does not wait for it.  The task      *)
(* posts the event once, gives up on an error, a status of 400 or more, or *)
(* a timeout, and never tries again.  A worker that stops closes the HTTP  *)
(* client under its posts, one that dies takes them along; but what is on  *)
(* the wire by then may reach Discord all the same.                        *)
(***************************************************************************)
EXTENDS Operations

CONSTANT Settings  \* the DISCORD_* settings: a webhook or none, the statuses
                   \* (TRUE is success) and the actions to be told of

ASSUME NotifierAssumption ==
  Settings \subseteq [webhook : BOOLEAN, statuses : SUBSET BOOLEAN, actions : SUBSET AllOps]

VARIABLES
  settings,
  post,      \* per event its task: "none", "posting" or "over"
  sent,      \* per event, the requests put on the wire,
  received,  \* and those that Discord took
  server     \* the worker that serves a request: "up", "closed", "down"

posts == <<settings, post, sent, received, server>>
notifierVars == <<vars, posts>>

Events == [by : Reqs, ok : BOOLEAN]

NotifierInit ==
  /\ Init
  /\ settings \in Settings
  /\ post = [e \in Events |-> "none"]
  /\ sent = [e \in Events |-> 0]
  /\ received = [e \in Events |-> 0]
  /\ server = [r \in Reqs |-> "up"]

\* The action an operation is recorded as.
ActionOf(op) == IF op = "create and start" THEN "create" ELSE op

ShouldSend(e) ==
  /\ settings.webhook
  /\ e.ok \in settings.statuses
  /\ ActionOf(job[e.by].op) \in settings.actions

\* The events for which schedule_notification made a task.
Scheduled == {e \in notified : ShouldSend(e)}

\* The task starts: notify_event posts the event.
Begin(e) ==
  /\ e \in Scheduled /\ post[e] = "none" /\ server[e.by] = "up"
  /\ post' = [post EXCEPT ![e] = "posting"]
  /\ sent' = [sent EXCEPT ![e] = @ + 1]
  /\ UNCHANGED <<vars, settings, received, server>>

\* Discord takes a request off the wire, be anybody still waiting or not.
Take(e) ==
  /\ received[e] < sent[e]
  /\ received' = [received EXCEPT ![e] = @ + 1]
  /\ UNCHANGED <<vars, settings, post, sent, server>>

Answered(e) ==
  /\ post[e] = "posting" /\ received[e] = sent[e]
  /\ post' = [post EXCEPT ![e] = "over"]
  /\ UNCHANGED <<vars, settings, sent, received, server>>

\* Mutant: a post that timed out is tried once more.
GiveUpTheSecondTime(e) ==
  /\ post[e] = "posting"
  /\ IF sent[e] < 2 THEN sent' = [sent EXCEPT ![e] = @ + 1] /\ UNCHANGED post
                    ELSE post' = [post EXCEPT ![e] = "over"] /\ UNCHANGED sent
  /\ UNCHANGED <<vars, settings, received, server>>

\* Mutant: no timeout, so that a post ends early with the client only.
GiveUpWithTheClient(e) ==
  /\ post[e] = "posting" /\ server[e.by] = "closed"
  /\ post' = [post EXCEPT ![e] = "over"]
  /\ UNCHANGED <<vars, settings, sent, received, server>>

\* An httpx error, a timeout, or a status of 400 or more: a log entry.
GiveUp(e) ==
  /\ post[e] = "posting"
  /\ post' = [post EXCEPT ![e] = "over"]
  /\ UNCHANGED <<vars, settings, sent, received, server>>

\* The worker has served its requests and shuts down: stop closes the client.
\* The loop runs tasks in the order they were made, so each has started.
Stop(r) ==
  /\ server[r] = "up" /\ pc[r] = "done"
  /\ \A e \in Scheduled : e.by = r => post[e] # "none"
  /\ server' = [server EXCEPT ![r] = "closed"]
  /\ UNCHANGED <<vars, settings, post, sent, received>>

\* The loop ends after stop, or the worker dies at any time after it answered.
GoDown(r) ==
  /\ server[r] # "down" /\ pc[r] = "done"
  /\ server' = [server EXCEPT ![r] = "down"]
  /\ post' = [e \in Events |->
       IF e.by = r /\ post[e] = "posting" THEN "over" ELSE post[e]]
  /\ UNCHANGED <<vars, settings, sent, received>>

Deliver(e) == Begin(e) \/ Take(e) \/ Answered(e) \/ GiveUp(e)

NotifierNext ==
  \/ Next /\ UNCHANGED posts
  \/ \E e \in Events : Deliver(e)
  \/ \E r \in Reqs : Stop(r) \/ GoDown(r)

NotifierSpec == NotifierInit /\ [][NotifierNext]_notifierVars

\* A thread that waits for LXD comes back: pylxd waits for the operation, and
\* LXD bounds it or the connection breaks.  The loop runs its tasks, and httpx
\* ends a post whose peer is silent for longer than the timeout.  Nothing is
\* assumed of Discord.
NotifierFairSpec ==
  /\ NotifierSpec
  /\ \A r \in Reqs : WF_notifierVars(Serve(r) /\ UNCHANGED posts)
  /\ \A e \in Events : WF_notifierVars(Begin(e)) /\ WF_notifierVars(GiveUp(e))

(***************************************************************************)
(* Properties                                                              *)
(***************************************************************************)
\* Every variable has its type; an event is put on the wire once.
NotifierTypeOK ==
  /\ settings \in Settings
  /\ post \in [Events -> {"none", "posting", "over"}]
  /\ sent \in [Events -> 0 .. 1]
  /\ received \in [Events -> 0 .. 1]
  /\ server \in [Reqs -> {"up", "closed", "down"}]

\* What Discord shows is in the trail, with the same outcome, and passed the
\* filters; it is shown once, whatever timeouts, slow answers, crashes and
\* restarts come in between ("so the notification only fires for events that
\* actually landed in the DB", record_and_notify).
PostsFollowTheTrail ==
  \A e \in Events : received[e] > 0 =>
    /\ received[e] = 1
    /\ ShouldSend(e)
    /\ \E a \in audit : a.by = e.by /\ a.ok = e.ok

\* Every event that passes the filters is tried and done with, also when
\* Discord never answers, unless the worker goes down before.
EventsAreTried ==
  \A e \in Events : e \in Scheduled ~> post[e] = "over" \/ server[e.by] = "down"
=============================================================================
