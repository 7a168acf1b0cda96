--------------------------- MODULE NotifierProofs ---------------------------
(***************************************************************************)
(* That Discord shows only what the trail has, and shows it once, for any  *)
(* number of requests, workers that go down and settings.                  *)
(***************************************************************************)
EXTENDS Notifier, OperationsProofs

\* What was put on the wire was notified and wanted, and no more than once.
Posted(e) ==
  /\ post[e] = "none" => sent[e] = 0
  /\ sent[e] \in 0 .. 1 /\ received[e] \in 0 .. sent[e]
  /\ sent[e] > 0 => e \in Scheduled

PostsInv ==
  /\ Trail
  /\ DOMAIN post = Events /\ DOMAIN sent = Events /\ DOMAIN received = Events
  /\ \A e \in Events : Posted(e)

\* The steps of the notifier are none of Operations.
LEMMA StepsBelow == ASSUME [NotifierNext]_notifierVars PROVE [Next]_vars
  BY DEF NotifierNext, notifierVars, Deliver, Begin, Take, Answered, GiveUp, Stop, GoDown

\* Nothing is posted at the start.
LEMMA InitPosts == ASSUME NotifierInit PROVE PostsInv
<1>1. Trail
  BY InitTrail DEF NotifierInit
<1> QED
  BY <1>1 DEF NotifierInit, PostsInv, Posted

\* A step of Operations takes nothing back that was notified, nor the operation
\* it is about.
LEMMA ScheduledStays ==
  ASSUME Trail, [Next]_vars, UNCHANGED settings, NEW e \in Scheduled
  PROVE  e \in Scheduled'
<1>1. e \in notified /\ e.by \in Reqs /\ pc[e.by] = "done"
  BY DEF Scheduled, Trail, Typed
<1>2. ASSUME NEW r \in Reqs, Step(r)
      PROVE  e \in notified' /\ job'[e.by] = job[e.by]
  <2>1. notified \subseteq notified'
    BY <1>2 DEF Step, Serve, Send, Authenticate, Resolve, Connect, Call, Refuse, Break,
       Audit, Notify, Crash
  <2>2. CASE r = e.by
    BY <1>1, <1>2, <2>1, <2>2 DEF Step, Serve, Send, Authenticate, Resolve, Connect, Call,
       Refuse, Break, Audit, Notify, Crash
  <2>3. CASE r # e.by
    BY <1>1, <1>2, <2>1, <2>3, OneAtATime DEF Trail
  <2> QED
    BY <2>2, <2>3
<1>3. \/ \E r \in Reqs : Step(r)
      \/ UNCHANGED <<notified, job>>
  BY DEF Next, Step, Leave, RegisterHost, RemoveHost, vars
<1>4. e \in notified' /\ job'[e.by] = job[e.by]
  BY <1>1, <1>2, <1>3
<1> QED
  BY <1>4 DEF Scheduled, ShouldSend

\* Each step of the notifier, and every step of Operations below it, keeps that.
LEMMA NextPosts == ASSUME PostsInv, [NotifierNext]_notifierVars PROVE PostsInv'
<1> USE DEF PostsInv
<1>1. Trail' /\ [Next]_vars
  BY StepsBelow, NextTrail
<1>2. settings' = settings
  BY DEF NotifierNext, notifierVars, posts, Deliver, Begin, Take, Answered, GiveUp, Stop,
     GoDown
<1>3. \A e \in Scheduled : e \in Scheduled'
  BY <1>1, <1>2, ScheduledStays
<1>4. CASE UNCHANGED <<post, sent, received>>
  BY <1>1, <1>3, <1>4 DEF Posted
<1>5. ASSUME NEW e \in Events, Begin(e) PROVE PostsInv'
  <2>1. /\ e \in Scheduled /\ sent[e] = 0 /\ received' = received
        /\ post' = [post EXCEPT ![e] = "posting"] /\ sent' = [sent EXCEPT ![e] = @ + 1]
    BY <1>5 DEF Begin, Posted
  <2>2. sent'[e] = 1 /\ post'[e] = "posting" /\ received'[e] = 0
    BY <2>1 DEF Posted
  <2>3. Posted(e)'
    BY <1>3, <2>1, <2>2 DEF Posted
  <2>4. ASSUME NEW f \in Events, f # e PROVE Posted(f)'
    BY <1>3, <2>1, <2>4 DEF Posted
  <2> QED
    BY <1>1, <2>1, <2>3, <2>4
<1>6. ASSUME NEW e \in Events, Take(e) PROVE PostsInv'
  <2>1. /\ received[e] < sent[e] /\ post' = post /\ sent' = sent
        /\ received' = [received EXCEPT ![e] = @ + 1]
    BY <1>6 DEF Take
  <2>2. ASSUME NEW f \in Events PROVE Posted(f)'
    <3>1. CASE f = e
      BY <1>3, <2>1, <3>1 DEF Posted
    <3>2. CASE f # e
      BY <1>3, <2>1, <3>2 DEF Posted
    <3> QED
      BY <3>1, <3>2
  <2> QED
    BY <1>1, <2>1, <2>2
<1>7. ASSUME NEW e \in Events, Answered(e) \/ GiveUp(e) PROVE PostsInv'
  <2>1. post' = [post EXCEPT ![e] = "over"] /\ sent' = sent /\ received' = received
    BY <1>7 DEF Answered, GiveUp
  <2>2. ASSUME NEW f \in Events PROVE Posted(f)'
    BY <1>3, <2>1 DEF Posted
  <2> QED
    BY <1>1, <2>1, <2>2
<1>8. ASSUME NEW r \in Reqs, GoDown(r) PROVE PostsInv'
  <2>1. /\ sent' = sent /\ received' = received /\ DOMAIN post' = Events
        /\ \A f \in Events : post'[f] = "none" => post[f] = "none"
    BY <1>8 DEF GoDown
  <2>2. ASSUME NEW f \in Events PROVE Posted(f)'
    BY <1>3, <2>1 DEF Posted
  <2> QED
    BY <1>1, <2>1, <2>2
<1> QED
  BY <1>4, <1>5, <1>6, <1>7, <1>8 DEF NotifierNext, notifierVars, posts, Deliver, Stop

\* An event reaches Discord at most once, only past the filters and only when
\* its entry is committed (notify_event, schedule_notification).
THEOREM PostsTrue == NotifierSpec => []PostsFollowTheTrail
<1>1. NotifierInit => PostsInv
  BY InitPosts
<1>2. PostsInv /\ [NotifierNext]_notifierVars => PostsInv'
  BY NextPosts
<1>3. PostsInv => PostsFollowTheTrail
  <2> SUFFICES ASSUME PostsInv, NEW e \in Events, received[e] > 0
               PROVE  /\ received[e] = 1 /\ ShouldSend(e)
                      /\ \E a \in audit : a.by = e.by /\ a.ok = e.ok
    BY DEF PostsFollowTheTrail
  <2>1. received[e] = 1 /\ e \in Scheduled
    BY DEF PostsInv, Posted
  <2> QED
    BY <2>1 DEF Scheduled, PostsInv, Trail, HasEntry
<1> QED
  BY <1>1, <1>2, <1>3, PTL DEF NotifierSpec
\* A step of the notifier moves a task or a server from one of their states to
\* another; what is put on the wire was not there before (Posted).
LEMMA NextTypes ==
  ASSUME PostsInv, NotifierTypeOK, [NotifierNext]_notifierVars
  PROVE  NotifierTypeOK'
<1> USE DEF NotifierTypeOK
<1>1. CASE UNCHANGED posts
  BY <1>1 DEF posts
<1>2. ASSUME NEW e \in Events, Begin(e) PROVE NotifierTypeOK'
  <2>1. sent[e] + 1 \in 0 .. 1
    BY <1>2 DEF Begin, PostsInv, Posted
  <2> QED
    BY <1>2, <2>1 DEF Begin
<1>3. ASSUME NEW e \in Events, Take(e) PROVE NotifierTypeOK'
  <2>1. received[e] + 1 \in 0 .. 1
    BY <1>3 DEF Take
  <2> QED
    BY <1>3, <2>1 DEF Take
<1>4. ASSUME NEW e \in Events, Answered(e) \/ GiveUp(e) PROVE NotifierTypeOK'
  BY <1>4 DEF Answered, GiveUp
<1>5. ASSUME NEW r \in Reqs, Stop(r) \/ GoDown(r) PROVE NotifierTypeOK'
  BY <1>5 DEF Stop, GoDown
<1> QED
  BY <1>1, <1>2, <1>3, <1>4, <1>5 DEF NotifierNext, notifierVars, posts, Deliver

\* Every task is in one of its states, and no event is put on the wire again
\* (notify_event has no retry).
THEOREM NotifierTypeCorrect == NotifierSpec => []NotifierTypeOK
<1>1. NotifierInit => PostsInv /\ NotifierTypeOK
  BY InitPosts DEF NotifierInit, NotifierTypeOK
<1>2. PostsInv /\ NotifierTypeOK /\ [NotifierNext]_notifierVars
        => (PostsInv /\ NotifierTypeOK)'
  BY NextPosts, NextTypes
<1> QED
  BY <1>1, <1>2, PTL DEF NotifierSpec

\* The tasks of the notifier leave operations and trail alone, which never learn
\* of it: Notifier implements Operations.
THEOREM OperationsBelow == NotifierSpec => Spec
<1>1. NotifierInit => Init
  BY DEF NotifierInit
<1>2. [NotifierNext]_notifierVars => [Next]_vars
  BY StepsBelow
<1> QED
  BY <1>1, <1>2, PTL DEF NotifierSpec, Spec

\* So an event that is scheduled landed in the trail, and who was answered finds
\* the change there, whatever becomes of the posts and of the worker.
THEOREM TrailBelow == NotifierSpec => [](NotifiedEventsLanded /\ AnsweredIsRecorded)
BY OperationsBelow, NotifiedLanded, AnsweredRecorded, PTL

\* Where ids are not reused, requests and entries keep to the host that was
\* meant, next to the notifier, too.
THEOREM HostsBelow ==
  ASSUME ~ IdsReused
  PROVE  NotifierSpec => [](EntryNamesTheDaemon /\ ChangesTheHostMeant)
<1>1. Spec => []EntryNamesTheDaemon
  BY EntriesNameTheirDaemon
<1>2. Spec => []ChangesTheHostMeant
  BY ChangesReachTheHostMeant
<1> QED
  BY <1>1, <1>2, OperationsBelow, PTL
=============================================================================
