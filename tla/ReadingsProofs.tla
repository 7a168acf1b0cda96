---------------------------- MODULE ReadingsProofs ----------------------------
(***************************************************************************)
(* How readings end, for any number of requests, containers and hosts, next *)
(* to any changes.                                                         *)
(***************************************************************************)
EXTENDS Readings, OperationsProofs

\* What is known of a request that is looking, from where it is.
Halfway(r) ==
  /\ job[r].op \in OfAContainer =>
       /\ step[r] \in 1 .. Len(Script(job[r].op))
       /\ step[r] > 1 => Mine(r) = "found"
  /\ job[r].op = "stats" => step[r] = 1

Polling(r) ==
  /\ job[r].op = "stats" /\ answer[r] = 200
  /\ step[r] \in 1 .. 2
  /\ step[r] = 2 => Mine(r) = "found"

RowsListed(r) ==
  /\ job[r].op = "list"
  /\ \A n \in Names : view[r][n] \in {"nothing", "listed", "found", "known", "unknown"}

Summing(r) ==
  /\ job[r].op \in Lists
  /\ \A n \in Names : view[r][n] \in {"nothing", "listed", "known", "unknown", "shown"}

ReadsOn(r) ==
  /\ pc[r] \in {"idle", "authenticate", "resolve", "connect"} => step[r] = 1
  /\ pc[r] # "idle" => job[r] \in Job
  /\ pc[r] \in {"call", "audit", "notify"} => job[r].op \in ChangingOps
  /\ pc[r] = "look" => Halfway(r)
  /\ pc[r] = "stream" => Polling(r)
  /\ pc[r] = "rows" => RowsListed(r)
  /\ pc[r] = "summary" => Summing(r)

\* A reading of a container has not ended, or not unannounced, or is a race.
NoSurprise(r) ==
  job[r].op \in OfAContainer /\ EndsUnannounced(r) => Mine(r) \in {"found", "broken"}

ViewTyped == view \in [Reqs -> [Names -> Views]]

ReadingInv == Typed /\ ViewTyped /\ \A r \in Reqs : ReadsOn(r)

(***************************************************************************)
(* The scripts of a container                                              *)
(***************************************************************************)
\* All calls but the last one find the container, and no call is bare that is
\* not made on a container found before.
Cautious(s) ==
  /\ Len(s) \in 1 .. 3
  /\ \A k \in 1 .. Len(s) :
       /\ k < Len(s) => s[k] = Do("find", "container")
       /\ Bare(s[k]) => k > 1

\* Every reading of a container is that cautious; a poll makes two calls.
LEMMA ContainerScripts ==
  /\ \A op \in OfAContainer : Cautious(Script(op))
  /\ Len(Script("stats")) = 2
<1> USE DEF Do, Cautious, Bare, GetContainer
<1>1. Cautious(Script("details"))
  BY DEF Script, get_container
<1>2. Cautious(Script("details with stats"))
  BY DEF Script, get_with_stats, GetContainerState
<1>3. Cautious(Script("state"))
  BY DEF Script, get_container_state, GetContainerState
<1>4. Cautious(Script("snapshots"))
  BY DEF Script, list_snapshots, ListSnapshots
<1>5. Cautious(Script("stats")) /\ Len(Script("stats")) = 2
  BY DEF Script, container_stats_sse, GetContainerState
<1> QED
  BY <1>1, <1>2, <1>3, <1>4, <1>5, ZenonT(40) DEF OfAContainer

(***************************************************************************)
(* What a step moves                                                       *)
(***************************************************************************)
Reading(r) == ServeReading(r) \/ Stream(r)

\* Marking what was seen of a name touches nothing else.
LEMMA Marking ==
  ASSUME ViewTyped, NEW r \in Reqs, NEW n \in Names, NEW v \in Views, Mark(r, n, v)
  PROVE  /\ ViewTyped' /\ view'[r][n] = v
         /\ \A m \in Names : m # n => view'[r][m] = view[r][m]
         /\ \A q \in Reqs : q # r => view'[q] = view[q]
  BY DEF ViewTyped, Mark

\* Where a request goes on is nobody else's business.
LEMMA Goes ==
  ASSUME Typed, NEW r \in Reqs, NEW l \in Places, Goto(r, l)
  PROVE  /\ pc' \in [Reqs -> Places] /\ pc'[r] = l
         /\ \A q \in Reqs : q # r => pc'[q] = pc[q]
  BY DEF Typed, Goto

\* Nor is how it ends.
LEMMA Ends ==
  ASSUME Typed, NEW r \in Reqs, NEW code \in Nat, Finish(r, code)
  PROVE  /\ pc' \in [Reqs -> Places] /\ pc'[r] = "done"
         /\ answer' \in [Reqs -> Nat] /\ answer'[r] = code
         /\ \A q \in Reqs : q # r => pc'[q] = pc[q] /\ answer'[q] = answer[q]
<1>1. Goto(r, "done") /\ "done" \in Places
  BY DEF Finish, Places
<1>2. answer' = [answer EXCEPT ![r] = code] /\ answer \in [Reqs -> Nat]
  BY DEF Finish, Typed
<1> QED
  BY <1>1, <1>2, Goes

\* A call went well: the next call is due, or the reading is answered.
LEMMA Advances ==
  ASSUME Typed, NEW r \in Reqs, Advance(r)
  PROVE  /\ pc' \in [Reqs -> Places] /\ answer' \in [Reqs -> Nat] /\ step' \in [Reqs -> Nat]
         /\ step'[r] = step[r] + 1
         /\ \/ /\ step[r] = Len(Script(job[r].op))
               /\ pc'[r] = "done" /\ answer'[r] = 200
            \/ /\ step[r] # Len(Script(job[r].op))
               /\ pc' = pc /\ answer' = answer
         /\ \A q \in Reqs : q # r => pc'[q] = pc[q] /\ answer'[q] = answer[q] /\ step'[q] = step[q]
<1>1. step' = [step EXCEPT ![r] = @ + 1] /\ step \in [Reqs -> Nat]
  BY DEF Advance, Typed
<1>2. step' \in [Reqs -> Nat] /\ step'[r] = step[r] + 1
      /\ \A q \in Reqs : q # r => step'[q] = step[q]
  BY <1>1
<1>3. CASE step[r] = Len(Script(job[r].op))
  BY <1>2, <1>3, Ends DEF Advance
<1>4. CASE step[r] # Len(Script(job[r].op))
  BY <1>2, <1>4 DEF Advance, Typed
<1> QED
  BY <1>3, <1>4

Elsewhere(r) ==
  \A q \in Reqs : q # r =>
    /\ pc'[q] = pc[q] /\ answer'[q] = answer[q] /\ step'[q] = step[q]
    /\ view'[q] = view[q] /\ job'[q] = job[q]

\* The types that a step of a reading may disturb, and the requests it must not.
Harmless(r) ==
  /\ pc' \in [Reqs -> Places] /\ answer' \in [Reqs -> Nat] /\ step' \in [Reqs -> Nat]
  /\ client' \in [Reqs -> [id : Ids \cup {0}, daemon : Daemons \cup {NoDaemon}]]
  /\ ViewTyped' /\ Elsewhere(r)

\* Every step of a reading keeps the types and leaves the other requests alone.
LEMMA ReadingHarmless ==
  ASSUME Typed, ViewTyped, NEW r \in Reqs, ReadsOn(r), Reading(r)
  PROVE  Harmless(r)
<1> USE DEF Harmless, Elsewhere, OnlyLooks
<1>0. /\ pc \in [Reqs -> Places] /\ answer \in [Reqs -> Nat] /\ step \in [Reqs -> Nat]
      /\ client \in [Reqs -> [id : Ids \cup {0}, daemon : Daemons \cup {NoDaemon}]]
      /\ hosts \in [Ids -> Daemons \cup {NoDaemon}]
      /\ {"look", "rows", "summary", "stream", "done"} \subseteq Places
      /\ {"found", "known", "unknown", "shown", "told", "left", "gone", "broken"} \subseteq Views
  BY DEF Typed, Places, Stages, Views
<1>1. pc[r] # "idle" => job[r].name \in Names
  BY DEF ReadsOn, Job
<1>2. ASSUME NEW v \in Views, MarkMine(r, v), pc[r] # "idle"
      PROVE  ViewTyped' /\ \A q \in Reqs : q # r => view'[q] = view[q]
  BY <1>1, <1>2, Marking DEF MarkMine
<1>3. CASE Look(r)
  <2>1. pc[r] = "look" /\ Advance(r) /\ client' = client /\ job' = job
    BY <1>3 DEF Look, Looks
  <2>2. MarkMine(r, "found") \/ MarkMine(r, "known") \/ view' = view
    BY <1>3 DEF Look
  <2>3. ViewTyped' /\ \A q \in Reqs : q # r => view'[q] = view[q]
    BY <1>0, <1>2, <2>1, <2>2 DEF ViewTyped
  <2> QED
    BY <1>0, <2>1, <2>3, Advances
<1>4. CASE LookInVain(r)
  <2>1. Refused(r) \in Nat
    BY DEF Refused
  <2>2. Finish(r, Refused(r)) /\ UNCHANGED <<client, step, view, job>>
    BY <1>4 DEF LookInVain
  <2> QED
    BY <1>0, <2>1, <2>2, Ends DEF ViewTyped
<1>5. CASE LookBreaks(r)
  <2>1. pc[r] = "look" /\ MarkMine(r, "broken") /\ Finish(r, 500) /\ UNCHANGED <<client, step, job>>
    BY <1>5 DEF LookBreaks
  <2> QED
    BY <1>0, <1>2, <2>1, Ends
<1>6. CASE List(r)
  <2>1. /\ Goto(r, "rows") \/ Goto(r, "summary")
        /\ UNCHANGED <<client, step, answer, job>>
        /\ view' = [view EXCEPT ![r] =
             [n \in Names |-> IF MayList(r, n) /\ Exists(r, n) THEN "listed" ELSE "nothing"]]
    BY <1>6 DEF List
  <2>2. ViewTyped' /\ \A q \in Reqs : q # r => view'[q] = view[q]
    BY <2>1 DEF ViewTyped, Views
  <2> QED
    BY <1>0, <2>1, <2>2, Goes
<1>7. CASE ListInVain(r)
  BY <1>0, <1>7, Ends DEF ListInVain, ViewTyped
<1>8. CASE Settle(r) \/ AnswerList(r)
  <2>1. CASE Settle(r)
    BY <1>0, <2>1, Goes DEF Settle, ViewTyped
  <2>2. CASE AnswerList(r)
    BY <1>0, <2>2, Ends DEF AnswerList, ViewTyped
  <2> QED
    BY <1>8, <2>1, <2>2
<1>9. ASSUME NEW n \in Names, Row(r, n) \/ RowFails(r, n) \/ Summarise(r, n) PROVE Harmless(r)
  <2>1. /\ \E v \in {"known", "found", "unknown", "shown"} : Mark(r, n, v)
        /\ UNCHANGED <<client, step, pc, answer, job>>
    BY <1>9 DEF Row, RowFails, Summarise
  <2> QED
    BY <1>0, <2>1, Marking
<1>10. ASSUME NEW n \in Names, SummaryFails(r, n) PROVE Harmless(r)
  <2>1. /\ Mark(r, n, "broken") \/ Mark(r, n, "gone")
        /\ Finish(r, 500) /\ UNCHANGED <<client, step, job>>
    BY <1>10 DEF SummaryFails
  <2> QED
    BY <1>0, <2>1, Ends, Marking
<1>11. CASE FindHost(r)
  <2>1. UNCHANGED <<step, view, job>>
    BY <1>11 DEF FindHost
  <2>2. CASE job[r].host \in Used
    <3>1. /\ client' = [client EXCEPT ![r] = [id |-> job[r].host, daemon |-> hosts[job[r].host]]]
          /\ Goto(r, "look") /\ answer' = answer
      BY <1>11, <2>2 DEF FindHost
    <3>2. client' \in [Reqs -> [id : Ids \cup {0}, daemon : Daemons \cup {NoDaemon}]]
      BY <1>0, <2>2, <3>1 DEF Used
    <3> QED
      BY <1>0, <2>1, <3>1, <3>2, Goes DEF ViewTyped
  <2>3. CASE job[r].host \notin Used
    <3>1. Finish(r, 404) /\ client' = client
      BY <1>11, <2>3 DEF FindHost
    <3> QED
      BY <1>0, <2>1, <3>1, Ends DEF ViewTyped
  <2> QED
    BY <2>2, <2>3
<1>12. CASE Probe(r)
  <2>1. Advance(r) /\ UNCHANGED <<client, view, job>>
    BY <1>12 DEF Probe
  <2> QED
    BY <1>0, <2>1, Advances DEF ViewTyped
<1>13. CASE ProbeFails(r)
  BY <1>0, <1>13, Ends DEF ProbeFails, ViewTyped
<1>14. CASE ProbeBreaks(r)
  <2>1. pc[r] = "look" /\ MarkMine(r, "broken") /\ Finish(r, 500) /\ UNCHANGED <<client, step, job>>
    BY <1>14 DEF ProbeBreaks, Probing
  <2> QED
    BY <1>0, <1>2, <2>1, Ends
<1>15. CASE Open(r)
  <2>1. Goto(r, "stream") /\ answer' = [answer EXCEPT ![r] = 200] /\ UNCHANGED <<client, step, view, job>>
    BY <1>15 DEF Open
  <2>2. answer' \in [Reqs -> Nat] /\ \A q \in Reqs : q # r => answer'[q] = answer[q]
    BY <1>0, <2>1
  <2> QED
    BY <1>0, <2>1, <2>2, Goes DEF ViewTyped
<1>16. CASE Poll(r)
  <2>1. /\ pc[r] = "stream" /\ UNCHANGED <<client, pc, answer, job>>
        /\ MarkMine(r, "known") \/ MarkMine(r, "found")
        /\ step' = [step EXCEPT ![r] = IF step[r] = Len(Script("stats")) THEN 1 ELSE @ + 1]
    BY <1>16 DEF Poll
  <2>2. step' \in [Reqs -> Nat] /\ \A q \in Reqs : q # r => step'[q] = step[q]
    BY <1>0, <2>1
  <2> QED
    BY <1>0, <1>2, <2>1, <2>2
<1>17. CASE PollFails(r)
  <2>1. /\ pc[r] = "stream" /\ Goto(r, "done") /\ UNCHANGED <<client, step, answer, job>>
        /\ view' = view \/ MarkMine(r, "told")
    BY <1>17 DEF PollFails
  <2>2. ViewTyped' /\ \A q \in Reqs : q # r => view'[q] = view[q]
    BY <1>0, <1>2, <2>1 DEF ViewTyped
  <2> QED
    BY <1>0, <2>1, <2>2, Goes
<1>18. CASE PollBreaks(r) \/ Unsubscribe(r)
  <2>1. /\ pc[r] = "stream" /\ Goto(r, "done") /\ UNCHANGED <<client, step, answer, job>>
        /\ MarkMine(r, "broken") \/ MarkMine(r, "left")
    BY <1>18 DEF PollBreaks, Unsubscribe
  <2> QED
    BY <1>0, <1>2, <2>1, Goes
<1> QED
  BY <1>3, <1>4, <1>5, <1>6, <1>7, <1>8, <1>9, <1>10, <1>11, <1>12, <1>13, <1>14, <1>15,
     <1>16, <1>17, <1>18
     DEF Reading, ServeReading, Stream

(***************************************************************************)
(* Where a step leaves a request                                           *)
(***************************************************************************)
\* A reading that is at its end, and was seen to be there or told so.
LEMMA Ended ==
  ASSUME NEW r \in Reqs, job[r] \in Job, job' = job, pc'[r] = "done",
         job[r].op \in OfAContainer /\ EndsUnannounced(r)' => Mine(r)' \in {"found", "broken"}
  PROVE  ReadsOn(r)' /\ NoSurprise(r)'
  BY DEF ReadsOn, NoSurprise

\* One that goes on.
LEMMA GoesOn == ASSUME NEW r \in Reqs, pc'[r] # "done" PROVE NoSurprise(r)'
  BY DEF NoSurprise, EndsUnannounced

\* The calls of a container: the last one announces the end of the reading, the
\* others find the container.
LEMMA LookReadsOn ==
  ASSUME Typed, ViewTyped, NEW r \in Reqs, ReadsOn(r), Look(r)
  PROVE  ReadsOn(r)' /\ NoSurprise(r)'
<1>1. /\ pc[r] = "look" /\ job[r].op \in ReadingOps \ {"stats"} /\ job' = job
      /\ job[r] \in Job /\ Halfway(r) /\ Advance(r)
  BY DEF Look, Looks, ReadsOn, OnlyLooks
<1>2. step[r] \in Nat
  BY DEF Typed
<1>3. CASE pc'[r] = "done" /\ answer'[r] = 200
  <2>1. ~ EndsUnannounced(r)'
    BY <1>1, <1>3 DEF EndsUnannounced
  <2> QED
    BY <1>1, <1>3, <2>1, Ended
<1>4. CASE step[r] # Len(Script(job[r].op)) /\ pc' = pc
  <2>1. step'[r] = step[r] + 1
    BY <1>1, Advances
  <2>2. ASSUME job[r].op \in OfAContainer
        PROVE  step'[r] \in 1 .. Len(Script(job[r].op)) /\ Mine(r)' = "found"
    <3> DEFINE s == Script(job[r].op)
               length == Len(s)
    <3>1. length \in 1 .. 3 /\ \A k \in 1 .. length : k < length => s[k] = Do("find", "container")
      BY <2>2, ContainerScripts DEF Cautious
    <3>2. step[r] \in 1 .. length
      BY <1>1, <2>2 DEF Halfway
    <3>3. s[step[r]] = Do("find", "container")
      BY <1>4, <3>1, <3>2
    <3>4. MarkMine(r, "found")
      <4>1. CallOf(r) = Do("find", "container")
        BY <3>3 DEF CallOf
      <4>2. CallOf(r).verb # "state"
        BY <4>1 DEF Do
      <4> QED
        BY <4>1, <4>2 DEF Look
    <3>5. Mine(r)' = "found"
      BY <1>1, <3>4, Marking DEF MarkMine, Mine, Job, Views
    <3> HIDE DEF length
    <3>6. step'[r] \in 1 .. length
      BY <1>4, <2>1, <3>1, <3>2 DEF length
    <3> QED
      BY <3>5, <3>6 DEF length
  <2> QED
    BY <1>1, <1>4, <2>1, <2>2, GoesOn DEF ReadsOn, Halfway
<1>5. \/ pc'[r] = "done" /\ answer'[r] = 200
      \/ step[r] # Len(Script(job[r].op)) /\ pc' = pc
  BY <1>1, Advances
<1> QED
  BY <1>3, <1>4, <1>5

\* A refused call is a 500 only when the container was found before.
LEMMA LookInVainReadsOn ==
  ASSUME Typed, ViewTyped, NEW r \in Reqs, ReadsOn(r), LookInVain(r)
  PROVE  ReadsOn(r)' /\ NoSurprise(r)'
<1>1. /\ pc[r] = "look" /\ job[r].op \in ReadingOps \ {"stats"} /\ job' = job
      /\ job[r] \in Job /\ Halfway(r) /\ Finish(r, Refused(r)) /\ view' = view
  BY DEF LookInVain, Looks, ReadsOn, OnlyLooks
<1>2. Refused(r) \in Nat /\ (Refused(r) = 500 => Bare(CallOf(r)))
  BY DEF Refused, Bare
<1>3. pc'[r] = "done" /\ answer'[r] = Refused(r)
  BY <1>1, <1>2, Ends
<1>4. ASSUME job[r].op \in OfAContainer, Bare(CallOf(r)) PROVE Mine(r) = "found"
  <2>1. step[r] \in 1 .. Len(Script(job[r].op)) /\ (step[r] > 1 => Mine(r) = "found")
    BY <1>1, <1>4 DEF Halfway
  <2>2. step[r] > 1
    BY <1>4, <2>1, ContainerScripts DEF Cautious, CallOf
  <2> QED
    BY <2>1, <2>2
<1>5. Mine(r)' = Mine(r)
  BY <1>1 DEF Mine
<1>6. job[r].op \in OfAContainer /\ EndsUnannounced(r)' => Mine(r)' \in {"found", "broken"}
  BY <1>1, <1>2, <1>3, <1>4, <1>5 DEF EndsUnannounced
<1> QED
  BY <1>1, <1>3, <1>6, Ended

\* What breaks is marked as broken.
LEMMA BrokenReadsOn ==
  ASSUME Typed, ViewTyped, NEW r \in Reqs, ReadsOn(r), pc[r] # "idle", pc'[r] = "done",
         job' = job, MarkMine(r, "broken")
  PROVE  ReadsOn(r)' /\ NoSurprise(r)'
<1>1. job[r] \in Job
  BY DEF ReadsOn
<1>2. Mine(r)' = "broken"
  BY <1>1, Marking DEF MarkMine, Mine, Job, Views
<1> QED
  BY <1>1, <1>2, Ended

\* The stream polls in two calls, and only the second one is bare.
LEMMA StreamReadsOn ==
  ASSUME Typed, ViewTyped, NEW r \in Reqs, ReadsOn(r), Stream(r)
  PROVE  ReadsOn(r)' /\ NoSurprise(r)'
<1>1. job' = job /\ (Open(r) \/ pc[r] = "stream")
  BY DEF Stream, Open, Poll, PollFails, PollBreaks, Unsubscribe, OnlyLooks
<1>2. job[r] \in Job
  BY <1>1 DEF ReadsOn, Open
<1>3. ASSUME NEW v \in Views, MarkMine(r, v) PROVE Mine(r)' = v
  BY <1>1, <1>2, <1>3, Marking DEF MarkMine, Mine, Job
<1>4. CASE Open(r)
  <2>1. pc[r] = "look" /\ job[r].op = "stats" /\ Goto(r, "stream") /\ step' = step
        /\ answer' = [answer EXCEPT ![r] = 200]
    BY <1>4 DEF Open
  <2>2. pc'[r] = "stream" /\ answer'[r] = 200 /\ step'[r] = 1
    BY <2>1 DEF Goto, Typed, ReadsOn, Halfway
  <2> QED
    BY <1>1, <1>2, <2>1, <2>2, GoesOn DEF ReadsOn, Polling
<1>5. ASSUME pc[r] = "stream"
      PROVE  Polling(r)
  BY <1>5 DEF ReadsOn
<1>6. CASE Poll(r)
  <2>1. pc[r] = "stream" /\ pc' = pc /\ answer' = answer /\ Polling(r)
    BY <1>5, <1>6 DEF Poll
  <2>2. /\ step' = [step EXCEPT ![r] = IF step[r] = 2 THEN 1 ELSE step[r] + 1]
        /\ MarkMine(r, IF step[r] = 2 THEN "known" ELSE "found")
    BY <1>6, ContainerScripts DEF Poll
  <2>3. step'[r] = (IF step[r] = 2 THEN 1 ELSE step[r] + 1)
        /\ Mine(r)' = (IF step[r] = 2 THEN "known" ELSE "found")
    BY <1>3, <2>2 DEF Typed, Views
  <2> QED
    BY <1>1, <1>2, <2>1, <2>3, GoesOn DEF ReadsOn, Polling
<1>7. CASE PollFails(r)
  <2>1. pc[r] = "stream" /\ Goto(r, "done") /\ answer' = answer /\ Polling(r)
    BY <1>5, <1>7 DEF PollFails
  <2>2. pc'[r] = "done" /\ answer'[r] = 200
    BY <2>1 DEF Goto, Typed, Polling
  <2>3. CASE Bare(CallOf(r))
    <3>1. step[r] # 1
      <4> DEFINE s == Script("stats")
      <4>1. Cautious(s) /\ Len(s) = 2
        BY ContainerScripts DEF OfAContainer
      <4>2. ~ Bare(Script("stats")[1])
        BY <4>1 DEF Cautious
      <4> QED
        BY <2>1, <2>3, <4>2 DEF Polling, CallOf
    <3>2. Mine(r) = "found" /\ view' = view
      BY <1>7, <2>1, <2>3, <3>1 DEF Polling, PollFails
    <3>3. Mine(r)' = "found"
      BY <1>1, <3>2 DEF Mine
    <3> QED
      BY <1>1, <1>2, <2>2, <3>3, Ended
  <2>4. CASE ~ Bare(CallOf(r))
    <3>1. Mine(r)' = "told"
      BY <1>3, <1>7, <2>4 DEF PollFails, Views
    <3>2. ~ EndsUnannounced(r)'
      BY <2>2, <3>1 DEF EndsUnannounced
    <3> QED
      BY <1>1, <1>2, <2>2, <3>2, Ended
  <2> QED
    BY <2>3, <2>4
<1>8. CASE PollBreaks(r)
  <2>1. pc[r] = "stream" /\ Goto(r, "done") /\ MarkMine(r, "broken")
    BY <1>8 DEF PollBreaks
  <2> QED
    BY <1>1, <2>1, BrokenReadsOn DEF Goto, Typed
<1>9. CASE Unsubscribe(r)
  <2>1. pc[r] = "stream" /\ Goto(r, "done") /\ MarkMine(r, "left") /\ answer' = answer
    BY <1>9 DEF Unsubscribe
  <2>2. pc'[r] = "done" /\ answer'[r] = 200 /\ Mine(r)' = "left"
    BY <1>3, <1>5, <2>1 DEF Goto, Typed, Polling, Views
  <2>3. ~ EndsUnannounced(r)'
    BY <2>2 DEF EndsUnannounced
  <2> QED
    BY <1>1, <1>2, <2>2, <2>3, Ended
<1> QED
  BY <1>4, <1>6, <1>7, <1>8, <1>9 DEF Stream

\* Every step of a reading leaves its request where it should be.
LEMMA ReadingReadsOn ==
  ASSUME Typed, ViewTyped, NEW r \in Reqs, ReadsOn(r), Reading(r)
  PROVE  ReadsOn(r)' /\ NoSurprise(r)'
<1> USE DEF OnlyLooks
<1>0. {"look", "rows", "summary", "done"} \subseteq Places
  BY DEF Places, Stages
<1>1. CASE Look(r)
  BY <1>1, LookReadsOn
<1>2. CASE LookInVain(r)
  BY <1>2, LookInVainReadsOn
<1>3. CASE LookBreaks(r) \/ ProbeBreaks(r)
  <2>1. pc[r] = "look" /\ MarkMine(r, "broken") /\ Finish(r, 500) /\ job' = job
    BY <1>3 DEF LookBreaks, ProbeBreaks, Probing
  <2> QED
    BY <2>1, Ends, BrokenReadsOn
<1>4. CASE List(r)
  <2>1. /\ job[r].op \in Lists /\ job' = job /\ job[r] \in Job
        /\ Goto(r, IF job[r].op = "list" THEN "rows" ELSE "summary")
        /\ view' = [view EXCEPT ![r] =
             [n \in Names |-> IF MayList(r, n) /\ Exists(r, n) THEN "listed" ELSE "nothing"]]
    BY <1>4 DEF List, Listing, ReadsOn
  <2>2. pc'[r] = IF job[r].op = "list" THEN "rows" ELSE "summary"
    BY <1>0, <2>1, Goes
  <2>3. \A n \in Names : view'[r][n] \in {"listed", "nothing"}
    BY <2>1 DEF ViewTyped
  <2> QED
    BY <2>1, <2>2, <2>3, GoesOn DEF ReadsOn, RowsListed, Summing
<1>5. CASE ListInVain(r) \/ AnswerList(r)
  <2>1. /\ job[r].op \in Lists /\ job' = job /\ job[r] \in Job
        /\ Finish(r, 500) \/ Finish(r, 200)
    BY <1>5 DEF ListInVain, Listing, AnswerList, ReadsOn, Summing
  <2>2. pc'[r] = "done"
    BY <2>1, Ends
  <2>3. job[r].op \notin OfAContainer
    BY <2>1 DEF Lists, OfAContainer
  <2> QED
    BY <2>1, <2>2, <2>3, Ended
<1>6. ASSUME NEW n \in Names, Row(r, n) \/ RowFails(r, n)
      PROVE  ReadsOn(r)' /\ NoSurprise(r)'
  <2>1. /\ Mark(r, n, "known") \/ Mark(r, n, "found") \/ Mark(r, n, "unknown")
        /\ pc[r] = "rows" /\ pc' = pc /\ job' = job
    BY <1>6 DEF Row, RowFails, IsOpen
  <2>2. RowsListed(r)'
    BY <2>1, Marking DEF ReadsOn, RowsListed, Views
  <2> QED
    BY <2>1, <2>2, GoesOn DEF ReadsOn
<1>7. CASE Settle(r)
  <2>1. /\ pc[r] = "rows" /\ RowsListed(r) /\ job[r] \in Job /\ job' = job /\ view' = view
        /\ Goto(r, "summary") /\ \A n \in Names : ~ IsOpen(r, n)
    BY <1>7 DEF Settle, ReadsOn
  <2>2. pc'[r] = "summary"
    BY <1>0, <2>1, Goes
  <2>3. Summing(r)'
    BY <2>1 DEF RowsListed, Summing, IsOpen, Lists
  <2> QED
    BY <2>1, <2>2, <2>3, GoesOn DEF ReadsOn
<1>8. ASSUME NEW n \in Names, Summarise(r, n) PROVE ReadsOn(r)' /\ NoSurprise(r)'
  <2>1. Mark(r, n, "shown") /\ pc[r] = "summary" /\ pc' = pc /\ job' = job
    BY <1>8 DEF Summarise, IsDue
  <2>2. Summing(r)'
    BY <2>1, Marking DEF ReadsOn, Summing, Views
  <2> QED
    BY <2>1, <2>2, GoesOn DEF ReadsOn
<1>9. ASSUME NEW n \in Names, SummaryFails(r, n) PROVE ReadsOn(r)' /\ NoSurprise(r)'
  <2>1. job[r].op \in Lists /\ job' = job /\ job[r] \in Job /\ Finish(r, 500)
    BY <1>9 DEF SummaryFails, IsDue, ReadsOn, Summing
  <2>2. pc'[r] = "done"
    BY <2>1, Ends
  <2>3. job[r].op \notin OfAContainer
    BY <2>1 DEF Lists, OfAContainer
  <2> QED
    BY <2>1, <2>2, <2>3, Ended
<1>10. CASE FindHost(r)
  <2>1. /\ pc[r] = "resolve" /\ job[r].op \in Probes /\ job' = job /\ step' = step
        /\ Goto(r, "look") \/ Finish(r, 404)
    BY <1>10 DEF FindHost
  <2>2. job[r] \in Job /\ job[r].op \notin OfAContainer
    BY <2>1 DEF ReadsOn, Probes, OfAContainer
  <2>3. pc'[r] \in {"look", "done"}
    BY <1>0, <2>1, Goes, Ends
  <2> QED
    BY <2>1, <2>2, <2>3 DEF ReadsOn, NoSurprise, Halfway, OfAContainer
<1>11. CASE Probe(r) \/ ProbeFails(r)
  <2>1. /\ pc[r] = "look" /\ job[r].op \in Probes /\ job' = job
        /\ Advance(r) \/ Finish(r, 200)
    BY <1>11 DEF Probe, ProbeFails, Probing
  <2>2. job[r] \in Job /\ job[r].op \notin OfAContainer
    BY <2>1 DEF ReadsOn, Probes, OfAContainer
  <2>3. pc'[r] \in {"look", "done"}
    BY <2>1, Advances, Ends
  <2> QED
    BY <2>1, <2>2, <2>3 DEF ReadsOn, NoSurprise, Halfway, OfAContainer
<1>12. CASE Stream(r)
  BY <1>12, StreamReadsOn
<1> QED
  BY <1>1, <1>2, <1>3, <1>4, <1>5, <1>6, <1>7, <1>8, <1>9, <1>10, <1>11, <1>12
     DEF Reading, ServeReading

\* A request that is not a reading, or is not one yet, ends with an answer that
\* does not surprise the client of a reading.
LEMMA WriterReadsOn ==
  ASSUME Typed, Typed', NEW r \in Reqs, ReadsOn(r), Step(r), view' = view
  PROVE  /\ ReadsOn(r)'
         /\ NoSurprise(r)' \/ (pc[r] = "connect" /\ client[r].daemon \in Remote)
<1> USE DEF Goto, Finish
<1>0. /\ pc \in [Reqs -> Places] /\ answer \in [Reqs -> Nat] /\ step \in [Reqs -> Nat]
      /\ job \in [Reqs -> Job \cup {NoJob}] /\ job' \in [Reqs -> Job \cup {NoJob}]
  BY DEF Typed
<1>1. CASE Send(r)
  <2>1. PICK op \in Ops, n \in Names, u \in Users, h \in Used \cup {0} :
          job' = [job EXCEPT ![r] =
                   [op |-> op, name |-> n, user |-> u, host |-> h,
                    meant |-> IF h = 0 THEN NoDaemon ELSE hosts[h]]]
    BY <1>1, Sending
  <2>2. job'[r] \in Job
    <3>1. op \in AllOps /\ h \in Ids \cup {0}
      BY OperationsAssumption DEF OperationsAssumption, Used
    <3>2. (IF h = 0 THEN NoDaemon ELSE hosts[h]) \in Daemons \cup {NoDaemon}
      BY <3>1 DEF Typed
    <3> QED
      BY <1>0, <2>1, <3>1, <3>2 DEF Job
  <2>3. pc[r] = "idle" /\ pc'[r] = "authenticate" /\ step' = step
    BY <1>0, <1>1 DEF Send
  <2> QED
    BY <2>2, <2>3, GoesOn DEF ReadsOn
<1>2. ASSUME job' = job, step' = step, pc[r] \in {"authenticate", "resolve", "connect"},
             pc'[r] \in {"resolve", "connect"} \/
             (pc'[r] = "done" /\ answer'[r] \notin {200, 500})
      PROVE  ReadsOn(r)' /\ NoSurprise(r)'
  BY <1>2 DEF ReadsOn, NoSurprise, EndsUnannounced
<1>3. CASE Authenticate(r)
  BY <1>0, <1>2, <1>3 DEF Authenticate
<1>4. CASE Resolve(r)
  <2>1. Unresolved(job[r].host) \notin {200, 500}
    BY DEF Unresolved
  <2> QED
    BY <1>0, <1>2, <1>4, <2>1 DEF Resolve
<1>5. CASE Connect(r)
  <2>1. pc[r] = "connect" /\ job' = job /\ step' = step /\ step[r] = 1 /\ job[r] \in Job
    BY <1>5 DEF Connect, ReadsOn
  <2>2. ASSUME NEW code \in ConnectErrors(client[r].daemon), Finish(r, code)
        PROVE  /\ ReadsOn(r)'
               /\ NoSurprise(r)' \/ (pc[r] = "connect" /\ client[r].daemon \in Remote)
    <3>1. code \in {500, 502} /\ (code = 500 => client[r].daemon \in Remote)
      BY <2>2 DEF ConnectErrors
    <3>2. pc'[r] = "done" /\ answer'[r] = code
      BY <1>0, <2>2
    <3>3. ReadsOn(r)'
      BY <2>1, <3>2 DEF ReadsOn
    <3>4. CASE code = 502
      BY <1>2, <2>1, <3>2, <3>4
    <3> QED
      BY <2>1, <3>1, <3>3, <3>4
  <2>3. CASE Goto(r, IF job[r].op \in ChangingOps THEN "call" ELSE "look")
    <3>1. pc'[r] = IF job[r].op \in ChangingOps THEN "call" ELSE "look"
      BY <1>0, <2>3
    <3>2. ASSUME job[r].op \in OfAContainer PROVE 1 \in 1 .. Len(Script(job[r].op))
      <4> DEFINE length == Len(Script(job[r].op))
      <4>1. length \in 1 .. 3
        BY <3>2, ContainerScripts DEF Cautious
      <4> HIDE DEF length
      <4>2. 1 \in 1 .. length
        BY <4>1
      <4> QED
        BY <4>2 DEF length
    <3>3. Halfway(r)'
      BY <2>1, <3>2 DEF Halfway
    <3> QED
      BY <2>1, <3>1, <3>3, GoesOn DEF ReadsOn
  <2> QED
    BY <1>5, <2>2, <2>3 DEF Connect
<1>6. ASSUME job' = job, pc[r] \in {"call", "audit", "notify"},
             pc'[r] \in {"call", "audit", "notify", "done"}
      PROVE  ReadsOn(r)' /\ NoSurprise(r)'
  <2>1. job[r] \in Job /\ job[r].op \notin OfAContainer
    BY <1>6 DEF ReadsOn, ChangingOps, OfAContainer
  <2>2. job[r].op \in ChangingOps
    BY <1>6 DEF ReadsOn
  <2> QED
    BY <1>6, <2>1, <2>2 DEF ReadsOn, NoSurprise
<1>7. CASE Call(r)
  <2>1. job' = job /\ pc[r] = "call" /\ (pc' = pc \/ Goto(r, "audit"))
    BY <1>7 DEF Call
  <2> QED
    BY <1>0, <1>6, <2>1
<1>8. CASE Refuse(r)
  BY <1>0, <1>6, <1>8 DEF Refuse
<1>9. CASE Break(r)
  BY <1>0, <1>6, <1>9 DEF Break
<1>10. CASE Audit(r)
  BY <1>0, <1>6, <1>10 DEF Audit
<1>11. CASE Notify(r)
  BY <1>0, <1>6, <1>11 DEF Notify
<1>12. CASE Crash(r)
  BY <1>0, <1>12, GoesOn DEF Crash, ReadsOn
<1> QED
  BY <1>1, <1>3, <1>4, <1>5, <1>7, <1>8, <1>9, <1>10, <1>11, <1>12 DEF Step, Serve

\* No request is looking at the start.
LEMMA InitReads == ASSUME ReadingInit PROVE ReadingInv
<1>1. Typed
  BY InitTyped DEF ReadingInit
<1>2. ViewTyped
  BY DEF ReadingInit, ViewTyped, Views
<1>3. \A r \in Reqs : pc[r] = "idle" /\ step[r] = 1
  BY DEF ReadingInit, Init
<1> QED
  BY <1>1, <1>2, <1>3 DEF ReadingInv, ReadsOn

\* A request that does not move stays where it is.
LEMMA StaysReading ==
  ASSUME NEW q \in Reqs, ReadsOn(q), pc'[q] = pc[q], step'[q] = step[q], answer'[q] = answer[q],
         view'[q] = view[q], job'[q] = job[q]
  PROVE  ReadsOn(q)'
  BY DEF ReadsOn, Halfway, Polling, RowsListed, Summing, Mine

\* Every step keeps each request where it should be.
LEMMA NextReads == ASSUME ReadingInv, [ReadingNext]_readingVars PROVE ReadingInv'
<1> Typed /\ ViewTyped /\ \A r \in Reqs : ReadsOn(r)
  BY DEF ReadingInv
<1>1. CASE [Next]_vars /\ view' = view
  <2>1. Typed' /\ ViewTyped'
    BY <1>1, NextTyped DEF ViewTyped
  <2>2. ASSUME NEW r \in Reqs, Step(r), NEW q \in Reqs PROVE ReadsOn(q)'
    <3>1. CASE q = r
      BY <1>1, <2>1, <2>2, <3>1, WriterReadsOn
    <3>2. CASE q # r
      <4>1. /\ pc'[q] = pc[q] /\ answer'[q] = answer[q] /\ job'[q] = job[q]
            /\ step'[q] = step[q] /\ view'[q] = view[q]
        BY <1>1, <2>2, <3>2, OneAtATime
      <4> QED
        BY <4>1, StaysReading
    <3> QED
      BY <3>1, <3>2
  <2>3. CASE UNCHANGED <<pc, job, step, answer>>
    <3>1. \A q \in Reqs : ReadsOn(q)'
      BY <1>1, <2>3, StaysReading
    <3> QED
      BY <2>1, <3>1 DEF ReadingInv
  <2>4. (\E r \in Reqs : Step(r)) \/ UNCHANGED <<pc, job, step, answer>>
    BY <1>1 DEF Next, Step, Leave, RegisterHost, RemoveHost, vars
  <2> QED
    BY <2>1, <2>2, <2>3, <2>4 DEF ReadingInv
<1>2. ASSUME NEW r \in Reqs, Reading(r) PROVE ReadingInv'
  <2>1. OnlyLooks
    BY <1>2 DEF Reading, ServeReading, Stream, Look, LookInVain, LookBreaks, List, ListInVain,
       Settle, AnswerList, Row, RowFails, Summarise, SummaryFails, FindHost, Probe, ProbeFails,
       ProbeBreaks, Open, Poll, PollFails, PollBreaks, Unsubscribe
  <2>2. Harmless(r)
    BY <1>2, ReadingHarmless
  <2>3. Typed'
    BY <2>1, <2>2 DEF OnlyLooks, Harmless, Typed
  <2>4. ASSUME NEW q \in Reqs PROVE ReadsOn(q)'
    <3>1. CASE q = r
      BY <1>2, <3>1, ReadingReadsOn
    <3>2. CASE q # r
      BY <2>2, <3>2, StaysReading DEF Harmless, Elsewhere
    <3> QED
      BY <3>1, <3>2
  <2> QED
    BY <2>2, <2>3, <2>4 DEF ReadingInv, Harmless
<1>3. CASE UNCHANGED readingVars
  BY <1>1, <1>3 DEF readingVars
<1>4. ReadingNext => ([Next]_vars /\ view' = view) \/ \E r \in Reqs : Reading(r)
  BY DEF ReadingNext, Reading
<1> QED
  BY <1>1, <1>2, <1>3, <1>4

\* The invariant of the readings.
LEMMA ReadingsHold == ReadingSpec => []ReadingInv
<1>1. ReadingInit => ReadingInv
  BY InitReads
<1>2. ReadingInv /\ [ReadingNext]_readingVars => ReadingInv'
  BY NextReads
<1> QED
  BY <1>1, <1>2, PTL DEF ReadingSpec

\* Whoever ends unannounced in a step made that step, and it was a race, or a
\* connection that broke or did not open.
LEMMA SurpriseExplained ==
  ASSUME ReadingInv, [ReadingNext]_readingVars, NEW r \in Reqs,
         job[r].op \in OfAContainer, ~ EndsUnannounced(r), EndsUnannounced(r)'
  PROVE  \/ Mine(r)' \in {"found", "broken"}
         \/ pc[r] = "connect" /\ client[r].daemon \in Remote
<1>1. Typed /\ ViewTyped /\ \A q \in Reqs : ReadsOn(q)
  BY DEF ReadingInv
<1>2. ~ (pc'[r] = pc[r] /\ answer'[r] = answer[r] /\ job'[r] = job[r] /\ view'[r] = view[r])
  BY DEF EndsUnannounced, Mine
<1>3. pc'[r] = "done"
  BY DEF EndsUnannounced
<1>4. ASSUME NEW q \in Reqs, Step(q), view' = view, Typed'
      PROVE  \/ Mine(r)' \in {"found", "broken"}
             \/ pc[r] = "connect" /\ client[r].daemon \in Remote
  <2>1. q = r
    BY <1>1, <1>2, <1>4, OneAtATime
  <2>2. ~ Send(r)
    BY <1>1, <1>3 DEF Send, Goto, Typed
  <2>3. job' = job
    BY <1>4, <2>1, <2>2 DEF Step, Serve, Authenticate, Resolve, Connect, Call, Refuse, Break,
       Audit, Notify, Crash
  <2>4. NoSurprise(r)' \/ (pc[r] = "connect" /\ client[r].daemon \in Remote)
    BY <1>1, <1>4, <2>1, WriterReadsOn
  <2> QED
    BY <2>3, <2>4 DEF NoSurprise
<1>5. ASSUME NEW q \in Reqs, Reading(q) PROVE Mine(r)' \in {"found", "broken"}
  <2>1. Harmless(q)
    BY <1>1, <1>5, ReadingHarmless
  <2>2. q = r
    BY <1>2, <2>1 DEF Harmless, Elsewhere
  <2>3. job' = job
    BY <1>5 DEF Reading, ServeReading, Stream, Look, LookInVain, LookBreaks, List, ListInVain,
       Settle, AnswerList, Row, RowFails, Summarise, SummaryFails, FindHost, Probe, ProbeFails,
       ProbeBreaks, Open, Poll, PollFails, PollBreaks, Unsubscribe, OnlyLooks
  <2>4. NoSurprise(r)'
    BY <1>1, <1>5, <2>2, ReadingReadsOn
  <2> QED
    BY <2>3, <2>4 DEF NoSurprise
<1>6. CASE Next /\ view' = view
  <2>1. Typed'
    BY <1>1, <1>6, NextTyped
  <2>2. (\E q \in Reqs : Step(q)) \/ UNCHANGED <<pc, job, answer>>
    BY <1>6 DEF Next, Step, Leave, RegisterHost, RemoveHost
  <2> QED
    BY <1>2, <1>4, <1>6, <2>1, <2>2
<1>7. ~ UNCHANGED readingVars
  BY <1>2 DEF readingVars, vars
<1> QED
  BY <1>5, <1>6, <1>7 DEF ReadingNext, Reading

\* A reading of a container ends in a 500, or its stream without an event, only
\* when the container was found a moment before in the same reading or poll, when
\* the connection broke, or when one to a remote daemon did not open
\* (get_container, container_stats_sse, connect_tls): whatever other requests do
\* meanwhile.
THEOREM OnlyRacesSurprise == ReadingSpec => SurprisesAreRaces
<1> DEFINE Explained(r) ==
      job[r] # NoJob /\ job[r].op \in OfAContainer
        /\ ~ EndsUnannounced(r) /\ EndsUnannounced(r)' =>
      \/ Mine(r)' \in {"found", "broken"}
      \/ pc[r] = "connect" /\ client[r].daemon \in Remote
<1>1. ReadingInv /\ [ReadingNext]_readingVars => [\A r \in Reqs : Explained(r)]_readingVars
  BY SurpriseExplained
<1> QED
  BY <1>1, ReadingsHold, PTL DEF ReadingSpec, SurprisesAreRaces

\* Only a reading's own step ends its looking.
LEMMA LooksEndByReading ==
  ASSUME ReadingInv, [ReadingNext]_readingVars, NEW r \in Reqs,
         pc[r] \in {"look", "rows", "summary"}, pc'[r] = "done"
  PROVE  Reading(r)
<1>1. Typed /\ ViewTyped /\ \A q \in Reqs : ReadsOn(q)
  BY DEF ReadingInv
<1>2. ASSUME NEW q \in Reqs, Step(q) PROVE FALSE
  <2>1. CASE q # r
    BY <1>1, <1>2, <2>1, OneAtATime
  <2>2. CASE q = r
    <3>1. Crash(r)
      BY <1>2, <2>2 DEF Step, Serve, Send, Authenticate, Resolve, Connect, Call, Refuse, Break,
         Audit, Notify
    <3> QED
      BY <1>1, <3>1 DEF Crash, Goto, Typed
  <2> QED
    BY <2>1, <2>2
<1>3. pc' # pc
  OBVIOUS
<1>4. ~ Next
  BY <1>2, <1>3 DEF Next, Step, Leave, RegisterHost, RemoveHost
<1>5. PICK q \in Reqs : Reading(q)
  BY <1>3, <1>4 DEF ReadingNext, Reading, readingVars, vars
<1>6. CASE q # r
  BY <1>1, <1>5, <1>6, ReadingHarmless DEF Harmless, Elsewhere
<1> QED
  BY <1>5, <1>6

\* What a list ends with.
LEMMA RowsEnd ==
  ASSUME ReadingInv, NEW r \in Reqs, Reading(r), pc[r] \in {"rows", "summary"}, pc'[r] = "done"
  PROVE  \/ answer'[r] = 200 /\ \A n \in Names : view[r][n] \in {"nothing", "shown"}
         \/ answer'[r] = 500 /\ pc[r] = "summary" /\ ~ mock /\ Unbuilt(r)
<1>1. Typed /\ ViewTyped /\ (pc[r] = "summary" => Summing(r))
  BY DEF ReadingInv, ReadsOn
<1>2. pc' # pc /\ ~ Goto(r, "summary")
  BY <1>1 DEF Goto, Typed
<1>3. AnswerList(r) \/ \E n \in Names : SummaryFails(r, n)
  BY <1>2 DEF Reading, ServeReading, Stream, Look, Looks, Listing, LookInVain, LookBreaks, List,
     ListInVain, Settle, Row, RowFails, Summarise, FindHost, Probe, ProbeFails, ProbeBreaks,
     Probing, Open, Poll, PollFails, PollBreaks, Unsubscribe
<1>4. CASE AnswerList(r)
  <2>1. pc[r] = "summary" /\ answer'[r] = 200 /\ \A n \in Names : ~ IsDue(r, n)
    BY <1>1, <1>4, Ends DEF AnswerList
  <2> QED
    BY <1>1, <2>1 DEF IsDue, Summing
<1>5. ASSUME NEW n \in Names, SummaryFails(r, n)
      PROVE  answer'[r] = 500 /\ pc[r] = "summary" /\ ~ mock /\ Unbuilt(r)
  <2>1. /\ IsDue(r, n) /\ ~ mock /\ Finish(r, 500)
        /\ Mark(r, n, IF Exists(r, n) THEN "broken" ELSE "gone")
    BY <1>5 DEF SummaryFails
  <2>2. Exists(r, n) => view'[r][n] = "broken"
    BY <1>1, <2>1, Marking DEF Views
  <2>3. answer'[r] = 500
    BY <1>1, <2>1, Ends
  <2> QED
    BY <2>1, <2>2, <2>3 DEF Unbuilt, IsDue
<1> QED
  BY <1>3, <1>4, <1>5

\* What a probe ends with.
LEMMA ProbeEnds ==
  ASSUME ReadingInv, NEW r \in Reqs, Reading(r), pc[r] = "look", pc'[r] = "done",
         job[r].op \in Probes
  PROVE  answer'[r] = 200 \/ view'[r][job[r].name] = "broken"
<1>1. Typed /\ ViewTyped /\ job[r] \in Job
  BY DEF ReadingInv, ReadsOn
<1>2. pc' # pc
  OBVIOUS
<1>3. job[r].op \notin ReadingOps
  BY DEF Probes, ReadingOps
<1>4. Probe(r) \/ ProbeFails(r) \/ ProbeBreaks(r)
  BY <1>2, <1>3 DEF Reading, ServeReading, Stream, Look, Looks, LookInVain, LookBreaks, List,
     ListInVain, Listing, Lists, Settle, AnswerList, Row, RowFails, IsOpen, Summarise, SummaryFails,
     IsDue, FindHost, Open, Poll, PollFails, PollBreaks,
     Unsubscribe, ReadingOps, Probes
<1>5. CASE Probe(r)
  BY <1>1, <1>2, <1>5, Advances DEF Probe
<1>6. CASE ProbeFails(r)
  BY <1>1, <1>6, Ends DEF ProbeFails
<1>7. CASE ProbeBreaks(r)
  BY <1>1, <1>7, Marking DEF ProbeBreaks, MarkMine, Job, Views
<1> QED
  BY <1>4, <1>5, <1>6, <1>7

\* No state that cannot be read ends a list of containers: it is answered 200
\* with a row for each of them, or 500 because one could not be fetched when its
\* row was built; and a probe answers 200 unless its client cannot even be built
\* (list_containers, host_health).
THEOREM ListsAndProbesAnswer == ReadingSpec => OutagesStayLocal
<1> DEFINE Told(r) ==
      /\ pc[r] \in {"rows", "summary"} /\ pc'[r] = "done" =>
           \/ answer'[r] = 200 /\ \A n \in Names : view[r][n] \in {"nothing", "shown"}
           \/ answer'[r] = 500 /\ pc[r] = "summary" /\ ~ mock /\ Unbuilt(r)
      /\ pc[r] = "look" /\ pc'[r] = "done" /\ job[r].op \in Probes =>
           answer'[r] = 200 \/ view'[r][job[r].name] = "broken"
<1>1. ASSUME ReadingInv, [ReadingNext]_readingVars PROVE \A r \in Reqs : Told(r)
  BY <1>1, LooksEndByReading, RowsEnd, ProbeEnds
<1>2. ReadingInv /\ [ReadingNext]_readingVars => [\A r \in Reqs : Told(r)]_readingVars
  BY <1>1
<1> QED
  BY <1>2, ReadingsHold, PTL DEF ReadingSpec, OutagesStayLocal

(***************************************************************************)
(* Readings leave the types and the trail as they are                      *)
(***************************************************************************)
\* A script that looks has three calls at most.
LEMMA ReadingLengths == \A op \in ReadingOps \cup Probes : Len(Script(op)) \in 1 .. 3
<1> USE DEF Do
<1>1. Len(Script("list")) \in 1 .. 3
  BY DEF Script, list_containers
<1>2. Len(Script("details")) \in 1 .. 3
  BY DEF Script, get_container, GetContainer
<1>3. Len(Script("details with stats")) \in 1 .. 3
  BY DEF Script, get_with_stats, GetContainer, GetContainerState
<1>4. Len(Script("state")) \in 1 .. 3
  BY DEF Script, get_container_state, GetContainer, GetContainerState
<1>5. Len(Script("snapshots")) \in 1 .. 3
  BY DEF Script, list_snapshots, ListSnapshots, GetContainer
<1>6. Len(Script("list images")) \in 1 .. 3
  BY DEF Script, list_images
<1>7. Len(Script("list networks")) \in 1 .. 3
  BY DEF Script, list_networks
<1>8. Len(Script("list pools")) \in 1 .. 3
  BY DEF Script, list_storage_pools
<1>9. Len(Script("list volumes")) \in 1 .. 3
  BY DEF Script, list_volumes, ListVolumes
<1>10. Len(Script("stats")) \in 1 .. 3
  BY DEF Script, container_stats_sse, GetContainer, GetContainerState
<1>11. Len(Script("health")) \in 1 .. 3
  BY DEF Script, host_health
<1>12. Len(Script("host metrics")) \in 1 .. 3
  BY DEF Script, host_metrics
<1> QED
  BY <1>1, <1>2, <1>3, <1>4, <1>5, <1>6, <1>7, <1>8, <1>9, <1>10, <1>11, <1>12
     DEF ReadingOps, Probes

\* A request that looks is within its script, too.
AtWork(r) ==
  pc[r] = "look" =>
    job[r].op \in ReadingOps \cup Probes /\ step[r] \in 1 .. Len(Script(job[r].op))

\* The step a reading may be at, whatever it does next.
LEMMA AtWorkBound ==
  ASSUME NEW r \in Reqs, AtWork(r), pc[r] = "look"
  PROVE  step[r] \in 1 .. 3
<1> DEFINE length == Len(Script(job[r].op))
<1>1. length \in 1 .. 3 /\ step[r] \in 1 .. length
  BY ReadingLengths, ZenonT(40) DEF AtWork
<1> HIDE DEF length
<1> QED
  BY <1>1

\* Where a reading is before a step and after it.
LEMMA ReadingPlaces ==
  ASSUME Typed, NEW r \in Reqs, Reading(r)
  PROVE  /\ OnlyLooks
         /\ pc[r] \in {"resolve", "look", "rows", "summary", "stream"}
         /\ pc'[r] \in {"look", "rows", "summary", "stream", "done"}
         /\ pc'[r] = "look" => pc[r] \in {"resolve", "look"}
<1>0. pc \in [Reqs -> Places]
  BY DEF Typed
<1>1. OnlyLooks
  BY DEF Reading, ServeReading, Stream, Look, LookInVain, LookBreaks, List, ListInVain,
     Settle, AnswerList, Row, RowFails, Summarise, SummaryFails, FindHost, Probe, ProbeFails,
     ProbeBreaks, Open, Poll, PollFails, PollBreaks, Unsubscribe
<1>2. CASE Look(r) \/ Probe(r)
  BY <1>0, <1>1, <1>2 DEF Look, Looks, Probe, Probing, Advance, Finish, Goto
<1>3. CASE LookInVain(r) \/ LookBreaks(r) \/ ListInVain(r) \/ ProbeFails(r) \/ ProbeBreaks(r)
  BY <1>0, <1>1, <1>3 DEF LookInVain, Looks, LookBreaks, ListInVain, Listing, ProbeFails,
     ProbeBreaks, Probing, Finish, Goto
<1>4. CASE List(r) \/ Settle(r) \/ AnswerList(r) \/ FindHost(r)
  BY <1>0, <1>1, <1>4 DEF List, Listing, Settle, AnswerList, FindHost, Finish, Goto
<1>5. ASSUME NEW n \in Names, Row(r, n) \/ RowFails(r, n) \/ Summarise(r, n)
      PROVE  pc[r] \in {"rows", "summary"} /\ pc' = pc
  BY <1>5 DEF Row, RowFails, IsOpen, Summarise, IsDue
<1>6. ASSUME NEW n \in Names, SummaryFails(r, n) PROVE pc[r] = "summary" /\ pc'[r] = "done"
  BY <1>0, <1>6 DEF SummaryFails, IsDue, Finish, Goto
<1>7. CASE Stream(r)
  BY <1>0, <1>1, <1>7 DEF Stream, Open, Poll, PollFails, PollBreaks, Unsubscribe, Goto
<1> QED
  BY <1>1, <1>2, <1>3, <1>4, <1>5, <1>6, <1>7
     DEF Reading, ServeReading

\* A step of a reading answers with one of the codes and stays in the bounds.
LEMMA ReadingInPlace ==
  ASSUME Typed, ViewTyped, NEW r \in Reqs, ReadsOn(r), AtWork(r), Reading(r),
         step \in [Reqs -> 1 .. 6], answer \in [Reqs -> Codes]
  PROVE  step' \in [Reqs -> 1 .. 6] /\ answer' \in [Reqs -> Codes] /\ AtWork(r)'
<1> USE DEF Codes
<1>0. pc \in [Reqs -> Places] /\ job' = job
  BY ReadingPlaces DEF Typed, OnlyLooks
<1>1. ASSUME NEW code \in Codes, Finish(r, code) PROVE answer' \in [Reqs -> Codes] /\ AtWork(r)'
  BY <1>0, <1>1 DEF Finish, Goto, AtWork
<1>2. ASSUME pc[r] = "look", Advance(r)
      PROVE  step' \in [Reqs -> 1 .. 6] /\ answer' \in [Reqs -> Codes] /\ AtWork(r)'
  <2> DEFINE length == Len(Script(job[r].op))
  <2>1. /\ job[r].op \in ReadingOps \cup Probes /\ step[r] \in 1 .. length /\ length \in 1 .. 3
    BY <1>2, ReadingLengths, ZenonT(40) DEF AtWork
  <2>2. step' = [step EXCEPT ![r] = @ + 1]
        /\ IF step[r] = length THEN Finish(r, 200) ELSE UNCHANGED <<pc, answer>>
    BY <1>2, ZenonT(40) DEF Advance
  <2> HIDE DEF length
  <2>3. step' \in [Reqs -> 1 .. 6] /\ step'[r] = step[r] + 1
    BY <2>1, <2>2
  <2>4. CASE step[r] = length
    BY <1>1, <2>2, <2>3, <2>4
  <2>5. CASE step[r] # length
    <3>1. step'[r] \in 1 .. length
      BY <2>1, <2>3, <2>5
    <3>2. AtWork(r)'
      BY <1>0, <2>1, <3>1, ZenonT(40) DEF AtWork, length
    <3> QED
      BY <2>2, <2>3, <2>5, <3>2
  <2> QED
    BY <2>4, <2>5
<1>3. CASE Look(r) \/ Probe(r)
  BY <1>2, <1>3 DEF Look, Looks, Probe, Probing
<1>4. CASE LookInVain(r)
  <2>1. Refused(r) \in Codes
    BY DEF Refused
  <2>2. Finish(r, Refused(r)) /\ step' = step
    BY <1>4 DEF LookInVain
  <2> QED
    BY <1>1, <2>1, <2>2
<1>5. CASE LookBreaks(r) \/ ListInVain(r) \/ AnswerList(r) \/ ProbeFails(r) \/ ProbeBreaks(r)
  <2>1. (Finish(r, 500) \/ Finish(r, 200)) /\ step' = step
    BY <1>5 DEF LookBreaks, ListInVain, AnswerList, ProbeFails, ProbeBreaks
  <2> QED
    BY <1>1, <2>1
<1>6. CASE List(r) \/ Settle(r)
  BY <1>0, <1>6 DEF List, Settle, Goto, AtWork
<1>7. ASSUME NEW n \in Names, Row(r, n) \/ RowFails(r, n) \/ Summarise(r, n)
      PROVE  step' = step /\ answer' = answer /\ AtWork(r)'
  BY <1>7 DEF Row, RowFails, IsOpen, Summarise, IsDue, AtWork
<1>8. ASSUME NEW n \in Names, SummaryFails(r, n)
       PROVE  step' = step /\ answer' \in [Reqs -> Codes] /\ AtWork(r)'
  BY <1>1, <1>8 DEF SummaryFails
<1>9. CASE FindHost(r)
  <2>1. pc[r] = "resolve" /\ job[r].op \in Probes /\ step' = step /\ step[r] = 1
    BY <1>9 DEF FindHost, ReadsOn
  <2>2. 1 \in 1 .. Len(Script(job[r].op))
    <3> DEFINE length == Len(Script(job[r].op))
    <3>1. length \in 1 .. 3
      BY <2>1, ReadingLengths, ZenonT(40)
    <3> HIDE DEF length
    <3>2. 1 \in 1 .. length
      BY <3>1
    <3> QED
      BY <3>2 DEF length
  <2>3. CASE Finish(r, 404)
    BY <1>1, <2>1, <2>3
  <2>4. CASE Goto(r, "look") /\ answer' = answer
    <3>1. AtWork(r)'
      BY <1>0, <2>1, <2>2, ZenonT(40) DEF AtWork
    <3> QED
      BY <2>1, <2>4, <3>1
  <2> QED
    BY <1>9, <2>3, <2>4 DEF FindHost
<1>10. CASE Poll(r)
  <2>1. pc[r] = "stream" /\ pc' = pc /\ answer' = answer /\ Polling(r)
        /\ step' = [step EXCEPT ![r] = IF step[r] = 2 THEN 1 ELSE step[r] + 1]
    BY <1>10, ContainerScripts, ZenonT(40) DEF Poll, ReadsOn
  <2>2. step' \in [Reqs -> 1 .. 6]
    BY <2>1 DEF Polling
  <2> QED
    BY <2>1, <2>2 DEF AtWork
<1>11. CASE Open(r) \/ PollFails(r) \/ PollBreaks(r) \/ Unsubscribe(r)
  <2>1. /\ step' = step /\ (Goto(r, "stream") \/ Goto(r, "done"))
        /\ answer' = answer \/ answer' = [answer EXCEPT ![r] = 200]
    BY <1>11 DEF Open, PollFails, PollBreaks, Unsubscribe
  <2>2. answer' \in [Reqs -> Codes]
    BY <2>1
  <2> QED
    BY <1>0, <2>1, <2>2 DEF Goto, AtWork
<1> QED
  BY <1>3, <1>4, <1>5, <1>6, <1>7, <1>8, <1>9, <1>10, <1>11
     DEF Reading, ServeReading, Stream

AmongReadings == TruthInv /\ ReadingInv /\ \A r \in Reqs : AtWork(r)

\* The trail and the types are what they are without readings at the start.
LEMMA InitAmong == ASSUME ReadingInit PROVE AmongReadings
<1>1. Init /\ ReadingInv
  BY InitReads DEF ReadingInit
<1>2. \A r \in Reqs : pc[r] = "idle" /\ done[r] = <<>>
  BY <1>1 DEF Init
<1>3. audit = {}
  BY <1>1 DEF Init
<1>4. TruthInv
  BY <1>1, <1>2, <1>3, InitInPlace DEF TruthInv, Truthful
<1> QED
  BY <1>1, <1>2, <1>4 DEF AmongReadings, AtWork

\* A change next to the readings leaves each of them at work.
LEMMA ChangeAtWork ==
  ASSUME AmongReadings, [Next]_vars, NEW q \in Reqs
  PROVE  AtWork(q)'
<1>1. Typed /\ InPlace /\ ReadsOn(q) /\ AtWork(q)
  BY DEF AmongReadings, TruthInv, InPlace, ReadingInv
<1>2. CASE pc'[q] = pc[q] /\ step'[q] = step[q] /\ job'[q] = job[q]
  BY <1>1, <1>2, Zenon DEF AtWork
<1>3. CASE pc'[q] # "look"
  BY <1>3 DEF AtWork
<1>4. ASSUME NEW r \in Reqs, Step(r) PROVE AtWork(q)'
  <2>1. CASE q # r
    BY <1>1, <1>2, <1>4, <2>1, OneAtATime
  <2>2. CASE q = r /\ Connect(r) /\ pc'[q] = "look"
    <3>1. /\ step' = step /\ job' = job /\ step[r] = 1 /\ job[r] \in Job
          /\ job[r].op \notin ChangingOps
      BY <1>1, <2>2 DEF Connect, ReadsOn, Goto, Finish, Typed
    <3>2. job[r].op \in ReadingOps \cup Probes
      BY <3>1 DEF Job, AllOps
    <3>3. 1 \in 1 .. Len(Script(job[r].op))
      <4> DEFINE length == Len(Script(job[r].op))
      <4>1. length \in 1 .. 3
        BY <3>2, ReadingLengths, ZenonT(40)
      <4> HIDE DEF length
      <4>2. 1 \in 1 .. length
        BY <4>1
      <4> QED
        BY <4>2 DEF length
    <3> QED
      BY <2>2, <3>1, <3>2, <3>3, ZenonT(40) DEF AtWork
  <2>3. CASE q = r /\ ~ Connect(r)
    <3>1. pc'[r] # "look"
      BY <1>1, <1>4, <2>3 DEF Step, Serve, Send, Authenticate, Resolve, Call, Refuse, Break,
         Audit, Notify, Crash, Goto, Finish, Typed
    <3> QED
      BY <1>3, <2>3, <3>1
  <2> QED
    BY <1>3, <2>1, <2>2, <2>3
<1>5. (\E r \in Reqs : Step(r)) \/ UNCHANGED <<pc, step, job>>
  BY DEF Next, Step, Leave, RegisterHost, RemoveHost, vars
<1> QED
  BY <1>2, <1>4, <1>5

\* A reading changes nothing that an entry tells of.
LEMMA ReadingTruth ==
  ASSUME AmongReadings, NEW r \in Reqs, Reading(r)
  PROVE  TruthInv' /\ \A q \in Reqs : AtWork(q)'
<1>1. /\ Typed /\ ViewTyped /\ InPlace /\ TypeOK /\ ReadsOn(r) /\ AtWork(r)
      /\ \A q \in Reqs : InScript(q) /\ Truthful(q) /\ AtWork(q)
      /\ \A e \in audit : ToldBy(e)
  BY DEF AmongReadings, TruthInv, InPlace, ReadingInv
<1>2. step \in [Reqs -> 1 .. 6] /\ answer \in [Reqs -> Codes]
  BY <1>1, ZenonT(40) DEF TypeOK, Codes
<1>3. step' \in [Reqs -> 1 .. 6] /\ answer' \in [Reqs -> Codes] /\ AtWork(r)'
  BY <1>1, <1>2, ReadingInPlace
<1>4. Harmless(r)
  BY <1>1, ReadingHarmless
<1>5. /\ OnlyLooks
      /\ pc[r] \in {"resolve", "look", "rows", "summary", "stream"}
      /\ pc'[r] \in {"look", "rows", "summary", "stream", "done"}
      /\ pc'[r] = "look" => pc[r] \in {"resolve", "look"}
  BY <1>1, ReadingPlaces
<1>6. UNCHANGED <<lxd, account, hosts, nextId, audit, notified, job, outcome, done, crashes, mock>>
  BY <1>5 DEF OnlyLooks
<1>7. Typed'
  BY <1>1, <1>4, <1>6 DEF Harmless, Typed
<1>8. TypeOK'
  BY <1>1, <1>3, <1>6, <1>7, ZenonT(40) DEF TypeOK, Typed, Codes, Places
<1>9. ASSUME NEW q \in Reqs, q # r PROVE InScript(q)' /\ Truthful(q)' /\ AtWork(q)'
  <2>1. /\ pc'[q] = pc[q] /\ step'[q] = step[q] /\ job'[q] = job[q] /\ done'[q] = done[q]
        /\ outcome'[q] = outcome[q]
    BY <1>4, <1>6, <1>9 DEF Harmless, Elsewhere
  <2>2. Truthful(q)'
    BY <1>1, <2>1, StaysTruthful
  <2>3. InScript(q)' /\ AtWork(q)'
    BY <1>1, <2>1, Zenon DEF InScript, AtWork
  <2> QED
    BY <2>2, <2>3
<1>10. InScript(r)' /\ Truthful(r)'
  <2>1. InScript(r)'
    BY <1>5 DEF InScript
  <2>2. Truthful(r)'
    BY <1>1, <1>5, <1>6 DEF Truthful, Early
  <2> QED
    BY <2>1, <2>2
<1>11. ASSUME NEW e \in audit' PROVE ToldBy(e)'
  <2>1. e \in audit /\ e.by \in Reqs /\ ToldBy(e)
    BY <1>1, <1>6, <1>11 DEF Typed, Entry
  <2>2. e.by # r
    BY <1>5, <2>1 DEF ToldBy
  <2>3. pc'[e.by] = pc[e.by]
    BY <1>4, <2>1, <2>2 DEF Harmless, Elsewhere
  <2> QED
    BY <1>6, <2>1, <2>3 DEF ToldBy, Tells, IsMade
<1>12. \A q \in Reqs : InScript(q)' /\ Truthful(q)' /\ AtWork(q)'
  BY <1>3, <1>9, <1>10
<1> QED
  BY <1>7, <1>8, <1>11, <1>12 DEF TruthInv, InPlace

\* Neither a change nor a reading disturbs what either relies on.
LEMMA NextAmong == ASSUME AmongReadings, [ReadingNext]_readingVars PROVE AmongReadings'
<1>1. ReadingInv'
  BY NextReads DEF AmongReadings
<1>2. CASE [Next]_vars
  BY <1>1, <1>2, NextTruth, ChangeAtWork DEF AmongReadings
<1>3. ASSUME NEW r \in Reqs, Reading(r) PROVE AmongReadings'
  BY <1>1, <1>3, ReadingTruth DEF AmongReadings
<1>4. [Next]_vars \/ \E r \in Reqs : Reading(r)
  BY DEF ReadingNext, Reading, readingVars
<1> QED
  BY <1>2, <1>3, <1>4

\* Next to the readings of containers and hosts, too, the entries tell what LXD
\* did, and every variable has its type.
THEOREM TrailAmongReadings == ReadingSpec => [](TypeOK /\ TrailIsTrue)
<1>1. ReadingInit => AmongReadings
  BY InitAmong
<1>2. AmongReadings /\ [ReadingNext]_readingVars => AmongReadings'
  BY NextAmong
<1>3. AmongReadings => TypeOK /\ TrailIsTrue
  BY DEF AmongReadings, TruthInv, InPlace, ToldBy, Tells, TrailIsTrue
<1> QED
  BY <1>1, <1>2, <1>3, PTL DEF ReadingSpec
=============================================================================
