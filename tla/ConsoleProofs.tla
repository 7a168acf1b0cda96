---------------------------- MODULE ConsoleProofs ----------------------------
(***************************************************************************)
(* That a console keeps its types and its counts, for any number of frames *)
(* and chunks.                                                             *)
(***************************************************************************)
EXTENDS Console, TLAPS

\* Each frame is delivered once at most, however the pumps and the browser
\* interleave; no more chunks are shown than LXD has sent.
Counts == typed + Len(inbox) <= sent /\ shown + pending <= MaxChunks

ConsoleInv == TypeOK /\ Counts

\* The types and counts of what is on its way.
Traffic ==
  /\ inbox \in Seq(Frames)
  /\ sent \in 0 .. MaxFrames /\ typed \in 0 .. sent
  /\ shown \in 0 .. MaxChunks /\ pending \in 0 .. MaxChunks
  /\ Counts

\* The types of all else.
Parts ==
  /\ stage \in {"authenticate", "resolve", "connect", "exec", "dial", "reject",
                "accept", "resize", "bridge", "close", "done"}
  /\ browser \in {"waiting", "open", "closed"}
  /\ code \in {"none", "1008", "aborted"}
  /\ link \in [Links -> {"none", "dialing", "open", "failed", "closed"}]
  /\ shell \in {"none", "running", "exited"}
  /\ pump \in [Pumps -> {"off", "on", "returned"} \cup Raised]
  /\ closed \in BOOLEAN
  /\ mock \in Modes

\* Both together are the invariant.
LEMMA InTwo == ConsoleInv <=> Parts /\ Traffic
  BY DEF ConsoleInv, TypeOK, Parts, Traffic

\* Nothing is on its way when the request arrives.
LEMMA InitConsole == ASSUME Init PROVE Parts /\ Traffic
<1>1. Parts
  BY DEF Init, Parts, Pumps, Links, Raised
<1>2. Traffic
  BY ConsoleAssumption DEF Init, Traffic, Counts, ConsoleAssumption
<1> QED
  BY <1>1, <1>2

\* Whatever a pump makes of an exception is one of its states.
LEMMA Raising ==
  ASSUME Parts, NEW p \in Pumps, NEW how \in {"returned", "disconnected", "raised"}, Raise(p, how)
  PROVE  pump' \in [Pumps -> {"off", "on", "returned"} \cup Raised]
  BY DEF Parts, Raise, Raised

\* The handler never touches what is on its way.
LEMMA HandlerParts ==
  ASSUME Parts, Traffic, Handler
  PROVE  Parts' /\ Traffic'
<1> USE DEF Parts
<1>1. UNCHANGED traffic
  BY DEF Handler, Prepare, Reject, Exec, ExecBreaks, Accept, FirstResize, Gather, Close
<1>2. Traffic'
  BY <1>1 DEF traffic, Traffic, Counts
<1> SUFFICES Parts'
  BY <1>2
<1>3. CASE Prepare
  BY <1>3 DEF Prepare, NextStage
<1>4. CASE Reject
  BY <1>4 DEF Reject
<1>5. CASE Exec
  BY <1>5 DEF Exec, Links
<1>6. CASE ExecBreaks
  BY <1>6 DEF ExecBreaks, Abort
<1>7. CASE Accept
  BY <1>7 DEF Accept, Abort
<1>8. CASE FirstResize
  <2>1. pump' = [p \in Pumps |-> "on"] \/ Raise("to", "raised")
    BY <1>8 DEF FirstResize
  <2>2. pump' \in [Pumps -> {"off", "on", "returned"} \cup Raised]
    BY <2>1, Raising DEF Pumps
  <2> QED
    BY <1>8, <2>2 DEF FirstResize
<1>9. CASE Gather
  BY <1>9 DEF Gather
<1>10. CASE Close
  BY <1>10 DEF Close, CloseBoth, Abort, Links
<1> QED
  BY <1>3, <1>4, <1>5, <1>6, <1>7, <1>8, <1>9, <1>10 DEF Handler

\* The pump to the container delivers what it takes from the inbox.
LEMMA PumpToParts ==
  ASSUME Parts, Traffic, PumpTo
  PROVE  Parts' /\ Traffic'
<1>1. UNCHANGED <<stage, browser, code, link, shell, closed, sent, shown, pending, mock>>
  BY DEF PumpTo
<1>2. pump' = pump \/ Raise("to", "raised") \/ Raise("to", "disconnected")
  BY DEF PumpTo, Forward
<1>3. Parts'
  <2>1. pump' \in [Pumps -> {"off", "on", "returned"} \cup Raised]
    BY <1>2, Raising DEF Parts, Pumps
  <2> QED
    BY <1>1, <2>1 DEF Parts
<1>4. CASE Forward
  <2>1. inbox # <<>> /\ inbox' = Tail(inbox) /\ (typed' = typed + 1 \/ typed' = typed)
    BY <1>4 DEF Forward
  <2>2. inbox \in Seq(Frames) /\ Len(inbox) \in Nat
    BY DEF Traffic
  <2>3. inbox' \in Seq(Frames) /\ Len(inbox') = Len(inbox) - 1
    BY <2>1, <2>2
  <2>4. sent \in Nat /\ typed \in Nat /\ typed + Len(inbox) <= sent /\ sent' = sent
    BY <1>1, ConsoleAssumption DEF Traffic, Counts, ConsoleAssumption
  <2>5. Len(inbox') \in Nat
    BY <2>3
  <2>6. typed' \in 0 .. sent' /\ typed' + Len(inbox') <= sent'
    BY <2>1, <2>2, <2>3, <2>4, <2>5
  <2> QED
    BY <1>1, <1>3, <2>3, <2>6 DEF Traffic, Counts
<1>5. CASE UNCHANGED <<inbox, typed>>
  BY <1>1, <1>3, <1>5 DEF Traffic, Counts
<1> QED
  BY <1>4, <1>5 DEF PumpTo

\* The pump from the container shows what it takes from the output.
LEMMA PumpFromParts ==
  ASSUME Parts, Traffic, PumpFrom
  PROVE  Parts' /\ Traffic'
<1>1. UNCHANGED <<stage, browser, code, shell, inbox, sent, typed, mock>>
  BY DEF PumpFrom
<1>2. \/ pump' = pump \/ Raise("from", "raised") \/ Raise("from", "disconnected")
      \/ Raise("from", "returned")
  BY DEF PumpFrom, EndOfOutput
<1>3. (closed' = closed /\ link' = link) \/ (closed' = TRUE /\ link' = [l \in Links |-> "closed"])
  BY DEF PumpFrom, EndOfOutput
<1>4. Parts'
  <2>1. pump' \in [Pumps -> {"off", "on", "returned"} \cup Raised]
    BY <1>2, Raising DEF Parts, Pumps
  <2>2. closed' \in BOOLEAN /\ link' \in [Links -> {"none", "dialing", "open", "failed", "closed"}]
    BY <1>3 DEF Parts
  <2> QED
    BY <1>1, <2>1, <2>2 DEF Parts
<1>5. /\ shown \in Nat /\ pending \in Nat /\ MaxChunks \in Nat /\ shown + pending <= MaxChunks
  BY ConsoleAssumption DEF Traffic, Counts, ConsoleAssumption
<1>6. \/ pending > 0 /\ pending' = pending - 1 /\ (shown' = shown + 1 \/ shown' = shown)
      \/ pending' = pending /\ shown' = shown
  BY DEF PumpFrom
<1>7. shown' \in 0 .. MaxChunks /\ pending' \in 0 .. MaxChunks /\ shown' + pending' <= MaxChunks
  BY <1>5, <1>6
<1> QED
  BY <1>1, <1>4, <1>7 DEF Traffic, Counts

\* What browser, shell and LXD do.
LEMMA OthersParts ==
  ASSUME Parts, Traffic,
         \/ Output \/ ShellExits \/ Reap \/ BrowserLeaves
         \/ \E l \in Links : Dial(l) \/ Drop(l)
         \/ \E f \in Frames : BrowserSends(f)
  PROVE  Parts' /\ Traffic'
<1>1. ASSUME UNCHANGED traffic PROVE Traffic'
  BY <1>1 DEF traffic, Traffic, Counts
<1>2. CASE Output
  <2>1. Parts' /\ pending' = pending + 1 /\ shown + pending < MaxChunks
        /\ UNCHANGED <<inbox, sent, typed, shown>>
    BY <1>2 DEF Output, Parts
  <2>2. shown \in Nat /\ pending \in Nat /\ MaxChunks \in Nat
    BY ConsoleAssumption DEF Traffic, ConsoleAssumption
  <2>3. pending' \in 0 .. MaxChunks /\ shown + pending' <= MaxChunks
    BY <2>1, <2>2
  <2> QED
    BY <2>1, <2>3 DEF Traffic, Counts
<1>3. CASE ShellExits \/ BrowserLeaves
  BY <1>1, <1>3 DEF ShellExits, BrowserLeaves, Parts
<1>4. CASE Reap
  <2>1. link' \in [Links -> {"none", "dialing", "open", "failed", "closed"}]
    BY <1>4 DEF Reap, Parts
  <2> QED
    BY <1>1, <1>4, <2>1 DEF Reap, Parts
<1>5. ASSUME NEW l \in Links, Dial(l) PROVE Parts' /\ Traffic'
  <2>1. link' \in [Links -> {"none", "dialing", "open", "failed", "closed"}]
    BY <1>5 DEF Dial, Parts
  <2>2. stage' = stage \/ stage' \in {"reject", "accept", "dial"}
    BY <1>5 DEF Dial
  <2> QED
    BY <1>1, <1>5, <2>1, <2>2 DEF Dial, Parts
<1>6. ASSUME NEW l \in Links, Drop(l) PROVE Parts' /\ Traffic'
  BY <1>1, <1>6 DEF Drop, Parts
<1>7. ASSUME NEW f \in Frames, BrowserSends(f) PROVE Parts' /\ Traffic'
  <2>1. Parts' /\ sent' = sent + 1 /\ sent < MaxFrames /\ inbox' = Append(inbox, f)
        /\ UNCHANGED <<typed, shown, pending>>
    BY <1>7 DEF BrowserSends, Parts
  <2>2. inbox \in Seq(Frames) /\ Len(inbox) \in Nat
    BY DEF Traffic
  <2>3. inbox' \in Seq(Frames) /\ Len(inbox') = Len(inbox) + 1
    BY <2>1, <2>2
  <2>4. sent \in Nat /\ typed \in Nat /\ MaxFrames \in Nat /\ typed + Len(inbox) <= sent
    BY ConsoleAssumption DEF Traffic, Counts, ConsoleAssumption
  <2>5. sent' \in 0 .. MaxFrames /\ typed \in 0 .. sent' /\ typed + Len(inbox') <= sent'
    BY <2>1, <2>2, <2>3, <2>4
  <2> QED
    BY <2>1, <2>3, <2>5 DEF Traffic, Counts
<1> QED
  BY <1>2, <1>3, <1>4, <1>5, <1>6, <1>7

\* Every variable has its type whatever handler, pumps, browser and LXD do, and
\* no key reaches the shell that was not sent, or twice (container_console,
\* ConsoleSession).
THEOREM TypeCorrect == Spec => []TypeOK
<1>1. Init => ConsoleInv
  BY InitConsole, InTwo
<1>2. ConsoleInv /\ [Next]_vars => ConsoleInv'
  <2> SUFFICES ASSUME ConsoleInv, [Next]_vars PROVE ConsoleInv'
    OBVIOUS
  <2>1. Parts /\ Traffic
    BY InTwo
  <2>2. CASE UNCHANGED vars
    BY <2>1, <2>2 DEF vars, traffic, ConsoleInv, TypeOK, Counts
  <2>3. CASE Next
    <3>1. Parts' /\ Traffic'
      BY <2>1, <2>3, HandlerParts, PumpToParts, PumpFromParts, OthersParts, Zenon DEF Next
    <3> QED
      BY <3>1 DEF ConsoleInv, TypeOK, Parts, Traffic
  <2> QED
    BY <2>2, <2>3
<1>3. ConsoleInv => TypeOK
  BY DEF ConsoleInv
<1> QED
  BY <1>1, <1>2, <1>3, PTL DEF Spec
=============================================================================
