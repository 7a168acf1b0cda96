-------------------------- MODULE OperationsProofs --------------------------
(***************************************************************************)
(* What the audit trail of Operations is worth, for any number of          *)
(* requests, users, daemons, names and ids.                                *)
(***************************************************************************)
EXTENDS Operations, TLAPS

\* A request that has made no call yet.
Early == {"idle", "authenticate", "resolve", "connect", "look"}

Places == Stages \cup {"stream", "idle", "done", "lost"}

\* The types of what the proofs speak of.
Typed ==
  /\ account \in [Users -> {"active", "disabled", "gone"}]
  /\ hosts \in [Ids -> Daemons \cup {NoDaemon}]
  /\ nextId \in Nat
  /\ audit \subseteq Entry
  /\ notified \subseteq [by : Reqs, ok : BOOLEAN]
  /\ pc \in [Reqs -> Places]
  /\ job \in [Reqs -> Job \cup {NoJob}]
  /\ client \in [Reqs -> [id : Ids \cup {0}, daemon : Daemons \cup {NoDaemon}]]
  /\ outcome \in [Reqs -> BOOLEAN]
  /\ done \in [Reqs -> Seq(Changes)]
  /\ answer \in [Reqs -> Nat]
  /\ step \in [Reqs -> Nat]

\* The initial states have the types.
LEMMA InitTyped == ASSUME Init PROVE Typed
<1>1. NoDaemon \in Daemons \cup {NoDaemon} /\ <<>> \in Seq(Changes)
  OBVIOUS
<1>2. nextId \in Nat
  BY OperationsAssumption DEF OperationsAssumption, Init
<1> QED
  BY <1>1, <1>2 DEF Init, Typed, Places, Stages

\* Where a request goes on, and what it is answered.
LEMMA Going ==
  ASSUME Typed, NEW r \in Reqs
  PROVE  /\ \A l \in Places : Goto(r, l) => pc' \in [Reqs -> Places]
         /\ \A code \in Nat : Finish(r, code) =>
              pc' \in [Reqs -> Places] /\ answer' \in [Reqs -> Nat]
<1>1. ASSUME NEW l \in Places, Goto(r, l) PROVE pc' \in [Reqs -> Places]
  BY <1>1 DEF Typed, Goto
<1>2. "done" \in Places
  BY DEF Places
<1>3. ASSUME NEW code \in Nat, Finish(r, code)
      PROVE  pc' \in [Reqs -> Places] /\ answer' \in [Reqs -> Nat]
  <2>1. Goto(r, "done") /\ answer' = [answer EXCEPT ![r] = code]
    BY <1>3 DEF Finish
  <2>2. answer' \in [Reqs -> Nat]
    BY <2>1 DEF Typed
  <2> QED
    BY <1>1, <1>2, <2>1, <2>2
<1> QED
  BY <1>1, <1>3

\* A call that LXD carries out adds a change to the record, or nothing.
LEMMA Making ==
  ASSUME Typed, NEW r \in Reqs, NEW c, Make(r, c)
  PROVE  done' \in [Reqs -> Seq(Changes)]
<1>1. CASE c.verb \in Changes
  <2>1. done[r] \in Seq(Changes)
    BY DEF Typed
  <2>2. Append(done[r], c.verb) \in Seq(Changes)
    BY <1>1, <2>1
  <2>3. done' = [done EXCEPT ![r] = Append(@, c.verb)]
    BY <1>1 DEF Make
  <2> QED
    BY <2>2, <2>3 DEF Typed
<1>2. CASE c.verb \notin Changes
  BY <1>2 DEF Make, Typed
<1> QED
  BY <1>1, <1>2

\* A request that is sent has a job of the right fields, and what it means is what its host is.
LEMMA Sending ==
  ASSUME NEW r \in Reqs, Send(r)
  PROVE  \E op \in Ops, n \in Names, u \in Users, h \in Used \cup {0} :
           job' = [job EXCEPT ![r] =
                    [op |-> op, name |-> n, user |-> u, host |-> h,
                     meant |-> IF h = 0 THEN NoDaemon ELSE hosts[h]]]
  BY DEF Send

\* Every action keeps the types.
LEMMA NextTyped == ASSUME Typed, [Next]_vars PROVE Typed'
<1> USE Going DEF Typed, Places, Stages
<1>1. ASSUME NEW r \in Reqs, Send(r) PROVE Typed'
  <2>1. PICK op \in Ops, n \in Names, u \in Users, h \in Used \cup {0} :
          job' = [job EXCEPT ![r] =
                   [op |-> op, name |-> n, user |-> u, host |-> h,
                    meant |-> IF h = 0 THEN NoDaemon ELSE hosts[h]]]
    BY <1>1, Sending
  <2>2. op \in AllOps /\ h \in Ids \cup {0}
    BY OperationsAssumption DEF OperationsAssumption, Used
  <2>3. (IF h = 0 THEN NoDaemon ELSE hosts[h]) \in Daemons \cup {NoDaemon}
    BY <2>2
  <2>4. [op |-> op, name |-> n, user |-> u, host |-> h,
         meant |-> IF h = 0 THEN NoDaemon ELSE hosts[h]] \in Job
    BY <2>2, <2>3 DEF Job
  <2>5. job' \in [Reqs -> Job \cup {NoJob}]
    BY <2>1, <2>4
  <2> QED
    BY <1>1, <2>5 DEF Send
<1>2. ASSUME NEW r \in Reqs, Authenticate(r) PROVE Typed'
  BY <1>2, SMTT(30) DEF Authenticate
<1>3. ASSUME NEW r \in Reqs, Resolve(r) PROVE Typed'
  <2>1. Unresolved(job[r].host) \in Nat
    BY DEF Unresolved
  <2>2. CASE Resolves(job[r].host) = {}
    BY <1>3, <2>1, <2>2 DEF Resolve
  <2>3. CASE Resolves(job[r].host) # {}
    <3>1. PICK i \in Resolves(job[r].host) :
            /\ client' = [client EXCEPT ![r] = [id |-> i, daemon |-> hosts[i]]]
            /\ Goto(r, "connect") /\ UNCHANGED answer
      BY <1>3, <2>3 DEF Resolve
    <3>2. i \in Ids
      BY DEF Resolves, Used
    <3>3. client' \in [Reqs -> [id : Ids \cup {0}, daemon : Daemons \cup {NoDaemon}]]
      BY <3>1, <3>2
    <3> QED
      BY <1>3, <3>1, <3>3 DEF Resolve
  <2> QED
    BY <2>2, <2>3
<1>4. ASSUME NEW r \in Reqs, Connect(r) PROVE Typed'
  <2>1. \A code \in ConnectErrors(client[r].daemon) : code \in Nat
    BY DEF ConnectErrors
  <2> QED
    BY <1>4, <2>1, SMTT(20) DEF Connect
<1>5. ASSUME NEW r \in Reqs, Call(r) PROVE Typed'
  <2>1. done' \in [Reqs -> Seq(Changes)]
    BY <1>5, Making DEF Call
  <2> DEFINE look == CallOf(r).verb = "peek" /\
                       lxd[client[r].daemon][<<CallOf(r).kind, job[r].name>>] # "running"
             last == (IF look THEN step[r] + 3 ELSE step[r] + 1) > Len(Script(job[r].op))
  <2>2. /\ outcome' = [outcome EXCEPT ![r] = last]
        /\ IF last THEN Goto(r, "audit") ELSE UNCHANGED pc
        /\ last \in BOOLEAN
    BY <1>5 DEF Call
  <2> HIDE DEF last
  <2>3. outcome' \in [Reqs -> BOOLEAN] /\ pc' \in [Reqs -> Places]
    BY <2>2
  <2>4. step' \in [Reqs -> Nat]
    BY <1>5, SMTT(20) DEF Call
  <2> QED
    BY <1>5, <2>1, <2>3, <2>4 DEF Call
<1>6. ASSUME NEW r \in Reqs, Refuse(r) PROVE Typed'
  BY <1>6 DEF Refuse
<1>7. ASSUME NEW r \in Reqs, Break(r) PROVE Typed'
  <2>1. done' \in [Reqs -> Seq(Changes)]
    BY <1>7, Making DEF Break
  <2>2. pc' \in [Reqs -> Places] /\ answer' \in [Reqs -> Nat]
    BY <1>7, SMTT(30) DEF Break
  <2> QED
    BY <1>7, <2>1, <2>2, SMTT(30) DEF Break
<1>8. ASSUME NEW r \in Reqs, Audit(r) PROVE Typed'
  <2>1. audit' \subseteq Entry
    BY <1>8 DEF Audit, Entry
  <2> QED
    BY <1>8, <2>1, SMTT(30) DEF Audit
<1>9. ASSUME NEW r \in Reqs, Notify(r) PROVE Typed'
  BY <1>9, SMTT(20) DEF Notify
<1>10. ASSUME NEW r \in Reqs, Crash(r) PROVE Typed'
  BY <1>10 DEF Crash
<1>11. ASSUME NEW u \in Users, NEW s \in {"disabled", "gone"}, Leave(u, s) PROVE Typed'
  BY <1>11 DEF Leave
<1>12. ASSUME NEW d \in Daemons, RegisterHost(d) PROVE Typed'
  <2>1. PICK i \in Ids : hosts' = [hosts EXCEPT ![i] = d] /\ nextId' = i + 1
    BY <1>12 DEF RegisterHost
  <2>2. nextId' \in Nat
    BY <2>1, OperationsAssumption DEF OperationsAssumption, Ids
  <2>3. hosts' \in [Ids -> Daemons \cup {NoDaemon}]
    BY <2>1
  <2> QED
    BY <1>12, <2>2, <2>3 DEF RegisterHost
<1>13. ASSUME NEW i \in Ids, RemoveHost(i) PROVE Typed'
  <2>1. ASSUME NEW e \in Entry PROVE [e EXCEPT !.host = IF @ = i THEN 0 ELSE @] \in Entry
    BY DEF Entry
  <2>2. audit' \subseteq Entry
    BY <1>13, <2>1 DEF RemoveHost, Forget
  <2>3. hosts' \in [Ids -> Daemons \cup {NoDaemon}]
    BY <1>13 DEF RemoveHost
  <2> QED
    BY <1>13, <2>2, <2>3 DEF RemoveHost
<1>14. CASE UNCHANGED vars
  BY <1>14 DEF vars
<1> QED
  BY <1>1, <1>2, <1>3, <1>4, <1>5, <1>6, <1>7, <1>8, <1>9, <1>10, <1>11, <1>12, <1>13,
     <1>14 DEF Next, Serve

Step(r) == Send(r) \/ Serve(r) \/ Crash(r)

\* A step of one request leaves to the others what is theirs.
LEMMA OneAtATime ==
  ASSUME Typed, NEW r \in Reqs, Step(r), NEW q \in Reqs, q # r
  PROVE  /\ pc'[q] = pc[q] /\ outcome'[q] = outcome[q] /\ done'[q] = done[q]
         /\ answer'[q] = answer[q] /\ client'[q] = client[q] /\ job'[q] = job[q]
         /\ step'[q] = step[q]
<1> USE DEF Typed, Goto, Finish
<1>1. CASE Send(r)
  BY <1>1 DEF Send
<1>2. CASE Authenticate(r)
  BY <1>2 DEF Authenticate
<1>3. CASE Resolve(r)
  BY <1>3 DEF Resolve
<1>4. CASE Connect(r)
  BY <1>4 DEF Connect
<1>5. CASE Call(r)
  BY <1>5 DEF Call, Make
<1>6. CASE Refuse(r)
  BY <1>6 DEF Refuse
<1>7. CASE Break(r)
  BY <1>7 DEF Break, Make
<1>8. CASE Audit(r)
  BY <1>8 DEF Audit
<1>9. CASE Notify(r)
  BY <1>9 DEF Notify
<1>10. CASE Crash(r)
  BY <1>10 DEF Crash
<1> QED
  BY <1>1, <1>2, <1>3, <1>4, <1>5, <1>6, <1>7, <1>8, <1>9, <1>10 DEF Step, Serve

(***************************************************************************)
(* Types                                                                   *)
(***************************************************************************)
\* A script in which "peek" comes first or not at all, of at most five calls.
Short(s) == Len(s) \in 1 .. 5 /\ \A i \in 2 .. Len(s) : s[i].verb # "peek"

\* A script has five calls at most, and only its first one peeks at the status.
LEMMA ScriptLengths == \A op \in ChangingOps : Short(Script(op))
<1> USE DEF Do, Short
<1>1. Short(Script("create"))
  BY DEF Script, create_container, CreateContainer
<1>2. Short(Script("create and start"))
  BY DEF Script, create_and_start, CreateContainer, StartContainer, GetContainer
<1>3. Short(Script("delete"))
  BY DEF Script, delete_container, StopContainer, DeleteContainer
<1>4. Short(Script("start"))
  BY DEF Script, start_container, StartContainer, GetContainer
<1>5. Short(Script("stop"))
  BY DEF Script, stop_container, StopContainer, GetContainer
<1>6. Short(Script("restart"))
  BY DEF Script, restart_container, RestartContainer, GetContainer
<1>7. Short(Script("snapshot"))
  BY DEF Script, create_snapshot, CreateSnapshot, GetContainer
<1>8. Short(Script("delete snapshot"))
  BY DEF Script, delete_snapshot, DeleteSnapshot, GetContainer
<1>9. Short(Script("restore"))
  BY DEF Script, restore_snapshot, RestoreSnapshot, GetContainer
<1>10. Short(Script("import"))
  BY DEF Script, import_image, ImportImage
<1>11. Short(Script("delete image"))
  BY DEF Script, delete_image, DeleteImage
<1>12. Short(Script("create network"))
  BY DEF Script, create_network, CreateNetwork
<1>13. Short(Script("delete network"))
  BY DEF Script, delete_network, DeleteNetwork
<1>14. Short(Script("create volume"))
  BY DEF Script, create_volume, CreateVolume
<1> QED
  BY <1>1, <1>2, <1>3, <1>4, <1>5, <1>6, <1>7, <1>8, <1>9, <1>10, <1>11, <1>12, <1>13, <1>14 DEF ChangingOps

\* A request is within its script.
InScript(r) ==
  /\ pc[r] \in {"idle", "authenticate", "resolve", "connect"} => step[r] = 1
  /\ pc[r] \in {"authenticate", "resolve", "connect", "call"} => job[r] \in Job
  /\ pc[r] = "call" => job[r].op \in ChangingOps /\ step[r] \in 1 .. Len(Script(job[r].op))

Codes == {0, 200, 401, 403, 404, 409, 422, 500, 502}
States == {"absent", "present", "running"}

InPlace == TypeOK /\ Typed /\ \A r \in Reqs : InScript(r)

\* No request is in a script at the start.
LEMMA InitInPlace == ASSUME Init PROVE InPlace
<1>1. Typed
  BY InitTyped
<1>2. lxd \in [Daemons -> [Things -> States]]
  <2>1. PICK found \in [Daemons \X Names -> States] :
          lxd = [d \in Daemons |->
                  [t \in Things |-> CASE t[1] = "pool" -> "present"
                                      [] t[1] = "container" -> found[<<d, t[2]>>]
                                      [] OTHER -> "absent"]]
    BY DEF Init, States
  <2>2. ASSUME NEW d \in Daemons, NEW t \in Things
        PROVE  (CASE t[1] = "pool" -> "present"
                  [] t[1] = "container" -> found[<<d, t[2]>>]
                  [] OTHER -> "absent") \in States
    <3>1. t[2] \in Names
      BY DEF Things
    <3> QED
      BY <3>1 DEF States
  <2> QED
    BY <2>1, <2>2
<1>3. nextId \in 1 .. MaxId + 1
  BY OperationsAssumption DEF OperationsAssumption, Init
<1>4. step \in [Reqs -> 1 .. 6] /\ answer \in [Reqs -> Codes] /\ mock \in Modes
      /\ crashes \in 0 .. MaxCrashes
  BY OperationsAssumption DEF OperationsAssumption, Init, Codes
<1>5. \A r \in Reqs : InScript(r)
  BY DEF Init, InScript
<1> QED
  BY <1>1, <1>2, <1>3, <1>4, <1>5 DEF InPlace, TypeOK, Typed, Places, Codes, States

\* Whatever call is made, a daemon is left with things that are or are not there.
LEMMA MadeThings ==
  ASSUME lxd \in [Daemons -> [Things -> States]], NEW r \in Reqs, NEW c, Make(r, c)
  PROVE  lxd' \in [Daemons -> [Things -> States]]
<1>1. ASSUME NEW s \in [Things -> States], NEW n PROVE After(c, n, s) \in [Things -> States]
  <2>1. AfterContainer(c, n, s) \in [Things -> States]
    BY DEF AfterContainer, States
  <2>2. AfterOther(c, n, s) \in [Things -> States]
    BY DEF AfterOther, States
  <2> QED
    BY <2>1, <2>2 DEF After
<1> DEFINE d == client[r].daemon
<1>2. lxd' = [lxd EXCEPT ![d] = After(c, job[r].name, @)]
  BY DEF Make
<1>3. CASE d \in Daemons
  <2>1. After(c, job[r].name, lxd[d]) \in [Things -> States]
    BY <1>1, <1>3
  <2> QED
    BY <1>2, <1>3, <2>1
<1>4. CASE d \notin Daemons
  BY <1>2, <1>4
<1> QED
  BY <1>3, <1>4

\* A step of a request stays within its script, its codes and its types.
LEMMA StepInPlace ==
  ASSUME InPlace, NEW r \in Reqs, Step(r)
  PROVE  /\ lxd' \in [Daemons -> [Things -> States]] /\ nextId' = nextId /\ mock' = mock
         /\ step' \in [Reqs -> 1 .. 6] /\ answer' \in [Reqs -> Codes]
         /\ crashes' \in 0 .. MaxCrashes /\ InScript(r)'
<1> USE DEF Goto, Finish, InScript, Codes
<1> Typed /\ InScript(r) /\ TypeOK
  BY DEF InPlace
<1>0. /\ pc \in [Reqs -> Places] /\ step \in [Reqs -> 1 .. 6] /\ answer \in [Reqs -> Codes]
      /\ lxd \in [Daemons -> [Things -> States]] /\ crashes \in 0 .. MaxCrashes
      /\ job \in [Reqs -> Job \cup {NoJob}]
  BY DEF TypeOK, Typed, Codes, States
<1>1. CASE Send(r)
  <2>1. PICK op \in Ops, n \in Names, u \in Users, h \in Used \cup {0} :
          job' = [job EXCEPT ![r] =
                   [op |-> op, name |-> n, user |-> u, host |-> h,
                    meant |-> IF h = 0 THEN NoDaemon ELSE hosts[h]]]
    BY <1>1, Sending
  <2>2. op \in AllOps /\ h \in Ids \cup {0}
    BY OperationsAssumption DEF OperationsAssumption, Used
  <2>3. (IF h = 0 THEN NoDaemon ELSE hosts[h]) \in Daemons \cup {NoDaemon}
    BY <2>2 DEF Typed
  <2>4. job'[r] \in Job
    BY <1>0, <2>1, <2>2, <2>3 DEF Job
  <2> QED
    BY <1>0, <1>1, <2>4 DEF Send
<1>2. CASE Authenticate(r)
  BY <1>0, <1>2 DEF Authenticate
<1>3. CASE Resolve(r)
  <2>1. Unresolved(job[r].host) \in Codes
    BY DEF Unresolved
  <2>2. CASE Resolves(job[r].host) = {}
    BY <1>0, <1>3, <2>1, <2>2 DEF Resolve
  <2>3. CASE Resolves(job[r].host) # {}
    BY <1>0, <1>3, <2>3 DEF Resolve
  <2> QED
    BY <2>2, <2>3
<1>4. CASE Connect(r)
  <2>1. pc[r] = "connect" /\ step[r] = 1 /\ job[r] \in Job
    BY <1>4 DEF Connect
  <2>2. ASSUME job[r].op \in ChangingOps PROVE 1 \in 1 .. Len(Script(job[r].op))
    <3> DEFINE length == Len(Script(job[r].op))
    <3>1. length \in 1 .. 5
      BY <2>2, ScriptLengths DEF Short
    <3> HIDE DEF length
    <3>2. 1 \in 1 .. length
      BY <3>1
    <3> QED
      BY <3>2 DEF length
  <2> QED
    <3>1. \A code \in ConnectErrors(client[r].daemon) : code \in Codes
      BY DEF ConnectErrors
    <3> QED
      BY <1>0, <1>4, <2>1, <2>2, <3>1 DEF Connect
<1>5. CASE Call(r)
  <2> DEFINE look == CallOf(r).verb = "peek" /\
                       lxd[client[r].daemon][<<CallOf(r).kind, job[r].name>>] # "running"
             goal == IF look THEN step[r] + 3 ELSE step[r] + 1
             length == Len(Script(job[r].op))
  <2>1. /\ pc[r] = "call" /\ step[r] \in 1 .. length /\ length \in 1 .. 5
        /\ job[r].op \in ChangingOps /\ job' = job /\ answer' = answer /\ crashes' = crashes
        /\ nextId' = nextId /\ mock' = mock
    BY <1>5, ScriptLengths DEF Call, Short
  <2>2. look => step[r] = 1
    BY <2>1, ScriptLengths DEF Short, CallOf
  <2>3. /\ step' = [step EXCEPT ![r] = goal]
        /\ IF goal > length THEN pc' = [pc EXCEPT ![r] = "audit"] ELSE pc' = pc
        /\ Make(r, CallOf(r))
    BY <1>5 DEF Call
  <2> HIDE DEF look, length
  <2>4. goal \in 1 .. 6
    BY <2>1, <2>2
  <2>5. step' \in [Reqs -> 1 .. 6] /\ step'[r] = goal
    BY <1>0, <2>3, <2>4
  <2>6. lxd' \in [Daemons -> [Things -> States]]
    BY <1>0, <2>3, MadeThings
  <2>7. CASE goal > length
    BY <1>0, <2>1, <2>3, <2>5, <2>6, <2>7
  <2>8. CASE ~ goal > length
    <3>1. pc' = pc /\ goal \in 1 .. length
      BY <2>1, <2>3, <2>4, <2>8
    <3>2. job'[r].op \in ChangingOps /\ step'[r] \in 1 .. Len(Script(job'[r].op))
      BY <2>1, <2>5, <3>1 DEF length
    <3>3. job[r] \in Job
      BY <2>1
    <3> QED
      BY <1>0, <2>1, <2>5, <2>6, <3>1, <3>2, <3>3
  <2> QED
    BY <2>7, <2>8
<1>6. CASE Refuse(r)
  BY <1>0, <1>6 DEF Refuse
<1>7. CASE Break(r)
  <2>1. lxd' \in [Daemons -> [Things -> States]]
    BY <1>0, <1>7, MadeThings DEF Break
  <2> QED
    BY <1>0, <1>7, <2>1 DEF Break
<1>8. CASE Audit(r)
  BY <1>0, <1>8 DEF Audit
<1>9. CASE Notify(r)
  BY <1>0, <1>9 DEF Notify
<1>10. CASE Crash(r)
  BY <1>0, <1>10, OperationsAssumption DEF Crash, OperationsAssumption
<1> QED
  BY <1>1, <1>2, <1>3, <1>4, <1>5, <1>6, <1>7, <1>8, <1>9, <1>10 DEF Step, Serve

\* Requests advance one at a time; the other endpoints touch none of them.
LEMMA NextInPlace == ASSUME InPlace, [Next]_vars PROVE InPlace'
<1> Typed /\ TypeOK /\ \A r \in Reqs : InScript(r)
  BY DEF InPlace
<1>1. Typed'
  BY NextTyped
<1>2. ASSUME NEW r \in Reqs, Step(r) PROVE InPlace'
  <2>1. ASSUME NEW q \in Reqs PROVE InScript(q)'
    <3>1. CASE q = r
      BY <1>2, <3>1, StepInPlace
    <3>2. CASE q # r
      BY <1>2, <3>2, OneAtATime DEF InScript
    <3> QED
      BY <3>1, <3>2
  <2>2. /\ lxd' \in [Daemons -> [Things -> States]] /\ nextId' = nextId /\ mock' = mock
        /\ step' \in [Reqs -> 1 .. 6] /\ answer' \in [Reqs -> Codes]
        /\ crashes' \in 0 .. MaxCrashes
    BY <1>2, StepInPlace
  <2> QED
    BY <1>1, <2>1, <2>2, ZenonT(40) DEF InPlace, TypeOK, Typed, Places, Codes, States
<1>3. CASE UNCHANGED <<lxd, pc, job, step, answer, crashes, mock>> /\ nextId' \in 1 .. MaxId + 1
  BY <1>1, <1>3, SMTT(20) DEF InPlace, InScript, TypeOK, Typed, Places
<1>4. ASSUME NEW d \in Daemons, RegisterHost(d) PROVE nextId' \in 1 .. MaxId + 1
  BY <1>4, OperationsAssumption DEF RegisterHost, OperationsAssumption, Ids
<1>5. \/ \E r \in Reqs : Step(r)
      \/ /\ UNCHANGED <<lxd, pc, job, step, answer, crashes, mock>>
         /\ nextId' = nextId \/ \E d \in Daemons : RegisterHost(d)
  BY DEF Next, Step, Leave, RegisterHost, RemoveHost, vars
<1> QED
  BY <1>2, <1>3, <1>4, <1>5 DEF TypeOK

\* Every variable keeps its type: no script runs past its end, and nothing but
\* the codes of the handlers is answered.
THEOREM TypeCorrect == Spec => []TypeOK
<1>1. Init => InPlace
  BY InitInPlace
<1>2. InPlace /\ [Next]_vars => InPlace'
  BY NextInPlace
<1>3. InPlace => TypeOK
  BY DEF InPlace
<1> QED
  BY <1>1, <1>2, <1>3, PTL DEF Spec

(***************************************************************************)
(* Nothing is notified or answered that is not recorded                    *)
(***************************************************************************)
HasEntry(b, o) == \E e \in audit : e.by = b /\ e.ok = o

\* Where a request is tells what is recorded of it, and what it did so far.
Recorded(r) ==
  /\ pc[r] = "notify" => HasEntry(r, outcome[r])
  /\ answer[r] # 0 => pc[r] = "done"
  /\ pc[r] \in Early => done[r] = <<>>
  /\ answer[r] \in {200, 502} => done[r] = <<>> \/ \E o \in BOOLEAN : HasEntry(r, o)

Trail ==
  /\ Typed
  /\ \A r \in Reqs : Recorded(r)
  /\ \A n \in notified : HasEntry(n.by, n.ok) /\ pc[n.by] = "done"

\* There is no entry yet and nothing was notified.
LEMMA InitTrail == ASSUME Init PROVE Trail
<1>1. Typed
  BY InitTyped
<1> QED
  BY <1>1 DEF Init, Trail, Recorded

\* An entry stays, but for the host it names.
LEMMA EntriesStay ==
  ASSUME Typed, [Next]_vars, NEW b, NEW o, HasEntry(b, o)
  PROVE  HasEntry(b, o)'
<1>1. PICK e \in audit : e.by = b /\ e.ok = o
  BY DEF HasEntry
<1>2. CASE audit \subseteq audit'
  BY <1>1, <1>2 DEF HasEntry
<1>3. ASSUME NEW i \in Ids, RemoveHost(i) PROVE HasEntry(b, o)'
  <2> DEFINE f == [e EXCEPT !.host = IF @ = i THEN 0 ELSE @]
  <2>1. f \in audit'
    BY <1>1, <1>3 DEF RemoveHost, Forget
  <2>2. f.by = b /\ f.ok = o
    BY <1>1 DEF Typed, Entry
  <2> QED
    BY <2>1, <2>2 DEF HasEntry
<1>4. ASSUME NEW r \in Reqs, Audit(r) PROVE audit \subseteq audit'
  BY <1>4 DEF Audit
<1>5. audit' = audit \/ (\E r \in Reqs : Audit(r)) \/ (\E i \in Ids : RemoveHost(i))
  BY ZenonT(40) DEF Next, Serve, Send, Authenticate, Resolve, Connect, Call, Refuse, Break, Notify,
     Crash, Leave, RegisterHost, vars
<1> QED
  BY <1>2, <1>3, <1>4, <1>5

\* A step of a request keeps its own record straight.
LEMMA OwnStep ==
  ASSUME Typed, NEW r \in Reqs, Step(r), Recorded(r)
  PROVE  Recorded(r)'
<1> USE DEF Typed, Goto, Finish, Early, Recorded
<1>0. ASSUME NEW o PROVE HasEntry(r, o) => HasEntry(r, o)'
  BY <1>0, EntriesStay DEF Next, Step
<1>1. CASE Send(r)
  BY <1>0, <1>1 DEF Send
<1>2. CASE Authenticate(r)
  BY <1>0, <1>2 DEF Authenticate
<1>3. CASE Resolve(r)
  BY <1>0, <1>3 DEF Resolve
<1>4. CASE Connect(r)
  BY <1>0, <1>4 DEF Connect
<1>5. CASE Call(r)
  BY <1>0, <1>5 DEF Call
<1>6. CASE Refuse(r)
  BY <1>0, <1>6 DEF Refuse
<1>7. CASE Break(r)
  BY <1>0, <1>7 DEF Break
<1>8. CASE Audit(r)
  <2>1. pc[r] = "audit" /\ answer[r] = 0 /\ outcome' = outcome /\ done' = done
    BY <1>8 DEF Audit
  <2>2. CASE account[job[r].user] # "gone" /\ client[r].id \in Used
    <3>1. /\ [by |-> r, ok |-> outcome[r], host |-> client[r].id] \in audit'
          /\ pc'[r] = "notify" /\ answer' = answer
      BY <1>8, <2>2 DEF Audit
    <3>2. HasEntry(r, outcome[r])'
      BY <2>1, <3>1 DEF HasEntry
    <3> QED
      BY <2>1, <3>1, <3>2
  <2>3. CASE ~ (account[job[r].user] # "gone" /\ client[r].id \in Used)
    <3>1. pc'[r] = "done" /\ answer'[r] = 500
      BY <1>8, <2>3 DEF Audit
    <3> QED
      BY <2>1, <3>1
  <2> QED
    BY <2>2, <2>3
<1>9. CASE Notify(r)
  BY <1>0, <1>9 DEF Notify
<1>10. CASE Crash(r)
  BY <1>0, <1>10 DEF Crash
<1> QED
  BY <1>1, <1>2, <1>3, <1>4, <1>5, <1>6, <1>7, <1>8, <1>9, <1>10 DEF Step, Serve

\* Every action keeps the trail true: the steps of a request by OwnStep.
LEMMA NextTrail == ASSUME Trail, [Next]_vars PROVE Trail'
<1> USE DEF Trail
<1>1. Typed'
  BY NextTyped
<1>2. \A b, o : HasEntry(b, o) => HasEntry(b, o)'
  BY EntriesStay
<1>3. ASSUME NEW r \in Reqs, Step(r) PROVE Trail'
  <2>1. ASSUME NEW q \in Reqs PROVE Recorded(q)'
    <3>1. CASE q = r
      BY <1>3, <3>1, OwnStep
    <3>2. CASE q # r
      BY <1>2, <1>3, <3>2, OneAtATime DEF Recorded
    <3> QED
      BY <3>1, <3>2
  <2>2. ASSUME NEW n \in notified' PROVE HasEntry(n.by, n.ok)' /\ pc'[n.by] = "done"
    <3>1. CASE n \in notified
      <4>1. HasEntry(n.by, n.ok)' /\ pc[n.by] = "done" /\ n.by \in Reqs
        BY <1>2, <3>1 DEF Typed
      <4>2. CASE n.by # r
        BY <1>3, <4>1, <4>2, OneAtATime
      <4>3. CASE n.by = r
        BY <1>3, <4>1, <4>3 DEF Step, Serve, Send, Authenticate, Resolve, Connect, Call,
           Refuse, Break, Audit, Notify, Crash
      <4> QED
        BY <4>1, <4>2, <4>3
    <3>2. CASE n \notin notified
      <4>1. Notify(r)
        BY <1>3, <2>2, <3>2 DEF Step, Serve, Send, Authenticate, Resolve, Connect, Call,
           Refuse, Break, Audit, Crash
      <4>2. n = [by |-> r, ok |-> outcome[r]]
        BY <2>2, <3>2, <4>1 DEF Notify
      <4>3. pc'[r] = "done" /\ HasEntry(r, outcome[r])
        BY <4>1 DEF Notify, Finish, Goto, Typed, Recorded
      <4> QED
        BY <1>2, <4>2, <4>3
    <3> QED
      BY <3>1, <3>2
  <2> QED
    BY <1>1, <2>1, <2>2
<1>4. CASE UNCHANGED <<pc, outcome, done, answer, notified>>
  BY <1>1, <1>2, <1>4 DEF Recorded
<1>5. \/ \E r \in Reqs : Step(r)
      \/ UNCHANGED <<pc, outcome, done, answer, notified>>
  BY DEF Next, Step, Leave, RegisterHost, RemoveHost, vars
<1> QED
  BY <1>3, <1>4, <1>5

\* The invariant behind both theorems: each request is where its entry says.
THEOREM TrailHolds == Spec => []Trail
<1>1. Init => Trail
  BY InitTrail
<1>2. Trail /\ [Next]_vars => Trail'
  BY NextTrail
<1> QED
  BY <1>1, <1>2, PTL DEF Spec

\* Only events that landed in the audit trail are notified, whatever becomes of
\* users, hosts, connections and workers (record_and_notify).
THEOREM NotifiedLanded == Spec => []NotifiedEventsLanded
<1>1. Trail => NotifiedEventsLanded
  BY DEF Trail, HasEntry, NotifiedEventsLanded
<1> QED
  BY <1>1, TrailHolds, PTL

\* A request that changed something and is answered 200 or 502 is in the trail
\* by then (record_and_notify before every return and raise of the handlers).
THEOREM AnsweredRecorded == Spec => []AnsweredIsRecorded
<1>1. Trail => AnsweredIsRecorded
  BY DEF Trail, Recorded, HasEntry, AnsweredIsRecorded
<1> QED
  BY <1>1, TrailHolds, PTL

(***************************************************************************)
(* The trail tells what LXD did                                            *)
(***************************************************************************)
\* The call of a script that makes its last change.
Last(op) ==
  CASE op \in {"create", "import", "create network"} -> 1
    [] op = "create and start" -> 3
    [] op = "delete" -> 5
    [] OTHER -> 2

\* What may have been done before call k of a script.
SoFar(op, k) ==
  IF k > Last(op) THEN Ways(op)
  ELSE CASE op = "create and start" -> IF k = 1 THEN {<<>>} ELSE {<<"create">>}
         [] op = "delete" -> IF k <= 3 THEN {<<>>} ELSE {<<>>, <<"stop">>}
         [] OTHER -> {<<>>}

\* What a call of a script adds to what was done before it.
Adds(op, k) ==
  LET v == Script(op)[k].verb IN
    \A d \in SoFar(op, k) :
      /\ v \in Changes => Append(d, v) \in SoFar(op, k + 1)
      /\ v \notin Changes => d \in SoFar(op, k + 1)
      /\ v = "peek" => d \in SoFar(op, k + 3) /\ k + 3 <= Len(Script(op))

\* A script amounts to its operation at its end, and not before unless it looks
\* afterwards.
AddsUp(op) ==
  /\ Len(Script(op)) >= Last(op)
  /\ op \notin LooksAfterwards => Len(Script(op)) = Last(op)
  /\ <<>> \in SoFar(op, 1)
  /\ \A k \in 1 .. Len(Script(op)) : Adds(op, k)
  /\ \A k \in 1 .. Last(op) : SoFar(op, k) \cap Ways(op) = {}

\* The first change and the second one, and that they are not the same history.
LEMMA Appending ==
  ASSUME NEW u, NEW v
  PROVE  /\ Append(<<>>, v) = <<v>> /\ <<>> # <<v>>
         /\ Append(<<u>>, v) = <<u, v>> /\ <<>> # <<u, v>> /\ \A x : <<x>> # <<u, v>>
         /\ u # v => <<u>> # <<v>>
<1> DEFINE s == Append(<<u>>, v)
<1>1. <<u>> \in Seq({u, v}) /\ v \in {u, v} /\ Len(<<u>>) = 1 /\ <<u>>[1] = u
  OBVIOUS
<1>2. s \in Seq({u, v}) /\ Len(s) = 2
  BY <1>1
<1>3. s[1] = u /\ s[2] = v
  BY <1>1
<1> HIDE DEF s
<1>4. s = [i \in 1 .. 2 |-> s[i]]
  BY <1>2
<1>5. <<u, v>> = [i \in 1 .. 2 |-> IF i = 1 THEN u ELSE v]
  OBVIOUS
<1>6. s = [i \in 1 .. 2 |-> IF i = 1 THEN u ELSE v]
  BY <1>3, <1>4
<1>7. Append(<<u>>, v) = <<u, v>>
  BY <1>5, <1>6 DEF s
<1>8. Append(<<>>, v) = <<v>> /\ <<>> # <<v>>
  OBVIOUS
<1>9. <<>> # <<u, v>> /\ \A x : <<x>> # <<u, v>>
  OBVIOUS
<1>10. u # v => <<u>> # <<v>>
  OBVIOUS
<1> QED
  BY <1>7, <1>8, <1>9, <1>10

\* A script of one change, made by the call of that place.
Single(op, v) ==
  LET s == Script(op) IN
    /\ op \notin {"create and start", "delete"}
    /\ v \in Changes /\ Ways(op) = {<<v>>}
    /\ Last(op) \in 1 .. 2 /\ Len(s) >= Last(op)
    /\ op \notin LooksAfterwards => Len(s) = Last(op)
    /\ \A k \in 1 .. Len(s) :
         IF k = Last(op) THEN s[k].verb = v ELSE s[k].verb \notin Changes \cup {"peek"}

\* It adds up: nothing is done before that call, and all of it after.
LEMMA SinglesAddUp ==
  ASSUME NEW op, NEW v, Single(op, v), Len(Script(op)) \in Nat
  PROVE  AddsUp(op)
<1> DEFINE s == Script(op)
           n == Last(op)
           length == Len(s)
<1>1. /\ op \notin {"create and start", "delete"}
      /\ v \in Changes /\ Ways(op) = {<<v>>}
      /\ n \in 1 .. 2 /\ length >= n
      /\ op \notin LooksAfterwards => length = n
      /\ \A k \in 1 .. length :
           IF k = n THEN s[k].verb = v ELSE s[k].verb \notin Changes \cup {"peek"}
  BY Zenon DEF Single
<1>2. \A k \in Nat : SoFar(op, k) = IF k > n THEN {<<v>>} ELSE {<<>>}
  BY <1>1, Zenon DEF SoFar
<1>3. v # "peek" /\ Append(<<>>, v) = <<v>> /\ <<>> # <<v>>
  <2>1. v # "peek"
    BY <1>1, Zenon DEF Changes
  <2> QED
    BY <2>1, Appending, Zenon
<1>4. length \in Nat /\ (n = 1 \/ n = 2)
  <2>1. n \in 1 .. 2
    BY <1>1, Zenon
  <2> HIDE DEF n
  <2> QED
    BY <2>1
<1> HIDE DEF s, n, length
<1>5. ASSUME NEW k \in 1 .. length PROVE Adds(op, k)
  <2>1. k \in Nat /\ k + 1 \in Nat
    BY <1>4, <1>5
  <2>2. CASE k = n
    <3>1. SoFar(op, k) = {<<>>} /\ SoFar(op, k + 1) = {<<v>>}
      <4>1. ~ k > n /\ k + 1 > n
        BY <1>4, <2>2
      <4> QED
        BY <1>2, <2>1, <4>1, Zenon
    <3>2. s[k].verb = v /\ v \in Changes
      BY <1>1, <1>5, <2>2
    <3> QED
      BY <1>3, <3>1, <3>2, Zenon DEF Adds, s
  <2>3. CASE k # n
    <3>1. k + 1 > n <=> k > n
      BY <1>4, <2>1, <2>3
    <3>2. SoFar(op, k + 1) = SoFar(op, k)
      BY <1>2, <2>1, <3>1, Zenon
    <3>3. s[k].verb \notin Changes /\ s[k].verb # "peek"
      BY <1>1, <1>5, <2>3
    <3> QED
      BY <3>2, <3>3, Zenon DEF Adds, s
  <2> QED
    BY <2>2, <2>3
<1>6. ASSUME NEW k \in 1 .. n PROVE SoFar(op, k) \cap Ways(op) = {}
  <2>1. k \in Nat /\ ~ k > n
    BY <1>4, <1>6
  <2>2. SoFar(op, k) = {<<>>}
    BY <1>2, <2>1
  <2> QED
    BY <1>1, <1>3, <2>2
<1>7. <<>> \in SoFar(op, 1)
  <2>1. ~ 1 > n /\ 1 \in Nat
    BY <1>4
  <2> QED
    BY <1>2, <2>1
<1> QED
  BY <1>1, <1>5, <1>6, <1>7, Zenon DEF AddsUp, s, n, length

\* A call that changes something adds its verb to what was done.
LEMMA AddsChange ==
  ASSUME NEW op, NEW k, NEW v \in Changes, Script(op)[k].verb = v,
         \A d \in SoFar(op, k) : Append(d, v) \in SoFar(op, k + 1)
  PROVE  Adds(op, k)
<1>1. v # "peek"
  BY Zenon DEF Changes
<1> QED
  BY <1>1, Zenon DEF Adds

\* A call that looks adds nothing.
LEMMA AddsNothing ==
  ASSUME NEW op, NEW k, Script(op)[k].verb \notin Changes \cup {"peek"},
         SoFar(op, k) \subseteq SoFar(op, k + 1)
  PROVE  Adds(op, k)
  BY Zenon DEF Adds

\* Every script adds up.
LEMMA ScriptsAddUp == \A op \in ChangingOps : AddsUp(op)
<1>0. ASSUME NEW op \in ChangingOps PROVE Len(Script(op)) \in Nat
  <2> DEFINE length == Len(Script(op))
  <2>1. length \in 1 .. 5
    BY ScriptLengths, Zenon DEF Short
  <2> HIDE DEF length
  <2>2. length \in Nat
    BY <2>1
  <2> QED
    BY <2>2 DEF length
<1>1. AddsUp("create")
  <2>1. Single("create", "create")
    BY DEF Single, Do, Last, Ways, Changes, LooksAfterwards, Script,
       create_container, CreateContainer
  <2> QED
    BY <1>0, <2>1, SinglesAddUp DEF ChangingOps
<1>2. AddsUp("start")
  <2>1. Single("start", "start")
    BY DEF Single, Do, Last, Ways, Changes, LooksAfterwards, Script,
       start_container, StartContainer, GetContainer
  <2> QED
    BY <1>0, <2>1, SinglesAddUp DEF ChangingOps
<1>3. AddsUp("stop")
  <2>1. Single("stop", "stop")
    BY DEF Single, Do, Last, Ways, Changes, LooksAfterwards, Script,
       stop_container, StopContainer, GetContainer
  <2> QED
    BY <1>0, <2>1, SinglesAddUp DEF ChangingOps
<1>4. AddsUp("restart")
  <2>1. Single("restart", "restart")
    BY DEF Single, Do, Last, Ways, Changes, LooksAfterwards, Script,
       restart_container, RestartContainer, GetContainer
  <2> QED
    BY <1>0, <2>1, SinglesAddUp DEF ChangingOps
<1>5. AddsUp("snapshot")
  <2>1. Single("snapshot", "create")
    BY DEF Single, Do, Last, Ways, Changes, LooksAfterwards, Script,
       create_snapshot, CreateSnapshot, GetContainer
  <2> QED
    BY <1>0, <2>1, SinglesAddUp DEF ChangingOps
<1>6. AddsUp("delete snapshot")
  <2>1. Single("delete snapshot", "delete")
    BY DEF Single, Do, Last, Ways, Changes, LooksAfterwards, Script,
       delete_snapshot, DeleteSnapshot, GetContainer
  <2> QED
    BY <1>0, <2>1, SinglesAddUp DEF ChangingOps
<1>7. AddsUp("restore")
  <2>1. Single("restore", "restore")
    BY DEF Single, Do, Last, Ways, Changes, LooksAfterwards, Script,
       restore_snapshot, RestoreSnapshot, GetContainer
  <2> QED
    BY <1>0, <2>1, SinglesAddUp DEF ChangingOps
<1>8. AddsUp("import")
  <2>1. Single("import", "create")
    BY DEF Single, Do, Last, Ways, Changes, LooksAfterwards, Script,
       import_image, ImportImage
  <2> QED
    BY <1>0, <2>1, SinglesAddUp DEF ChangingOps
<1>9. AddsUp("delete image")
  <2>1. Single("delete image", "delete")
    BY DEF Single, Do, Last, Ways, Changes, LooksAfterwards, Script,
       delete_image, DeleteImage
  <2> QED
    BY <1>0, <2>1, SinglesAddUp DEF ChangingOps
<1>10. AddsUp("create network")
  <2>1. Single("create network", "create")
    BY DEF Single, Do, Last, Ways, Changes, LooksAfterwards, Script,
       create_network, CreateNetwork
  <2> QED
    BY <1>0, <2>1, SinglesAddUp DEF ChangingOps
<1>11. AddsUp("delete network")
  <2>1. Single("delete network", "delete")
    BY DEF Single, Do, Last, Ways, Changes, LooksAfterwards, Script,
       delete_network, DeleteNetwork
  <2> QED
    BY <1>0, <2>1, SinglesAddUp DEF ChangingOps
<1>12. AddsUp("create volume")
  <2>1. Single("create volume", "create")
    BY DEF Single, Do, Last, Ways, Changes, LooksAfterwards, Script,
       create_volume, CreateVolume
  <2> QED
    BY <1>0, <2>1, SinglesAddUp DEF ChangingOps
<1>13. AddsUp("create and start")
  <2> DEFINE op == "create and start"
             s == Script(op)
             both == {<<"create", "start">>}
  <2>1. /\ Len(s) = 4 /\ s[1].verb = "create" /\ s[2].verb = "find" /\ s[3].verb = "start"
        /\ s[4].verb = "find"
    BY DEF Do, Script, create_and_start, CreateContainer, StartContainer, GetContainer
  <2>2. /\ SoFar(op, 1) = {<<>>} /\ SoFar(op, 2) = {<<"create">>} /\ SoFar(op, 3) = {<<"create">>}
        /\ SoFar(op, 1 + 1) = {<<"create">>} /\ SoFar(op, 2 + 1) = {<<"create">>}
        /\ SoFar(op, 3 + 1) = both /\ SoFar(op, 4) = both /\ SoFar(op, 4 + 1) = both
        /\ Ways(op) = both /\ Last(op) = 3
    BY DEF SoFar, Last, Ways
  <2>3. /\ Append(<<>>, "create") = <<"create">>
        /\ Append(<<"create">>, "start") = <<"create", "start">>
        /\ <<>> # <<"create", "start">> /\ <<"create">> # <<"create", "start">>
    BY Appending, Zenon
  <2>4. {"create", "start"} \subseteq Changes /\ "find" \notin Changes \cup {"peek"}
    BY DEF Changes
  <2>10. op \in LooksAfterwards
    BY DEF LooksAfterwards
  <2> HIDE DEF op, s
  <2>5. Adds(op, 1) /\ Adds(op, 3)
    BY <2>1, <2>2, <2>3, <2>4, AddsChange, Zenon DEF s
  <2>6. Adds(op, 2) /\ Adds(op, 4)
    BY <2>1, <2>2, <2>4, AddsNothing, Zenon DEF s
  <2>7. /\ \A k \in 1 .. 4 : Adds(op, k)
        /\ \A k \in 1 .. 3 : SoFar(op, k) \cap Ways(op) = {}
    <3>1. SoFar(op, 1) \cap both = {} /\ SoFar(op, 2) \cap both = {} /\ SoFar(op, 3) \cap both = {}
      BY <2>2, <2>3, Zenon
    <3>2. /\ \A k \in 1 .. 3 : k = 1 \/ k = 2 \/ k = 3
          /\ \A k \in 1 .. 4 : k = 1 \/ k = 2 \/ k = 3 \/ k = 4
      OBVIOUS
    <3> QED
      BY <2>2, <2>5, <2>6, <3>1, <3>2, Zenon
  <2>8. Len(Script(op)) = 4 /\ Last(op) = 3 /\ <<>> \in SoFar(op, 1)
    BY <2>1, <2>2, Zenon DEF s
  <2>9. AddsUp(op)
    BY <2>7, <2>8, <2>10 DEF AddsUp
  <2> QED
    BY <2>9 DEF op
<1>14. AddsUp("delete")
  <2> DEFINE op == "delete"
             s == Script(op)
             before == {<<>>, <<"stop">>}
             all == {<<"delete">>, <<"stop", "delete">>}
  <2>1. /\ Len(s) = 5 /\ s[1].verb = "peek" /\ s[2].verb = "find" /\ s[3].verb = "stop"
        /\ s[4].verb = "find" /\ s[5].verb = "delete"
    BY DEF Do, Script, delete_container, StopContainer, DeleteContainer
  <2>2. /\ SoFar(op, 1) = {<<>>} /\ SoFar(op, 2) = {<<>>} /\ SoFar(op, 3) = {<<>>}
        /\ SoFar(op, 4) = before /\ SoFar(op, 5) = before
        /\ SoFar(op, 1 + 1) = {<<>>} /\ SoFar(op, 2 + 1) = {<<>>} /\ SoFar(op, 1 + 3) = before
        /\ SoFar(op, 3 + 1) = before /\ SoFar(op, 4 + 1) = before /\ SoFar(op, 5 + 1) = all
        /\ Ways(op) = all /\ Last(op) = 5
    BY DEF SoFar, Last, Ways
  <2>3. /\ Append(<<>>, "stop") = <<"stop">> /\ Append(<<>>, "delete") = <<"delete">>
        /\ Append(<<"stop">>, "delete") = <<"stop", "delete">>
        /\ before \cap all = {} /\ {<<>>} \cap all = {}
    <3>1. "stop" # "delete"
      OBVIOUS
    <3>2. <<>> \notin all /\ <<"stop">> \notin all
      BY <3>1, Appending, Zenon
    <3>3. /\ Append(<<>>, "stop") = <<"stop">> /\ Append(<<>>, "delete") = <<"delete">>
          /\ Append(<<"stop">>, "delete") = <<"stop", "delete">>
      BY Appending, Zenon
    <3> HIDE DEF all
    <3> QED
      BY <3>2, <3>3, Zenon
  <2>4. {"stop", "delete"} \subseteq Changes /\ "find" \notin Changes \cup {"peek"}
        /\ "peek" \notin Changes
    BY DEF Changes
  <2> HIDE DEF op, s
  <2>5. Adds(op, 1)
    <3>1. 1 + 3 <= Len(Script(op))
      BY <2>1 DEF s
    <3> QED
      BY <2>1, <2>2, <2>4, <3>1, Zenon DEF Adds, s
  <2>6. Adds(op, 2) /\ Adds(op, 4)
    BY <2>1, <2>2, <2>4, AddsNothing, Zenon DEF s
  <2>7. Adds(op, 3) /\ Adds(op, 5)
    BY <2>1, <2>2, <2>3, <2>4, AddsChange, Zenon DEF s
  <2>8. \A k \in 1 .. 5 : Adds(op, k) /\ SoFar(op, k) \cap Ways(op) = {}
    <3>1. \A k \in 1 .. 5 : k = 1 \/ k = 2 \/ k = 3 \/ k = 4 \/ k = 5
      OBVIOUS
    <3>2. ASSUME NEW k \in 1 .. 5 PROVE SoFar(op, k) = {<<>>} \/ SoFar(op, k) = before
      BY <2>2, <3>1, <3>2, Zenon
    <3>3. ASSUME NEW k \in 1 .. 5 PROVE Adds(op, k)
      BY <2>5, <2>6, <2>7, <3>1, <3>3, Zenon
    <3> QED
      BY <2>2, <2>3, <3>2, <3>3, Zenon
  <2>9. Len(Script(op)) = 5 /\ Last(op) = 5 /\ <<>> \in SoFar(op, 1)
    BY <2>1, <2>2, Zenon DEF s
  <2>10. AddsUp(op)
    BY <2>8, <2>9 DEF AddsUp
  <2> QED
    BY <2>10 DEF op
<1> QED
  BY <1>1, <1>2, <1>3, <1>4, <1>5, <1>6, <1>7, <1>8, <1>9, <1>10, <1>11, <1>12, <1>13, <1>14 DEF ChangingOps

\* An outcome that tells what LXD did.
Tells(r, ok) ==
  IF ok THEN IsMade(r) ELSE job[r].op \notin LooksAfterwards => ~ IsMade(r)

\* What was done is what the calls so far add up to, and then the outcome.
Truthful(r) ==
  /\ pc[r] \in Early => done[r] = <<>>
  /\ pc[r] = "call" => done[r] \in SoFar(job[r].op, step[r])
  /\ pc[r] \in {"audit", "notify"} => Tells(r, outcome[r])

\* An entry is written with the outcome; its request is over but for the
\* notification.
ToldBy(e) == pc[e.by] \in {"notify", "done", "lost"} /\ Tells(e.by, e.ok)

TruthInv ==
  /\ InPlace
  /\ \A r \in Reqs : Truthful(r)
  /\ \A e \in audit : ToldBy(e)

\* A request that does not move keeps what it tells.
LEMMA StaysTruthful ==
  ASSUME NEW q \in Reqs, Truthful(q), pc'[q] = pc[q], step'[q] = step[q], job'[q] = job[q],
         done'[q] = done[q], outcome'[q] = outcome[q]
  PROVE  Truthful(q)'
  BY DEF Truthful, Tells, IsMade

\* A call adds its verb to what was done, or nothing.
LEMMA MadeSoFar ==
  ASSUME Typed, NEW r \in Reqs, Make(r, CallOf(r))
  PROVE  done'[r] = IF CallOf(r).verb \in Changes THEN Append(done[r], CallOf(r).verb) ELSE done[r]
  BY DEF Make, Typed

\* The call that a request is at leaves it with what its script adds up to.
LEMMA CallTruthful ==
  ASSUME InPlace, NEW r \in Reqs, Truthful(r), Call(r)
  PROVE  Truthful(r)'
<1> DEFINE op == job[r].op
           k == step[r]
           length == Len(Script(op))
           c == CallOf(r)
           skip == c.verb = "peek" /\ lxd[client[r].daemon][<<c.kind, job[r].name>>] # "running"
           next == IF skip THEN k + 3 ELSE k + 1
<1>1. /\ pc[r] = "call" /\ Make(r, c) /\ job' = job
      /\ step' = [step EXCEPT ![r] = next]
      /\ outcome' = [outcome EXCEPT ![r] = next > length]
      /\ IF next > length THEN Goto(r, "audit") ELSE UNCHANGED pc
  BY DEF Call
<1>2. /\ Typed /\ op \in ChangingOps /\ k \in 1 .. length /\ done[r] \in SoFar(op, k)
  BY <1>1 DEF InPlace, InScript, Truthful
<1>3. length \in Nat
  <2>1. length \in 1 .. 5
    BY <1>2, ScriptLengths, Zenon DEF Short
  <2> HIDE DEF length
  <2> QED
    BY <2>1
<1>4. Adds(op, k)
  BY <1>2, ScriptsAddUp, Zenon DEF AddsUp
<1>5. Script(op)[k].verb = c.verb
  BY Zenon DEF CallOf
<1> HIDE DEF op, k, length, c, skip
<1>6. done'[r] \in SoFar(op, next)
  <2>1. done'[r] = IF c.verb \in Changes THEN Append(done[r], c.verb) ELSE done[r]
    BY <1>1, <1>2, MadeSoFar, Zenon DEF c
  <2>2. CASE skip
    <3>1. c.verb = "peek" /\ "peek" \notin Changes
      BY <2>2 DEF skip, Changes
    <3>2. done'[r] = done[r]
      BY <2>1, <3>1, Zenon
    <3> QED
      BY <1>2, <1>4, <1>5, <2>2, <3>1, <3>2, Zenon DEF Adds
  <2>3. CASE ~ skip
    BY <1>2, <1>4, <1>5, <2>1, <2>3, Zenon DEF Adds
  <2> QED
    BY <2>2, <2>3
<1>7. next \in Nat /\ pc \in [Reqs -> Places] /\ step'[r] = next /\ job'[r].op = op
      /\ outcome'[r] = (next > length)
  BY <1>1, <1>2, <1>3 DEF Typed, op
<1> HIDE DEF next
<1>8. CASE next > length
  <2>1. pc'[r] = "audit"
    BY <1>1, <1>7, <1>8 DEF Goto
  <2>2. next > Last(op)
    <3>1. length >= Last(op)
      BY <1>2, ScriptsAddUp, Zenon DEF AddsUp, length
    <3>2. Last(op) \in Nat
      BY DEF Last
    <3> HIDE DEF Last
    <3> QED
      BY <1>3, <1>7, <1>8, <3>1, <3>2
  <2>3. SoFar(op, next) = Ways(op)
    BY <2>2, Zenon DEF SoFar
  <2>4. IsMade(r)' /\ outcome'[r] = TRUE
    BY <1>6, <1>7, <1>8, <2>3 DEF IsMade
  <2> QED
    BY <2>1, <2>4 DEF Truthful, Tells, Early
<1>9. CASE ~ next > length
  <2>1. pc'[r] = "call"
    BY <1>1, <1>9
  <2> QED
    BY <1>6, <1>7, <2>1 DEF Truthful, Early
<1> QED
  BY <1>8, <1>9

\* A call that LXD refuses leaves the operation undone, unless only the look at
\* the result is refused.
LEMMA RefuseTruthful ==
  ASSUME InPlace, NEW r \in Reqs, Truthful(r), Refuse(r)
  PROVE  Truthful(r)'
<1> DEFINE op == job[r].op
           length == Len(Script(op))
<1>1. /\ pc[r] = "call" /\ pc'[r] = "audit" /\ outcome'[r] = FALSE
      /\ job' = job /\ done' = done
  BY DEF Refuse, Goto, InPlace, Typed
<1>2. op \in ChangingOps /\ step[r] \in 1 .. length /\ done[r] \in SoFar(op, step[r])
  BY <1>1 DEF InPlace, InScript, Truthful
<1>3. ASSUME op \notin LooksAfterwards PROVE done[r] \notin Ways(op)
  <2>1. length = Last(op)
    BY <1>2, <1>3, ScriptsAddUp, Zenon DEF AddsUp
  <2>2. SoFar(op, step[r]) \cap Ways(op) = {}
    BY <1>2, <2>1, ScriptsAddUp, Zenon DEF AddsUp
  <2> QED
    BY <1>2, <2>2, Zenon
<1> QED
  BY <1>1, <1>3, Zenon DEF Truthful, Tells, IsMade, Early

\* Every step of a request leaves it with the truth.
LEMMA StepTruthful ==
  ASSUME InPlace, NEW r \in Reqs, Truthful(r), Step(r)
  PROVE  Truthful(r)'
<1> USE DEF Goto, Finish, Early
<1>0. pc \in [Reqs -> Places] /\ (pc[r] = "call" => step[r] \in Nat) /\ Typed
  BY DEF InPlace, Typed
<1>1. ASSUME pc'[r] \in Early, pc[r] \in Early, done' = done PROVE Truthful(r)'
  BY <1>1 DEF Truthful
<1>2. ASSUME pc'[r] \in {"done", "lost"} PROVE Truthful(r)'
  BY <1>2 DEF Truthful
<1>3. CASE Send(r)
  BY <1>0, <1>1, <1>3 DEF Send
<1>4. CASE Authenticate(r)
  BY <1>0, <1>1, <1>2, <1>4 DEF Authenticate
<1>5. CASE Resolve(r)
  BY <1>0, <1>1, <1>2, <1>5 DEF Resolve
<1>6. CASE Connect(r)
  <2>1. pc[r] = "connect" /\ done' = done /\ job' = job /\ step' = step /\ step[r] = 1
    BY <1>6 DEF Connect, InPlace, InScript
  <2>2. pc'[r] = (IF job[r].op \in ChangingOps THEN "call" ELSE "look") \/ pc'[r] = "done"
    BY <1>0, <1>6 DEF Connect
  <2>3. CASE job[r].op \in ChangingOps /\ pc'[r] = "call"
    <3>1. done'[r] = <<>> /\ <<>> \in SoFar(job[r].op, 1)
      BY <2>1, <2>3, ScriptsAddUp DEF AddsUp, Truthful
    <3> QED
      BY <2>1, <2>3, <3>1 DEF Truthful
  <2> QED
    BY <1>1, <1>2, <2>1, <2>2, <2>3
<1>7. CASE Call(r)
  BY <1>7, CallTruthful
<1>8. CASE Refuse(r)
  BY <1>8, RefuseTruthful
<1>9. CASE Break(r)
  BY <1>0, <1>2, <1>9 DEF Break
<1>10. CASE Audit(r)
  <2>1. pc[r] = "audit" /\ pc'[r] \in {"notify", "done"} /\ UNCHANGED <<job, done, outcome>>
    BY <1>0, <1>10 DEF Audit
  <2> QED
    BY <2>1 DEF Truthful, Tells, IsMade
<1>11. CASE Notify(r)
  BY <1>0, <1>2, <1>11 DEF Notify
<1>12. CASE Crash(r)
  BY <1>0, <1>2, <1>12 DEF Crash
<1> QED
  BY <1>3, <1>4, <1>5, <1>6, <1>7, <1>8, <1>9, <1>10, <1>11, <1>12 DEF Step, Serve

\* Every step of a request leaves the entries with the truth: what its own entry
\* tells of does not change any more.
LEMMA StepTold ==
  ASSUME TruthInv, NEW r \in Reqs, Step(r), NEW e \in audit'
  PROVE  ToldBy(e)'
<1>1. InPlace /\ Typed /\ Truthful(r) /\ \A f \in audit : ToldBy(f)
  BY DEF TruthInv, InPlace
<1>2. CASE e \in audit
  <2>1. e.by \in Reqs /\ ToldBy(e)
    BY <1>1, <1>2 DEF Typed, Entry
  <2>2. CASE e.by # r
    BY <1>1, <2>1, <2>2, OneAtATime DEF ToldBy, Tells, IsMade
  <2>3. CASE e.by = r
    <3>1. Notify(r) \/ Crash(r)
      BY <2>1, <2>3 DEF ToldBy, Step, Serve, Send, Authenticate, Resolve, Connect, Call, Refuse,
         Break, Audit
    <3>2. pc'[r] \in {"done", "lost"} /\ UNCHANGED <<job, done>>
      BY <1>1, <3>1 DEF Notify, Crash, Finish, Goto, Typed
    <3> QED
      BY <2>1, <2>3, <3>2 DEF ToldBy, Tells, IsMade
  <2> QED
    BY <2>2, <2>3
<1>3. CASE e \notin audit
  <2>1. Audit(r) /\ pc[r] = "audit"
    BY <1>3 DEF Step, Serve, Send, Authenticate, Resolve, Connect, Call, Refuse, Break, Audit,
       Notify, Crash
  <2>2. e = [by |-> r, ok |-> outcome[r], host |-> client[r].id] /\ Goto(r, "notify")
        /\ UNCHANGED <<job, done>>
    BY <1>3, <2>1 DEF Audit
  <2>3. pc'[r] = "notify" /\ Tells(r, outcome[r])
    BY <1>1, <2>1, <2>2 DEF Goto, Typed, Truthful
  <2> QED
    BY <2>2, <2>3 DEF ToldBy, Tells, IsMade
<1> QED
  BY <1>2, <1>3

\* The entries tell the truth from the start to the end.
LEMMA NextTruth == ASSUME TruthInv, [Next]_vars PROVE TruthInv'
<1>1. InPlace' /\ InPlace /\ Typed
  BY NextInPlace DEF TruthInv, InPlace
<1>2. ASSUME NEW r \in Reqs, Step(r) PROVE TruthInv'
  <2>1. ASSUME NEW q \in Reqs PROVE Truthful(q)'
    <3>1. CASE q = r
      BY <1>1, <1>2, <3>1, StepTruthful DEF TruthInv
    <3>2. CASE q # r
      BY <1>1, <1>2, <3>2, OneAtATime, StaysTruthful DEF TruthInv
    <3> QED
      BY <3>1, <3>2
  <2> QED
    BY <1>1, <1>2, <2>1, StepTold DEF TruthInv
<1>3. ASSUME UNCHANGED <<pc, step, job, done, outcome>>,
             \A e \in audit' : \E f \in audit : e.by = f.by /\ e.ok = f.ok
      PROVE  TruthInv'
  <2>1. \A q \in Reqs : Truthful(q)'
    BY <1>3, StaysTruthful DEF TruthInv
  <2>2. \A e \in audit' : ToldBy(e)'
    BY <1>3 DEF TruthInv, ToldBy, Tells, IsMade
  <2> QED
    BY <1>1, <2>1, <2>2 DEF TruthInv
<1>4. ASSUME NEW i \in Ids, RemoveHost(i), NEW e \in audit'
      PROVE  \E f \in audit : e.by = f.by /\ e.ok = f.ok
  <2>1. PICK f \in audit : e = [f EXCEPT !.host = IF @ = i THEN 0 ELSE @]
    BY <1>4 DEF RemoveHost, Forget
  <2>2. f \in Entry
    BY <1>1 DEF Typed
  <2> QED
    BY <2>1, <2>2 DEF Entry
<1>5. \/ \E r \in Reqs : Step(r)
      \/ /\ UNCHANGED <<pc, step, job, done, outcome>>
         /\ audit' = audit \/ \E i \in Ids : RemoveHost(i)
  BY DEF Next, Step, Leave, RegisterHost, RemoveHost, vars
<1> QED
  BY <1>2, <1>3, <1>4, <1>5

\* A success entry means that LXD made every change of the operation for this
\* request, a failure entry that it did not unless the operation looks at its
\* result: however the requests interleave on a daemon, and whatever happens to
\* accounts, hosts, connections and workers (record_and_notify in the handlers).
THEOREM TrailTellsWhatLxdDid == Spec => []TrailIsTrue
<1>1. Init => TruthInv
  <2> SUFFICES ASSUME Init PROVE TruthInv
    OBVIOUS
  <2>1. \A r \in Reqs : Truthful(r)
    BY DEF Init, Truthful
  <2> QED
    BY <2>1, InitInPlace DEF Init, TruthInv
<1>2. TruthInv /\ [Next]_vars => TruthInv'
  BY NextTruth
<1>3. TruthInv => TrailIsTrue
  BY DEF TruthInv, ToldBy, Tells, TrailIsTrue
<1> QED
  BY <1>1, <1>2, <1>3, PTL DEF Spec

(***************************************************************************)
(* Ids that are not reused keep their meaning                              *)
(***************************************************************************)
\* What an id that is still known stands for: its daemon, or nothing any more.
StandsFor(i, d) == i \in Ids /\ i < nextId /\ hosts[i] \in {d, NoDaemon}

KnowsItsHost(r) ==
  /\ pc[r] \in {"idle", "authenticate", "resolve"} => client[r].id = 0
  /\ pc[r] \in {"connect", "call", "audit", "notify"} => client[r].id # 0
  /\ client[r].id = 0 => done[r] = <<>>
  /\ job[r] = NoJob => pc[r] = "idle"
  /\ client[r].id # 0 => StandsFor(client[r].id, client[r].daemon)
  /\ job[r] # NoJob /\ job[r].meant # NoDaemon =>
       /\ job[r].host # 0 /\ StandsFor(job[r].host, job[r].meant)
       /\ client[r].id # 0 => client[r].daemon = job[r].meant

\* An entry is written once its request has a client, and then names its host.
NamesItsHost(e) ==
  /\ pc[e.by] \in {"notify", "done", "lost"}
  /\ e.host # 0 => e.host \in Used /\ e.host = client[e.by].id

Identities ==
  /\ Typed
  /\ \A i \in Used : i < nextId
  /\ \A r \in Reqs : KnowsItsHost(r)
  /\ \A e \in audit : NamesItsHost(e)

\* The first ids stand for one daemon each.
LEMMA InitIdentities == ASSUME Init PROVE Identities
<1>1. Typed
  BY InitTyped
<1>2. \A i \in Used : i < nextId
  <2>1. PICK k \in 0 .. MaxId : Used = 1 .. k /\ nextId = k + 1
    BY DEF Init
  <2> QED
    BY <2>1
<1>3. \A r \in Reqs : KnowsItsHost(r)
  BY DEF Init, KnowsItsHost
<1>4. audit = {}
  BY DEF Init
<1> QED
  BY <1>1, <1>2, <1>3, <1>4 DEF Identities

\* No step gives an id that was ever used to another daemon.
LEMMA IdsStay ==
  ASSUME ~ IdsReused, Typed, [Next]_vars, \A i \in Used : i < nextId
  PROVE  /\ \A i \in Used' : i < nextId'
         /\ \A j, d : StandsFor(j, d) => StandsFor(j, d)'
<1>1. CASE UNCHANGED <<hosts, nextId>>
  BY <1>1 DEF Used, StandsFor
<1>2. ASSUME NEW x \in Daemons, RegisterHost(x)
      PROVE  /\ \A i \in Used' : i < nextId'
             /\ \A j, d : StandsFor(j, d) => StandsFor(j, d)'
  <2>1. PICK k \in Ids : k = nextId /\ hosts' = [hosts EXCEPT ![k] = x] /\ nextId' = k + 1
    BY <1>2 DEF RegisterHost, IsNewId
  <2>2. \A j \in Ids : j # k => hosts'[j] = hosts[j]
    BY <2>1 DEF Typed
  <2>3. \A j \in Ids : j \in Nat
    BY OperationsAssumption DEF OperationsAssumption, Ids
  <2>4. ASSUME NEW i \in Used' PROVE i < nextId'
    <3>1. i \in Ids /\ hosts'[i] # NoDaemon
      BY DEF Used
    <3> QED
      BY <2>1, <2>2, <2>3, <3>1 DEF Used
  <2>5. ASSUME NEW j, NEW d, StandsFor(j, d) PROVE StandsFor(j, d)'
    BY <2>1, <2>2, <2>3, <2>5 DEF StandsFor
  <2> QED
    BY <2>4, <2>5
<1>3. ASSUME NEW k \in Ids, RemoveHost(k)
      PROVE  /\ \A i \in Used' : i < nextId'
             /\ \A j, d : StandsFor(j, d) => StandsFor(j, d)'
  <2>1. nextId' = nextId /\ hosts' = [hosts EXCEPT ![k] = NoDaemon]
    BY <1>3 DEF RemoveHost
  <2>2. \A j \in Ids : hosts'[j] \in {hosts[j], NoDaemon}
    BY <2>1 DEF Typed
  <2> QED
    BY <2>1, <2>2 DEF Used, StandsFor
<1>4. ASSUME NEW r \in Reqs, Send(r) \/ Serve(r) \/ Crash(r)
      PROVE  UNCHANGED <<hosts, nextId>>
  BY <1>4 DEF Serve, Send, Authenticate, Resolve, Connect, Call, Refuse, Break, Audit,
     Notify, Crash
<1>5. ASSUME NEW u \in Users, NEW s, Leave(u, s) PROVE UNCHANGED <<hosts, nextId>>
  BY <1>5 DEF Leave
<1>6. CASE UNCHANGED vars
  BY <1>1, <1>6 DEF vars
<1> QED
  BY <1>1, <1>2, <1>3, <1>4, <1>5, <1>6 DEF Next

\* A request that sends or resolves picks up ids that stand for what it thinks.
LEMMA OwnHost ==
  ASSUME ~ IdsReused, NoDaemon \notin Daemons, NoJob \notin Job, Identities,
         NEW r \in Reqs, Step(r)
  PROVE  KnowsItsHost(r)'
<1> USE DEF Typed, Goto, Finish, KnowsItsHost
<1> Typed /\ KnowsItsHost(r)
  BY DEF Identities
<1>0. /\ \A j, d : StandsFor(j, d) => StandsFor(j, d)'
      /\ hosts' = hosts /\ nextId' = nextId
  <2>1. [Next]_vars /\ \A i \in Used : i < nextId
    BY DEF Next, Step, Identities
  <2> QED
    BY <2>1, IdsStay DEF Step, Serve, Send, Authenticate, Resolve, Connect, Call,
       Refuse, Break, Audit, Notify, Crash
<1>1. CASE Send(r)
  <2>1. PICK op \in Ops, n \in Names, u \in Users, h \in Used \cup {0} :
          job' = [job EXCEPT ![r] =
                   [op |-> op, name |-> n, user |-> u, host |-> h,
                    meant |-> IF h = 0 THEN NoDaemon ELSE hosts[h]]]
    BY <1>1, Sending
  <2>2. job'[r].host = h /\ job'[r].meant = IF h = 0 THEN NoDaemon ELSE hosts[h]
    BY <2>1
  <2>3. job'[r].meant # NoDaemon => h # 0 /\ StandsFor(h, job'[r].meant)
    BY <2>2 DEF Identities, StandsFor, Used
  <2>4. client' = client /\ done' = done /\ client[r].id = 0 /\ pc'[r] = "authenticate"
    BY <1>1 DEF Send
  <2>5. job'[r] # NoJob
    <3>1. op \in AllOps /\ h \in Ids \cup {0}
      BY OperationsAssumption DEF OperationsAssumption, Used
    <3>2. (IF h = 0 THEN NoDaemon ELSE hosts[h]) \in Daemons \cup {NoDaemon}
      BY <3>1
    <3>3. [op |-> op, name |-> n, user |-> u, host |-> h,
           meant |-> IF h = 0 THEN NoDaemon ELSE hosts[h]] \in Job
      BY <3>1, <3>2 DEF Job
    <3> QED
      BY <2>1, <3>3
  <2> QED
    BY <1>0, <2>2, <2>3, <2>4, <2>5
<1>2. CASE Authenticate(r)
  BY <1>0, <1>2 DEF Authenticate
<1>3. CASE Resolve(r)
  <2>1. job' = job /\ done' = done /\ pc[r] = "resolve"
    BY <1>3 DEF Resolve
  <2>2. CASE Resolves(job[r].host) = {}
    BY <1>0, <1>3, <2>1, <2>2 DEF Resolve
  <2>3. CASE Resolves(job[r].host) # {}
    <3>1. PICK i \in Resolves(job[r].host) :
            /\ client' = [client EXCEPT ![r] = [id |-> i, daemon |-> hosts[i]]]
            /\ Goto(r, "connect")
      BY <1>3, <2>3 DEF Resolve
    <3>2. i \in Used /\ i \in Ids /\ i # 0 /\ hosts[i] # NoDaemon
      BY OperationsAssumption DEF OperationsAssumption, Resolves, Used, Ids
    <3>3. client'[r].id = i /\ client'[r].daemon = hosts[i] /\ pc'[r] = "connect"
      BY <3>1
    <3>4. StandsFor(i, hosts[i])
      BY <3>2 DEF StandsFor, Identities
    <3>5. job[r] # NoJob /\ job[r].meant # NoDaemon => hosts[i] = job[r].meant
      <4>1. job[r].host # 0 => i = job[r].host
        BY <3>1 DEF Resolves
      <4> QED
        BY <3>2, <4>1 DEF StandsFor
    <3> QED
      BY <1>0, <2>1, <3>2, <3>3, <3>4, <3>5
  <2> QED
    BY <2>2, <2>3
<1>4. CASE Connect(r)
  BY <1>0, <1>4 DEF Connect
<1>5. CASE Call(r)
  BY <1>0, <1>5 DEF Call
<1>6. CASE Refuse(r)
  BY <1>0, <1>6 DEF Refuse
<1>7. CASE Break(r)
  BY <1>0, <1>7 DEF Break
<1>8. CASE Audit(r)
  BY <1>0, <1>8 DEF Audit
<1>9. CASE Notify(r)
  BY <1>0, <1>9 DEF Notify
<1>10. CASE Crash(r)
  BY <1>0, <1>10 DEF Crash
<1> QED
  BY <1>1, <1>2, <1>3, <1>4, <1>5, <1>6, <1>7, <1>8, <1>9, <1>10 DEF Step, Serve

\* No action makes an id in hand stand for another daemon.
LEMMA NextIdentities ==
  ASSUME ~ IdsReused, NoDaemon \notin Daemons, NoJob \notin Job, Identities, [Next]_vars
  PROVE  Identities'
<1> USE DEF Identities
<1>1. Typed'
  BY NextTyped
<1>2. /\ \A i \in Used' : i < nextId'
      /\ \A j, d : StandsFor(j, d) => StandsFor(j, d)'
  BY IdsStay
<1>3. ASSUME NEW r \in Reqs, Step(r) PROVE Identities'
  <2>1. ASSUME NEW q \in Reqs PROVE KnowsItsHost(q)'
    <3>1. CASE q = r
      BY <1>3, <3>1, OwnHost
    <3>2. CASE q # r
      BY <1>2, <1>3, <3>2, OneAtATime DEF KnowsItsHost
    <3> QED
      BY <3>1, <3>2
  <2>2. hosts' = hosts /\ Used' = Used
    BY <1>3 DEF Step, Serve, Send, Authenticate, Resolve, Connect, Call, Refuse, Break,
       Audit, Notify, Crash, Used
  <2>3. ASSUME NEW e \in audit PROVE NamesItsHost(e)'
    <3>1. NamesItsHost(e) /\ e.by \in Reqs
      BY DEF Typed, Entry
    <3>2. CASE e.by # r
      BY <1>3, <2>2, <3>1, <3>2, OneAtATime DEF NamesItsHost
    <3>3. CASE e.by = r
      <4>1. pc[r] \in {"notify", "done", "lost"}
        BY <3>1, <3>3 DEF NamesItsHost
      <4>2. client' = client /\ pc'[r] \in {"notify", "done", "lost"}
        BY <1>3, <4>1 DEF Step, Serve, Send, Authenticate, Resolve, Connect, Call, Refuse,
           Break, Audit, Notify, Crash, Goto, Finish, Typed
      <4> QED
        BY <2>2, <3>1, <3>3, <4>2 DEF NamesItsHost
    <3> QED
      BY <3>2, <3>3
  <2>4. ASSUME NEW e \in audit', e \notin audit PROVE NamesItsHost(e)'
    <3>1. Audit(r)
      BY <1>3, <2>4 DEF Step, Serve, Send, Authenticate, Resolve, Connect, Call, Refuse,
         Break, Notify, Crash
    <3>2. client[r].id \in Used
      BY <2>4, <3>1 DEF Audit
    <3>3. /\ e = [by |-> r, ok |-> outcome[r], host |-> client[r].id]
          /\ pc' = [pc EXCEPT ![r] = "notify"] /\ client' = client
      BY <2>4, <3>1 DEF Audit, Goto
    <3>4. pc'[r] = "notify"
      BY <3>3 DEF Typed
    <3> QED
      BY <2>2, <3>2, <3>3, <3>4 DEF NamesItsHost
  <2> QED
    BY <1>1, <1>2, <2>1, <2>3, <2>4
<1>4. CASE UNCHANGED <<pc, job, client, done>>
  <2>1. ASSUME NEW q \in Reqs PROVE KnowsItsHost(q)'
    BY <1>2, <1>4 DEF KnowsItsHost
  <2>2. ASSUME NEW k \in Ids, RemoveHost(k), NEW e \in audit' PROVE NamesItsHost(e)'
    <3>1. PICK f \in audit : e = [f EXCEPT !.host = IF @ = k THEN 0 ELSE @]
      BY <2>2 DEF RemoveHost, Forget
    <3>2. e.by = f.by /\ e.host = IF f.host = k THEN 0 ELSE f.host
      BY <3>1 DEF Typed, Entry
    <3>3. \A i \in Ids : i # k => hosts'[i] = hosts[i]
      BY <2>2 DEF RemoveHost, Typed
    <3>4. f.host \in Used /\ f.host # k => f.host \in Used'
      BY <3>3 DEF Used
    <3> QED
      BY <1>4, <3>2, <3>4 DEF NamesItsHost
  <2>3. ASSUME NEW x \in Daemons, RegisterHost(x) PROVE audit' = audit /\ Used \subseteq Used'
    <3>1. PICK k \in Ids : hosts' = [hosts EXCEPT ![k] = x]
      BY <2>3 DEF RegisterHost
    <3>2. \A i \in Ids : hosts[i] # NoDaemon => hosts'[i] # NoDaemon
      BY <3>1 DEF Typed
    <3> QED
      BY <2>3, <3>2 DEF RegisterHost, Used
  <2>4. CASE audit' = audit /\ Used \subseteq Used'
    BY <1>1, <1>2, <1>4, <2>1, <2>4 DEF NamesItsHost
  <2>5. CASE \E k \in Ids : RemoveHost(k)
    BY <1>1, <1>2, <2>1, <2>2, <2>5
  <2>6. ASSUME NEW u \in Users, NEW s, Leave(u, s) PROVE audit' = audit /\ Used \subseteq Used'
    BY <2>6 DEF Leave, Used
  <2>7. ASSUME UNCHANGED vars PROVE audit' = audit /\ Used \subseteq Used'
    BY <2>7 DEF vars, Used
  <2> QED
    BY <1>3, <2>3, <2>4, <2>5, <2>6, <2>7 DEF Next, Step
<1>5. \/ \E r \in Reqs : Step(r)
      \/ UNCHANGED <<pc, job, client, done>>
  BY DEF Next, Step, Leave, RegisterHost, RemoveHost, vars
<1> QED
  BY <1>3, <1>4, <1>5

\* Where ids are not reused (PostgreSQL), an id never comes to stand for another
\* daemon than the one it was resolved or chosen for.
LEMMA IdsKeepTheirMeaning ==
  ASSUME ~ IdsReused
  PROVE  Spec => []Identities
<1>1. NoDaemon \notin Daemons /\ NoJob \notin Job
  BY OperationsAssumption DEF OperationsAssumption
<1>2. Init => Identities
  BY InitIdentities
<1>3. Identities /\ [Next]_vars => Identities'
  BY <1>1, NextIdentities
<1> QED
  BY <1>2, <1>3, PTL DEF Spec

\* With a sequence behind the ids, an entry that names a host names the one
\* whose daemon the request talked to, however hosts come and go while LXD is at
\* work (resolve_host, record_and_notify, ON DELETE SET NULL).
THEOREM EntriesNameTheirDaemon ==
  ASSUME ~ IdsReused
  PROVE  Spec => []EntryNamesTheDaemon
<1>1. Identities => EntryNamesTheDaemon
  <2> SUFFICES ASSUME Identities, NEW e \in audit, e.host # 0
               PROVE  hosts[e.host] = client[e.by].daemon
    BY DEF EntryNamesTheDaemon
  <2> QED
    BY DEF Identities, NamesItsHost, KnowsItsHost, StandsFor, Used, Typed, Entry
<1> QED
  BY <1>1, IdsKeepTheirMeaning, PTL

\* With a sequence behind the ids, a request that names a host changes nothing
\* on another daemon than the one its sender chose: an id that was removed
\* resolves to nothing (resolve_host, open_client).
THEOREM ChangesReachTheHostMeant ==
  ASSUME ~ IdsReused
  PROVE  Spec => []ChangesTheHostMeant
<1>1. Identities => ChangesTheHostMeant
  <2> SUFFICES ASSUME Identities, NEW r \in Reqs, done[r] # <<>>, job[r].meant # NoDaemon
               PROVE  client[r].daemon = job[r].meant
    BY DEF ChangesTheHostMeant
  <2> QED
    BY DEF Identities, KnowsItsHost
<1> QED
  BY <1>1, IdsKeepTheirMeaning, PTL
=============================================================================
