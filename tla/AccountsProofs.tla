---------------------------- MODULE AccountsProofs ----------------------------
(***************************************************************************)
(* What the users table promises for any number of requests, accounts and  *)
(* addresses: the types, the unique names and addresses, refusals that     *)
(* leave the table alone, changes that somebody asked for, and logins that *)
(* name the right account.                                                 *)
(***************************************************************************)
EXTENDS Accounts, TLAPS

(***************************************************************************)
(* Types.  A stage of a handler is reached only with the job and the rows  *)
(* it works on.                                                            *)
(***************************************************************************)
Has(r, ops) == job[r] \in Job /\ job[r].op \in ops

InHand(r) ==
  /\ pc[r] = "authenticate" => Has(r, {"create", "update", "reset", "delete"})
  /\ pc[r] \in {"name", "new email", "insert"} =>
       Has(r, {"create"}) /\ me[r] \in Loaded
  /\ pc[r] = "load" => Has(r, {"update", "reset", "delete"}) /\ me[r] \in Loaded
  /\ pc[r] = "email" => Has(r, {"update"}) /\ job[r].email # Keep
  /\ pc[r] \in {"email", "write"} =>
       /\ Has(r, {"update", "reset", "delete"})
       /\ me[r] \in Loaded /\ user[r] \in Loaded
       /\ user[r].id = job[r].id
  /\ pc[r] = "refresh" => Has(r, {"create", "update"}) /\ user[r] \in Loaded
  /\ pc[r] \in {"credentials", "record"} => Has(r, {"login"})
  /\ pc[r] = "renew" => Has(r, {"refresh"})

Typed == TypeOK /\ \A r \in Reqs : InHand(r)

\* The fields of a job are those of its operation.
LEMMA JobFields ==
  ASSUME NEW j \in Job
  PROVE  /\ j.op \in AllOps
         /\ j.op = "create" => /\ j.by \in Callers /\ j.name \in Names
                               /\ j.email \in Emails /\ j.admin \in BOOLEAN
                               /\ j.password \in Passwords
         /\ j.op = "update" => /\ j.by \in Callers /\ j.id \in Ids
                               /\ j.email \in Emails \cup {Keep}
                               /\ j.admin \in BOOLEAN \cup {Keep}
                               /\ j.active \in BOOLEAN \cup {Keep}
         /\ j.op = "reset" => /\ j.by \in Callers /\ j.id \in Ids
                              /\ j.password \in Passwords
         /\ j.op = "delete" => j.by \in Callers /\ j.id \in Ids
         /\ j.op = "login" => j.by \in Names /\ j.password \in Passwords
         /\ j.op = "refresh" => j.by \in Callers
BY DEF Job, AllOps

\* A row of the table that is read is an account with its id.
LEMMA LoadFields ==
  ASSUME TypeOK, NEW i \in Used
  PROVE  /\ i \in Ids /\ users[i] \in Account
         /\ Load(i) \in Loaded
         /\ Load(i).id = i /\ Load(i).row = users[i]
BY AccountsAssumption DEF TypeOK, Used, Load, Loaded

\* What update_user writes is an account.
LEMMA WrittenFields ==
  ASSUME NEW r \in Reqs, Has(r, {"update"}), user[r] \in Loaded, NEW now \in Account
  PROVE  /\ Written(r, now) \in Account
         /\ Written(r, now).name = now.name
         /\ Written(r, now).password = now.password
         /\ Written(r, now).email \in {now.email, job[r].email}
         /\ Written(r, now).admin \in {now.admin, job[r].admin}
         /\ Written(r, now).active \in {now.active, job[r].active}
<1>1. /\ job[r].email \in Emails \cup {Keep}
      /\ job[r].admin \in BOOLEAN \cup {Keep}
      /\ job[r].active \in BOOLEAN \cup {Keep}
  BY JobFields DEF Has
<1> QED BY <1>1 DEF Written, Column, Account

\* The installed tables and the idle requests have the types.
LEMMA InitTyped ==
  ASSUME Init PROVE Typed
<1>1. TypeOK
  BY AccountsAssumption DEF Init, TypeOK, Stages, Ids
<1>2. \A r \in Reqs : InHand(r)
  BY DEF Init, InHand
<1> QED BY <1>1, <1>2 DEF Typed

Step(r) ==
  \/ Send(r) \/ Authenticate(r) \/ CheckName(r) \/ CheckNewEmail(r) \/ Insert(r)
  \/ LoadUser(r) \/ CheckEmail(r) \/ Update(r) \/ Refresh(r) \/ ResetPassword(r)
  \/ Delete(r) \/ Login(r) \/ RecordLogin(r) \/ RefreshToken(r)

Codes == {0, 200, 201, 204, 400, 401, 403, 404, 409, 500}

\* A request that moves on leaves the place and the answer of the others alone.
LEMMA Moving ==
  ASSUME TypeOK, NEW r \in Reqs, NEW l \in Stages, Goto(r, l)
  PROVE  /\ pc' \in [Reqs -> Stages] /\ pc'[r] = l
         /\ \A q \in Reqs : q # r => pc'[q] = pc[q]
<1>1. pc \in [Reqs -> Stages]
  BY DEF TypeOK
<1> QED BY <1>1 DEF Goto

\* A request that goes on is at the stage it was sent to, and no answer is given.
LEMMA Continuing ==
  ASSUME TypeOK, NEW r \in Reqs, NEW l \in Stages, Continue(r, l)
  PROVE  /\ pc' \in [Reqs -> Stages] /\ pc'[r] = l
         /\ answer' = answer /\ answer' \in [Reqs -> Codes]
         /\ \A q \in Reqs : q # r => pc'[q] = pc[q]
<1>1. answer \in [Reqs -> Codes]
  BY DEF TypeOK, Codes
<1> QED BY <1>1, Moving DEF Continue

\* A request that ends is done and has its answer.
LEMMA Finishing ==
  ASSUME TypeOK, NEW r \in Reqs, NEW c \in Codes, Finish(r, c)
  PROVE  /\ pc' \in [Reqs -> Stages] /\ pc'[r] = "done"
         /\ answer' \in [Reqs -> Codes] /\ answer'[r] = c
         /\ \A q \in Reqs : q # r => pc'[q] = pc[q] /\ answer'[q] = answer[q]
<1>1. answer \in [Reqs -> Codes]
  BY DEF TypeOK, Codes
<1>2. Goto(r, "done") /\ "done" \in Stages
  BY DEF Finish, Stages
<1> QED BY <1>1, <1>2, Moving DEF Finish

\* A step of one request leaves what the others have in hand alone.
LEMMA OneAtATime ==
  ASSUME TypeOK, NEW r \in Reqs, Step(r), NEW s \in Reqs, s # r
  PROVE  /\ pc'[s] = pc[s] /\ job'[s] = job[s] /\ answer'[s] = answer[s]
         /\ me'[s] = me[s] /\ user'[s] = user[s]
<1>1. /\ pc \in [Reqs -> Stages] /\ answer \in [Reqs -> Codes]
      /\ job \in [Reqs -> Job \cup {NoJob}]
      /\ me \in [Reqs -> Loaded \cup {NoUser}]
      /\ user \in [Reqs -> Loaded \cup {NoUser}]
  BY DEF TypeOK, Codes
<1>2. \A l : Goto(r, l) => pc'[s] = pc[s]
  BY <1>1 DEF Goto
<1>3. \A l : Continue(r, l) => pc'[s] = pc[s] /\ answer'[s] = answer[s]
  BY <1>2 DEF Continue
<1>4. \A c : Finish(r, c) => pc'[s] = pc[s] /\ answer'[s] = answer[s]
  BY <1>1, <1>2 DEF Finish
<1>5. CASE Send(r)
  BY <1>1, <1>2, <1>5 DEF Send
<1>6. CASE Authenticate(r)
  BY <1>1, <1>3, <1>4, <1>6 DEF Authenticate
<1>7. CASE CheckName(r) \/ CheckNewEmail(r)
  BY <1>3, <1>4, <1>7, ZenonT(40) DEF CheckName, CheckNewEmail
<1>8. CASE Insert(r)
  BY <1>1, <1>3, <1>4, <1>8 DEF Insert
<1>9. CASE LoadUser(r)
  BY <1>1, <1>3, <1>4, <1>9 DEF LoadUser
<1>10. CASE CheckEmail(r)
  BY <1>3, <1>4, <1>10 DEF CheckEmail
<1>11. CASE Update(r)
  BY <1>3, <1>4, <1>11, ZenonT(40) DEF Update
<1>12. CASE Refresh(r)
  BY <1>4, <1>12 DEF Refresh
<1>13. CASE ResetPassword(r)
  BY <1>4, <1>13 DEF ResetPassword
<1>14. CASE Delete(r)
  BY <1>4, <1>14 DEF Delete
<1>15. CASE Login(r)
  BY <1>1, <1>3, <1>15 DEF Login
<1>16. CASE RecordLogin(r)
  BY <1>4, <1>16 DEF RecordLogin
<1>17. CASE RefreshToken(r)
  BY <1>4, <1>17 DEF RefreshToken
<1> QED
  BY <1>5, <1>6, <1>7, <1>8, <1>9, <1>10, <1>11, <1>12, <1>13, <1>14, <1>15, <1>16,
     <1>17 DEF Step

\* A request that is answered has nothing more to do.
LEMMA DoneHasNothing == ASSUME NEW r \in Reqs, pc[r] = "done" PROVE InHand(r)
BY DEF InHand

\* Every step of a request keeps the types, and gives the request what its
\* next stage works on.
LEMMA StepTyped ==
  ASSUME Typed, NEW r \in Reqs, Step(r)
  PROVE  TypeOK' /\ InHand(r)'
<1>t. TypeOK /\ InHand(r)
  BY DEF Typed
<1>l. {"done", "name", "new email", "insert", "load", "email", "write", "refresh",
       "record", "authenticate", "credentials", "renew"} \subseteq Stages
  BY DEF Stages
<1>d. pc'[r] = "done" => InHand(r)'
  BY DEF InHand
<1>f. \A c \in Codes : Finish(r, c) =>
        /\ pc' \in [Reqs -> Stages] /\ answer' \in [Reqs -> Codes]
        /\ pc'[r] = "done" /\ InHand(r)'
  BY <1>t, <1>d, Finishing
<1>c. \A l \in Stages : Continue(r, l) =>
        /\ pc' \in [Reqs -> Stages] /\ answer' \in [Reqs -> Codes] /\ pc'[r] = l
  BY <1>t, Continuing
<1>1. CASE Send(r)
  <2>1. PICK j \in Job :
          /\ job' = [job EXCEPT ![r] = j]
          /\ Goto(r, CASE j.op = "login" -> "credentials"
                       [] j.op = "refresh" -> "renew"
                       [] OTHER -> "authenticate")
    BY <1>1 DEF Send
  <2>2. j.op \in AllOps
    BY JobFields
  <2>3. /\ job' \in [Reqs -> Job \cup {NoJob}] /\ job'[r] = j
        /\ me' = me /\ user' = user
    BY <1>t, <1>1, <2>1 DEF Send, TypeOK
  <2>4. /\ pc' \in [Reqs -> Stages]
        /\ pc'[r] = CASE j.op = "login" -> "credentials"
                      [] j.op = "refresh" -> "renew"
                      [] OTHER -> "authenticate"
    BY <1>t, <1>l, <2>1, Moving
  <2>5. TypeOK'
    BY <1>t, <1>1, <2>3, <2>4 DEF Send, TypeOK
  <2>6. InHand(r)'
    BY <2>2, <2>3, <2>4 DEF InHand, Has, AllOps
  <2> QED BY <2>5, <2>6
<1>2. CASE Authenticate(r)
  <2>1. Has(r, {"create", "update", "reset", "delete"})
    BY <1>t, <1>2 DEF Authenticate, InHand
  <2>2. CASE UNCHANGED me /\ \E c \in Codes : Finish(r, c)
    <3>1. pc' \in [Reqs -> Stages] /\ answer' \in [Reqs -> Codes] /\ InHand(r)'
      BY <1>f, <2>2
    <3> QED BY <1>t, <1>2, <2>2, <3>1 DEF Authenticate, TypeOK, Codes
  <2>3. CASE \E i \in Named(job[r].by) :
               /\ me' = [me EXCEPT ![r] = Load(i)]
               /\ Continue(r, IF job[r].op = "create" THEN "name" ELSE "load")
    <3>1. PICK i \in Named(job[r].by) :
            /\ me' = [me EXCEPT ![r] = Load(i)]
            /\ Continue(r, IF job[r].op = "create" THEN "name" ELSE "load")
      BY <2>3
    <3>2. Load(i) \in Loaded
      BY <1>t, LoadFields DEF Named
    <3>3. /\ pc' \in [Reqs -> Stages] /\ answer' \in [Reqs -> Codes]
          /\ pc'[r] = IF job[r].op = "create" THEN "name" ELSE "load"
      BY <1>l, <1>c, <3>1
    <3>4. me' \in [Reqs -> Loaded \cup {NoUser}] /\ me'[r] \in Loaded
      BY <1>t, <3>1, <3>2 DEF TypeOK
    <3>5. TypeOK'
      BY <1>t, <1>2, <3>3, <3>4 DEF Authenticate, TypeOK, Codes
    <3>6. job'[r] = job[r]
      BY <1>2 DEF Authenticate
    <3>7. InHand(r)'
      BY <2>1, <3>3, <3>4, <3>6 DEF InHand, Has
    <3> QED BY <3>5, <3>7
  <2> QED BY <1>2, <2>2, <2>3 DEF Authenticate, Codes
<1>3. CASE CheckName(r) \/ CheckNewEmail(r)
  <2>1. Has(r, {"create"}) /\ me[r] \in Loaded
    BY <1>t, <1>3 DEF CheckName, CheckNewEmail, InHand
  <2>2. Finish(r, 409) \/ \E l \in {"new email", "insert"} : Continue(r, l)
    BY <1>3 DEF CheckName, CheckNewEmail
  <2>3. UNCHANGED <<users, nextId, audit, job, me, user, wrote>>
    BY <1>3 DEF CheckName, CheckNewEmail
  <2>4. /\ pc' \in [Reqs -> Stages] /\ answer' \in [Reqs -> Codes]
        /\ pc'[r] \in {"done", "new email", "insert"}
    <3>1. CASE Finish(r, 409)
      BY <1>f, <3>1 DEF Codes
    <3>2. CASE \E l \in {"new email", "insert"} : Continue(r, l)
      BY <1>l, <1>c, <3>2
    <3> QED BY <2>2, <3>1, <3>2
  <2>5. TypeOK'
    BY <1>t, <2>3, <2>4, ZenonT(40) DEF TypeOK, Codes
  <2>6. pc'[r] \in {"new email", "insert"} => InHand(r)'
    BY <2>1, <2>3 DEF InHand, Has
  <2> QED BY <1>d, <2>4, <2>5, <2>6
<1>4. CASE Insert(r)
  <2> DEFINE row == [name |-> job[r].name, email |-> job[r].email,
                     admin |-> job[r].admin, active |-> TRUE,
                     password |-> job[r].password]
  <2>1. Has(r, {"create"}) /\ me[r] \in Loaded
    BY <1>t, <1>4 DEF Insert, InHand
  <2>2. row \in Account
    BY <2>1, JobFields DEF Has, Account
  <2>3. PICK i \in Ids :
          \/ Finish(r, 500) /\ UNCHANGED <<users, nextId, user, wrote>>
          \/ /\ users' = [users EXCEPT ![i] = row]
             /\ nextId' = i + 1
             /\ user' = [user EXCEPT ![r] = [id |-> i, row |-> row]]
             /\ wrote' = wrote \cup {r}
             /\ Continue(r, "refresh")
    BY <1>4 DEF Insert
  <2>4. [id |-> i, row |-> row] \in Loaded /\ i + 1 \in 1 .. MaxId + 1
    BY <2>2, AccountsAssumption DEF Loaded, Ids
  <2> HIDE DEF row
  <2>5. UNCHANGED <<audit, job, me>>
    BY <1>4 DEF Insert
  <2>6. CASE Finish(r, 500) /\ UNCHANGED <<users, nextId, user, wrote>>
    <3>1. pc' \in [Reqs -> Stages] /\ answer' \in [Reqs -> Codes] /\ InHand(r)'
      BY <1>f, <2>6 DEF Codes
    <3> QED BY <1>t, <2>5, <2>6, <3>1 DEF TypeOK, Codes
  <2>7. CASE /\ users' = [users EXCEPT ![i] = row]
             /\ nextId' = i + 1
             /\ user' = [user EXCEPT ![r] = [id |-> i, row |-> row]]
             /\ wrote' = wrote \cup {r}
             /\ Continue(r, "refresh")
    <3>1. /\ pc' \in [Reqs -> Stages] /\ answer' \in [Reqs -> Codes]
          /\ pc'[r] = "refresh"
      BY <1>l, <1>c, <2>7
    <3>2. user' \in [Reqs -> Loaded \cup {NoUser}] /\ user'[r] \in Loaded
      BY <1>t, <2>4, <2>7 DEF TypeOK
    <3>3. users' \in [Ids -> Account \cup {NoUser}]
      BY <1>t, <2>2, <2>7 DEF TypeOK
    <3>4. TypeOK'
      BY <1>t, <2>4, <2>5, <2>7, <3>1, <3>2, <3>3 DEF TypeOK, Codes
    <3>5. InHand(r)'
      BY <2>1, <2>5, <3>1, <3>2 DEF InHand, Has
    <3> QED BY <3>4, <3>5
  <2> QED BY <2>3, <2>6, <2>7
<1>5. CASE LoadUser(r)
  <2> DEFINE row == IF me[r].id = job[r].id THEN me[r] ELSE Load(job[r].id)
  <2>1. Has(r, {"update", "reset", "delete"}) /\ me[r] \in Loaded
    BY <1>t, <1>5 DEF LoadUser, InHand
  <2>2. ASSUME job[r].id \in Used PROVE row \in Loaded /\ row.id = job[r].id
    BY <1>t, <2>1, <2>2, LoadFields
  <2>3. UNCHANGED <<users, nextId, audit, job, me, wrote>>
    BY <1>5 DEF LoadUser
  <2>4. CASE UNCHANGED user /\ \E c \in Codes : Finish(r, c)
    <3>1. pc' \in [Reqs -> Stages] /\ answer' \in [Reqs -> Codes] /\ InHand(r)'
      BY <1>f, <2>4
    <3> QED BY <1>t, <2>3, <2>4, <3>1 DEF TypeOK, Codes
  <2>5. CASE /\ job[r].id \in Used
             /\ user' = [user EXCEPT ![r] = row]
             /\ Continue(r, IF job[r].op = "update" /\ job[r].email # Keep
                            THEN "email" ELSE "write")
    <3>1. /\ pc' \in [Reqs -> Stages] /\ answer' \in [Reqs -> Codes]
          /\ pc'[r] = IF job[r].op = "update" /\ job[r].email # Keep
                      THEN "email" ELSE "write"
      BY <1>l, <1>c, <2>5
    <3> HIDE DEF row
    <3>2. /\ user' \in [Reqs -> Loaded \cup {NoUser}]
          /\ user'[r] \in Loaded /\ user'[r].id = job[r].id
      BY <1>t, <2>2, <2>5 DEF TypeOK
    <3>3. TypeOK'
      BY <1>t, <2>3, <3>1, <3>2 DEF TypeOK, Codes
    <3>4. InHand(r)'
      BY <2>1, <2>3, <3>1, <3>2 DEF InHand, Has
    <3> QED BY <3>3, <3>4
  <2> QED BY <1>5, <2>4, <2>5 DEF LoadUser, Codes
<1>6. CASE CheckEmail(r)
  <2>1. /\ Has(r, {"update", "reset", "delete"}) /\ me[r] \in Loaded
        /\ user[r] \in Loaded /\ user[r].id = job[r].id
    BY <1>t, <1>6 DEF CheckEmail, InHand
  <2>2. Finish(r, 409) \/ Continue(r, "write")
    BY <1>6 DEF CheckEmail
  <2>3. UNCHANGED <<users, nextId, audit, job, me, user, wrote>>
    BY <1>6 DEF CheckEmail
  <2>4. /\ pc' \in [Reqs -> Stages] /\ answer' \in [Reqs -> Codes]
        /\ pc'[r] \in {"done", "write"}
    <3>1. CASE Finish(r, 409)
      BY <1>f, <3>1 DEF Codes
    <3>2. CASE Continue(r, "write")
      BY <1>l, <1>c, <3>2
    <3> QED BY <2>2, <3>1, <3>2
  <2>5. TypeOK'
    BY <1>t, <2>3, <2>4 DEF TypeOK, Codes
  <2>6. pc'[r] = "write" => InHand(r)'
    BY <2>1, <2>3 DEF InHand, Has
  <2> QED BY <1>d, <2>4, <2>5, <2>6
<1>7. CASE Update(r)
  <2> DEFINE row == Written(r, users[user[r].id])
  <2>1. Has(r, {"update"}) /\ user[r] \in Loaded
    BY <1>t, <1>7 DEF Update, InHand, Has
  <2>2. ASSUME user[r].id \in Used PROVE row \in Account
    BY <1>t, <2>1, <2>2, LoadFields, WrittenFields
  <2>3. UNCHANGED <<nextId, audit, job, me, user>>
    BY <1>7 DEF Update
  <2>4. /\ \/ UNCHANGED <<users, wrote>>
           \/ /\ user[r].id \in Used
              /\ users' = [users EXCEPT ![user[r].id] = row]
              /\ wrote' = wrote \cup {r}
        /\ Continue(r, "refresh") \/ \E c \in {400, 500} : Finish(r, c)
    BY <1>7, ZenonT(40) DEF Update
  <2> HIDE DEF row
  <2>5. users' \in [Ids -> Account \cup {NoUser}] /\ wrote' \subseteq Reqs
    BY <1>t, <2>2, <2>4 DEF TypeOK, Used
  <2>6. /\ pc' \in [Reqs -> Stages] /\ answer' \in [Reqs -> Codes]
        /\ pc'[r] \in {"done", "refresh"}
    <3>1. CASE \E c \in {400, 500} : Finish(r, c)
      BY <1>f, <3>1 DEF Codes
    <3>2. CASE Continue(r, "refresh")
      BY <1>l, <1>c, <3>2
    <3> QED BY <2>4, <3>1, <3>2
  <2>7. TypeOK'
    BY <1>t, <2>3, <2>5, <2>6 DEF TypeOK, Codes
  <2>8. pc'[r] = "refresh" => InHand(r)'
    BY <2>1, <2>3 DEF InHand, Has
  <2> QED BY <1>d, <2>6, <2>7, <2>8
<1>8. CASE Refresh(r) \/ RefreshToken(r)
  <2>1. \E c \in {200, 201, 401, 500} : Finish(r, c)
    BY <1>8 DEF Refresh, RefreshToken
  <2>2. pc' \in [Reqs -> Stages] /\ answer' \in [Reqs -> Codes] /\ InHand(r)'
    BY <1>f, <2>1 DEF Codes
  <2> QED BY <1>t, <1>8, <2>2 DEF Refresh, RefreshToken, TypeOK, Codes
<1>9. CASE ResetPassword(r)
  <2>1. Has(r, {"reset"}) /\ user[r] \in Loaded
    BY <1>t, <1>9 DEF ResetPassword, InHand, Has
  <2>2. job[r].password \in Passwords
    BY <2>1, JobFields DEF Has
  <2>3. ASSUME user[r].id \in Used
        PROVE  [users[user[r].id] EXCEPT !.password = job[r].password] \in Account
    BY <1>t, <2>2, <2>3, LoadFields DEF Account
  <2>4. /\ \/ UNCHANGED <<users, wrote>>
           \/ /\ user[r].id \in Used
              /\ users' = [users EXCEPT ![user[r].id] =
                             [users[user[r].id] EXCEPT !.password = job[r].password]]
              /\ wrote' = wrote \cup {r}
        /\ \E c \in {204, 500} : Finish(r, c)
    BY <1>9 DEF ResetPassword
  <2>5. users' \in [Ids -> Account \cup {NoUser}] /\ wrote' \subseteq Reqs
    BY <1>t, <2>3, <2>4 DEF TypeOK, Used
  <2>6. pc' \in [Reqs -> Stages] /\ answer' \in [Reqs -> Codes] /\ InHand(r)'
    BY <1>f, <2>4 DEF Codes
  <2> QED BY <1>t, <1>9, <2>5, <2>6 DEF ResetPassword, TypeOK, Codes
<1>10. CASE Delete(r)
  <2>1. audit' \subseteq Entry
    <3>1. ASSUME NEW e \in audit
          PROVE  [e EXCEPT !.user = IF @ = user[r].id THEN 0 ELSE @] \in Entry
      BY <1>t, <3>1 DEF TypeOK, Entry
    <3> QED BY <1>10, <3>1 DEF Delete, Forget
  <2>2. /\ users' = [users EXCEPT ![user[r].id] = NoUser]
        /\ wrote' = wrote \cup {r} \/ wrote' = wrote
    BY <1>10 DEF Delete
  <2>4. users' \in [Ids -> Account \cup {NoUser}] /\ wrote' \subseteq Reqs
    <3>1. users \in [Ids -> Account \cup {NoUser}] /\ wrote \subseteq Reqs
      BY <1>t DEF TypeOK
    <3> QED BY <2>2, <3>1
  <2>3. pc' \in [Reqs -> Stages] /\ answer' \in [Reqs -> Codes] /\ InHand(r)'
    BY <1>f, <1>10 DEF Delete, Codes
  <2> QED BY <1>t, <1>10, <2>1, <2>3, <2>4 DEF Delete, TypeOK, Codes
<1>11. CASE Login(r)
  <2>1. Has(r, {"login"})
    BY <1>t, <1>11 DEF Login, InHand
  <2>2. user' = user \/ \E x \in Loaded : user' = [user EXCEPT ![r] = x]
    BY <1>t, <1>11, LoadFields DEF Login, Named
  <2>3. user' \in [Reqs -> Loaded \cup {NoUser}]
    BY <1>t, <2>2 DEF TypeOK
  <2>4. /\ pc' \in [Reqs -> Stages] /\ answer' \in [Reqs -> Codes]
        /\ pc'[r] = "record"
    BY <1>l, <1>c, <1>11 DEF Login
  <2>5. UNCHANGED <<users, nextId, audit, job, me, wrote>>
    BY <1>11 DEF Login
  <2>6. TypeOK'
    BY <1>t, <2>3, <2>4, <2>5 DEF TypeOK, Codes
  <2>7. InHand(r)'
    BY <2>1, <2>4, <2>5 DEF InHand, Has
  <2> QED BY <2>6, <2>7
<1>12. CASE RecordLogin(r)
  <2>1. Has(r, {"login"})
    BY <1>t, <1>12 DEF RecordLogin, InHand
  <2>2. job[r].by \in Names
    BY <2>1, JobFields DEF Has
  <2>3. \E c \in {200, 401, 403, 500} : Finish(r, c)
    BY <1>12 DEF RecordLogin, Verdict
  <2>4. \A u \in Used \cup {0} :
          [by |-> r, user |-> u, name |-> job[r].by, ok |-> Verdict(r) = 200] \in Entry
    BY <2>2 DEF Entry, Used
  <2>5. audit' \subseteq Entry
    BY <1>t, <1>12, <2>4 DEF RecordLogin, TypeOK
  <2>6. pc' \in [Reqs -> Stages] /\ answer' \in [Reqs -> Codes] /\ InHand(r)'
    BY <1>f, <2>3 DEF Codes
  <2> QED BY <1>t, <1>12, <2>5, <2>6 DEF RecordLogin, TypeOK, Codes
<1> QED BY <1>1, <1>2, <1>3, <1>4, <1>5, <1>6, <1>7, <1>8, <1>9, <1>10, <1>11, <1>12
        DEF Step

\* A step keeps what every request has in hand typed, its own and that of the others.
LEMMA NextTyped ==
  ASSUME Typed, [Next]_vars PROVE Typed'
<1>1. CASE UNCHANGED vars
  <2>1. TypeOK'
    BY <1>1 DEF vars, Typed, TypeOK
  <2>2. ASSUME NEW s \in Reqs PROVE InHand(s)'
    BY <1>1 DEF vars, Typed, InHand, Has
  <2> QED BY <2>1, <2>2 DEF Typed
<1>2. ASSUME NEW r \in Reqs, Step(r) PROVE Typed'
  <2>1. TypeOK' /\ InHand(r)'
    BY <1>2, StepTyped
  <2>2. ASSUME NEW s \in Reqs, s # r PROVE InHand(s)'
    <3>1. InHand(s)
      BY DEF Typed
    <3>2. /\ pc'[s] = pc[s] /\ job'[s] = job[s] /\ me'[s] = me[s] /\ user'[s] = user[s]
      BY <1>2, <2>2, OneAtATime DEF Typed
    <3> QED BY <3>1, <3>2 DEF InHand, Has
  <2> QED BY <2>1, <2>2 DEF Typed
<1> QED BY <1>1, <1>2 DEF Next, Step

\* The types hold whatever the requests do, in every number of them.
THEOREM TypeCorrect == Spec => []TypeOK
<1>1. Spec => []Typed
  BY InitTyped, NextTyped, PTL DEF Spec
<1>2. Typed => TypeOK
  BY DEF Typed
<1> QED BY <1>1, <1>2, PTL

(***************************************************************************)
(* Names and addresses: only the commits change the table, and each of     *)
(* them asks the unique indexes for itself.                                *)
(***************************************************************************)

\* What a step does to the table: nothing, one row that collides with no other
\* (a new one, an update, a password), or one row less.
LEMMA Rows ==
  ASSUME Typed, NEW r \in Reqs, Step(r)
  PROVE  \/ users' = users
         \/ \E i \in Ids, row \in Account :
              ~ Collides(row.name, row.email, i) /\ users' = [users EXCEPT ![i] = row]
         \/ \E i \in Used, w \in Passwords :
              users' = [users EXCEPT ![i].password = w]
         \/ Delete(r) /\ \E i \in Ids : users' = [users EXCEPT ![i] = NoUser]
<1>t. TypeOK /\ InHand(r)
  BY DEF Typed
<1>1. CASE Insert(r)
  <2> DEFINE row == [name |-> job[r].name, email |-> job[r].email,
                     admin |-> job[r].admin, active |-> TRUE,
                     password |-> job[r].password]
  <2>1. Has(r, {"create"})
    BY <1>t, <1>1 DEF Insert, InHand
  <2>2. row \in Account
    BY <2>1, JobFields DEF Has, Account
  <2>3. \/ users' = users
        \/ \E i \in Ids :
             ~ Collides(row.name, row.email, i) /\ users' = [users EXCEPT ![i] = row]
    BY <1>1 DEF Insert
  <2> HIDE DEF row
  <2> QED BY <2>2, <2>3
<1>2. CASE Update(r)
  <2> DEFINE row == Written(r, users[user[r].id])
  <2>1. Has(r, {"update"}) /\ user[r] \in Loaded
    BY <1>t, <1>2 DEF Update, InHand, Has
  <2>2. ASSUME user[r].id \in Used PROVE row \in Account
    BY <1>t, <2>1, <2>2, LoadFields, WrittenFields
  <2>3. \/ users' = users
        \/ /\ user[r].id \in Used /\ ~ Collides(row.name, row.email, user[r].id)
           /\ users' = [users EXCEPT ![user[r].id] = row]
    BY <1>2 DEF Update
  <2> HIDE DEF row
  <2> QED BY <2>2, <2>3 DEF Used
<1>3. CASE ResetPassword(r)
  <2>1. Has(r, {"reset"})
    BY <1>t, <1>3 DEF ResetPassword, InHand, Has
  <2>2. job[r].password \in Passwords
    BY <2>1, JobFields DEF Has
  <2> QED BY <1>3, <2>2 DEF ResetPassword
<1>4. CASE Delete(r)
  <2>1. user[r] \in Loaded
    BY <1>t, <1>4 DEF Delete, InHand
  <2> QED BY <1>4, <2>1 DEF Delete, Loaded
<1>5. CASE ~ (Insert(r) \/ Update(r) \/ ResetPassword(r) \/ Delete(r))
  BY <1>5 DEF Step, Send, Authenticate, CheckName, CheckNewEmail, LoadUser,
     CheckEmail, Refresh, Login, RecordLogin, RefreshToken
<1> QED BY <1>1, <1>2, <1>3, <1>4, <1>5

\* The installed table satisfies its unique indexes.
LEMMA InitUnique == ASSUME Init PROVE UniqueAccounts
BY AccountsAssumption DEF Init, UniqueAccounts, Used

\* A step that writes a name or an address has passed the unique index.
LEMMA NextUnique ==
  ASSUME Typed, UniqueAccounts, [Next]_vars PROVE UniqueAccounts'
<1>t. users \in [Ids -> Account \cup {NoUser}]
  BY DEF Typed, TypeOK
<1>1. CASE users' = users
  BY <1>1 DEF UniqueAccounts, Used
<1>2. ASSUME NEW i \in Ids, NEW row \in Account, ~ Collides(row.name, row.email, i),
             users' = [users EXCEPT ![i] = row]
      PROVE  UniqueAccounts'
  <2>1. \A j \in Used \ {i} : users[j].name # row.name /\ users[j].email # row.email
    BY <1>2 DEF Collides
  <2>2. ASSUME NEW j \in Used', NEW k \in Used',
               users'[j].name = users'[k].name \/ users'[j].email = users'[k].email
        PROVE  j = k
    <3>1. /\ j # i => j \in Used /\ users'[j] = users[j]
          /\ k # i => k \in Used /\ users'[k] = users[k]
          /\ j = i => users'[j] = row
          /\ k = i => users'[k] = row
      BY <1>t, <1>2 DEF Used
    <3> QED BY <2>1, <2>2, <3>1 DEF UniqueAccounts
  <2> QED BY <2>2 DEF UniqueAccounts
<1>3. ASSUME NEW i \in Used, NEW w \in Passwords,
             users' = [users EXCEPT ![i].password = w]
      PROVE  UniqueAccounts'
  <2>1. ASSUME NEW j \in Used'
        PROVE  /\ j \in Used /\ users'[j].name = users[j].name
               /\ users'[j].email = users[j].email
    BY <1>t, <1>3 DEF Used, Account
  <2> QED BY <2>1 DEF UniqueAccounts
<1>4. ASSUME NEW i \in Ids, users' = [users EXCEPT ![i] = NoUser]
      PROVE  UniqueAccounts'
  <2>1. ASSUME NEW j \in Used' PROVE j \in Used /\ users'[j] = users[j]
    BY <1>t, <1>4 DEF Used
  <2> QED BY <2>1 DEF UniqueAccounts
<1>5. ASSUME NEW r \in Reqs, Step(r) PROVE UniqueAccounts'
  BY <1>1, <1>2, <1>3, <1>4, <1>5, Rows
<1> QED BY <1>1, <1>5 DEF Next, Step, vars

\* However the checks of any number of requests interleave with their writes, a
\* username and an address belong to one account.
THEOREM AccountsUnique == Spec => []UniqueAccounts
<1>1. Spec => [](Typed /\ UniqueAccounts)
  BY InitTyped, NextTyped, InitUnique, NextUnique, PTL DEF Spec
<1> QED BY <1>1, PTL

(***************************************************************************)
(* Refusals: a request that has changed the table has only its refresh     *)
(* before it.                                                              *)
(***************************************************************************)
Refused == {400, 401, 403, 404, 409}

Clean(r) ==
  /\ answer[r] # 0 => pc[r] = "done"
  /\ r \in wrote => pc[r] \in {"refresh", "done"} /\ answer[r] \notin Refused

\* Nobody has been answered yet.
LEMMA InitClean == ASSUME Init PROVE \A r \in Reqs : Clean(r)
BY DEF Init, Clean

\* A step sends an answer or leaves it open, and the only steps that count as a
\* change lead to the refresh of the row or to a 204.
LEMMA Endings ==
  ASSUME NEW r \in Reqs, Step(r)
  PROVE  /\ answer' = answer \/ \E c \in Codes : Finish(r, c)
         /\ \/ wrote' = wrote
            \/ Continue(r, "refresh") /\ wrote' = wrote \cup {r}
            \/ Finish(r, 204) /\ wrote' = wrote \cup {r}
<1> USE DEF Codes
<1>1. CASE Send(r)
  BY <1>1 DEF Send
<1>2. CASE Authenticate(r)
  BY <1>2 DEF Authenticate, Continue
<1>3. CASE CheckName(r) \/ CheckNewEmail(r) \/ CheckEmail(r)
  <2>1. /\ Finish(r, 409) \/ \E l \in Stages : Continue(r, l)
        /\ wrote' = wrote
    BY <1>3 DEF CheckName, CheckNewEmail, CheckEmail, Stages
  <2> QED BY <2>1 DEF Continue
<1>4. CASE Insert(r)
  <2>1. \/ Finish(r, 500) /\ wrote' = wrote
        \/ Continue(r, "refresh") /\ wrote' = wrote \cup {r}
    BY <1>4 DEF Insert
  <2> QED BY <2>1 DEF Continue
<1>5. CASE LoadUser(r)
  BY <1>5 DEF LoadUser, Continue
<1>6. CASE Update(r)
  <2>1. \/ (\E c \in {400, 500} : Finish(r, c)) /\ wrote' = wrote
        \/ Continue(r, "refresh") /\ wrote' = wrote
        \/ Continue(r, "refresh") /\ wrote' = wrote \cup {r}
    BY <1>6, ZenonT(40) DEF Update
  <2> QED BY <2>1 DEF Continue
<1>7. CASE Refresh(r) \/ RefreshToken(r)
  BY <1>7 DEF Refresh, RefreshToken
<1>8. CASE ResetPassword(r) \/ Delete(r)
  BY <1>8 DEF ResetPassword, Delete
<1>9. CASE Login(r)
  BY <1>9 DEF Login, Continue
<1>10. CASE RecordLogin(r)
  <2>1. Verdict(r) \in {200, 401, 403}
    BY DEF Verdict
  <2> QED BY <1>10, <2>1 DEF RecordLogin
<1> QED BY <1>1, <1>2, <1>3, <1>4, <1>5, <1>6, <1>7, <1>8, <1>9, <1>10 DEF Step

\* A step of a request keeps it clean.
LEMMA StepClean ==
  ASSUME Typed, NEW r \in Reqs, Clean(r), Step(r)
  PROVE  Clean(r)'
<1>t. TypeOK
  BY DEF Typed
<1>w. pc[r] # "done" /\ answer[r] = 0
  BY DEF Step, Send, Authenticate, CheckName, CheckNewEmail, Insert, LoadUser,
     CheckEmail, Update, Refresh, ResetPassword, Delete, Login, RecordLogin,
     RefreshToken, Clean
<1>f. \A c \in Codes : Finish(r, c) => pc'[r] = "done" /\ answer'[r] = c
  BY <1>t, Finishing
<1>c. \A l \in Stages : Continue(r, l) => pc'[r] = l /\ answer'[r] = answer[r]
  BY <1>t, Continuing
<1>l. {"refresh", "done"} \subseteq Stages
  BY DEF Stages
<1>1. CASE pc[r] # "refresh" /\ r \notin wrote'
  <2>1. answer'[r] # 0 => pc'[r] = "done"
    BY <1>w, <1>f, Endings
  <2> QED BY <1>1, <2>1 DEF Clean
<1>2. CASE pc[r] = "refresh"
  <2>1. \E c \in {200, 201, 500} : Finish(r, c)
    BY <1>2 DEF Step, Send, Authenticate, CheckName, CheckNewEmail, Insert, LoadUser,
       CheckEmail, Update, Refresh, ResetPassword, Delete, Login, RecordLogin,
       RefreshToken
  <2>2. pc'[r] = "done" /\ answer'[r] \in {200, 201, 500}
    BY <1>f, <2>1 DEF Codes
  <2> QED BY <2>2 DEF Clean, Refused
<1>3. CASE pc[r] # "refresh" /\ r \in wrote'
  <2>1. r \notin wrote
    BY <1>w, <1>3 DEF Clean
  <2>2. Continue(r, "refresh") \/ Finish(r, 204)
    BY <1>3, <2>1, Endings
  <2>3. CASE Continue(r, "refresh")
    BY <1>w, <1>c, <1>l, <2>3 DEF Clean, Refused
  <2>4. CASE Finish(r, 204)
    <3>1. pc'[r] = "done" /\ answer'[r] = 204
      BY <1>f, <2>4 DEF Codes
    <3> QED BY <3>1 DEF Clean, Refused
  <2> QED BY <2>2, <2>3, <2>4
<1> QED BY <1>1, <1>2, <1>3

\* A step keeps every request clean.
LEMMA NextClean ==
  ASSUME Typed, \A r \in Reqs : Clean(r), [Next]_vars
  PROVE  \A r \in Reqs : Clean(r)'
<1>1. CASE UNCHANGED vars
  BY <1>1 DEF vars, Clean
<1>2. ASSUME NEW r \in Reqs, Step(r), NEW s \in Reqs PROVE Clean(s)'
  <2>1. CASE s = r
    BY <1>2, <2>1, StepClean
  <2>2. CASE s # r
    <3>1. pc'[s] = pc[s] /\ answer'[s] = answer[s]
      BY <1>2, <2>2, OneAtATime DEF Typed
    <3>2. s \in wrote' => s \in wrote
      BY <1>2, <2>2, Endings
    <3> QED BY <2>2, <3>1, <3>2 DEF Clean
  <2> QED BY <2>1, <2>2
<1> QED BY <1>1, <1>2 DEF Next, Step

\* No request that is refused has changed the table, in whatever order the
\* fields are looked at.
THEOREM RefusedIsHarmless == Spec => []RefusedChangesNothing
<1> DEFINE Inv == Typed /\ \A r \in Reqs : Clean(r)
<1>1. Init => Inv
  BY InitTyped, InitClean
<1>2. Inv /\ [Next]_vars => Inv'
  BY NextTyped, NextClean
<1>3. Inv => RefusedChangesNothing
  BY DEF Clean, Refused, RefusedChangesNothing
<1> QED BY <1>1, <1>2, <1>3, PTL DEF Spec

(***************************************************************************)
(* Changes: what a step does to a row that was there before it.            *)
(***************************************************************************)

\* A sequence is ahead of every row.
Fresh == ~ IdsReused => \A i \in Used : i < nextId

\* A new row takes an id that no row has.
LEMMA NewIdIsFree ==
  ASSUME Typed, Fresh, NEW i \in Ids, IsNewId(i) PROVE i \notin Used
<1>1. Ids \subseteq Nat /\ nextId \in Nat
  BY AccountsAssumption DEF Ids, Typed, TypeOK
<1>2. CASE IdsReused
  BY <1>1, <1>2 DEF IsNewId, Used
<1>3. CASE ~ IdsReused
  BY <1>1, <1>3 DEF IsNewId, Fresh
<1> QED BY <1>2, <1>3, AccountsAssumption

\* The rows a step adds, and where it leaves the sequence.
LEMMA Sequence ==
  ASSUME Typed, Fresh, NEW r \in Reqs, Step(r)
  PROVE  \/ nextId' = nextId /\ Used' \subseteq Used
         \/ \E i \in Ids : IsNewId(i) /\ nextId' = i + 1 /\ Used' = Used \cup {i}
<1>t. users \in [Ids -> Account \cup {NoUser}] /\ InHand(r)
  BY DEF Typed, TypeOK
<1>1. CASE Insert(r)
  <2> DEFINE row == [name |-> job[r].name, email |-> job[r].email,
                     admin |-> job[r].admin, active |-> TRUE,
                     password |-> job[r].password]
  <2>1. Has(r, {"create"})
    BY <1>t, <1>1 DEF Insert, InHand
  <2>a. row \in Account
    BY <2>1, JobFields DEF Has, Account
  <2>2. row # NoUser
    <3> HIDE DEF row
    <3> QED BY <2>a, AccountsAssumption
  <2>3. \/ UNCHANGED <<users, nextId>>
        \/ \E i \in Ids :
             IsNewId(i) /\ users' = [users EXCEPT ![i] = row] /\ nextId' = i + 1
    BY <1>1 DEF Insert
  <2> HIDE DEF row
  <2>4. ASSUME NEW i \in Ids, users' = [users EXCEPT ![i] = row]
        PROVE  Used' = Used \cup {i}
    BY <1>t, <2>2, <2>4 DEF Used
  <2>5. UNCHANGED users => Used' = Used
    BY DEF Used
  <2> QED BY <2>3, <2>4, <2>5
<1>2. CASE Update(r) \/ ResetPassword(r)
  <2>1. nextId' = nextId /\ \A j \in Ids \ Used : users'[j] = users[j]
    BY <1>t, <1>2 DEF Update, ResetPassword
  <2> QED BY <2>1 DEF Used
<1>3. CASE Delete(r)
  BY <1>t, <1>3 DEF Delete, Used
<1>4. CASE ~ (Insert(r) \/ Update(r) \/ ResetPassword(r) \/ Delete(r))
  <2>1. UNCHANGED <<users, nextId>>
    BY <1>4 DEF Step, Send, Authenticate, CheckName, CheckNewEmail, LoadUser,
       CheckEmail, Refresh, Login, RecordLogin, RefreshToken
  <2> QED BY <2>1 DEF Used
<1> QED BY <1>1, <1>2, <1>3, <1>4

\* Whoever changes a row asked for just that, in a request for that row.
LEMMA Changes ==
  ASSUME Typed, Fresh, NEW r \in Reqs, Step(r),
         NEW i \in Used, users'[i] # NoUser
  PROVE  /\ users'[i].name = users[i].name
         /\ \/ users'[i] = users[i]
            \/ /\ job[r] # NoJob /\ job[r].op = "update" /\ job[r].id = i
               /\ users'[i].email \in {users[i].email, job[r].email}
               /\ users'[i].admin \in {users[i].admin, job[r].admin}
               /\ users'[i].active \in {users[i].active, job[r].active}
               /\ users'[i].password = users[i].password
            \/ /\ job[r] # NoJob /\ job[r].op = "reset" /\ job[r].id = i
               /\ users'[i].email = users[i].email
               /\ users'[i].admin = users[i].admin
               /\ users'[i].active = users[i].active
               /\ users'[i].password = job[r].password
<1>t. users \in [Ids -> Account \cup {NoUser}] /\ i \in Ids /\ InHand(r)
  BY DEF Typed, TypeOK, Used
<1>a. users[i] \in Account
  BY <1>t DEF Used
<1>1. CASE Insert(r)
  <2>1. PICK k \in Ids : IsNewId(k) /\ \A j \in Ids : j # k => users'[j] = users[j]
    BY <1>t, <1>1 DEF Insert
  <2>2. k # i
    BY <2>1, NewIdIsFree
  <2> QED BY <1>t, <2>1, <2>2
<1>2. CASE Update(r)
  <2> DEFINE row == Written(r, users[i])
  <2>1. /\ Has(r, {"update"}) /\ user[r] \in Loaded
        /\ user[r].id = job[r].id
    BY <1>t, <1>2 DEF Update, InHand, Has
  <2>2. users' = users \/ users' = [users EXCEPT ![user[r].id] = Written(r, users[user[r].id])]
    BY <1>2 DEF Update
  <2>3. CASE users'[i] = users[i]
    BY <2>3
  <2>4. CASE users'[i] # users[i]
    <3>1. user[r].id = i /\ users'[i] = row
      BY <1>t, <2>2, <2>4
    <3>2. /\ row.name = users[i].name
          /\ row.password = users[i].password
          /\ row.email \in {users[i].email, job[r].email}
          /\ row.admin \in {users[i].admin, job[r].admin}
          /\ row.active \in {users[i].active, job[r].active}
      BY <1>a, <2>1, WrittenFields
    <3>3. job[r] # NoJob /\ job[r].op = "update"
      BY <2>1, AccountsAssumption DEF Has
    <3> HIDE DEF row
    <3> QED BY <2>1, <3>1, <3>2, <3>3
  <2> QED BY <2>3, <2>4
<1>3. CASE ResetPassword(r)
  <2>1. Has(r, {"reset"}) /\ user[r].id = job[r].id
    BY <1>t, <1>3 DEF ResetPassword, InHand, Has
  <2>2. job[r] # NoJob /\ job[r].op = "reset"
    BY <2>1, AccountsAssumption DEF Has
  <2>3. \/ users'[i] = users[i]
        \/ user[r].id = i /\ users'[i] = [users[i] EXCEPT !.password = job[r].password]
    BY <1>t, <1>3 DEF ResetPassword
  <2> QED BY <1>a, <2>1, <2>2, <2>3 DEF Account
<1>4. CASE Delete(r)
  BY <1>t, <1>4 DEF Delete
<1>5. CASE ~ (Insert(r) \/ Update(r) \/ ResetPassword(r) \/ Delete(r))
  <2>1. users' = users
    BY <1>5 DEF Step, Send, Authenticate, CheckName, CheckNewEmail, LoadUser,
       CheckEmail, Refresh, Login, RecordLogin, RefreshToken
  <2> QED BY <2>1
<1> QED BY <1>1, <1>2, <1>3, <1>4, <1>5

\* Only a deletion takes a row away.
LEMMA NoRowLost ==
  ASSUME Typed, NEW r \in Reqs, Step(r), ~ Delete(r), NEW i \in Used
  PROVE  i \in Used'
<1>t. users \in [Ids -> Account \cup {NoUser}]
  BY DEF Typed, TypeOK
<1>1. NoUser \notin Account
  BY AccountsAssumption
<1>2. \/ users' = users
      \/ \E k \in Ids, row \in Account : users' = [users EXCEPT ![k] = row]
      \/ \E k \in Used, w \in Passwords : users' = [users EXCEPT ![k].password = w]
  BY Rows
<1>3. ASSUME NEW k \in Used, NEW w \in Passwords
      PROVE  [users[k] EXCEPT !.password = w] \in Account
  BY <1>t DEF Used, Account
<1> QED BY <1>t, <1>1, <1>2, <1>3 DEF Used

\* The sequence starts behind the installed ids.
LEMMA InitFresh == ASSUME Init PROVE Fresh
BY DEF Init, Fresh, Used

\* A row that is added takes its id from the sequence and moves it on.
LEMMA NextFresh == ASSUME Typed, Fresh, [Next]_vars PROVE Fresh'
<1>1. Ids \subseteq Nat /\ nextId \in Nat
  BY AccountsAssumption DEF Ids, Typed, TypeOK
<1>2. CASE UNCHANGED vars
  BY <1>2 DEF vars, Fresh, Used
<1>3. ASSUME NEW r \in Reqs, Step(r) PROVE Fresh'
  <2>1. CASE nextId' = nextId /\ Used' \subseteq Used
    BY <2>1 DEF Fresh
  <2>2. ASSUME NEW i \in Ids, IsNewId(i), nextId' = i + 1, Used' = Used \cup {i}
        PROVE  Fresh'
    <3>1. ~ IdsReused => i = nextId
      BY <2>2 DEF IsNewId
    <3>2. \A j \in Used : j \in Nat
      BY <1>1 DEF Used
    <3> QED BY <1>1, <2>2, <3>1, <3>2 DEF Fresh
  <2> QED BY <1>3, <2>1, <2>2, Sequence
<1> QED BY <1>2, <1>3 DEF Next, Step

\* No lost update: in any number of requests, a column that changes takes a value
\* that a request for that row asked for.
THEOREM NoLostUpdate == Spec => OnlyAskedChanges
<1> DEFINE Inv == Typed /\ Fresh
           Asked(op) == {job[r] : r \in {s \in Reqs : job[s] # NoJob /\ job[s].op = op}}
           For(op, i) == {j \in Asked(op) : j.id = i}
           Kept(i) ==
             /\ users'[i].name = users[i].name
             /\ users'[i].email # users[i].email =>
                  \E j \in For("update", i) : j.email = users'[i].email
             /\ users'[i].admin # users[i].admin =>
                  \E j \in For("update", i) : j.admin = users'[i].admin
             /\ users'[i].active # users[i].active =>
                  \E j \in For("update", i) : j.active = users'[i].active
             /\ users'[i].password # users[i].password =>
                  \E j \in For("reset", i) : j.password = users'[i].password
<1>1. Init => Inv
  BY InitTyped, InitFresh
<1>2. Inv /\ [Next]_vars => Inv'
  BY NextTyped, NextFresh
<1>3. ASSUME Inv, NEW i \in Used, users'[i] # NoUser, [Next]_vars PROVE Kept(i)
  <2>1. CASE UNCHANGED vars
    BY <2>1 DEF vars
  <2>2. ASSUME NEW r \in Reqs, Step(r) PROVE Kept(i)
    <3>1. \A op : job[r] # NoJob /\ job[r].op = op /\ job[r].id = i
                    => job[r] \in For(op, i)
      OBVIOUS
    <3> HIDE DEF For, Asked
    <3> QED BY <1>3, <2>2, <3>1, Changes
  <2> QED BY <1>3, <2>1, <2>2 DEF Next, Step
<1>4. Inv /\ [Next]_vars => [\A i \in Used : users'[i] # NoUser => Kept(i)]_vars
  BY <1>3
<1> QED BY <1>1, <1>2, <1>4, PTL DEF Spec, OnlyAskedChanges

(***************************************************************************)
(* Logins: where ids are not handed out again (PostgreSQL), a row that was *)
(* read keeps its name for as long as there is a row with its id.          *)
(***************************************************************************)
Recalls(x) ==
  x # NoUser => /\ x.id < nextId
                /\ x.id \in Used => users[x.id].name = x.row.name

Recalled(r) ==
  /\ Recalls(me[r]) /\ Recalls(user[r])
  /\ pc[r] \in {"idle", "credentials"} => user[r] = NoUser
  /\ pc[r] = "record" /\ user[r] # NoUser => user[r].row.name = job[r].by

Attributed == LoginAttribution /\ \A r \in Reqs : Recalled(r)

\* There are no entries yet.
LEMMA InitAttributed == ASSUME Init PROVE Attributed
BY DEF Init, Attributed, LoginAttribution, Recalled, Recalls

\* What Recalls says of x after a step.
Still(x) ==
  x # NoUser => /\ x.id < nextId'
                /\ x.id \in Used' => users'[x.id].name = x.row.name

\* What was read is not given another name by a step.
LEMMA NamesStay ==
  ASSUME ~ IdsReused, Typed, Fresh, NEW r \in Reqs, Step(r), NEW x \in Loaded,
         Recalls(x)
  PROVE  Still(x)
<1>1. /\ nextId \in Nat /\ x.id \in Nat /\ x.id \in Ids /\ NoUser \notin Loaded
      /\ Ids \subseteq Nat
  BY AccountsAssumption DEF Ids, Typed, TypeOK, Loaded
<1>2. x.id < nextId /\ (x.id \in Used => users[x.id].name = x.row.name)
  BY <1>1 DEF Recalls
<1>3. x.id < nextId' /\ (x.id \in Used' => x.id \in Used)
  <2>1. CASE nextId' = nextId /\ Used' \subseteq Used
    BY <1>2, <2>1
  <2>2. ASSUME NEW i \in Ids, IsNewId(i), nextId' = i + 1, Used' = Used \cup {i}
        PROVE  x.id < nextId' /\ (x.id \in Used' => x.id \in Used)
    BY <1>1, <1>2, <2>2 DEF IsNewId
  <2> QED BY <2>1, <2>2, Sequence
<1>4. x.id \in Used' => users'[x.id].name = x.row.name
  <2>1. ASSUME x.id \in Used' PROVE users'[x.id].name = users[x.id].name
    <3>1. x.id \in Used /\ users'[x.id] # NoUser
      BY <1>3, <2>1 DEF Used
    <3> QED BY <3>1, Changes
  <2> QED BY <1>2, <1>3, <2>1
<1> QED BY <1>3, <1>4 DEF Still

\* Only Send leads to the password, and only Login from there to the trail.
LEMMA Onward ==
  ASSUME TypeOK, NEW r \in Reqs, Step(r), ~ Send(r), ~ Login(r)
  PROVE  pc'[r] \notin {"idle", "credentials", "record"}
<1>1. pc \in [Reqs -> Stages]
  BY DEF TypeOK
<1>2. \A l : Goto(r, l) => pc'[r] = l
  BY <1>1 DEF Goto
<1>3. \A l : Continue(r, l) => pc'[r] = l
  BY <1>2 DEF Continue
<1>4. \A c : Finish(r, c) => pc'[r] = "done"
  BY <1>2 DEF Finish
<1>5. CASE Authenticate(r)
  BY <1>3, <1>4, <1>5 DEF Authenticate
<1>6. CASE CheckName(r) \/ CheckNewEmail(r) \/ CheckEmail(r)
  <2>1. \/ Finish(r, 409)
        \/ Continue(r, "new email") \/ Continue(r, "insert") \/ Continue(r, "write")
    BY <1>6 DEF CheckName, CheckNewEmail, CheckEmail
  <2> QED BY <1>3, <1>4, <2>1
<1>7. CASE Insert(r)
  BY <1>3, <1>4, <1>7 DEF Insert
<1>8. CASE LoadUser(r)
  BY <1>3, <1>4, <1>8 DEF LoadUser
<1>9. CASE Update(r)
  BY <1>3, <1>4, <1>9, ZenonT(40) DEF Update
<1>10. CASE Refresh(r) \/ RefreshToken(r)
  BY <1>4, <1>10 DEF Refresh, RefreshToken
<1>11. CASE ResetPassword(r) \/ Delete(r)
  BY <1>4, <1>11 DEF ResetPassword, Delete
<1>12. CASE RecordLogin(r)
  BY <1>4, <1>12 DEF RecordLogin
<1> QED
  BY <1>5, <1>6, <1>7, <1>8, <1>9, <1>10, <1>11, <1>12 DEF Step

\* A step gives its request only rows that were in its hand or are in the table.
LEMMA StepRecalled ==
  ASSUME ~ IdsReused, Typed, Fresh, NEW r \in Reqs, Step(r), Recalled(r)
  PROVE  Recalled(r)'
<1>t. /\ TypeOK /\ InHand(r) /\ nextId \in Nat /\ NoUser \notin Loaded
      /\ me[r] \in Loaded \cup {NoUser} /\ user[r] \in Loaded \cup {NoUser}
      /\ user \in [Reqs -> Loaded \cup {NoUser}]
      /\ me \in [Reqs -> Loaded \cup {NoUser}]
  BY AccountsAssumption DEF Typed, TypeOK
<1>k. Still(me[r]) /\ Still(user[r])
  <2>1. ASSUME NEW x \in Loaded \cup {NoUser}, Recalls(x) PROVE Still(x)
    BY <2>1, NamesStay DEF Still
  <2> QED BY <1>t, <2>1 DEF Recalled
<1>r. ASSUME NEW i \in Used
      PROVE  /\ Load(i) \in Loaded /\ Still(Load(i))
             /\ Load(i).row = users[i]
  <2>1. Load(i) \in Loaded /\ Load(i).id = i /\ Load(i).row = users[i]
    BY <1>t, LoadFields
  <2>2. Recalls(Load(i))
    BY <2>1 DEF Recalls, Fresh
  <2> QED BY <2>1, <2>2, NamesStay
<1>c. \A l \in Stages : Continue(r, l) => pc'[r] = l
  BY <1>t, Continuing
<1>q. ASSUME Still(me'[r]), Still(user'[r]), ~ Send(r), ~ Login(r)
      PROVE  Recalled(r)'
  <2>1. pc'[r] \notin {"idle", "credentials", "record"}
    BY <1>t, <1>q, Onward
  <2> QED BY <1>q, <2>1 DEF Recalled, Recalls, Still
<1>1. CASE Send(r)
  <2>1. /\ me' = me /\ user' = user /\ user[r] = NoUser
    BY <1>1 DEF Send, Recalled
  <2>2. pc'[r] # "record"
    BY <1>t, <1>1 DEF Send, Goto, TypeOK
  <2> QED BY <1>k, <2>1, <2>2 DEF Recalled, Recalls, Still
<1>2. CASE Login(r)
  <2>1. me' = me /\ job' = job /\ user[r] = NoUser
    BY <1>2 DEF Login, Recalled
  <2>2. pc'[r] = "record"
    BY <1>c, <1>2 DEF Login, Stages
  <2>3. CASE user' = user
    BY <1>k, <2>1, <2>2, <2>3 DEF Recalled, Recalls, Still
  <2>4. ASSUME NEW i \in Named(job[r].by), user' = [user EXCEPT ![r] = Load(i)]
        PROVE  Recalled(r)'
    <3>1. i \in Used /\ users[i].name = job[r].by
      BY DEF Named
    <3>2. Still(Load(i)) /\ Load(i).row.name = job[r].by
      BY <1>r, <3>1
    <3>3. user'[r] = Load(i)
      BY <1>t, <2>4
    <3>4. Still(user'[r]) /\ user'[r].row.name = job'[r].by
      BY <2>1, <3>2, <3>3
    <3> QED BY <1>k, <2>1, <2>2, <3>4 DEF Recalled, Recalls, Still
  <2> QED BY <1>2, <2>3, <2>4 DEF Login
<1>3. ASSUME Authenticate(r) PROVE Still(me'[r]) /\ Still(user'[r])
  <2>1. user' = user
    BY <1>3 DEF Authenticate
  <2>3. Still(me'[r])
    <3>1. me' = me \/ \E i \in Used : me' = [me EXCEPT ![r] = Load(i)]
      BY <1>3 DEF Authenticate, Named
    <3>2. me'[r] = me[r] \/ \E i \in Used : me'[r] = Load(i)
      BY <1>t, <3>1
    <3> QED BY <1>k, <1>r, <3>2
  <2> QED BY <1>k, <2>1, <2>3
<1>4. ASSUME LoadUser(r) PROVE Still(me'[r]) /\ Still(user'[r])
  <2>1. me' = me
    BY <1>4 DEF LoadUser
  <2>3. Still(user'[r])
    <3>1. \/ user' = user
          \/ user' = [user EXCEPT ![r] = me[r]]
          \/ \E i \in Used : user' = [user EXCEPT ![r] = Load(i)]
      BY <1>4 DEF LoadUser
    <3>2. user'[r] \in {user[r], me[r]} \/ \E i \in Used : user'[r] = Load(i)
      BY <1>t, <3>1
    <3> QED BY <1>k, <1>r, <3>2
  <2> QED BY <1>k, <2>1, <2>3
<1>5. ASSUME Insert(r) PROVE Still(me'[r]) /\ Still(user'[r])
  <2> DEFINE row == [name |-> job[r].name, email |-> job[r].email,
                     admin |-> job[r].admin, active |-> TRUE,
                     password |-> job[r].password]
  <2>1. me' = me
    BY <1>5 DEF Insert
  <2>3. \/ user' = user
        \/ \E i \in Ids : /\ user' = [user EXCEPT ![r] = [id |-> i, row |-> row]]
                          /\ users' = [users EXCEPT ![i] = row]
                          /\ nextId' = i + 1
    BY <1>5 DEF Insert
  <2> HIDE DEF row
  <2>4. CASE user' = user
    BY <1>k, <2>1, <2>4
  <2>5. ASSUME NEW i \in Ids, user' = [user EXCEPT ![r] = [id |-> i, row |-> row]],
               users' = [users EXCEPT ![i] = row], nextId' = i + 1
        PROVE  Still(user'[r])
    <3>1. users'[i] = row /\ i \in Nat
      BY <1>t, <2>5, AccountsAssumption DEF TypeOK, Ids
    <3>2. user'[r] = [id |-> i, row |-> row]
      BY <1>t, <2>5
    <3> QED BY <2>5, <3>1, <3>2 DEF Still
  <2> QED BY <1>k, <2>1, <2>3, <2>4, <2>5
<1>6. ASSUME ~ Send(r), ~ Login(r), ~ Authenticate(r), ~ LoadUser(r), ~ Insert(r)
      PROVE  Still(me'[r]) /\ Still(user'[r])
  <2>1. me' = me /\ user' = user
    BY <1>6 DEF Step, CheckName, CheckNewEmail, CheckEmail, Update, Refresh,
       ResetPassword, Delete, RecordLogin, RefreshToken
  <2> QED BY <1>k, <2>1
<1> QED BY <1>q, <1>1, <1>2, <1>3, <1>4, <1>5, <1>6

\* The rows of the trail that are there: a deleted account is forgotten by them,
\* and one that is there keeps its name.
LEMMA StepAttributed ==
  ASSUME ~ IdsReused, Typed, Fresh, NEW r \in Reqs, Step(r), Recalled(r),
         LoginAttribution
  PROVE  LoginAttribution'
<1>t. /\ TypeOK /\ users \in [Ids -> Account \cup {NoUser}]
      /\ InHand(r) /\ audit \subseteq Entry
  BY DEF Typed, TypeOK
<1>1. ASSUME NEW i \in Used, i \in Used' PROVE users'[i].name = users[i].name
  BY <1>1, Changes DEF Used
<1>2. ASSUME ~ Delete(r), NEW i \in Used PROVE i \in Used'
  BY <1>2, NoRowLost
<1>3. ASSUME ~ Delete(r), NEW e \in audit'
      PROVE  e.user # 0 => e.user \in Used' /\ users'[e.user].name = e.name
  <2>1. CASE e \in audit
    BY <1>1, <1>2, <1>3, <2>1 DEF LoginAttribution
  <2>2. CASE e \notin audit
    <3>1. RecordLogin(r)
      BY <1>3, <2>2 DEF Step, Send, Authenticate, CheckName, CheckNewEmail, Insert,
         LoadUser, CheckEmail, Update, Refresh, ResetPassword, Login, RefreshToken
    <3>2. /\ e.name = job[r].by
          /\ e.user # 0 => user[r] # NoUser /\ e.user = user[r].id /\ e.user \in Used
      BY <1>3, <2>2, <3>1 DEF RecordLogin
    <3>3. user[r] # NoUser => /\ user[r].row.name = job[r].by
                              /\ user[r].id \in Used =>
                                   users[user[r].id].name = user[r].row.name
      BY <3>1 DEF RecordLogin, Recalled, Recalls
    <3>4. users' = users
      BY <3>1 DEF RecordLogin
    <3> QED BY <3>2, <3>3, <3>4 DEF Used
  <2> QED BY <2>1, <2>2
<1>4. ASSUME Delete(r), NEW e \in audit'
      PROVE  e.user # 0 => e.user \in Used' /\ users'[e.user].name = e.name
  <2>1. PICK a \in audit : e = [a EXCEPT !.user = IF @ = user[r].id THEN 0 ELSE @]
    BY <1>4 DEF Delete, Forget
  <2>2. a \in Entry
    BY <1>t
  <2>3. /\ e.name = a.name
        /\ e.user # 0 => e.user = a.user /\ e.user # user[r].id
    BY <2>1, <2>2 DEF Entry
  <2>4. e.user # 0 => e.user \in Used /\ users[e.user].name = e.name
    BY <2>3 DEF LoginAttribution
  <2>5. \A i \in Ids : i # user[r].id => users'[i] = users[i]
    BY <1>t, <1>4 DEF Delete
  <2> QED BY <2>3, <2>4, <2>5 DEF Used
<1> QED BY <1>3, <1>4 DEF LoginAttribution

\* A step keeps every entry attributed.
LEMMA NextAttributed ==
  ASSUME ~ IdsReused, Typed, Fresh, Attributed, [Next]_vars
  PROVE  Attributed'
<1>1. CASE UNCHANGED vars
  <2>1. LoginAttribution'
    BY <1>1 DEF vars, Attributed, LoginAttribution, Used
  <2>2. ASSUME NEW s \in Reqs PROVE Recalled(s)'
    BY <1>1 DEF vars, Attributed, Recalled, Recalls, Used
  <2> QED BY <2>1, <2>2 DEF Attributed
<1>2. ASSUME NEW r \in Reqs, Step(r) PROVE Attributed'
  <2>1. LoginAttribution'
    BY <1>2, StepAttributed DEF Attributed
  <2>2. ASSUME NEW s \in Reqs PROVE Recalled(s)'
    <3>1. CASE s = r
      BY <1>2, <3>1, StepRecalled DEF Attributed
    <3>2. CASE s # r
      <4>1. /\ pc'[s] = pc[s] /\ job'[s] = job[s]
            /\ me'[s] = me[s] /\ user'[s] = user[s]
        BY <1>2, <3>2, OneAtATime DEF Typed
      <4>2. ASSUME NEW x \in Loaded \cup {NoUser}, Recalls(x) PROVE Still(x)
        BY <1>2, <4>2, NamesStay DEF Still
      <4>3. me[s] \in Loaded \cup {NoUser} /\ user[s] \in Loaded \cup {NoUser}
        BY DEF Typed, TypeOK
      <4>4. Still(me[s]) /\ Still(user[s])
        BY <4>2, <4>3 DEF Attributed, Recalled
      <4> QED BY <4>1, <4>4 DEF Attributed, Recalled, Recalls, Still
    <3> QED BY <3>1, <3>2
  <2> QED BY <2>1, <2>2 DEF Attributed
<1> QED BY <1>1, <1>2 DEF Next, Step

\* Where ids are never handed out again, a row of the trail that still names an
\* account names the one whose username was used.
THEOREM LoginsNameTheirAccount ==
  ASSUME ~ IdsReused PROVE Spec => []LoginAttribution
<1> DEFINE Inv == Typed /\ Fresh /\ Attributed
<1>1. Init => Inv
  BY InitTyped, InitFresh, InitAttributed
<1>2. Inv /\ [Next]_vars => Inv'
  BY NextTyped, NextFresh, NextAttributed
<1>3. Inv => LoginAttribution
  BY DEF Attributed
<1> QED BY <1>1, <1>2, <1>3, PTL DEF Spec

(***************************************************************************)
(* The last admin: a request takes no rights from its own caller, so the   *)
(* caller of the one that takes the last ones had lost them before.        *)
(***************************************************************************)
SparesItself(r) ==
  pc[r] \in {"email", "write"} /\ job[r].op = "delete" => me[r].id # job[r].id

\* No deletion has begun.
LEMMA InitSpares == ASSUME Init PROVE \A r \in Reqs : SparesItself(r)
BY DEF Init, SparesItself

\* A deletion passes delete_user's first check before it comes to the commit.
LEMMA StepSpares ==
  ASSUME Typed, NEW r \in Reqs, SparesItself(r), Step(r) PROVE SparesItself(r)'
<1>1. pc \in [Reqs -> Stages] /\ InHand(r)
  BY DEF Typed, TypeOK
<1>2. \A l : Goto(r, l) => pc'[r] = l
  BY <1>1 DEF Goto
<1>3. \A l : Continue(r, l) => pc'[r] = l
  BY <1>2 DEF Continue
<1>4. \A c : Finish(r, c) => pc'[r] = "done"
  BY <1>2 DEF Finish
<1>5. CASE LoadUser(r)
  <2>1. me' = me /\ job' = job
    BY <1>5 DEF LoadUser
  <2>2. \/ \E c : Finish(r, c)
        \/ ~ (job[r].op = "delete" /\ IsCaller(r, job[r].id))
    BY <1>5 DEF LoadUser
  <2> QED BY <1>4, <2>1, <2>2 DEF IsCaller, SparesItself
<1>6. CASE CheckEmail(r)
  <2>1. job[r].op = "update" /\ job' = job
    BY <1>1, <1>6 DEF CheckEmail, InHand, Has
  <2> QED BY <2>1 DEF SparesItself
<1>7. CASE ~ LoadUser(r) /\ ~ CheckEmail(r)
  <2>1. pc'[r] \notin {"email", "write"}
    <3>1. CASE Send(r)
      BY <1>1, <3>1 DEF Send, Goto
    <3>2. CASE Authenticate(r)
      BY <1>3, <1>4, <3>2 DEF Authenticate
    <3>3. CASE CheckName(r) \/ CheckNewEmail(r)
      <4>1. Finish(r, 409) \/ Continue(r, "new email") \/ Continue(r, "insert")
        BY <3>3 DEF CheckName, CheckNewEmail
      <4> QED BY <1>3, <1>4, <4>1
    <3>4. CASE Insert(r)
      BY <1>3, <1>4, <3>4 DEF Insert
    <3>5. CASE Update(r)
      BY <1>3, <1>4, <3>5, ZenonT(40) DEF Update
    <3>6. CASE Refresh(r) \/ RefreshToken(r)
      BY <1>4, <3>6 DEF Refresh, RefreshToken
    <3>7. CASE ResetPassword(r) \/ Delete(r)
      BY <1>4, <3>7 DEF ResetPassword, Delete
    <3>8. CASE Login(r)
      BY <1>3, <3>8 DEF Login
    <3>9. CASE RecordLogin(r)
      BY <1>4, <3>9 DEF RecordLogin
    <3> QED BY <1>7, <3>1, <3>2, <3>3, <3>4, <3>5, <3>6, <3>7, <3>8, <3>9 DEF Step
  <2> QED BY <2>1 DEF SparesItself
<1> QED BY <1>5, <1>6, <1>7

\* A step keeps every deletion away from the account of its caller.
LEMMA NextSpares ==
  ASSUME Typed, \A r \in Reqs : SparesItself(r), [Next]_vars
  PROVE  \A r \in Reqs : SparesItself(r)'
<1>1. CASE UNCHANGED vars
  BY <1>1 DEF vars, SparesItself
<1>2. ASSUME NEW r \in Reqs, Step(r), NEW s \in Reqs PROVE SparesItself(s)'
  <2>1. CASE s = r
    BY <1>2, <2>1, StepSpares
  <2>2. CASE s # r
    <3>1. pc'[s] = pc[s] /\ job'[s] = job[s] /\ me'[s] = me[s]
      BY <1>2, <2>2, OneAtATime DEF Typed
    <3> QED BY <3>1 DEF SparesItself
  <2> QED BY <2>1, <2>2
<1> QED BY <1>1, <1>2 DEF Next, Step

\* An admin whose rights a step takes away is not the caller of its request.
LEMMA CallerKeepsRights ==
  ASSUME Typed, Fresh, NEW r \in Reqs, Clean(r), SparesItself(r), Step(r),
         NEW i \in Admins, i \notin Admins'
  PROVE  r \in wrote' \ wrote /\ me[r].id # i
<1>t. users \in [Ids -> Account \cup {NoUser}] /\ InHand(r) /\ wrote \subseteq Reqs
  BY DEF Typed, TypeOK
<1>i. /\ i \in Used /\ i \in Ids /\ users[i] \in Account
      /\ users[i].admin = TRUE /\ users[i].active = TRUE
  BY <1>t DEF Admins, Used, Account
<1>c. users'[i] # users[i]
  BY <1>i DEF Admins, Used
<1>1. CASE Delete(r)
  <2>1. user[r].id = i /\ r \in wrote'
    BY <1>t, <1>c, <1>i, <1>1 DEF Delete
  <2>2. user[r].id = job[r].id /\ me[r].id # job[r].id
    BY <1>t, <1>1 DEF Delete, InHand, SparesItself
  <2>3. r \notin wrote
    BY <1>1 DEF Delete, Clean
  <2> QED BY <2>1, <2>2, <2>3
<1>2. CASE Update(r)
  <2>1. /\ Has(r, {"update"}) /\ user[r] \in Loaded
    BY <1>t, <1>2 DEF Update, InHand, Has
  <2>2. /\ user[r].id = i /\ r \in wrote'
        /\ users'[i] = Written(r, users[i])
        /\ ~ (IsCaller(r, i) /\ FALSE \in {job[r].admin, job[r].active})
    BY <1>t, <1>c, <1>i, <1>2 DEF Update
  <2>3. /\ users'[i] \in Account
        /\ users'[i].admin \in {users[i].admin, job[r].admin}
        /\ users'[i].active \in {users[i].active, job[r].active}
    BY <1>i, <2>1, <2>2, WrittenFields
  <2>4. users'[i].admin = FALSE \/ users'[i].active = FALSE
    <3>1. users'[i] # NoUser
      BY <2>3, AccountsAssumption
    <3>2. users'[i].admin \in BOOLEAN /\ users'[i].active \in BOOLEAN
      BY <2>3 DEF Account
    <3> QED BY <1>i, <3>1, <3>2 DEF Admins, Used
  <2>5. job[r].admin = FALSE \/ job[r].active = FALSE
    BY <1>i, <2>3, <2>4
  <2>6. r \notin wrote
    BY <1>2 DEF Update, Clean
  <2> QED BY <2>2, <2>5, <2>6 DEF IsCaller
<1>3. CASE ~ Delete(r) /\ ~ Update(r)
  <2>1. i \in Used' /\ users'[i] # NoUser
    BY <1>i, <1>3, NoRowLost DEF Used
  <2>2. CASE Insert(r)
    <3>1. PICK k \in Ids : IsNewId(k) /\ \A j \in Ids : j # k => users'[j] = users[j]
      BY <1>t, <2>2 DEF Insert
    <3> QED BY <1>i, <1>c, <3>1, NewIdIsFree
  <2>3. CASE ResetPassword(r)
    <3>1. users'[i] = [users[i] EXCEPT !.password = job[r].password]
      BY <1>t, <1>c, <1>i, <2>3 DEF ResetPassword
    <3>2. users'[i].admin = TRUE /\ users'[i].active = TRUE
      BY <1>i, <3>1 DEF Account
    <3> QED BY <2>1, <3>2 DEF Admins
  <2>4. CASE ~ Insert(r) /\ ~ ResetPassword(r)
    <3>1. users' = users
      BY <1>3, <2>4 DEF Step, Send, Authenticate, CheckName, CheckNewEmail, LoadUser,
         CheckEmail, Refresh, Login, RecordLogin, RefreshToken
    <3> QED BY <1>c, <3>1
  <2> QED BY <2>2, <2>3, <2>4
<1> QED BY <1>1, <1>2, <1>3

\* The last admin goes only by the hand of somebody who is no admin any more, in
\* any number of requests, and whether or not ids are handed out again.
THEOREM LastAdminKept == Spec => LastAdminStays
<1> DEFINE Inv == /\ Typed /\ Fresh
                  /\ \A r \in Reqs : Clean(r)
                  /\ \A r \in Reqs : SparesItself(r)
           Kept == Admins # {} /\ Admins' = {} =>
                     \E r \in wrote' \ wrote : me[r].id \notin Admins
<1>1. Init => Inv
  BY InitTyped, InitFresh, InitClean, InitSpares
<1>2. Inv /\ [Next]_vars => Inv'
  BY NextTyped, NextFresh, NextClean, NextSpares
<1>3. ASSUME Inv, [Next]_vars, Admins # {}, Admins' = {}
      PROVE  \E r \in wrote' \ wrote : me[r].id \notin Admins
  <2>1. CASE UNCHANGED vars
    BY <1>3, <2>1 DEF vars, Admins, Used
  <2>2. ASSUME NEW r \in Reqs, Step(r)
        PROVE  \E s \in wrote' \ wrote : me[s].id \notin Admins
    <3>1. \A i \in Admins : r \in wrote' \ wrote /\ me[r].id # i
      BY <1>3, <2>2, CallerKeepsRights
    <3> QED BY <1>3, <3>1
  <2> QED BY <1>3, <2>1, <2>2 DEF Next, Step
<1>4. Inv /\ [Next]_vars => [Kept]_vars
  BY <1>3
<1> QED BY <1>1, <1>2, <1>4, PTL DEF Spec, LastAdminStays
===============================================================================
