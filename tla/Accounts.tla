------------------------------- MODULE Accounts -------------------------------
(***************************************************************************)
(* The users table: the admin endpoints that create, change and delete     *)
(* accounts, and the login and refresh endpoints that read them.           *)
(*                                                                         *)
(* Every handler looks before it writes, and the account of the caller is  *)
(* read first of all, in a thread of its own.  A step here is one SQL      *)
(* statement; each request is taken to be served by a worker process of    *)
(* its own, which allows every interleaving that fewer workers allow.      *)
(***************************************************************************)
EXTENDS Integers

CONSTANTS
  Reqs,          \* HTTP requests; each one is served at most once
  Ops,           \* the operations requested, a subset of AllOps
  Callers,       \* bound: the usernames in the tokens that are presented
  Names, Emails, Passwords,
  MaxId,         \* bound: row ids are 1 .. MaxId
  IdsReused,     \* SQLite hands out max(id)+1, PostgreSQL a sequence
  Installed,     \* the tables a behaviour may start from
  NoUser, NoJob,
  Keep           \* a field that the body of a PATCH leaves out

AllOps == {"create", "update", "reset", "delete", "login", "refresh"}
Ids == 1 .. MaxId

Account == [name : Names, email : Emails, admin : BOOLEAN, active : BOOLEAN,
            password : Passwords]
Loaded == [id : Ids, row : Account]
Job ==
  [op : {"create"}, by : Callers, name : Names, email : Emails, admin : BOOLEAN,
   password : Passwords]
  \cup [op : {"update"}, by : Callers, id : Ids, email : Emails \cup {Keep},
        admin : BOOLEAN \cup {Keep}, active : BOOLEAN \cup {Keep}]
  \cup [op : {"reset"}, by : Callers, id : Ids, password : Passwords]
  \cup [op : {"delete"}, by : Callers, id : Ids]
  \cup [op : {"login"}, by : Names, password : Passwords]
  \cup [op : {"refresh"}, by : Callers]
Entry == [by : Reqs, user : Ids \cup {0}, name : Names, ok : BOOLEAN]

ASSUME AccountsAssumption ==
  /\ Ops \subseteq AllOps /\ Callers \subseteq Names
  /\ MaxId \in Nat \ {0} /\ IdsReused \in BOOLEAN
  /\ NoUser \notin Account \cup Loaded /\ NoJob \notin Job
  /\ Keep \notin Emails \cup BOOLEAN
  /\ Installed \subseteq [Ids -> Account \cup {NoUser}]
  \* the unique indexes are there from the first migration on
  /\ \A t \in Installed : \A i, j \in Ids :
       /\ t[i] # NoUser /\ t[j] # NoUser
       /\ t[i].name = t[j].name \/ t[i].email = t[j].email
       => i = j

VARIABLES
  users,    \* the users table, by id
  nextId,   \* the next value of the id sequence (PostgreSQL)
  audit,    \* the audit_logs rows of the logins
  pc, job,
  me,       \* current_user, as it was read
  user,     \* the account the handler works on, as it was read
  answer,   \* the status code sent, 0 before
  wrote     \* history: the requests that changed the table

vars == <<users, nextId, audit, pc, job, me, user, answer, wrote>>

(***************************************************************************)
(* The table                                                               *)
(***************************************************************************)
Used == {i \in Ids : users[i] # NoUser}
Named(n) == {i \in Used : users[i].name = n}
Admins == {i \in Used : users[i].admin /\ users[i].active}

\* Mutant: there is no unique index on the address.
CollidesByName(n, e, i) == \E j \in Used \ {i} : users[j].name = n

\* The unique indexes, for a row i that is written.
Collides(n, e, i) ==
  \E j \in Used \ {i} : users[j].name = n \/ users[j].email = e

IsNewId(i) ==
  IF IdsReused THEN (\A j \in Used : j < i) /\ (i = 1 \/ i - 1 \in Used)
               ELSE i = nextId

\* Mutant: rows counted from zero.
LoadFromZero(i) == [id |-> i - 1, row |-> users[i]]

Load(i) == [id |-> i, row |-> users[i]]

\* Mutant: no ON DELETE SET NULL.
ForgetNothing(i) == audit

\* ON DELETE SET NULL
Forget(i) == {[e EXCEPT !.user = IF @ = i THEN 0 ELSE @] : e \in audit}

(***************************************************************************)
(* Requests                                                                *)
(***************************************************************************)
Goto(r, l) == pc' = [pc EXCEPT ![r] = l]
Continue(r, l) == Goto(r, l) /\ UNCHANGED answer
Finish(r, code) == Goto(r, "done") /\ answer' = [answer EXCEPT ![r] = code]

Init ==
  /\ users \in Installed
  /\ nextId \in {n \in 1 .. MaxId + 1 : \A i \in Ids : i \in Used <=> i < n}
  /\ audit = {}
  /\ pc = [r \in Reqs |-> "idle"]
  /\ job = [r \in Reqs |-> NoJob]
  /\ me = [r \in Reqs |-> NoUser]
  /\ user = [r \in Reqs |-> NoUser]
  /\ answer = [r \in Reqs |-> 0]
  /\ wrote = {}

Send(r) ==
  /\ pc[r] = "idle"
  /\ \E j \in Job :
       /\ j.op \in Ops
       /\ job' = [job EXCEPT ![r] = j]
       /\ Goto(r, CASE j.op = "login" -> "credentials"
                    [] j.op = "refresh" -> "renew"
                    [] OTHER -> "authenticate")
  /\ UNCHANGED <<users, nextId, audit, me, user, answer, wrote>>

\* Mutant: nobody is recognised as the caller.
NobodyIsCaller(r, i) == FALSE

IsCaller(r, i) == me[r].id = i

\* get_current_user and require_admin: one SELECT by the name in the token.
Authenticate(r) ==
  /\ pc[r] = "authenticate"
  /\ \/ Named(job[r].by) = {} /\ Finish(r, 401) /\ UNCHANGED me
     \/ \E i \in Named(job[r].by) :
          IF i \in Admins
          THEN /\ me' = [me EXCEPT ![r] = Load(i)]
               /\ Continue(r, IF job[r].op = "create" THEN "name" ELSE "load")
          ELSE Finish(r, 403) /\ UNCHANGED me
  /\ UNCHANGED <<users, nextId, audit, job, user, wrote>>

(***************************************************************************)
(* POST /users                                                             *)
(***************************************************************************)
CheckName(r) ==
  /\ pc[r] = "name"
  /\ IF Named(job[r].name) # {} THEN Finish(r, 409) ELSE Continue(r, "new email")
  /\ UNCHANGED <<users, nextId, audit, job, me, user, wrote>>

CheckNewEmail(r) ==
  /\ pc[r] = "new email"
  /\ IF \E i \in Used : users[i].email = job[r].email
     THEN Finish(r, 409) ELSE Continue(r, "insert")
  /\ UNCHANGED <<users, nextId, audit, job, me, user, wrote>>

\* An IntegrityError is not caught: 500.
Insert(r) ==
  /\ pc[r] = "insert"
  /\ LET row == [name |-> job[r].name, email |-> job[r].email,
                 admin |-> job[r].admin, active |-> TRUE,
                 password |-> job[r].password]
     IN \E i \in Ids :
          /\ IsNewId(i)
          /\ IF Collides(row.name, row.email, i)
             THEN Finish(r, 500) /\ UNCHANGED <<users, nextId, user, wrote>>
             ELSE /\ users' = [users EXCEPT ![i] = row]
                  /\ nextId' = i + 1
                  /\ user' = [user EXCEPT ![r] = [id |-> i, row |-> row]]
                  /\ wrote' = wrote \cup {r}
                  /\ Continue(r, "refresh")
  /\ UNCHANGED <<audit, job, me>>

(***************************************************************************)
(* PATCH /users/{id}, POST .../reset-password, DELETE                      *)
(***************************************************************************)
\* delete_user refuses the caller's own id before it reads anything.  The
\* session already holds the caller's own row, and keeps it as it was read.
LoadUser(r) ==
  /\ pc[r] = "load"
  /\ LET i == job[r].id IN
       IF job[r].op = "delete" /\ IsCaller(r, i)
       THEN Finish(r, 400) /\ UNCHANGED user
       ELSE IF i \notin Used THEN Finish(r, 404) /\ UNCHANGED user
       ELSE /\ user' = [user EXCEPT ![r] = IF me[r].id = i THEN me[r] ELSE Load(i)]
            /\ Continue(r, IF job[r].op = "update" /\ job[r].email # Keep
                           THEN "email" ELSE "write")
  /\ UNCHANGED <<users, nextId, audit, job, me, wrote>>

\* Mutant: the address is written before the other fields are looked at.
CheckEmailEagerly(r) ==
  /\ pc[r] = "email"
  /\ LET i == user[r].id IN
       IF i \notin Used \/ Collides(user[r].row.name, job[r].email, i)
       THEN Finish(r, 409) /\ UNCHANGED <<users, wrote>>
       ELSE /\ users' = [users EXCEPT ![i].email = job[r].email]
            /\ wrote' = wrote \cup {r}
            /\ Continue(r, "write")
  /\ UNCHANGED <<nextId, audit, job, me, user>>

CheckEmail(r) ==
  /\ pc[r] = "email"
  /\ IF \E i \in Used \ {user[r].id} : users[i].email = job[r].email
     THEN Finish(r, 409) ELSE Continue(r, "write")
  /\ UNCHANGED <<users, nextId, audit, job, me, user, wrote>>

\* Mutant: writes the whole row back.
WholeColumn(asked, loaded, now) == IF asked = Keep THEN loaded ELSE asked

\* What a column holds after the UPDATE: the ORM writes the columns whose
\* value differs from the one it loaded.
Column(asked, loaded, now) == IF asked \in {Keep, loaded} THEN now ELSE asked

Written(r, now) ==
  LET was == user[r].row IN
    [now EXCEPT !.email = Column(job[r].email, was.email, @),
                !.admin = Column(job[r].admin, was.admin, @),
                !.active = Column(job[r].active, was.active, @)]

\* Whether update_user has anything to write.
Dirty(r) == Written(r, user[r].row) # user[r].row

\* The checks on the caller's own account, then the commit: a row that is gone
\* or an address that is taken by now is a 500.
Update(r) ==
  /\ pc[r] = "write" /\ job[r].op = "update"
  /\ LET i == user[r].id IN
       IF IsCaller(r, i) /\ FALSE \in {job[r].admin, job[r].active}
       THEN Finish(r, 400) /\ UNCHANGED <<users, wrote>>
       ELSE IF ~ Dirty(r) THEN Continue(r, "refresh") /\ UNCHANGED <<users, wrote>>
       ELSE IF i \notin Used THEN Finish(r, 500) /\ UNCHANGED <<users, wrote>>
       ELSE LET row == Written(r, users[i]) IN
              IF Collides(row.name, row.email, i)
              THEN Finish(r, 500) /\ UNCHANGED <<users, wrote>>
              ELSE /\ users' = [users EXCEPT ![i] = row]
                   /\ wrote' = wrote \cup {r}
                   /\ Continue(r, "refresh")
  /\ UNCHANGED <<nextId, audit, job, me, user>>

\* db.refresh(user)
Refresh(r) ==
  /\ pc[r] = "refresh"
  /\ Finish(r, IF user[r].id \notin Used THEN 500
               ELSE IF job[r].op = "create" THEN 201 ELSE 200)
  /\ UNCHANGED <<users, nextId, audit, job, me, user, wrote>>

\* Hashes carry a salt, so the column always changes.
ResetPassword(r) ==
  /\ pc[r] = "write" /\ job[r].op = "reset"
  /\ LET i == user[r].id IN
       IF i \notin Used THEN Finish(r, 500) /\ UNCHANGED <<users, wrote>>
       ELSE /\ users' = [users EXCEPT ![i].password = job[r].password]
            /\ wrote' = wrote \cup {r}
            /\ Finish(r, 204)
  /\ UNCHANGED <<nextId, audit, job, me, user>>

\* A row that is gone only makes a warning.
Delete(r) ==
  /\ pc[r] = "write" /\ job[r].op = "delete"
  /\ users' = [users EXCEPT ![user[r].id] = NoUser]
  /\ audit' = Forget(user[r].id)
  /\ wrote' = IF user[r].id \in Used THEN wrote \cup {r} ELSE wrote
  /\ Finish(r, 204)
  /\ UNCHANGED <<nextId, job, me, user>>

(***************************************************************************)
(* POST /auth/login and /auth/refresh                                      *)
(***************************************************************************)
Login(r) ==
  /\ pc[r] = "credentials"
  /\ \/ Named(job[r].by) = {} /\ UNCHANGED user
     \/ \E i \in Named(job[r].by) : user' = [user EXCEPT ![r] = Load(i)]
  /\ Continue(r, "record")
  /\ UNCHANGED <<users, nextId, audit, job, me, wrote>>

\* The status code that the row read by Login calls for.
Verdict(r) ==
  IF user[r] = NoUser \/ user[r].row.password # job[r].password THEN 401
  ELSE IF ~ user[r].row.active THEN 403 ELSE 200

\* record_and_notify, before any answer; user_id is a foreign key.
RecordLogin(r) ==
  /\ pc[r] = "record"
  /\ LET id == IF user[r] = NoUser THEN 0 ELSE user[r].id IN
       IF id \in Used \cup {0}
       THEN /\ audit' = audit \cup {[by |-> r, user |-> id, name |-> job[r].by,
                                     ok |-> Verdict(r) = 200]}
            /\ Finish(r, Verdict(r))
       ELSE Finish(r, 500) /\ UNCHANGED audit
  /\ UNCHANGED <<users, nextId, job, me, user, wrote>>

RefreshToken(r) ==
  /\ pc[r] = "renew"
  /\ Finish(r, IF \E i \in Named(job[r].by) : users[i].active THEN 200 ELSE 401)
  /\ UNCHANGED <<users, nextId, audit, job, me, user, wrote>>

Next == \E r \in Reqs :
  \/ Send(r) \/ Authenticate(r) \/ CheckName(r) \/ CheckNewEmail(r) \/ Insert(r)
  \/ LoadUser(r) \/ CheckEmail(r) \/ Update(r) \/ Refresh(r) \/ ResetPassword(r)
  \/ Delete(r) \/ Login(r) \/ RecordLogin(r) \/ RefreshToken(r)

Spec == Init /\ [][Next]_vars

(***************************************************************************)
(* Properties                                                              *)
(***************************************************************************)
Stages == {"idle", "authenticate", "name", "new email", "insert", "load", "email",
           "write", "refresh", "credentials", "record", "renew", "done"}

\* Every variable has its type.
TypeOK ==
  /\ users \in [Ids -> Account \cup {NoUser}]
  /\ nextId \in 1 .. MaxId + 1
  /\ audit \subseteq Entry
  /\ pc \in [Reqs -> Stages]
  /\ job \in [Reqs -> Job \cup {NoJob}]
  /\ me \in [Reqs -> Loaded \cup {NoUser}]
  /\ user \in [Reqs -> Loaded \cup {NoUser}]
  /\ answer \in [Reqs -> {0, 200, 201, 204, 400, 401, 403, 404, 409, 500}]
  /\ wrote \subseteq Reqs

\* A username and an address belong to one account, however the checks of two
\* requests interleave with their writes (models/user.py: the unique indexes).
UniqueAccounts ==
  \A i, j \in Used :
    users[i].name = users[j].name \/ users[i].email = users[j].email => i = j

\* A column only ever changes to what some request asked for: an admin who
\* changes one field does not undo what another one changed meanwhile, nor
\* bring back a password that was reset (update_user, reset_password).
OnlyAskedChanges ==
  [][\A i \in Used : users'[i] # NoUser =>
       LET Asked(op) == {job[r] : r \in {s \in Reqs : job[s] # NoJob /\ job[s].op = op}}
           For(op) == {j \in Asked(op) : j.id = i}
       IN /\ users'[i].name = users[i].name
          /\ users'[i].email # users[i].email =>
               \E j \in For("update") : j.email = users'[i].email
          /\ users'[i].admin # users[i].admin =>
               \E j \in For("update") : j.admin = users'[i].admin
          /\ users'[i].active # users[i].active =>
               \E j \in For("update") : j.active = users'[i].active
          /\ users'[i].password # users[i].password =>
               \E j \in For("reset") : j.password = users'[i].password]_vars

\* A request that was refused changed nothing, although update_user assigns
\* the fields before it has checked all of them.
RefusedChangesNothing ==
  \A r \in Reqs : answer[r] \in {400, 401, 403, 404, 409} => r \notin wrote

\* "Cannot remove your own admin role", "... deactivate ...", "... delete your
\* own account": the last admin goes only by the hand of somebody whose own
\* rights were taken away between the check and the commit.
LastAdminStays ==
  [][Admins # {} /\ Admins' = {} =>
       \E r \in wrote' \ wrote : me[r].id \notin Admins]_vars

\* The trail blames nobody else for a login: a row that still names an account
\* names the one whose username was used.
LoginAttribution ==
  \A e \in audit : e.user # 0 => e.user \in Used /\ users[e.user].name = e.name
=============================================================================
