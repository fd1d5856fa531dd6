------------------------------ MODULE Accounts ------------------------------
(***************************************************************************)
(* Accounts and sessions: auth/accounts.service.ts, auth/auth.service.ts   *)
(* and the tables they keep, db/accounts.repo.ts and db/sessions.repo.ts.  *)
(*                                                                         *)
(* Every request is an asynchronous function on one event loop: it reads,  *)
(* awaits, and writes what it decided before the await.  A task is one     *)
(* request in flight, its pc the statement it does next; a step is one     *)
(* statement of the database, which is atomic.  Nothing serialises two     *)
(* requests, so their statements interleave freely.  A statement may throw *)
(* while the process lives on, which ends its request where it stood.      *)
(*                                                                         *)
(* Abstractions.  Three roles become two, those that may manage accounts   *)
(* and those that may not.  A password is the number of the change that    *)
(* set it.  Whether a caller knows the password it must give is a choice:  *)
(* a request that does not ends where it stood (GiveUp).  A session whose  *)
(* time is up is one that EndSession may take.  The lockout, the audit log *)
(* and `disabledAt`, which nothing ever sets, are left out.                *)
(***************************************************************************)
EXTENDS Naturals, FiniteSets

CONSTANTS
  Ids,            \* account ids, randomUUID(): each given out at most once
  Names,          \* usernames
  Bootstrap,      \* the username of the first account
  Sids,           \* session ids: each given out at most once
  Tasks,          \* requests in flight at a time
  MaxPasswords    \* bound: how many passwords are ever set

AccountsAssumption ==
  /\ Bootstrap \in Names
  /\ MaxPasswords \in Nat \ {0}
  /\ IsFiniteSet(Ids) /\ IsFiniteSet(Tasks)

VARIABLES
  accounts,   \* table accounts: id -> row, Unborn before it, Gone after it
  sessions,   \* table sessions: sid -> row, Unborn before it, Gone after it
  tasks,      \* the requests in flight
  passwords,  \* passwords set so far
  up,         \* the process serves requests
  cut,        \* history: accounts whose last revocation was cut off half way
  overlapped  \* history: two requests were in flight at once

vars == <<accounts, sessions, tasks, passwords, up, cut, overlapped>>

-----------------------------------------------------------------------------
(* Rows.                                                                   *)

Roles == {"admin", "viewer"}

\* What a request may name as a role; isRole turns the others away.
RoleWords == Roles \cup {"owner"}
IsRole(role) == role \in Roles

\* rolesWith('accounts.manage')
Managers == {"admin"}

Unborn == [row |-> "unborn"]
Gone == [row |-> "gone"]
Live(row) == row.row = "live"

AccountRow(name, role, password, oneTime) ==
  [row |-> "live", name |-> name, role |-> role,
   password |-> password, mustChange |-> oneTime]

\* `password` is history: the password behind the session.  `late`: it was no
\* longer the account's when the row was written.
SessionRow(id, password, late) ==
  [row |-> "live", account |-> id, password |-> password, late |-> late]

LiveIds == {i \in Ids : Live(accounts[i])}
Managing == {i \in LiveIds : accounts[i].role \in Managers}
NamesInUse == {accounts[i].name : i \in LiveIds}
FreshIds == {i \in Ids : accounts[i] = Unborn}
SessionsOf(id) == {s \in Sids : Live(sessions[s]) /\ sessions[s].account = id}
Without(ended) == [s \in Sids |-> IF s \in ended THEN Gone ELSE sessions[s]]

-----------------------------------------------------------------------------
(* Requests.                                                               *)

Managed == {"create", "reset", "setRole"}   \* behind requireCapability
Asked == Managed \cup {"delete", "change"}  \* behind SessionGuard
SetsPassword == {"create", "reset", "change"}

Idle == [op |-> "none"]
NoSession == "none"

\* `account` is the account behind the request, `target` the one it acts on.
Request(op, pc, sid, id, target, role, name) ==
  [op |-> op, pc |-> pc, sid |-> sid, account |-> id, target |-> target,
   role |-> role, name |-> name]
Login(pc, id, password) ==
  [op |-> "login", pc |-> pc, account |-> id, password |-> password]

Arguments(op, id) ==
  [target : IF op \in {"create", "change"} THEN {id} ELSE Ids,
   role   : IF op \in {"create", "setRole"} THEN {r \in RoleWords : IsRole(r)}
                                                ELSE {"viewer"},
   name   : IF op = "create" THEN Names ELSE {Bootstrap}]

At(t, ops, pc) == tasks[t].op \in ops /\ tasks[t].pc = pc
Goto(t, pc) == tasks' = [tasks EXCEPT ![t].pc = pc]
End(t) == tasks' = [tasks EXCEPT ![t] = Idle]
GotoOrEnd(t, more, pc) == IF more THEN Goto(t, pc) ELSE End(t)

\* A request that starts beside another one.
Busy(t) == overlapped \/ \E u \in Tasks : u # t /\ tasks[u] # Idle

\* The bounds: every request in flight can still be given what it will need.
Room(op) ==
  /\ op \in SetsPassword =>
       passwords + Cardinality({t \in Tasks : tasks[t].op \in SetsPassword})
         < MaxPasswords
  /\ op = "create" =>
       Cardinality({t \in Tasks : tasks[t].op = "create"})
         < Cardinality(FreshIds)

-----------------------------------------------------------------------------
(* Logging in.                                                             *)

\* AuthService.login up to the verification: the account the name has now.
LoginReads(t, name) ==
  /\ up /\ tasks[t] = Idle
  /\ \E i \in LiveIds :
       /\ accounts[i].name = name
       /\ tasks' = [tasks EXCEPT ![t] = Login("write", i, accounts[i].password)]
  /\ overlapped' = Busy(t)
  /\ UNCHANGED <<accounts, sessions, passwords, up, cut>>

\* A name nobody has: a password is verified all the same, and refused.
LoginUnknown(name) ==
  /\ up
  /\ name \notin NamesInUse
  /\ UNCHANGED vars

\* sessions.create, for the account found and the password verified.  The
\* foreign key refuses a session of an account deleted since.
ForeignKey(id) == Live(accounts[id])

LoginWrites(t) ==
  LET id == tasks[t].account IN
  /\ At(t, {"login"}, "write")
  /\ IF ForeignKey(id)
       THEN \E s \in Sids :
              /\ sessions[s] = Unborn
              /\ sessions' = [sessions EXCEPT ![s] =
                   SessionRow(id, tasks[t].password,
                              ~Live(accounts[id])
                                \/ tasks[t].password # accounts[id].password)]
       ELSE sessions' = sessions
  /\ End(t)
  /\ UNCHANGED <<accounts, passwords, up, cut, overlapped>>

\* AuthService.logout, or validate of a session whose time is up.
EndSession(s) ==
  /\ up
  /\ Live(sessions[s])
  /\ sessions' = Without({s})
  /\ UNCHANGED <<accounts, tasks, passwords, up, cut, overlapped>>

-----------------------------------------------------------------------------
(* The guard in front of every other request.                              *)

\* AuthService.validate reads the session; without one there is no request.
Ask(t, s, op) ==
  /\ up /\ tasks[t] = Idle
  /\ Live(sessions[s])
  /\ Room(op)
  /\ LET id == sessions[s].account IN
     \E a \in Arguments(op, id) :
       tasks' = [tasks EXCEPT ![t] =
                   Request(op, "guard", s, id, a.target, a.role, a.name)]
  /\ overlapped' = Busy(t)
  /\ UNCHANGED <<accounts, sessions, passwords, up, cut>>

\* What a request keeps of its guard: the session only for a change, which is
\* to spare it (keepSessionId).
Kept(task) == IF task.op = "change" THEN task.sid ELSE NoSession

\* validate reads the account, and drops the session of one that is gone;
\* then PasswordFreshGuard, requireCapability and the self check of delete.
Allowed(task, row) ==
  /\ Live(row)
  /\ row.mustChange => task.op = "change"
  /\ task.op \in Managed => row.role \in Managers

Admit(t) ==
  LET task == tasks[t] IN
  /\ At(t, Asked, "guard")
  /\ IF Allowed(task, accounts[task.account])
       THEN tasks' = [tasks EXCEPT ![t].pc = "read", ![t].sid = Kept(task)]
       ELSE End(t)
  /\ sessions' = IF Live(accounts[task.account])
                   THEN sessions
                   ELSE Without({task.sid})
  /\ UNCHANGED <<accounts, passwords, up, cut, overlapped>>

\* The password the caller gave does not verify.
GiveUp(t) ==
  /\ \/ At(t, Managed \cup {"delete"}, "read")
     \/ At(t, {"login", "change"}, "write")
  /\ End(t)
  /\ UNCHANGED <<accounts, sessions, passwords, up, cut, overlapped>>

-----------------------------------------------------------------------------
(* The reads a request decides on.                                         *)

\* create: byUsername.
CreateReads(t) ==
  /\ At(t, {"create"}, "read")
  /\ GotoOrEnd(t, tasks[t].name \notin NamesInUse, "write")
  /\ UNCHANGED <<accounts, sessions, passwords, up, cut, overlapped>>

\* resetPassword and changePassword: byId.
PasswordReads(t) ==
  /\ At(t, {"reset", "change"}, "read")
  /\ GotoOrEnd(t, Live(accounts[tasks[t].target]), "write")
  /\ UNCHANGED <<accounts, sessions, passwords, up, cut, overlapped>>

\* delete: byId, and nobody deletes themselves.
Deletable(task) ==
  Live(accounts[task.target]) /\ task.target # task.account

DeleteReads(t) ==
  /\ At(t, {"delete"}, "read")
  /\ GotoOrEnd(t, Deletable(tasks[t]), "erase")
  /\ UNCHANGED <<accounts, sessions, passwords, up, cut, overlapped>>

\* setRole: byId; a manager who stops being one has the managers counted.
SetRoleReads(t) ==
  LET task == tasks[t]
      row  == accounts[task.target] IN
  /\ At(t, {"setRole"}, "read")
  /\ IF ~Live(row) \/ row.role = task.role
       THEN End(t)
       ELSE Goto(t, IF row.role \in Managers /\ task.role \notin Managers
                      THEN "count" ELSE "write")
  /\ UNCHANGED <<accounts, sessions, passwords, up, cut, overlapped>>

\* Mutant: one manager counts as enough.
LosingLast_OffByOne == Cardinality(Managing) < 1

\* countWithRole(managers) <= 1
LosingLast == Cardinality(Managing) <= 1

SetRoleCounts(t) ==
  /\ At(t, {"setRole"}, "count")
  /\ GotoOrEnd(t, ~LosingLast, "write")
  /\ UNCHANGED <<accounts, sessions, passwords, up, cut, overlapped>>

-----------------------------------------------------------------------------
(* The writes.                                                             *)

\* accounts.create, under a unique index on the username.
UniqueName(name) == name \notin NamesInUse

CreateWrites(t) ==
  LET task == tasks[t] IN
  /\ At(t, {"create"}, "write")
  /\ IF UniqueName(task.name)
       THEN \E i \in FreshIds :
              /\ accounts' = [accounts EXCEPT ![i] =
                   AccountRow(task.name, task.role, passwords, TRUE)]
              /\ passwords' = passwords + 1
       ELSE UNCHANGED <<accounts, passwords>>
  /\ End(t)
  /\ UNCHANGED <<sessions, up, cut, overlapped>>

\* accounts.setPassword, an UPDATE: nothing happens when the row is gone.
PasswordWrites(t) ==
  LET task == tasks[t] IN
  /\ At(t, {"reset", "change"}, "write")
  /\ accounts' = IF Live(accounts[task.target])
                   THEN [accounts EXCEPT
                           ![task.target].password = passwords,
                           ![task.target].mustChange = (task.op = "reset")]
                   ELSE accounts
  /\ passwords' = passwords + 1
  /\ Goto(t, "erase")
  /\ UNCHANGED <<sessions, up, cut, overlapped>>

\* Mutant: the sessions of whoever asked are deleted.
Erased_OfTheCaller(task) == SessionsOf(task.account) \ {task.sid}

\* sessions.deleteForAccount: every session, but the caller's own when it is
\* the caller's password that changes.
Erased(task) ==
  SessionsOf(task.target) \ (IF task.op = "change" THEN {task.sid} ELSE {})

\* The session a change spares goes on under the new password.
Erase(t) ==
  LET task   == tasks[t]
      spared == IF task.op = "change" THEN SessionsOf(task.target) \ Erased(task)
                                      ELSE {} IN
  /\ At(t, {"reset", "change", "delete"}, "erase")
  /\ sessions' = [s \in Sids |->
       CASE s \in Erased(task) -> Gone
         [] s \in spared ->
              [sessions[s] EXCEPT !.password = accounts[task.target].password]
         [] OTHER -> sessions[s]]
  /\ cut' = IF task.op = "delete" THEN cut ELSE cut \ {task.target}
  /\ GotoOrEnd(t, task.op = "delete", "write")
  /\ UNCHANGED <<accounts, passwords, up, overlapped>>

\* accounts.delete, which takes the sessions along (on delete cascade).
Cascaded(id) == SessionsOf(id)

DeleteWrites(t) ==
  LET id == tasks[t].target IN
  /\ At(t, {"delete"}, "write")
  /\ accounts' = [accounts EXCEPT ![id] = Gone]
  /\ sessions' = Without(Cascaded(id))
  /\ End(t)
  /\ UNCHANGED <<passwords, up, cut, overlapped>>

\* accounts.setRole, an UPDATE.
SetRoleWrites(t) ==
  LET task == tasks[t] IN
  /\ At(t, {"setRole"}, "write")
  /\ accounts' = IF Live(accounts[task.target])
                   THEN [accounts EXCEPT ![task.target].role = task.role]
                   ELSE accounts
  /\ End(t)
  /\ UNCHANGED <<sessions, passwords, up, cut, overlapped>>

-----------------------------------------------------------------------------
(* The process.                                                            *)

CanBootstrap == FreshIds # {} /\ passwords < MaxPasswords

\* AccountsService.bootstrap, awaited before the server listens.
Start ==
  /\ ~up
  /\ up' = TRUE
  /\ IF LiveIds = {}
       THEN /\ CanBootstrap
            /\ \E i \in FreshIds :
                 accounts' = [accounts EXCEPT ![i] =
                                AccountRow(Bootstrap, "admin", passwords, TRUE)]
            /\ passwords' = passwords + 1
       ELSE UNCHANGED <<accounts, passwords>>
  /\ UNCHANGED <<sessions, tasks, cut, overlapped>>

\* The accounts whose new password is written and whose sessions are not
\* deleted yet, of the given requests: deleteForAccount comes second.
HalfRevoked(ts) ==
  {tasks[t].target : t \in {u \in ts : At(u, {"reset", "change"}, "erase")}}

\* The statement a request does next throws, and the request with it: what it
\* wrote before stays, what it would have written does not happen.
Fails(t) ==
  /\ tasks[t] # Idle
  /\ End(t)
  /\ cut' = cut \cup HalfRevoked({t})
  /\ UNCHANGED <<accounts, sessions, passwords, up, overlapped>>

\* The process is killed, or its deployment replaced; the tables stay.
Crash ==
  /\ up
  /\ LiveIds # {} \/ CanBootstrap
  /\ up' = FALSE
  /\ tasks' = [t \in Tasks |-> Idle]
  /\ cut' = cut \cup HalfRevoked(Tasks)
  /\ UNCHANGED <<accounts, sessions, passwords, overlapped>>

-----------------------------------------------------------------------------
\* A database with no account yet, or one an earlier process left: accounts
\* with passwords of their own, one of them a manager.
Init ==
  /\ accounts \in [Ids -> {Unborn} \cup
                     [row : {"live"}, name : Names, role : Roles,
                      password : {0}, mustChange : {FALSE}]]
  /\ \A i, j \in LiveIds : accounts[i].name = accounts[j].name => i = j
  /\ LiveIds = {} \/ Managing # {}
  /\ sessions = [s \in Sids |-> Unborn]
  /\ tasks = [t \in Tasks |-> Idle]
  /\ passwords = 1
  /\ up = FALSE
  /\ cut = {}
  /\ overlapped = FALSE

Next ==
  \/ \E t \in Tasks :
       \/ \E n \in Names : LoginReads(t, n)
       \/ LoginWrites(t)
       \/ \E s \in Sids, op \in Asked : Ask(t, s, op)
       \/ Admit(t)
       \/ GiveUp(t)
       \/ CreateReads(t)
       \/ PasswordReads(t)
       \/ DeleteReads(t)
       \/ SetRoleReads(t)
       \/ SetRoleCounts(t)
       \/ CreateWrites(t)
       \/ PasswordWrites(t)
       \/ Erase(t)
       \/ DeleteWrites(t)
       \/ SetRoleWrites(t)
       \/ Fails(t)
  \/ \E n \in Names : LoginUnknown(n)
  \/ \E s \in Sids : EndSession(s)
  \/ Start
  \/ Crash

Spec == Init /\ [][Next]_vars

-----------------------------------------------------------------------------
(* Properties.                                                             *)

AccountRows ==
  [row : {"live"}, name : Names, role : Roles,
   password : 0..MaxPasswords, mustChange : BOOLEAN]
SessionRows ==
  [row : {"live"}, account : Ids, password : 0..MaxPasswords, late : BOOLEAN]
LoginTasks ==
  [op : {"login"}, pc : {"write"}, account : Ids, password : 0..MaxPasswords]
RequestTasks ==
  [op : Asked, pc : {"guard", "read", "count", "write", "erase"},
   sid : Sids \cup {NoSession},
   account : Ids, target : Ids, role : Roles, name : Names]

\* Every row and every request in flight is one the code can hold, and while
\* the process is down no request is.
TypeOK ==
  /\ \A i \in Ids : accounts[i] \in AccountRows \cup {Unborn, Gone}
  /\ \A s \in Sids : sessions[s] \in SessionRows \cup {Unborn, Gone}
  /\ \A t \in Tasks : tasks[t] \in {Idle} \cup LoginTasks \cup RequestTasks
  /\ passwords \in 0..MaxPasswords
  /\ up \in BOOLEAN
  /\ cut \in SUBSET Ids
  /\ overlapped \in BOOLEAN
  /\ ~up => \A t \in Tasks : tasks[t] = Idle

\* No session outlives its account, however the login that makes it and the
\* requests that delete the account interleave (auth.service.ts, login;
\* accounts.service.ts, delete).
SessionsHaveAccounts ==
  \A s \in Sids : Live(sessions[s]) => Live(accounts[sessions[s].account])

\* What every state of the two tables and the requests has in common.
Consistent == TypeOK /\ SessionsHaveAccounts

Revoking(id) ==
  \E t \in Tasks : At(t, {"reset", "change"}, "erase") /\ tasks[t].target = id

\* A session under a password its account no longer has is explained: the
\* revocation is still to come, a kill or a statement that threw cut it off, or
\* the login was under way while the password changed (resetPassword and
\* changePassword write the password first and delete the sessions second,
\* in no transaction: "Whoever held a session under the old password loses
\* it" is not so when the second throws, until a later revocation succeeds).
StaleSessionsExplained ==
  \A s \in Sids :
    LET id == sessions[s].account IN
    Live(sessions[s]) /\ sessions[s].password # accounts[id].password
      => sessions[s].late \/ Revoking(id) \/ id \in cut

\* "Refusing self-deletion is also what keeps at least one account alive".
OneAccountAlive == up => LiveIds # {}

\* "Refuses to remove the last account that can manage accounts": a change of
\* role leaves somebody who manages them.
DemotesTheLast(t) == SetRoleWrites(t) /\ Managing # {} /\ Managing' = {}
RoleChangeLeavesManager == [][\A t \in Tasks : ~DemotesTheLast(t)]_vars

\* The same two for requests that come one at a time, the way the unit
\* tests send them, and how the comments reason.
OneAccountAliveUnlessOverlapped == ~overlapped => OneAccountAlive
RoleChangeLeavesManagerUnlessOverlapped ==
  [][~overlapped => \A t \in Tasks : ~DemotesTheLast(t)]_vars
=============================================================================
