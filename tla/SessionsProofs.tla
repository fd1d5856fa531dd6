--------------------------- MODULE SessionsProofs ---------------------------
(***************************************************************************)
(* Theorems about what MCSessions puts together, for any constants: the    *)
(* accounts with any ids, names, sessions and requests in flight; the      *)
(* lockout with any addresses and calls, any threshold, and any window     *)
(* that the cooldown and the pause before a refusal outlast.  Each has its *)
(* invariant, shown inductive first; the theorems are at the end.          *)
(***************************************************************************)
EXTENDS MCSessions, FiniteSetTheorems, TLAPS

-----------------------------------------------------------------------------
(* Accounts and sessions: the inductive invariant.                         *)

AccountsTypes ==
  /\ accounts \in [Ids -> A!AccountRows \cup {A!Unborn, A!Gone}]
  /\ sessions \in [Sids -> A!SessionRows \cup {A!Unborn, A!Gone}]
  /\ tasks \in [Tasks -> {A!Idle} \cup A!LoginTasks \cup A!RequestTasks]
  /\ passwords \in 0 .. MaxPasswords
  /\ up \in BOOLEAN
  /\ cut \in SUBSET Ids
  /\ overlapped \in BOOLEAN
  /\ ~up => \A t \in Tasks : tasks[t] = A!Idle

\* Requests that may still set a password.
Setting == {t \in Tasks : tasks[t].op \in A!SetsPassword /\ tasks[t].pc # "erase"}

PasswordsLast == passwords + Cardinality(Setting) <= MaxPasswords

\* A request that is past its guard and its reads knows what they told it, as long as
\* there is no other.
OneAtATime ==
  ~overlapped =>
    /\ \A t, u \in Tasks : tasks[t] # A!Idle /\ tasks[u] # A!Idle => t = u
    /\ up => A!LiveIds # {}
    /\ \A t \in Tasks :
         tasks[t].op = "delete" /\ tasks[t].pc # "guard" =>
           /\ A!Live(accounts[tasks[t].account])
           /\ tasks[t].pc # "read" => tasks[t].target # tasks[t].account
    /\ \A t \in Tasks :
         /\ tasks[t].op = "setRole" /\ tasks[t].pc = "write"
         /\ tasks[t].role \notin A!Managers /\ tasks[t].target \in A!Managing
         => \E m \in A!Managing : m # tasks[t].target

AccountsInv ==
  /\ AccountsTypes
  /\ PasswordsLast
  /\ A!SessionsHaveAccounts
  /\ A!StaleSessionsExplained
  /\ OneAtATime

-----------------------------------------------------------------------------
(* Accounts and sessions: what steps have in common.                       *)

\* The module of finite sets is one, whichever module extends it.
LEMMA AccountsCounting ==
  \A S : A!Cardinality(S) = Cardinality(S) /\ (A!IsFiniteSet(S) <=> IsFiniteSet(S))
  BY DEF A!Cardinality, Cardinality, A!IsFiniteSet, IsFiniteSet

LEMMA Rows ==
  /\ ~A!Live(A!Unborn) /\ ~A!Live(A!Gone)
  /\ \A row \in A!AccountRows : A!Live(row)
  /\ \A row \in A!SessionRows : A!Live(row)
  BY DEF A!Live, A!Unborn, A!Gone, A!AccountRows, A!SessionRows

LEMMA Requests ==
  /\ A!Idle.op = "none"
  /\ \A task \in A!LoginTasks : task.op = "login" /\ task.pc = "write"
  /\ \A task \in A!RequestTasks : task.op \in A!Asked
  /\ \A task \in {A!Idle} \cup A!LoginTasks \cup A!RequestTasks :
       task.op \in A!Asked => task \in A!RequestTasks
  BY DEF A!Idle, A!LoginTasks, A!RequestTasks, A!Asked, A!Managed

LEMMA SettingIsFinite ==
  ASSUME A!AccountsAssumption
  PROVE  /\ IsFiniteSet(Setting) /\ Cardinality(Setting) \in Nat
         /\ IsFiniteSet(Tasks) /\ MaxPasswords \in Nat
<1>1. Setting \subseteq Tasks /\ IsFiniteSet(Tasks)
  BY AccountsCounting DEF Setting, A!AccountsAssumption
<1> QED
  BY <1>1, FS_Subset, FS_CardinalityType DEF A!AccountsAssumption

\* No request starts that sets a password, and none is set.
LEMMA NoMoreToSet ==
  ASSUME A!AccountsAssumption, AccountsInv, Setting' \subseteq Setting, passwords' = passwords
  PROVE  PasswordsLast'
<1>1. Cardinality(Setting') <= Cardinality(Setting) /\ Cardinality(Setting') \in Nat
  BY SettingIsFinite, FS_Subset, FS_CardinalityType
<1> QED
  BY <1>1, SettingIsFinite DEF AccountsInv, AccountsTypes, PasswordsLast

\* One of them sets its own.
LEMMA OneSet ==
  ASSUME A!AccountsAssumption, AccountsInv, NEW t \in Setting,
         Setting' \subseteq Setting \ {t}, passwords' \in {passwords, passwords + 1}
  PROVE  PasswordsLast' /\ passwords + 1 <= MaxPasswords
<1>1. IsFiniteSet(Setting \ {t}) /\ Cardinality(Setting \ {t}) = Cardinality(Setting) - 1
  BY SettingIsFinite, FS_RemoveElement
<1>2. Cardinality(Setting') <= Cardinality(Setting) - 1 /\ Cardinality(Setting') \in Nat
  BY <1>1, FS_Subset, FS_CardinalityType
<1> QED
  BY <1>2, SettingIsFinite DEF AccountsInv, AccountsTypes, PasswordsLast

\* Sessions end or stay, accounts stay, and who was revoking still is or was cut off.
LEMMA SessionsStayOrEnd ==
  ASSUME AccountsInv, accounts' = accounts, cut \subseteq cut',
         \A s \in Sids : sessions'[s] = sessions[s] \/ ~A!Live(sessions'[s]),
         \A id : A!Revoking(id) => A!Revoking(id)' \/ id \in cut'
  PROVE  A!SessionsHaveAccounts' /\ A!StaleSessionsExplained'
<1>1. A!SessionsHaveAccounts'
  BY DEF AccountsInv, A!SessionsHaveAccounts, A!Live
<1>2. A!StaleSessionsExplained'
  <2> SUFFICES ASSUME NEW s \in Sids, A!Live(sessions[s])',
                      sessions'[s].password # accounts'[sessions'[s].account].password
               PROVE  \/ sessions'[s].late \/ A!Revoking(sessions[s].account)'
                      \/ sessions'[s].account \in cut'
    BY DEF A!StaleSessionsExplained
  <2>1. sessions'[s] = sessions[s] /\ A!Live(sessions[s])
    BY DEF A!Live
  <2>2. sessions[s].late \/ A!Revoking(sessions[s].account) \/ sessions[s].account \in cut
    BY <2>1 DEF AccountsInv, A!StaleSessionsExplained
  <2> QED
    BY <2>1, <2>2 DEF A!Revoking, A!At
<1> QED
  BY <1>1, <1>2

\* What a step of one request that only reads, or only ends sessions, leaves as it was.
Quiet ==
  /\ accounts' = accounts /\ passwords' = passwords
  /\ up' = up /\ cut' = cut /\ overlapped' = overlapped
  /\ sessions' \in [Sids -> A!SessionRows \cup {A!Unborn, A!Gone}]
  /\ \A s \in Sids : sessions'[s] = sessions[s] \/ ~A!Live(sessions'[s])

LEMMA Ends ==
  ASSUME A!AccountsAssumption, AccountsInv, Quiet, NEW t \in Tasks, A!End(t),
         ~A!At(t, {"reset", "change"}, "erase")
  PROVE  AccountsInv'
<1>1. /\ tasks' \in [Tasks -> {A!Idle} \cup A!LoginTasks \cup A!RequestTasks]
      /\ tasks'[t] = A!Idle /\ \A u \in Tasks \ {t} : tasks'[u] = tasks[u]
      /\ A!Idle.op = "none"
  BY Requests DEF A!End, AccountsInv, AccountsTypes
<1>2. AccountsTypes'
  BY <1>1 DEF Quiet, AccountsInv, AccountsTypes
<1>3. PasswordsLast'
  <2>1. Setting' \subseteq Setting
    BY <1>1 DEF Setting, A!SetsPassword
  <2> QED
    BY <2>1, NoMoreToSet DEF Quiet
<1>4. A!SessionsHaveAccounts' /\ A!StaleSessionsExplained'
  <2>1. \A id : A!Revoking(id) => A!Revoking(id)'
    BY <1>1 DEF A!Revoking, A!At
  <2> QED
    BY <2>1, SessionsStayOrEnd DEF Quiet
<1>5. OneAtATime'
  BY <1>1 DEF Quiet, AccountsInv, OneAtATime, A!LiveIds, A!Managing
<1> QED
  BY <1>2, <1>3, <1>4, <1>5 DEF AccountsInv

\* A request that its guard lets on keeps no more of its session than it needs.
Passes(t, pc) ==
  tasks' = [tasks EXCEPT ![t].pc = pc, ![t].sid = A!Kept(tasks[t])]

LEMMA Goes ==
  ASSUME A!AccountsAssumption, AccountsInv, Quiet, NEW t \in Tasks,
         NEW pc \in {"read", "count", "write", "erase"}, A!Goto(t, pc) \/ Passes(t, pc),
         tasks[t] \in A!RequestTasks, tasks[t].pc # "erase" \/ tasks[t].op = "delete",
         tasks[t].op = "delete" =>
           /\ tasks[t].pc = "guard" => A!Live(accounts[tasks[t].account])
           /\ pc # "read" =>
                tasks[t].pc \in {"write", "erase"} \/ tasks[t].target # tasks[t].account,
         /\ tasks[t].op = "setRole" /\ pc = "write"
         /\ tasks[t].role \notin A!Managers /\ tasks[t].target \in A!Managing
         => \E m \in A!Managing : m # tasks[t].target
  PROVE  AccountsInv'
<1>1. /\ tasks' = [u \in Tasks |-> tasks'[u]]
      /\ \/ tasks'[t] = [tasks[t] EXCEPT !.pc = pc]
         \/ tasks'[t] = [tasks[t] EXCEPT !.pc = pc, !.sid = A!Kept(tasks[t])]
      /\ \A u \in Tasks \ {t} : tasks'[u] = tasks[u]
  BY DEF A!Goto, Passes, AccountsInv, AccountsTypes
<1>2. /\ tasks'[t] \in A!RequestTasks
      /\ tasks'[t].op = tasks[t].op /\ tasks'[t].pc = pc /\ tasks'[t].account = tasks[t].account
      /\ tasks'[t].target = tasks[t].target /\ tasks'[t].role = tasks[t].role
  BY <1>1 DEF A!RequestTasks, A!Kept
<1>3. tasks[t] # A!Idle /\ tasks'[t] # A!Idle
  BY <1>2, Requests DEF A!Asked, A!Managed
<1>4. AccountsTypes'
  <2>1. \A u \in Tasks : tasks'[u] \in {A!Idle} \cup A!LoginTasks \cup A!RequestTasks
    BY <1>1, <1>2 DEF AccountsInv, AccountsTypes
  <2>2. up
    BY <1>3 DEF AccountsInv, AccountsTypes
  <2> QED
    BY <1>1, <2>1, <2>2 DEF Quiet, AccountsInv, AccountsTypes
<1>5. PasswordsLast'
  <2>1. Setting' \subseteq Setting
    BY <1>1, <1>2 DEF Setting, A!SetsPassword
  <2> QED
    BY <2>1, NoMoreToSet DEF Quiet
<1>6. A!SessionsHaveAccounts' /\ A!StaleSessionsExplained'
  <2>1. \A id : A!Revoking(id) => A!Revoking(id)'
    BY <1>1, <1>2 DEF A!Revoking, A!At
  <2> QED
    BY <2>1, SessionsStayOrEnd DEF Quiet
<1>7. OneAtATime'
  <2> SUFFICES ASSUME ~overlapped
               PROVE  OneAtATime'
    BY DEF Quiet, OneAtATime
  <2>1. \A u, v \in Tasks : tasks'[u] # A!Idle /\ tasks'[v] # A!Idle => u = v
    BY <1>1, <1>3 DEF AccountsInv, OneAtATime
  <2>2. up' => A!LiveIds' # {}
    BY DEF Quiet, AccountsInv, OneAtATime, A!LiveIds
  <2>3. \A u \in Tasks :
          tasks'[u].op = "delete" /\ tasks'[u].pc # "guard" =>
            /\ A!Live(accounts[tasks'[u].account])
            /\ tasks'[u].pc # "read" => tasks'[u].target # tasks'[u].account
    <3>1. \A u \in Tasks :
            tasks[u].op = "delete" /\ tasks[u].pc # "guard" =>
              /\ A!Live(accounts[tasks[u].account])
              /\ tasks[u].pc # "read" => tasks[u].target # tasks[u].account
      BY DEF AccountsInv, OneAtATime
    <3> SUFFICES ASSUME NEW u \in Tasks, tasks'[u].op = "delete", tasks'[u].pc # "guard"
                 PROVE  /\ A!Live(accounts[tasks'[u].account])
                        /\ tasks'[u].pc # "read" => tasks'[u].target # tasks'[u].account
      OBVIOUS
    <3>2. CASE u = t
      BY <1>2, <3>1, <3>2
    <3>3. CASE u # t
      BY <1>1, <3>1, <3>3
    <3> QED
      BY <3>2, <3>3
  <2>4. \A u \in Tasks :
          /\ tasks'[u].op = "setRole" /\ tasks'[u].pc = "write"
          /\ tasks'[u].role \notin A!Managers /\ tasks'[u].target \in A!Managing
          => \E m \in A!Managing : m # tasks'[u].target
    <3>1. \A u \in Tasks :
            /\ tasks[u].op = "setRole" /\ tasks[u].pc = "write"
            /\ tasks[u].role \notin A!Managers /\ tasks[u].target \in A!Managing
            => \E m \in A!Managing : m # tasks[u].target
      BY DEF AccountsInv, OneAtATime
    <3> SUFFICES ASSUME NEW u \in Tasks, tasks'[u].op = "setRole", tasks'[u].pc = "write",
                        tasks'[u].role \notin A!Managers, tasks'[u].target \in A!Managing
                 PROVE  \E m \in A!Managing : m # tasks'[u].target
      OBVIOUS
    <3>2. CASE u = t
      BY <1>2, <3>2
    <3>3. CASE u # t
      BY <1>1, <3>1, <3>3
    <3> QED
      BY <3>2, <3>3
  <2> QED
    BY <2>1, <2>2, <2>3, <2>4 DEF Quiet, OneAtATime, A!Managing, A!LiveIds
<1> QED
  BY <1>4, <1>5, <1>6, <1>7 DEF AccountsInv

LEMMA SessionRowsAlone ==
  ASSUME AccountsInv
  PROVE  /\ \A ended : /\ A!Without(ended) \in [Sids -> A!SessionRows \cup {A!Unborn, A!Gone}]
                       /\ \A s \in Sids : A!Without(ended)[s] = sessions[s]
                                            \/ ~A!Live(A!Without(ended)[s])
         /\ sessions \in [Sids -> A!SessionRows \cup {A!Unborn, A!Gone}]
  BY Rows DEF AccountsInv, AccountsTypes, A!Without

LEMMA Admits ==
  ASSUME A!AccountsAssumption, AccountsInv, NEW t \in Tasks, A!Admit(t)
  PROVE  AccountsInv'
<1>1. Quiet
  BY SessionRowsAlone DEF A!Admit, Quiet
<1>2. tasks[t].op \in A!Asked /\ tasks[t].pc = "guard" /\ tasks[t] \in A!RequestTasks
  BY Requests DEF A!Admit, A!At, AccountsInv, AccountsTypes
<1>3. CASE A!Allowed(tasks[t], accounts[tasks[t].account])
  <2>1. Passes(t, "read") /\ A!Live(accounts[tasks[t].account])
    BY <1>3 DEF A!Admit, Passes, A!Allowed
  <2> QED
    BY <1>1, <1>2, <2>1, Goes
<1>4. CASE ~A!Allowed(tasks[t], accounts[tasks[t].account])
  <2>1. A!End(t)
    BY <1>4 DEF A!Admit
  <2> QED
    BY <1>1, <1>2, <2>1, Ends DEF A!At
<1> QED
  BY <1>3, <1>4

\* The steps that only read.
LEMMA Reads ==
  ASSUME A!AccountsAssumption, AccountsInv, NEW t \in Tasks,
         \/ A!GiveUp(t) \/ A!CreateReads(t) \/ A!PasswordReads(t)
         \/ A!DeleteReads(t) \/ A!SetRoleReads(t) \/ A!SetRoleCounts(t)
  PROVE  AccountsInv'
<1>1. Quiet
  BY SessionRowsAlone DEF Quiet, A!GiveUp, A!CreateReads, A!PasswordReads, A!DeleteReads,
                          A!SetRoleReads, A!SetRoleCounts
<1>2. CASE A!GiveUp(t)
  BY <1>1, <1>2, Ends DEF A!GiveUp, A!At
<1>3. CASE A!CreateReads(t)
  <2>1. tasks[t].op = "create" /\ tasks[t].pc = "read" /\ tasks[t] \in A!RequestTasks
    BY <1>3, Requests DEF A!CreateReads, A!At, A!Asked, A!Managed, AccountsInv, AccountsTypes
  <2>2. A!Goto(t, "write") \/ A!End(t)
    BY <1>3 DEF A!CreateReads, A!GotoOrEnd
  <2> QED
    BY <1>1, <2>1, <2>2, Goes, Ends DEF A!At
<1>4. CASE A!PasswordReads(t)
  <2>1. /\ tasks[t].op \in {"reset", "change"} /\ tasks[t].pc = "read"
        /\ tasks[t] \in A!RequestTasks
    BY <1>4, Requests DEF A!PasswordReads, A!At, A!Asked, A!Managed, AccountsInv, AccountsTypes
  <2>2. A!Goto(t, "write") \/ A!End(t)
    BY <1>4 DEF A!PasswordReads, A!GotoOrEnd
  <2> QED
    BY <1>1, <2>1, <2>2, Goes, Ends DEF A!At
<1>5. CASE A!DeleteReads(t)
  <2>1. tasks[t].op = "delete" /\ tasks[t].pc = "read" /\ tasks[t] \in A!RequestTasks
    BY <1>5, Requests DEF A!DeleteReads, A!At, A!Asked, A!Managed, AccountsInv, AccountsTypes
  <2>2. (A!Goto(t, "erase") /\ tasks[t].target # tasks[t].account) \/ A!End(t)
    BY <1>5 DEF A!DeleteReads, A!GotoOrEnd, A!Deletable
  <2> QED
    BY <1>1, <2>1, <2>2, Goes, Ends DEF A!At
<1>6. CASE A!SetRoleReads(t)
  <2>1. tasks[t].op = "setRole" /\ tasks[t].pc = "read" /\ tasks[t] \in A!RequestTasks
    BY <1>6, Requests DEF A!SetRoleReads, A!At, A!Asked, A!Managed, AccountsInv, AccountsTypes
  <2>2. \/ A!Goto(t, "count") \/ A!End(t)
        \/ /\ A!Goto(t, "write")
           /\ tasks[t].role \notin A!Managers =>
                accounts[tasks[t].target].role \notin A!Managers
    BY <1>6 DEF A!SetRoleReads
  <2>3. tasks[t].role \notin A!Managers /\ tasks[t].target \in A!Managing =>
          accounts[tasks[t].target].role \in A!Managers
    BY DEF A!Managing
  <2> QED
    BY <1>1, <2>1, <2>2, <2>3, Goes, Ends DEF A!At
<1>7. CASE A!SetRoleCounts(t)
  <2>1. tasks[t].op = "setRole" /\ tasks[t].pc = "count" /\ tasks[t] \in A!RequestTasks
    BY <1>7, Requests DEF A!SetRoleCounts, A!At, A!Asked, A!Managed, AccountsInv, AccountsTypes
  <2>2. (A!Goto(t, "write") /\ ~A!LosingLast) \/ A!End(t)
    BY <1>7 DEF A!SetRoleCounts, A!GotoOrEnd
  <2>3. ~A!LosingLast => \E m \in A!Managing : m # tasks[t].target
    <3> SUFFICES ASSUME \A m \in A!Managing : m = tasks[t].target
                 PROVE  A!LosingLast
      OBVIOUS
    <3>1. A!Managing \subseteq {tasks[t].target}
      OBVIOUS
    <3>2. /\ IsFiniteSet({tasks[t].target}) /\ Cardinality({tasks[t].target}) = 1
      BY FS_Singleton
    <3>3. Cardinality(A!Managing) <= 1
      BY <3>1, <3>2, FS_Subset
    <3> QED
      BY <3>3, AccountsCounting DEF A!LosingLast
  <2> QED
    BY <1>1, <2>1, <2>2, <2>3, Goes, Ends DEF A!At
<1> QED
  BY <1>2, <1>3, <1>4, <1>5, <1>6, <1>7

LEMMA AccountsStart ==
  ASSUME A!AccountsAssumption, A!Init
  PROVE  AccountsInv
<1>1. AccountsTypes
  <2> DEFINE kept == [row : {"live"}, name : Names, role : A!Roles,
                      password : {0}, mustChange : {FALSE}]
  <2>1. accounts \in [Ids -> {A!Unborn} \cup kept]
    BY DEF A!Init
  <2>2. kept \subseteq A!AccountRows
    <3>1. 0 \in 0 .. MaxPasswords
      BY DEF A!AccountsAssumption
    <3> SUFFICES ASSUME NEW row \in kept
                 PROVE  row \in A!AccountRows
      OBVIOUS
    <3>2. /\ row = [row |-> row.row, name |-> row.name, role |-> row.role,
                    password |-> row.password, mustChange |-> row.mustChange]
          /\ row.row = "live" /\ row.name \in Names /\ row.role \in A!Roles
          /\ row.password = 0 /\ row.mustChange = FALSE
      OBVIOUS
    <3>3. row.mustChange \in BOOLEAN
      BY <3>2
    <3> QED
      BY <3>1, <3>2, <3>3 DEF A!AccountRows
  <2> HIDE DEF kept
  <2>3. accounts \in [Ids -> A!AccountRows \cup {A!Unborn, A!Gone}]
    BY <2>1, <2>2
  <2>4. passwords \in 0 .. MaxPasswords
    BY DEF A!Init, A!AccountsAssumption
  <2>5. /\ sessions \in [Sids -> A!SessionRows \cup {A!Unborn, A!Gone}]
        /\ tasks \in [Tasks -> {A!Idle} \cup A!LoginTasks \cup A!RequestTasks]
        /\ \A t \in Tasks : tasks[t] = A!Idle
    BY DEF A!Init
  <2>6. up \in BOOLEAN /\ cut \in SUBSET Ids /\ overlapped \in BOOLEAN
    BY DEF A!Init
  <2> QED
    BY <2>3, <2>4, <2>5, <2>6 DEF AccountsTypes
<1>2. PasswordsLast
  <2>1. Setting = {}
    BY Requests DEF A!Init, Setting, A!SetsPassword
  <2> QED
    BY <2>1, FS_EmptySet DEF A!Init, PasswordsLast, A!AccountsAssumption
<1>3. A!SessionsHaveAccounts /\ A!StaleSessionsExplained
  BY Rows DEF A!Init, A!SessionsHaveAccounts, A!StaleSessionsExplained
<1>4. OneAtATime
  BY Requests DEF A!Init, OneAtATime
<1> QED
  BY <1>1, <1>2, <1>3, <1>4 DEF AccountsInv

\* A request begins.
LEMMA Begins ==
  ASSUME A!AccountsAssumption, AccountsInv, up, NEW t \in Tasks, tasks[t] = A!Idle,
         NEW new \in A!LoginTasks \cup {task \in A!RequestTasks : task.pc = "guard"},
         tasks' = [tasks EXCEPT ![t] = new], overlapped' = A!Busy(t),
         new.op \in A!SetsPassword => passwords + Cardinality(Setting) < MaxPasswords,
         UNCHANGED <<accounts, sessions, passwords, up, cut>>
  PROVE  AccountsInv'
<1>1. /\ tasks' \in [Tasks -> {A!Idle} \cup A!LoginTasks \cup A!RequestTasks]
      /\ tasks'[t] = new /\ \A u \in Tasks \ {t} : tasks'[u] = tasks[u]
      /\ tasks[t].op = "none"
      /\ new.op = "login" \/ new.pc = "guard"
  BY Requests DEF AccountsInv, AccountsTypes
<1>2. AccountsTypes'
  BY <1>1 DEF AccountsInv, AccountsTypes, A!Busy
<1>3. PasswordsLast'
  <2>1. CASE new.op \in A!SetsPassword
    <3>1. Setting' \subseteq Setting \cup {t} /\ t \notin Setting
      BY <1>1 DEF Setting, A!SetsPassword
    <3>2. IsFiniteSet(Setting \cup {t}) /\ Cardinality(Setting \cup {t}) = Cardinality(Setting) + 1
      BY <3>1, SettingIsFinite, FS_AddElement
    <3>3. Cardinality(Setting') <= Cardinality(Setting) + 1 /\ Cardinality(Setting') \in Nat
      BY <3>1, <3>2, FS_Subset, FS_CardinalityType
    <3> QED
      BY <2>1, <3>3, SettingIsFinite DEF AccountsInv, AccountsTypes, PasswordsLast
  <2>2. CASE new.op \notin A!SetsPassword
    <3>1. Setting' \subseteq Setting
      BY <1>1, <2>2 DEF Setting
    <3> QED
      BY <3>1, NoMoreToSet
  <2> QED
    BY <2>1, <2>2
<1>4. A!SessionsHaveAccounts' /\ A!StaleSessionsExplained'
  <2>1. \A id : A!Revoking(id) => A!Revoking(id)'
    BY <1>1 DEF A!Revoking, A!At
  <2> QED
    BY <2>1, SessionsStayOrEnd
<1>5. OneAtATime'
  <2> SUFFICES ASSUME ~overlapped'
               PROVE  OneAtATime'
    BY DEF OneAtATime
  <2>1. ~overlapped /\ \A u \in Tasks \ {t} : tasks[u] = A!Idle
    BY DEF A!Busy
  <2>2. \A u \in Tasks : tasks'[u].op \in {"delete", "setRole"} => u = t /\ new.pc = "guard"
    BY <1>1, <2>1, Requests
  <2>3. \A u, v \in Tasks : tasks'[u] # A!Idle /\ tasks'[v] # A!Idle => u = v
    BY <1>1, <2>1
  <2>4. A!LiveIds' # {}
    BY <2>1 DEF AccountsInv, OneAtATime, A!LiveIds
  <2> QED
    BY <1>1, <2>2, <2>3, <2>4 DEF OneAtATime
<1> QED
  BY <1>2, <1>3, <1>4, <1>5 DEF AccountsInv

LEMMA Logins ==
  ASSUME A!AccountsAssumption, AccountsInv, NEW t \in Tasks, NEW n \in Names,
         A!LoginReads(t, n)
  PROVE  AccountsInv'
<1>1. PICK i \in A!LiveIds :
        tasks' = [tasks EXCEPT ![t] = A!Login("write", i, accounts[i].password)]
  BY DEF A!LoginReads
<1>2. /\ up /\ tasks[t] = A!Idle /\ overlapped' = A!Busy(t)
      /\ UNCHANGED <<accounts, sessions, passwords, up, cut>>
  BY DEF A!LoginReads
<1>3. A!Login("write", i, accounts[i].password) \in A!LoginTasks
  <2>1. i \in Ids /\ accounts[i] \in A!AccountRows
    BY Rows DEF A!LiveIds, AccountsInv, AccountsTypes
  <2> QED
    BY <2>1 DEF A!Login, A!LoginTasks, A!AccountRows
<1>4. A!Login("write", i, accounts[i].password).op \notin A!SetsPassword
  BY DEF A!Login, A!SetsPassword
<1> QED
  BY <1>1, <1>2, <1>3, <1>4, Begins

LEMMA Asks ==
  ASSUME A!AccountsAssumption, AccountsInv, NEW t \in Tasks, NEW s \in Sids,
         NEW op \in A!Asked, A!Ask(t, s, op)
  PROVE  AccountsInv'
<1> DEFINE id == sessions[s].account
<1>1. PICK a \in A!Arguments(op, id) :
        tasks' = [tasks EXCEPT ![t] =
                    A!Request(op, "guard", s, id, a.target, a.role, a.name)]
  BY DEF A!Ask
<1>2. /\ up /\ tasks[t] = A!Idle /\ overlapped' = A!Busy(t) /\ A!Live(sessions[s])
      /\ A!Room(op)
      /\ UNCHANGED <<accounts, sessions, passwords, up, cut>>
  BY DEF A!Ask
<1>3. id \in Ids
  BY <1>2, Rows DEF A!SessionRows, AccountsInv, AccountsTypes
<1> HIDE DEF id
<1>4. a.target \in Ids /\ a.role \in A!Roles /\ a.name \in Names
  BY <1>3 DEF A!Arguments, A!Roles, A!RoleWords, A!IsRole, A!AccountsAssumption
<1> DEFINE new == A!Request(op, "guard", s, id, a.target, a.role, a.name)
<1>5. new \in A!RequestTasks /\ new.pc = "guard" /\ new.op = op
  BY <1>3, <1>4 DEF A!Request, A!RequestTasks
<1>6. op \in A!SetsPassword => passwords + Cardinality(Setting) < MaxPasswords
  <2> SUFFICES ASSUME op \in A!SetsPassword
               PROVE  passwords + Cardinality(Setting) < MaxPasswords
    OBVIOUS
  <2> DEFINE them == {u \in Tasks : tasks[u].op \in A!SetsPassword}
  <2>1. passwords + Cardinality(them) < MaxPasswords
    BY <1>2, AccountsCounting DEF A!Room
  <2>2. Setting \subseteq them /\ them \subseteq Tasks
    BY DEF Setting
  <2>3. IsFiniteSet(them) /\ Cardinality(them) \in Nat
    BY <2>2, SettingIsFinite, FS_Subset, FS_CardinalityType
  <2>4. Cardinality(Setting) <= Cardinality(them)
    BY <2>2, <2>3, FS_Subset
  <2> HIDE DEF them
  <2> QED
    BY <2>1, <2>3, <2>4, SettingIsFinite DEF AccountsInv, AccountsTypes
<1> HIDE DEF new
<1> QED
  BY <1>1, <1>2, <1>5, <1>6, Begins DEF new

LEMMA LoginEnds ==
  ASSUME A!AccountsAssumption, AccountsInv, NEW t \in Tasks, A!LoginWrites(t)
  PROVE  AccountsInv'
<1> DEFINE id == tasks[t].account
<1>1. tasks[t].op = "login" /\ tasks[t].pc = "write" /\ A!End(t)
  BY DEF A!LoginWrites, A!At
<1>2. /\ UNCHANGED <<accounts, passwords, up, cut, overlapped>>
  BY DEF A!LoginWrites
<1>3. CASE ~A!ForeignKey(id)
  <2>1. Quiet
    BY <1>2, <1>3, SessionRowsAlone DEF A!LoginWrites, Quiet
  <2> QED
    BY <1>1, <2>1, Ends DEF A!At
<1>4. CASE A!ForeignKey(id)
  <2> DEFINE late == ~A!Live(accounts[id]) \/ tasks[t].password # accounts[id].password
             row == A!SessionRow(id, tasks[t].password, late)
  <2>1. PICK s \in Sids : sessions[s] = A!Unborn /\ sessions' = [sessions EXCEPT ![s] = row]
    BY <1>4 DEF A!LoginWrites
  <2>2. /\ tasks[t] \in A!LoginTasks
    BY <1>1 DEF AccountsInv, AccountsTypes, A!Idle, A!RequestTasks, A!Asked, A!Managed
  <2>3. late \in BOOLEAN /\ (~late => tasks[t].password = accounts[id].password)
    OBVIOUS
  <2>4. id \in Ids /\ tasks[t].password \in 0 .. MaxPasswords
    BY <2>2 DEF A!LoginTasks
  <2> HIDE DEF late, id
  <2>5. /\ row \in A!SessionRows
        /\ row.account = id /\ row.password = tasks[t].password /\ row.late = late
    BY <2>3, <2>4 DEF A!SessionRow, A!SessionRows
  <2> HIDE DEF row
  <2>6. /\ tasks' \in [Tasks -> {A!Idle} \cup A!LoginTasks \cup A!RequestTasks]
        /\ tasks'[t] = A!Idle /\ \A u \in Tasks \ {t} : tasks'[u] = tasks[u]
        /\ A!Idle.op = "none"
    BY <1>1, Requests DEF A!End, AccountsInv, AccountsTypes
  <2>7. /\ sessions' \in [Sids -> A!SessionRows \cup {A!Unborn, A!Gone}]
        /\ sessions'[s] = row /\ \A z \in Sids \ {s} : sessions'[z] = sessions[z]
    BY <2>1, <2>5 DEF AccountsInv, AccountsTypes
  <2>8. AccountsTypes'
    BY <1>2, <2>6, <2>7 DEF AccountsInv, AccountsTypes
  <2>9. PasswordsLast'
    <3>1. Setting' \subseteq Setting
      BY <2>6 DEF Setting, A!SetsPassword
    <3> QED
      BY <1>2, <3>1, NoMoreToSet
  <2>10. A!SessionsHaveAccounts'
    BY <1>2, <1>4, <2>5, <2>7 DEF A!ForeignKey, AccountsInv, A!SessionsHaveAccounts, A!Live, id
  <2>11. A!StaleSessionsExplained'
    <3>1. \A i : A!Revoking(i) => A!Revoking(i)'
      BY <1>1, <2>6 DEF A!Revoking, A!At
    <3> SUFFICES ASSUME NEW z \in Sids, A!Live(sessions[z])',
                        sessions'[z].password # accounts'[sessions'[z].account].password
                 PROVE  \/ sessions'[z].late \/ A!Revoking(sessions[z].account)'
                        \/ sessions'[z].account \in cut'
      BY DEF A!StaleSessionsExplained
    <3>2. CASE z = s
      BY <1>2, <2>3, <2>5, <2>7, <3>2
    <3>3. CASE z # s
      <4>1. sessions'[z] = sessions[z] /\ A!Live(sessions[z])
        BY <2>7, <3>3 DEF A!Live
      <4>2. sessions[z].late \/ A!Revoking(sessions[z].account) \/ sessions[z].account \in cut
        BY <1>2, <4>1 DEF AccountsInv, A!StaleSessionsExplained
      <4> QED
        BY <1>2, <3>1, <4>1, <4>2 DEF A!Revoking, A!At
    <3> QED
      BY <3>2, <3>3
  <2>12. OneAtATime'
    BY <1>2, <2>6 DEF AccountsInv, OneAtATime, A!LiveIds, A!Managing
  <2> QED
    BY <2>8, <2>9, <2>10, <2>11, <2>12 DEF AccountsInv
<1> QED
  BY <1>3, <1>4

LEMMA Creates ==
  ASSUME A!AccountsAssumption, AccountsInv, NEW t \in Tasks, A!CreateWrites(t)
  PROVE  AccountsInv'
<1>1. tasks[t].op = "create" /\ tasks[t].pc = "write" /\ A!End(t)
  BY DEF A!CreateWrites, A!At
<1>2. UNCHANGED <<sessions, up, cut, overlapped>>
  BY DEF A!CreateWrites
<1>3. CASE UNCHANGED <<accounts, passwords>>
  <2>1. Quiet
    BY <1>2, <1>3, SessionRowsAlone DEF Quiet
  <2> QED
    BY <1>1, <2>1, Ends DEF A!At
<1>4. ASSUME NEW i \in A!FreshIds,
             accounts' = [accounts EXCEPT ![i] =
               A!AccountRow(tasks[t].name, tasks[t].role, passwords, TRUE)],
             passwords' = passwords + 1
      PROVE  AccountsInv'
  <2> DEFINE row == A!AccountRow(tasks[t].name, tasks[t].role, passwords, TRUE)
  <2>1. tasks[t] \in A!RequestTasks
    BY <1>1, Requests DEF A!Asked, A!Managed, AccountsInv, AccountsTypes
  <2>2. row \in A!AccountRows
    BY <2>1 DEF A!AccountRow, A!AccountRows, A!RequestTasks, AccountsInv, AccountsTypes
  <2> HIDE DEF row
  <2>3. i \in Ids /\ accounts[i] = A!Unborn /\ ~A!Live(accounts[i])
    BY Rows DEF A!FreshIds
  <2>4. /\ accounts' \in [Ids -> A!AccountRows \cup {A!Unborn, A!Gone}]
        /\ accounts'[i] = row /\ A!Live(row)
        /\ \A j \in Ids \ {i} : accounts'[j] = accounts[j]
    BY <1>4, <2>2, <2>3, Rows DEF row, AccountsInv, AccountsTypes
  <2>5. /\ tasks' \in [Tasks -> {A!Idle} \cup A!LoginTasks \cup A!RequestTasks]
        /\ tasks'[t] = A!Idle /\ \A u \in Tasks \ {t} : tasks'[u] = tasks[u]
        /\ A!Idle.op = "none"
    BY <1>1, Requests DEF A!End, AccountsInv, AccountsTypes
  <2>6. PasswordsLast' /\ passwords + 1 <= MaxPasswords
    <3>1. t \in Setting /\ Setting' \subseteq Setting \ {t}
      BY <1>1, <2>5 DEF Setting, A!SetsPassword
    <3> QED
      BY <1>4, <3>1, OneSet
  <2>7. AccountsTypes'
    <3>1. passwords' \in 0 .. MaxPasswords
      BY <1>4, <2>6 DEF AccountsInv, AccountsTypes
    <3> QED
      BY <1>2, <2>4, <2>5, <3>1 DEF AccountsInv, AccountsTypes
  <2>8. ASSUME NEW s \in Sids, A!Live(sessions[s])
        PROVE  sessions[s].account \in Ids /\ sessions[s].account # i
    <3>1. sessions[s] \in A!SessionRows
      BY <2>8, Rows DEF AccountsInv, AccountsTypes
    <3>2. A!Live(accounts[sessions[s].account])
      BY <2>8 DEF AccountsInv, A!SessionsHaveAccounts
    <3> QED
      BY <2>3, <3>1, <3>2 DEF A!SessionRows
  <2>9. A!SessionsHaveAccounts'
    BY <1>2, <2>4, <2>8 DEF AccountsInv, A!SessionsHaveAccounts, A!Live
  <2>10. A!StaleSessionsExplained'
    <3>1. \A id : A!Revoking(id) => A!Revoking(id)'
      BY <1>1, <2>5 DEF A!Revoking, A!At
    <3> SUFFICES ASSUME NEW s \in Sids, A!Live(sessions[s]),
                        sessions[s].password # accounts'[sessions[s].account].password
                 PROVE  \/ sessions[s].late \/ A!Revoking(sessions[s].account)'
                        \/ sessions[s].account \in cut
      BY <1>2 DEF A!StaleSessionsExplained, A!Live
    <3>2. accounts'[sessions[s].account] = accounts[sessions[s].account]
      BY <2>4, <2>8
    <3>3. sessions[s].late \/ A!Revoking(sessions[s].account) \/ sessions[s].account \in cut
      BY <3>2 DEF AccountsInv, A!StaleSessionsExplained
    <3> QED
      BY <1>2, <3>1, <3>3 DEF A!Revoking, A!At
  <2>11. OneAtATime'
    <3> SUFFICES ASSUME ~overlapped
                 PROVE  OneAtATime'
      BY <1>2 DEF OneAtATime
    <3>1. \A u \in Tasks : tasks'[u] = A!Idle
      BY <1>1, <2>5 DEF AccountsInv, OneAtATime
    <3>2. A!LiveIds' # {}
      BY <2>3, <2>4 DEF A!LiveIds, A!Live
    <3> QED
      BY <2>5, <3>1, <3>2 DEF OneAtATime
  <2> QED
    BY <2>6, <2>7, <2>9, <2>10, <2>11 DEF AccountsInv
<1> QED
  BY <1>3, <1>4 DEF A!CreateWrites

LEMMA SetsPasswords ==
  ASSUME A!AccountsAssumption, AccountsInv, NEW t \in Tasks, A!PasswordWrites(t)
  PROVE  AccountsInv'
<1> DEFINE once == tasks[t].op = "reset"
<1>1. tasks[t].op \in {"reset", "change"} /\ tasks[t].pc = "write" /\ A!Goto(t, "erase")
  BY DEF A!PasswordWrites, A!At
<1>3. tasks[t] \in A!RequestTasks /\ tasks[t].target \in Ids /\ tasks[t] # A!Idle
  <2>1. tasks[t] \in A!RequestTasks
    BY <1>1, Requests DEF A!Asked, A!Managed, AccountsInv, AccountsTypes
  <2> QED
    BY <1>1, <2>1, Requests DEF A!RequestTasks
<1>4. PICK id \in Ids : id = tasks[t].target
  BY <1>3
<1>2. /\ UNCHANGED <<sessions, up, cut, overlapped>> /\ passwords' = passwords + 1
      /\ accounts' = IF A!Live(accounts[id])
                       THEN [accounts EXCEPT ![id].password = passwords, ![id].mustChange = once]
                       ELSE accounts
  BY <1>4 DEF A!PasswordWrites
<1>13. once \in BOOLEAN
  OBVIOUS
<1> HIDE DEF once
<1>5. /\ tasks' = [u \in Tasks |-> tasks'[u]]
      /\ \A u \in Tasks \ {t} : tasks'[u] = tasks[u]
      /\ tasks'[t] \in A!RequestTasks /\ tasks'[t] # A!Idle
      /\ tasks'[t].op = tasks[t].op /\ tasks'[t].pc = "erase" /\ tasks'[t].target = id
  <2>1. /\ tasks' = [u \in Tasks |-> tasks'[u]]
        /\ tasks'[t] = [tasks[t] EXCEPT !.pc = "erase"]
        /\ \A u \in Tasks \ {t} : tasks'[u] = tasks[u]
    BY <1>1 DEF A!Goto, AccountsInv, AccountsTypes
  <2>2. /\ tasks'[t] \in A!RequestTasks
        /\ tasks'[t].op = tasks[t].op /\ tasks'[t].pc = "erase" /\ tasks'[t].target = id
    BY <1>3, <1>4, <2>1 DEF A!RequestTasks
  <2> QED
    BY <1>1, <2>1, <2>2, Requests
<1>6. PasswordsLast' /\ passwords + 1 <= MaxPasswords
  <2>1. t \in Setting /\ Setting' \subseteq Setting \ {t}
    BY <1>1, <1>5 DEF Setting, A!SetsPassword
  <2> QED
    BY <1>2, <2>1, OneSet
<1>7. /\ accounts' \in [Ids -> A!AccountRows \cup {A!Unborn, A!Gone}]
      /\ \A i \in Ids : /\ A!Live(accounts'[i]) <=> A!Live(accounts[i])
                        /\ i # id => accounts'[i] = accounts[i]
                        /\ A!Live(accounts[i]) => accounts'[i].role = accounts[i].role
  <2>1. CASE ~A!Live(accounts[id])
    BY <1>2, <2>1 DEF AccountsInv, AccountsTypes
  <2>2. CASE A!Live(accounts[id])
    <3>1. accounts[id] \in A!AccountRows
      BY <1>4, <2>2, Rows DEF AccountsInv, AccountsTypes
    <3>2. /\ accounts' = [i \in Ids |-> accounts'[i]]
          /\ \A i \in Ids \ {id} : accounts'[i] = accounts[i]
          /\ accounts'[id] = [accounts[id] EXCEPT !.password = passwords, !.mustChange = once]
      BY <1>2, <1>4, <2>2 DEF AccountsInv, AccountsTypes
    <3>3. accounts'[id] \in A!AccountRows /\ accounts'[id].role = accounts[id].role
      BY <1>13, <3>1, <3>2 DEF A!AccountRows, AccountsInv, AccountsTypes
    <3>4. A!Live(accounts'[id])
      BY <3>3, Rows
    <3> QED
      BY <2>2, <3>2, <3>3, <3>4 DEF AccountsInv, AccountsTypes
  <2> QED
    BY <2>1, <2>2
<1>8. AccountsTypes'
  <2>1. passwords' \in 0 .. MaxPasswords
    BY <1>2, <1>6 DEF AccountsInv, AccountsTypes
  <2>2. \A u \in Tasks : tasks'[u] \in {A!Idle} \cup A!LoginTasks \cup A!RequestTasks
    BY <1>5 DEF AccountsInv, AccountsTypes
  <2>3. up
    BY <1>3 DEF AccountsInv, AccountsTypes
  <2> QED
    BY <1>2, <1>5, <1>7, <2>1, <2>2, <2>3 DEF AccountsInv, AccountsTypes
<1>9. \A s \in Sids : A!Live(sessions[s]) =>
        sessions[s].account \in Ids /\ A!Live(accounts[sessions[s].account])
  BY Rows DEF AccountsInv, AccountsTypes, A!SessionRows, A!SessionsHaveAccounts
<1>10. A!SessionsHaveAccounts'
  BY <1>2, <1>7, <1>9 DEF A!SessionsHaveAccounts, A!Live
<1>11. A!StaleSessionsExplained'
  <2>1. \A i : A!Revoking(i) => A!Revoking(i)'
    BY <1>1, <1>5 DEF A!Revoking, A!At
  <2>2. A!Revoking(id)'
    BY <1>1, <1>5 DEF A!Revoking, A!At
  <2> SUFFICES ASSUME NEW s \in Sids, A!Live(sessions[s]),
                      sessions[s].password # accounts'[sessions[s].account].password
               PROVE  \/ sessions[s].late \/ sessions[s].account \in cut
                      \/ A!Revoking(sessions[s].account)'
    BY <1>2 DEF A!StaleSessionsExplained, A!Live
  <2>3. CASE sessions[s].account = id
    BY <1>2, <2>2, <2>3 DEF A!Revoking, A!At
  <2>4. CASE sessions[s].account # id
    <3>1. sessions[s].late \/ A!Revoking(sessions[s].account) \/ sessions[s].account \in cut
      BY <1>7, <1>9, <2>4 DEF AccountsInv, A!StaleSessionsExplained
    <3> QED
      BY <1>2, <2>1, <3>1 DEF A!Revoking, A!At
  <2> QED
    BY <2>3, <2>4
<1>12. OneAtATime'
  <2> SUFFICES ASSUME ~overlapped
               PROVE  OneAtATime'
    BY <1>2 DEF OneAtATime
  <2>1. \A u \in Tasks \ {t} : tasks'[u] = A!Idle
    BY <1>3, <1>5 DEF AccountsInv, OneAtATime
  <2>2. \A u \in Tasks : tasks'[u].op \notin {"delete", "setRole"}
    BY <1>1, <1>5, <2>1, Requests
  <2>3. \A u, v \in Tasks : tasks'[u] # A!Idle /\ tasks'[v] # A!Idle => u = v
    BY <2>1
  <2>4. up' => A!LiveIds' # {}
    BY <1>2, <1>7 DEF AccountsInv, OneAtATime, A!LiveIds, A!Live
  <2> QED
    BY <2>2, <2>3, <2>4 DEF OneAtATime
<1> QED
  BY <1>6, <1>8, <1>10, <1>11, <1>12 DEF AccountsInv

\* What a request leaves when its last statement is done.
LEMMA TaskEnds ==
  ASSUME AccountsInv, NEW t \in Tasks, A!End(t)
  PROVE  /\ tasks' \in [Tasks -> {A!Idle} \cup A!LoginTasks \cup A!RequestTasks]
         /\ tasks'[t] = A!Idle /\ A!Idle.op = "none"
         /\ \A u \in Tasks \ {t} : tasks'[u] = tasks[u]
         /\ Setting' \subseteq Setting
         /\ ~overlapped /\ tasks[t] # A!Idle => \A u \in Tasks : tasks'[u] = A!Idle
<1>1. /\ tasks' \in [Tasks -> {A!Idle} \cup A!LoginTasks \cup A!RequestTasks]
      /\ tasks'[t] = A!Idle /\ A!Idle.op = "none"
      /\ \A u \in Tasks \ {t} : tasks'[u] = tasks[u]
  BY Requests DEF A!End, AccountsInv, AccountsTypes
<1>2. Setting' \subseteq Setting
  BY <1>1 DEF Setting, A!SetsPassword
<1>3. ~overlapped /\ tasks[t] # A!Idle => \A u \in Tasks : tasks'[u] = A!Idle
  BY <1>1 DEF AccountsInv, OneAtATime
<1> QED
  BY <1>1, <1>2, <1>3

LEMMA Erases ==
  ASSUME A!AccountsAssumption, AccountsInv, NEW t \in Tasks, A!Erase(t)
  PROVE  AccountsInv'
<1>1. /\ tasks[t].op \in {"reset", "change", "delete"} /\ tasks[t].pc = "erase"
      /\ A!GotoOrEnd(t, tasks[t].op = "delete", "write")
      /\ cut' = IF tasks[t].op = "delete" THEN cut ELSE cut \ {tasks[t].target}
      /\ UNCHANGED <<accounts, passwords, up, overlapped>>
  BY DEF A!Erase, A!At
<1>2. tasks[t] \in A!RequestTasks /\ tasks[t].target \in Ids /\ tasks[t] # A!Idle
  <2>1. tasks[t] \in A!RequestTasks
    BY <1>1, Requests DEF A!Asked, A!Managed, AccountsInv, AccountsTypes
  <2> QED
    BY <1>1, <2>1, Requests DEF A!RequestTasks
<1>3. PICK id \in Ids : id = tasks[t].target
  BY <1>2
<1>4. /\ sessions' = [s \in Sids |-> sessions'[s]]
      /\ \A s \in Sids :
           \/ sessions'[s] = A!Gone
           \/ /\ tasks[t].op = "change" /\ s \in A!SessionsOf(id)
              /\ sessions'[s] = [sessions[s] EXCEPT !.password = accounts[id].password]
           \/ sessions'[s] = sessions[s] /\ s \notin A!SessionsOf(id)
  <2> DEFINE erased == A!Erased(tasks[t])
             spared == IF tasks[t].op = "change" THEN A!SessionsOf(id) \ erased ELSE {}
             after(s) == CASE s \in erased -> A!Gone
                           [] s \in spared ->
                                [sessions[s] EXCEPT !.password = accounts[id].password]
                           [] OTHER -> sessions[s]
  <2>1. sessions' = [s \in Sids |-> after(s)]
    BY <1>3 DEF A!Erase
  <2>2. /\ spared \cap erased = {}
        /\ A!SessionsOf(id) \subseteq erased \cup spared
        /\ spared \subseteq A!SessionsOf(id)
        /\ spared # {} => tasks[t].op = "change"
    BY <1>3 DEF A!Erased
  <2> HIDE DEF erased, spared
  <2>3. \A s \in Sids :
          \/ s \in erased /\ after(s) = A!Gone
          \/ /\ s \in spared
             /\ after(s) = [sessions[s] EXCEPT !.password = accounts[id].password]
          \/ s \notin erased /\ s \notin spared /\ after(s) = sessions[s]
    BY <2>2
  <2> HIDE DEF after
  <2>4. sessions' = [s \in Sids |-> sessions'[s]] /\ \A s \in Sids : sessions'[s] = after(s)
    BY <2>1
  <2> QED
    BY <2>2, <2>3, <2>4
<1>5. ASSUME NEW s \in A!SessionsOf(id), tasks[t].op = "change",
             sessions'[s] = [sessions[s] EXCEPT !.password = accounts[id].password]
      PROVE  /\ sessions'[s] \in A!SessionRows
             /\ sessions'[s].account = id /\ sessions'[s].password = accounts[id].password
             /\ A!Live(accounts[id])
  <2>1. s \in Sids /\ sessions[s] \in A!SessionRows /\ sessions[s].account = id
    BY Rows DEF A!SessionsOf, AccountsInv, AccountsTypes
  <2>2. A!Live(accounts[id]) /\ accounts[id] \in A!AccountRows
    BY <2>1, Rows DEF AccountsInv, AccountsTypes, A!SessionsHaveAccounts
  <2>3. accounts[id].password \in 0 .. MaxPasswords
    BY <2>2 DEF A!AccountRows
  <2>4. sessions'[s] \in A!SessionRows
    BY <1>5, <2>1, <2>3 DEF A!SessionRows
  <2>5. sessions'[s].account = id /\ sessions'[s].password = accounts[id].password
    BY <1>5, <2>1 DEF A!SessionRows
  <2> QED
    BY <2>2, <2>4, <2>5
<1>6. sessions' \in [Sids -> A!SessionRows \cup {A!Unborn, A!Gone}]
  <2>1. \A s \in Sids : sessions'[s] \in A!SessionRows \cup {A!Unborn, A!Gone}
    BY <1>4, <1>5 DEF AccountsInv, AccountsTypes
  <2> QED
    BY <1>4, <2>1
<1>7. CASE tasks[t].op = "delete"
  <2>1. Quiet
    BY <1>1, <1>4, <1>6, <1>7, Rows DEF Quiet
  <2>2. A!Goto(t, "write")
    BY <1>1, <1>7 DEF A!GotoOrEnd
  <2> QED
    BY <1>1, <1>2, <1>7, <2>1, <2>2, Goes
<1>8. CASE tasks[t].op # "delete"
  <2>1. A!End(t)
    BY <1>1, <1>8 DEF A!GotoOrEnd
  <2>2. AccountsTypes'
    BY <1>1, <1>6, <2>1, TaskEnds DEF AccountsInv, AccountsTypes
  <2>3. PasswordsLast'
    BY <1>1, <2>1, TaskEnds, NoMoreToSet
  <2>4. A!SessionsHaveAccounts'
    <3> SUFFICES ASSUME NEW s \in Sids, A!Live(sessions'[s])
                 PROVE  A!Live(accounts[sessions'[s].account])
      BY <1>1 DEF A!SessionsHaveAccounts, A!Live
    <3>1. CASE sessions'[s] = sessions[s]
      BY <3>1 DEF AccountsInv, A!SessionsHaveAccounts
    <3>2. CASE sessions'[s] # sessions[s]
      BY <1>4, <1>5, <3>2, Rows
    <3> QED
      BY <3>1, <3>2
  <2>5. A!StaleSessionsExplained'
    <3> SUFFICES ASSUME NEW s \in Sids, A!Live(sessions'[s]),
                        sessions'[s].password # accounts[sessions'[s].account].password
                 PROVE  \/ sessions'[s].late \/ sessions'[s].account \in cut'
                        \/ A!Revoking(sessions[s].account)'
      BY <1>1 DEF A!StaleSessionsExplained, A!Live
    <3>1. sessions'[s] = sessions[s] /\ sessions[s].account # id
      BY <1>4, <1>5, Rows DEF A!SessionsOf
    <3>2. sessions[s].late \/ A!Revoking(sessions[s].account) \/ sessions[s].account \in cut
      BY <3>1 DEF AccountsInv, A!StaleSessionsExplained
    <3>3. A!Revoking(sessions[s].account) =>
            \E u \in Tasks : A!At(u, {"reset", "change"}, "erase")'
                               /\ tasks'[u].target = sessions[s].account
      BY <1>3, <2>1, <3>1, TaskEnds DEF A!Revoking, A!At
    <3>4. sessions[s].account \in cut => sessions[s].account \in cut'
      BY <1>1, <1>3, <1>8, <3>1
    <3> QED
      BY <3>1, <3>2, <3>3, <3>4 DEF A!Revoking
  <2>6. OneAtATime'
    <3>1. \A u \in Tasks : ~overlapped => tasks'[u] = A!Idle
      BY <1>2, <2>1, TaskEnds
    <3> QED
      BY <1>1, <3>1, Requests DEF AccountsInv, OneAtATime, A!LiveIds, A!Managing
  <2> QED
    BY <2>2, <2>3, <2>4, <2>5, <2>6 DEF AccountsInv
<1> QED
  BY <1>7, <1>8

LEMMA Deletes ==
  ASSUME A!AccountsAssumption, AccountsInv, NEW t \in Tasks, A!DeleteWrites(t)
  PROVE  AccountsInv'
<1>1. /\ tasks[t].op = "delete" /\ tasks[t].pc = "write" /\ A!End(t)
      /\ UNCHANGED <<passwords, up, cut, overlapped>>
  BY DEF A!DeleteWrites, A!At
<1>2. /\ tasks[t] \in A!RequestTasks /\ tasks[t] # A!Idle
      /\ tasks[t].target \in Ids /\ tasks[t].account \in Ids
  <2>1. tasks[t] \in A!RequestTasks
    BY <1>1, Requests DEF A!Asked, AccountsInv, AccountsTypes
  <2> QED
    BY <1>1, <2>1, Requests DEF A!RequestTasks
<1>3. PICK id \in Ids : id = tasks[t].target
  BY <1>2
<1>4. /\ accounts' = [accounts EXCEPT ![id] = A!Gone]
      /\ sessions' = A!Without(A!SessionsOf(id))
  BY <1>3 DEF A!DeleteWrites, A!Cascaded
<1>5. /\ accounts' \in [Ids -> A!AccountRows \cup {A!Unborn, A!Gone}]
      /\ \A i \in Ids \ {id} : accounts'[i] = accounts[i]
  BY <1>4 DEF AccountsInv, AccountsTypes
<1>6. \A s \in Sids : A!Live(sessions'[s]) =>
        /\ sessions'[s] = sessions[s] /\ sessions[s].account \in Ids \ {id}
  <2> SUFFICES ASSUME NEW s \in Sids, A!Live(sessions'[s])
               PROVE  sessions'[s] = sessions[s] /\ sessions[s].account \in Ids \ {id}
    OBVIOUS
  <2>1. sessions'[s] = sessions[s] /\ s \notin A!SessionsOf(id)
    BY <1>4, Rows DEF A!Without
  <2>2. sessions[s] \in A!SessionRows /\ sessions[s].account # id
    BY <2>1, Rows DEF A!SessionsOf, AccountsInv, AccountsTypes
  <2> QED
    BY <2>1, <2>2 DEF A!SessionRows
<1>7. AccountsTypes'
  BY <1>1, <1>4, <1>5, SessionRowsAlone, TaskEnds DEF AccountsInv, AccountsTypes
<1>8. PasswordsLast'
  BY <1>1, TaskEnds, NoMoreToSet
<1>9. A!SessionsHaveAccounts'
  BY <1>5, <1>6 DEF AccountsInv, A!SessionsHaveAccounts, A!Live
<1>10. A!StaleSessionsExplained'
  <2> SUFFICES ASSUME NEW s \in Sids, A!Live(sessions'[s]),
                      sessions'[s].password # accounts'[sessions'[s].account].password
               PROVE  \/ sessions'[s].late \/ sessions'[s].account \in cut
                      \/ A!Revoking(sessions[s].account)'
    BY <1>1 DEF A!StaleSessionsExplained, A!Live
  <2>1. sessions[s].late \/ A!Revoking(sessions[s].account) \/ sessions[s].account \in cut
    BY <1>5, <1>6 DEF AccountsInv, A!StaleSessionsExplained
  <2>2. A!Revoking(sessions[s].account) =>
          \E u \in Tasks : A!At(u, {"reset", "change"}, "erase")'
                             /\ tasks'[u].target = sessions[s].account
    BY <1>1, TaskEnds DEF A!Revoking, A!At
  <2> QED
    BY <1>6, <2>1, <2>2 DEF A!Revoking
<1>11. OneAtATime'
  <2> SUFFICES ASSUME ~overlapped
               PROVE  OneAtATime'
    BY <1>1 DEF OneAtATime
  <2>1. \A u \in Tasks : tasks'[u] = A!Idle
    BY <1>1, <1>2, TaskEnds
  <2>2. A!Live(accounts[tasks[t].account]) /\ tasks[t].account # id
    BY <1>1, <1>3 DEF AccountsInv, OneAtATime
  <2>3. A!LiveIds' # {}
    BY <1>2, <1>5, <2>2 DEF A!LiveIds, A!Live
  <2> QED
    BY <2>1, <2>3, Requests DEF OneAtATime
<1> QED
  BY <1>7, <1>8, <1>9, <1>10, <1>11 DEF AccountsInv

LEMMA SetsRoles ==
  ASSUME A!AccountsAssumption, AccountsInv, NEW t \in Tasks, A!SetRoleWrites(t)
  PROVE  AccountsInv' /\ (~overlapped => ~A!DemotesTheLast(t))
<1>1. /\ tasks[t].op = "setRole" /\ tasks[t].pc = "write" /\ A!End(t)
      /\ UNCHANGED <<sessions, passwords, up, cut, overlapped>>
  BY DEF A!SetRoleWrites, A!At
<1>2. /\ tasks[t] \in A!RequestTasks /\ tasks[t] # A!Idle
      /\ tasks[t].target \in Ids /\ tasks[t].role \in A!Roles
  <2>1. tasks[t] \in A!RequestTasks
    BY <1>1, Requests DEF A!Asked, A!Managed, AccountsInv, AccountsTypes
  <2> QED
    BY <1>1, <2>1, Requests DEF A!RequestTasks
<1>3. PICK id \in Ids, role \in A!Roles : id = tasks[t].target /\ role = tasks[t].role
  BY <1>2
<1>4. accounts' = IF A!Live(accounts[id]) THEN [accounts EXCEPT ![id].role = role]
                                          ELSE accounts
  BY <1>3 DEF A!SetRoleWrites
<1>5. /\ accounts' \in [Ids -> A!AccountRows \cup {A!Unborn, A!Gone}]
      /\ \A i \in Ids : /\ A!Live(accounts'[i]) <=> A!Live(accounts[i])
                        /\ i # id => accounts'[i] = accounts[i]
                        /\ A!Live(accounts[i]) => accounts'[i].password = accounts[i].password
      /\ A!Live(accounts[id]) => accounts'[id].role = role
  <2>1. CASE ~A!Live(accounts[id])
    BY <1>4, <2>1 DEF AccountsInv, AccountsTypes
  <2>2. CASE A!Live(accounts[id])
    <3>1. accounts[id] \in A!AccountRows
      BY <2>2, Rows DEF AccountsInv, AccountsTypes
    <3>2. /\ accounts' = [i \in Ids |-> accounts'[i]]
          /\ \A i \in Ids \ {id} : accounts'[i] = accounts[i]
          /\ accounts'[id] = [accounts[id] EXCEPT !.role = role]
      BY <1>4, <2>2 DEF AccountsInv, AccountsTypes
    <3>3. /\ accounts'[id] \in A!AccountRows /\ accounts'[id].password = accounts[id].password
          /\ accounts'[id].role = role
      BY <3>1, <3>2 DEF A!AccountRows
    <3> QED
      BY <2>2, <3>2, <3>3, Rows DEF AccountsInv, AccountsTypes
  <2> QED
    BY <2>1, <2>2
<1>6. AccountsTypes'
  BY <1>1, <1>5, TaskEnds DEF AccountsInv, AccountsTypes
<1>7. PasswordsLast'
  BY <1>1, TaskEnds, NoMoreToSet
<1>8. \A s \in Sids : A!Live(sessions[s]) =>
        sessions[s].account \in Ids /\ A!Live(accounts[sessions[s].account])
  BY Rows DEF AccountsInv, AccountsTypes, A!SessionRows, A!SessionsHaveAccounts
<1>9. A!SessionsHaveAccounts'
  BY <1>1, <1>5, <1>8 DEF A!SessionsHaveAccounts, A!Live
<1>10. A!StaleSessionsExplained'
  <2> SUFFICES ASSUME NEW s \in Sids, A!Live(sessions[s]),
                      sessions[s].password # accounts'[sessions[s].account].password
               PROVE  \/ sessions[s].late \/ sessions[s].account \in cut
                      \/ A!Revoking(sessions[s].account)'
    BY <1>1 DEF A!StaleSessionsExplained, A!Live
  <2>1. sessions[s].late \/ A!Revoking(sessions[s].account) \/ sessions[s].account \in cut
    BY <1>5, <1>8 DEF AccountsInv, A!StaleSessionsExplained
  <2>2. A!Revoking(sessions[s].account) =>
          \E u \in Tasks : A!At(u, {"reset", "change"}, "erase")'
                             /\ tasks'[u].target = sessions[s].account
    BY <1>1, TaskEnds DEF A!Revoking, A!At
  <2> QED
    BY <1>1, <2>1, <2>2 DEF A!Revoking
<1>11. OneAtATime'
  <2> SUFFICES ASSUME ~overlapped
               PROVE  OneAtATime'
    BY <1>1 DEF OneAtATime
  <2>1. \A u \in Tasks : tasks'[u] = A!Idle
    BY <1>1, <1>2, TaskEnds
  <2>2. up' => A!LiveIds' # {}
    BY <1>1, <1>5 DEF AccountsInv, OneAtATime, A!LiveIds, A!Live
  <2> QED
    BY <2>1, <2>2, Requests DEF OneAtATime
<1>12. ASSUME ~overlapped, A!Managing # {}
       PROVE  A!Managing' # {}
  <2>1. role \notin A!Managers /\ id \in A!Managing => \E m \in A!Managing : m # id
    BY <1>1, <1>3, <1>12 DEF AccountsInv, OneAtATime
  <2>2. \A m \in A!Managing : m # id => m \in A!Managing'
    BY <1>5 DEF A!Managing, A!LiveIds, A!Live
  <2>3. role \in A!Managers /\ id \in A!Managing => id \in A!Managing'
    BY <1>5 DEF A!Managing, A!LiveIds, A!Live, A!Managers
  <2> QED
    BY <1>12, <2>1, <2>2, <2>3
<1> QED
  BY <1>6, <1>7, <1>9, <1>10, <1>11, <1>12 DEF AccountsInv, A!DemotesTheLast

LEMMA SessionEnds ==
  ASSUME A!AccountsAssumption, AccountsInv, NEW s \in Sids, A!EndSession(s)
  PROVE  AccountsInv'
<1>1. /\ sessions' = A!Without({s})
      /\ UNCHANGED <<accounts, tasks, passwords, up, cut, overlapped>>
  BY DEF A!EndSession
<1>2. AccountsTypes' /\ OneAtATime'
  BY <1>1, SessionRowsAlone
  DEF AccountsInv, AccountsTypes, OneAtATime, A!LiveIds, A!Managing
<1>3. PasswordsLast'
  <2>1. Setting' \subseteq Setting
    BY <1>1 DEF Setting
  <2> QED
    BY <1>1, <2>1, NoMoreToSet
<1>4. A!SessionsHaveAccounts' /\ A!StaleSessionsExplained'
  <2>1. \A id : A!Revoking(id) => A!Revoking(id)'
    BY <1>1 DEF A!Revoking, A!At
  <2>2. \A z \in Sids : sessions'[z] = sessions[z] \/ ~A!Live(sessions'[z])
    BY <1>1, SessionRowsAlone
  <2> QED
    BY <1>1, <2>1, <2>2, SessionsStayOrEnd
<1> QED
  BY <1>2, <1>3, <1>4 DEF AccountsInv

LEMMA Starts ==
  ASSUME A!AccountsAssumption, AccountsInv, A!Start
  PROVE  AccountsInv'
<1>1. /\ ~up /\ up' = TRUE /\ UNCHANGED <<sessions, tasks, cut, overlapped>>
      /\ \A t \in Tasks : tasks[t] = A!Idle
  BY DEF A!Start, AccountsInv, AccountsTypes
<1>2. A!StaleSessionsExplained' <=>
        \A s \in Sids :
          A!Live(sessions[s]) /\ sessions[s].password # accounts'[sessions[s].account].password
            => \/ sessions[s].late \/ sessions[s].account \in cut
               \/ A!Revoking(sessions[s].account)
  BY <1>1 DEF A!StaleSessionsExplained, A!Live, A!Revoking, A!At
<1>3. CASE A!LiveIds # {}
  <2>1. UNCHANGED <<accounts, passwords>>
    BY <1>3 DEF A!Start
  <2>2. Setting' = Setting
    BY <1>1 DEF Setting
  <2>3. A!StaleSessionsExplained'
    BY <1>2, <2>1 DEF AccountsInv, A!StaleSessionsExplained
  <2>4. OneAtATime'
    BY <1>1, <1>3, <2>1 DEF AccountsInv, OneAtATime, A!LiveIds, A!Managing
  <2>5. AccountsTypes' /\ A!SessionsHaveAccounts'
    BY <1>1, <2>1 DEF AccountsInv, AccountsTypes, A!SessionsHaveAccounts
  <2> QED
    BY <2>1, <2>2, <2>3, <2>4, <2>5, NoMoreToSet DEF AccountsInv
<1>4. CASE A!LiveIds = {}
  <2>1. passwords < MaxPasswords /\ passwords' = passwords + 1
    BY <1>4 DEF A!Start, A!CanBootstrap
  <2>2. PICK i \in A!FreshIds :
          accounts' = [accounts EXCEPT ![i] = A!AccountRow(Bootstrap, "admin", passwords, TRUE)]
    BY <1>4 DEF A!Start
  <2> DEFINE row == A!AccountRow(Bootstrap, "admin", passwords, TRUE)
  <2>3. row \in A!AccountRows
    BY DEF A!AccountRow, A!AccountRows, A!Roles, A!AccountsAssumption, AccountsInv, AccountsTypes
  <2> HIDE DEF row
  <2>4. /\ accounts' \in [Ids -> A!AccountRows \cup {A!Unborn, A!Gone}]
        /\ i \in Ids /\ accounts'[i] = row /\ A!Live(row)
    BY <2>2, <2>3, Rows DEF row, A!FreshIds, AccountsInv, AccountsTypes
  <2>5. \A s \in Sids : ~A!Live(sessions[s])
    <3> SUFFICES ASSUME NEW s \in Sids, A!Live(sessions[s])
                 PROVE  FALSE
      OBVIOUS
    <3>1. sessions[s].account \in Ids
      BY Rows DEF A!SessionRows, AccountsInv, AccountsTypes
    <3>2. A!Live(accounts[sessions[s].account])
      BY DEF AccountsInv, A!SessionsHaveAccounts
    <3> QED
      BY <1>4, <3>1, <3>2 DEF A!LiveIds
  <2>6. passwords' \in 0 .. MaxPasswords
    BY <2>1 DEF AccountsInv, AccountsTypes, A!AccountsAssumption
  <2>7. AccountsTypes'
    BY <1>1, <2>4, <2>6 DEF AccountsInv, AccountsTypes
  <2>8. PasswordsLast'
    <3>1. Setting' = {}
      BY <1>1, Requests DEF Setting, A!SetsPassword
    <3> QED
      BY <2>6, <3>1, FS_EmptySet DEF PasswordsLast
  <2>9. A!SessionsHaveAccounts' /\ A!StaleSessionsExplained'
    BY <1>1, <1>2, <2>5 DEF A!SessionsHaveAccounts, A!Live
  <2>10. OneAtATime'
    <3>1. A!LiveIds' # {}
      BY <2>4 DEF A!LiveIds, A!Live
    <3> QED
      BY <1>1, <3>1, Requests DEF OneAtATime
  <2> QED
    BY <2>7, <2>8, <2>9, <2>10 DEF AccountsInv
<1> QED
  BY <1>3, <1>4

\* Who a request had its password written for, and its sessions not deleted yet.
LEMMA HalfWay ==
  ASSUME AccountsInv, NEW ts \in SUBSET Tasks
  PROVE  A!HalfRevoked(ts) \in SUBSET Ids
<1> SUFFICES ASSUME NEW t \in ts, A!At(t, {"reset", "change"}, "erase")
             PROVE  tasks[t].target \in Ids
  BY DEF A!HalfRevoked
<1>1. tasks[t] \in A!RequestTasks
  BY Requests DEF A!At, A!Asked, A!Managed, AccountsInv, AccountsTypes
<1> QED
  BY <1>1 DEF A!RequestTasks

LEMMA RequestFails ==
  ASSUME A!AccountsAssumption, AccountsInv, NEW t \in Tasks, A!Fails(t)
  PROVE  AccountsInv'
<1>1. /\ cut' = cut \cup A!HalfRevoked({t})
      /\ UNCHANGED <<accounts, sessions, passwords, up, overlapped>>
  BY DEF A!Fails
<1>2. /\ tasks' \in [Tasks -> {A!Idle} \cup A!LoginTasks \cup A!RequestTasks]
      /\ tasks'[t] = A!Idle /\ \A u \in Tasks \ {t} : tasks'[u] = tasks[u]
      /\ A!Idle.op = "none"
  BY Requests DEF A!Fails, A!End, AccountsInv, AccountsTypes
<1>3. AccountsTypes'
  BY <1>1, <1>2, HalfWay DEF AccountsInv, AccountsTypes
<1>4. PasswordsLast'
  <2>1. Setting' \subseteq Setting
    BY <1>2 DEF Setting, A!SetsPassword
  <2> QED
    BY <1>1, <2>1, NoMoreToSet
<1>5. A!SessionsHaveAccounts' /\ A!StaleSessionsExplained'
  <2>1. ASSUME NEW id, A!Revoking(id)
        PROVE  A!Revoking(id)' \/ id \in cut'
    <3>1. PICK u \in Tasks : A!At(u, {"reset", "change"}, "erase") /\ tasks[u].target = id
      BY <2>1 DEF A!Revoking
    <3>2. CASE u = t
      BY <1>1, <3>1, <3>2 DEF A!HalfRevoked
    <3>3. CASE u # t
      BY <1>2, <3>1, <3>3 DEF A!Revoking, A!At
    <3> QED
      BY <3>2, <3>3
  <2> QED
    BY <1>1, <2>1, SessionsStayOrEnd
<1>6. OneAtATime'
  BY <1>1, <1>2 DEF AccountsInv, OneAtATime, A!LiveIds, A!Managing
<1> QED
  BY <1>3, <1>4, <1>5, <1>6 DEF AccountsInv

LEMMA AccountsCrash ==
  ASSUME A!AccountsAssumption, AccountsInv, A!Crash
  PROVE  AccountsInv'
<1>1. /\ up' = FALSE /\ tasks' = [t \in Tasks |-> A!Idle]
      /\ cut' = cut \cup A!HalfRevoked(Tasks)
      /\ UNCHANGED <<accounts, sessions, passwords, overlapped>>
  BY DEF A!Crash
<1>2. cut' \in SUBSET Ids
  BY <1>1, HalfWay DEF AccountsInv, AccountsTypes
<1>3. \A id : A!Revoking(id) => id \in cut'
  BY <1>1 DEF A!Revoking, A!HalfRevoked
<1>4. AccountsTypes'
  BY <1>1, <1>2 DEF AccountsInv, AccountsTypes
<1>5. PasswordsLast'
  <2>1. Setting' \subseteq Setting
    BY <1>1, Requests DEF Setting, A!SetsPassword
  <2> QED
    BY <1>1, <2>1, NoMoreToSet
<1>6. A!SessionsHaveAccounts' /\ A!StaleSessionsExplained'
  BY <1>1, <1>3, SessionsStayOrEnd
<1>7. OneAtATime'
  BY <1>1, Requests DEF OneAtATime
<1> QED
  BY <1>4, <1>5, <1>6, <1>7 DEF AccountsInv

LEMMA AccountsStutter ==
  ASSUME AccountsInv, UNCHANGED A!vars
  PROVE  AccountsInv'
  BY DEF A!vars, AccountsInv, AccountsTypes, PasswordsLast, Setting, OneAtATime,
         A!SessionsHaveAccounts, A!StaleSessionsExplained, A!Revoking, A!At, A!LiveIds, A!Managing

LEMMA AccountsSteps ==
  ASSUME A!AccountsAssumption, AccountsInv, A!Next
  PROVE  AccountsInv'
<1>1. ASSUME NEW t \in Tasks, NEW n \in Names, A!LoginReads(t, n)
      PROVE  AccountsInv'
  BY <1>1, Logins
<1>2. ASSUME NEW t \in Tasks, NEW s \in Sids, NEW op \in A!Asked, A!Ask(t, s, op)
      PROVE  AccountsInv'
  BY <1>2, Asks
<1>3. ASSUME NEW t \in Tasks,
             \/ A!GiveUp(t) \/ A!CreateReads(t) \/ A!PasswordReads(t)
             \/ A!DeleteReads(t) \/ A!SetRoleReads(t) \/ A!SetRoleCounts(t)
      PROVE  AccountsInv'
  BY <1>3, Reads
<1>4. ASSUME NEW t \in Tasks,
             \/ A!Admit(t) \/ A!LoginWrites(t) \/ A!CreateWrites(t) \/ A!PasswordWrites(t)
             \/ A!Erase(t) \/ A!DeleteWrites(t) \/ A!SetRoleWrites(t) \/ A!Fails(t)
      PROVE  AccountsInv'
  BY <1>4, Admits, LoginEnds, Creates, SetsPasswords, Erases, Deletes, SetsRoles, RequestFails
<1>5. ASSUME NEW n \in Names, A!LoginUnknown(n)
      PROVE  AccountsInv'
  BY <1>5, AccountsStutter DEF A!LoginUnknown
<1>6. ASSUME NEW s \in Sids, A!EndSession(s)
      PROVE  AccountsInv'
  BY <1>6, SessionEnds
<1> QED
  BY <1>1, <1>2, <1>3, <1>4, <1>5, <1>6, Starts, AccountsCrash DEF A!Next

LEMMA AccountsHold ==
  ASSUME AccountsInv
  PROVE  A!Consistent /\ A!StaleSessionsExplained /\ A!OneAccountAliveUnlessOverlapped
<1>1. A!TypeOK
  BY DEF AccountsInv, AccountsTypes, A!TypeOK
<1> QED
  BY <1>1 DEF AccountsInv, OneAtATime, A!Consistent, A!OneAccountAliveUnlessOverlapped,
              A!OneAccountAlive

-----------------------------------------------------------------------------
(* The lockout: the inductive invariant.                                   *)

Asking ==
  [stage : {"counting", "verifying", "locked"}, ip : Ips, right : BOOLEAN, at : Nat,
   patient : BOOLEAN]
Pausing == [stage : {"pausing"}, ip : Ips, locked : BOOLEAN, until : Nat]

SignInTypes ==
  /\ now \in 0 .. MaxClock
  /\ attempts \in SUBSET [ip : Ips, at : Nat, outcome : L!Outcomes, nth : Nat]
  /\ IsFiniteSet(attempts)
  /\ calls \in [Calls -> {L!Idle} \cup Asking \cup Pausing]
  /\ told \in [Ips -> Nat]

\* Calls let through whose guess, if it is wrong, will count in the window from there.
Verifying(ip, from) ==
  {call \in Calls : /\ calls[call].stage = "verifying" /\ calls[call].ip = ip
                    /\ from <= calls[call].at /\ calls[call].at <= from + WINDOW}

\* Wrong guesses, and those that may become one.
GuessesToCome ==
  \A ip \in Ips, from \in Nat :
    L!Guesses(ip, from) + Cardinality(Verifying(ip, from)) < THRESHOLD + Cardinality(Calls)

\* A row was written by a call that has paused since, or that a kill cut off before any
\* other that now pauses.
Rested(ip) ==
  \A row \in attempts : row.ip = ip =>
    \/ row.at + DELAY <= now
    \/ \E call \in Calls :
         calls[call] \in Pausing /\ calls[call].ip = ip /\ row.at + DELAY <= calls[call].until

\* What was told when nobody was asking is about every row there is.
Waits ==
  /\ \A row \in attempts : row.at <= now
  /\ \A call \in Calls : calls[call] \in Asking => calls[call].at <= now
  /\ \A call \in Calls : calls[call] # L!Idle => told[calls[call].ip] = L!Never
  /\ \A row \in attempts : told[row.ip] # L!Never => row.at + DELAY <= told[row.ip]
  /\ \A call \in Calls, ip \in Ips :
       calls[call] \in Pausing /\ calls[call].ip = ip => Rested(ip)

\* Who waited is alone until its failures are counted, and none of them is recent.
Patient ==
  \A call \in Calls : calls[call] \in Asking /\ calls[call].patient =>
    /\ calls[call].stage # "locked"
    /\ calls[call].stage = "counting" =>
         /\ \A other \in Calls \ {call} :
              calls[other] # L!Idle => calls[other].ip # calls[call].ip
         /\ \A row \in attempts : row.ip = calls[call].ip => row.at + WINDOW < calls[call].at

SignInInv == SignInTypes /\ GuessesToCome /\ Waits /\ Patient

-----------------------------------------------------------------------------
(* The lockout: counting.                                                  *)

LEMMA Stages ==
  /\ L!Idle.stage = "idle" /\ L!Idle \notin Asking /\ L!Idle \notin Pausing
  /\ \A call \in Asking : call.stage \in {"counting", "verifying", "locked"}
  /\ \A call \in Pausing : call.stage = "pausing" /\ call \notin Asking
  BY DEF L!Idle, Asking, Pausing

\* The module of finite sets is one, whichever module extends it.
LEMMA SignInCounting ==
  \A S : L!Cardinality(S) = Cardinality(S) /\ (L!IsFiniteSet(S) <=> IsFiniteSet(S))
  BY DEF L!Cardinality, Cardinality, L!IsFiniteSet, IsFiniteSet

\* The rows that count as guesses.
GuessRows(ip, from) ==
  {row \in attempts : row.ip = ip /\ row.outcome = "bad_password"
                        /\ from <= row.at /\ row.at <= from + WINDOW}

LEMMA CountsAreNumbers ==
  ASSUME L!SignInAssumption, IsFiniteSet(attempts), NEW ip, NEW from
  PROVE  /\ IsFiniteSet(GuessRows(ip, from)) /\ IsFiniteSet(Verifying(ip, from))
         /\ L!Guesses(ip, from) = Cardinality(GuessRows(ip, from))
         /\ L!Guesses(ip, from) \in Nat
         /\ Cardinality(Verifying(ip, from)) \in Nat
         /\ Cardinality(Verifying(ip, from)) <= Cardinality(Calls)
         /\ Cardinality(Calls) \in Nat
<1>1. Verifying(ip, from) \subseteq Calls /\ IsFiniteSet(Calls)
  BY SignInCounting DEF Verifying, L!SignInAssumption
<1>2. GuessRows(ip, from) \subseteq attempts
  BY DEF GuessRows
<1>3. IsFiniteSet(GuessRows(ip, from))
  BY <1>2, FS_Subset
<1>4. L!Guesses(ip, from) = Cardinality(GuessRows(ip, from))
  BY SignInCounting DEF L!Guesses, GuessRows
<1> QED
  BY <1>1, <1>3, <1>4, FS_Subset, FS_CardinalityType

\* Rows and calls are as many as they were, or fewer.
LEMMA NothingMoreToCome ==
  ASSUME L!SignInAssumption, SignInTypes, GuessesToCome,
         \A ip \in Ips, from \in Nat :
           GuessRows(ip, from)' = GuessRows(ip, from)
             /\ Verifying(ip, from)' \subseteq Verifying(ip, from)
  PROVE  GuessesToCome'
<1> SUFFICES ASSUME NEW ip \in Ips, NEW from \in Nat
             PROVE  L!Guesses(ip, from)' + Cardinality(Verifying(ip, from)')
                      < THRESHOLD + Cardinality(Calls)
  BY DEF GuessesToCome
<1>0. IsFiniteSet(attempts)
  BY DEF SignInTypes
<1>1. Cardinality(Verifying(ip, from)') <= Cardinality(Verifying(ip, from))
        /\ Cardinality(Verifying(ip, from)') \in Nat
  BY <1>0, CountsAreNumbers, FS_Subset, FS_CardinalityType
<1>2. L!Guesses(ip, from)' = Cardinality(GuessRows(ip, from))
  BY SignInCounting DEF L!Guesses, GuessRows
<1>3. L!Guesses(ip, from) + Cardinality(Verifying(ip, from)) < THRESHOLD + Cardinality(Calls)
  BY DEF GuessesToCome
<1> QED
  BY <1>0, <1>1, <1>2, <1>3, CountsAreNumbers DEF L!SignInAssumption

\* A call that its address's failures let through finds the window under the threshold.
LEMMA LetThrough ==
  ASSUME L!SignInAssumption, SignInTypes, GuessesToCome, NEW call \in Calls,
         calls[call] \in Asking,
         L!Allowed(L!Recent(calls[call].ip, L!WindowStart(calls[call].at))),
         attempts' = attempts,
         \A ip \in Ips, from \in Nat :
           \/ Verifying(ip, from)' \subseteq Verifying(ip, from)
           \/ /\ Verifying(ip, from)' \subseteq Calls
              /\ ip = calls[call].ip
              /\ from <= calls[call].at /\ calls[call].at <= from + WINDOW
  PROVE  GuessesToCome'
<1> DEFINE who == calls[call].ip
           at == calls[call].at
           failures == {row \in attempts : row.ip = who /\ row.at + WINDOW >= at}
<1>0. IsFiniteSet(attempts) /\ IsFiniteSet(Calls) /\ at \in Nat
  BY SignInCounting DEF SignInTypes, L!SignInAssumption, Asking
<1>1. Cardinality(failures) < THRESHOLD
  BY SignInCounting DEF L!Allowed, L!Recent, L!WindowStart
<1>2. IsFiniteSet(failures)
  <2>1. failures \subseteq attempts
    OBVIOUS
  <2> QED
    BY <1>0, <2>1, FS_Subset
<1> SUFFICES ASSUME NEW ip \in Ips, NEW from \in Nat
             PROVE  L!Guesses(ip, from)' + Cardinality(Verifying(ip, from)')
                      < THRESHOLD + Cardinality(Calls)
  BY DEF GuessesToCome
<1>3. L!Guesses(ip, from)' = Cardinality(GuessRows(ip, from))
  BY SignInCounting DEF L!Guesses, GuessRows
<1>4. CASE Verifying(ip, from)' \subseteq Verifying(ip, from)
  <2>1. Cardinality(Verifying(ip, from)') <= Cardinality(Verifying(ip, from))
          /\ Cardinality(Verifying(ip, from)') \in Nat
    BY <1>0, <1>4, CountsAreNumbers, FS_Subset, FS_CardinalityType
  <2>2. L!Guesses(ip, from) + Cardinality(Verifying(ip, from)) < THRESHOLD + Cardinality(Calls)
    BY DEF GuessesToCome
  <2> QED
    BY <1>0, <1>3, <2>1, <2>2, CountsAreNumbers DEF L!SignInAssumption
<1>5. CASE /\ Verifying(ip, from)' \subseteq Calls
           /\ ip = who
           /\ from <= at /\ at <= from + WINDOW
  <2>1. GuessRows(ip, from) \subseteq failures
    <3> SUFFICES ASSUME NEW row \in attempts, row.ip = ip, from <= row.at
                 PROVE  row.at + WINDOW >= at
      BY <1>5 DEF GuessRows
    <3>1. row.at \in Nat
      BY DEF SignInTypes
    <3> QED
      BY <1>0, <1>5, <3>1 DEF L!SignInAssumption
  <2>2. Cardinality(GuessRows(ip, from)) <= Cardinality(failures)
    BY <1>2, <2>1, FS_Subset
  <2>3. Cardinality(Verifying(ip, from)') <= Cardinality(Calls)
          /\ Cardinality(Verifying(ip, from)') \in Nat
    BY <1>0, <1>5, FS_Subset, FS_CardinalityType
  <2>4. Cardinality(failures) \in Nat /\ Cardinality(Calls) \in Nat
          /\ Cardinality(GuessRows(ip, from)) \in Nat
    BY <1>0, <1>2, CountsAreNumbers, FS_CardinalityType
  <2> HIDE DEF failures
  <2> QED
    BY <1>1, <1>3, <2>2, <2>3, <2>4 DEF L!SignInAssumption
<1> QED
  BY <1>4, <1>5

\* A wrong guess that was to come has come.
LEMMA GuessHasCome ==
  ASSUME L!SignInAssumption, SignInTypes, GuessesToCome, NEW call \in Calls, NEW row,
         calls[call] \in Asking, calls[call].stage = "verifying",
         attempts' = attempts \cup {row},
         row.ip = calls[call].ip, row.at = calls[call].at,
         \A ip \in Ips, from \in Nat :
           Verifying(ip, from)' \subseteq Verifying(ip, from) \ {call}
  PROVE  GuessesToCome'
<1>0. IsFiniteSet(attempts)
  BY DEF SignInTypes
<1> SUFFICES ASSUME NEW ip \in Ips, NEW from \in Nat
             PROVE  L!Guesses(ip, from)' + Cardinality(Verifying(ip, from)')
                      < THRESHOLD + Cardinality(Calls)
  BY DEF GuessesToCome
<1>1. L!Guesses(ip, from) + Cardinality(Verifying(ip, from)) < THRESHOLD + Cardinality(Calls)
  BY DEF GuessesToCome
<1>2. L!Guesses(ip, from)' = Cardinality(GuessRows(ip, from)')
  BY SignInCounting DEF L!Guesses, GuessRows
<1>3. CASE call \in Verifying(ip, from)
  <2>1. GuessRows(ip, from)' \subseteq GuessRows(ip, from) \cup {row}
    BY DEF GuessRows
  <2>2. /\ IsFiniteSet(GuessRows(ip, from) \cup {row})
        /\ Cardinality(GuessRows(ip, from) \cup {row}) <= Cardinality(GuessRows(ip, from)) + 1
    <3>1. IsFiniteSet(GuessRows(ip, from)) /\ Cardinality(GuessRows(ip, from)) \in Nat
      BY <1>0, CountsAreNumbers
    <3>2. \/ Cardinality(GuessRows(ip, from) \cup {row}) = Cardinality(GuessRows(ip, from))
          \/ Cardinality(GuessRows(ip, from) \cup {row}) = Cardinality(GuessRows(ip, from)) + 1
      BY <3>1, FS_AddElement
    <3> QED
      BY <3>1, <3>2, FS_AddElement
  <2>3. Cardinality(GuessRows(ip, from)') <= Cardinality(GuessRows(ip, from)) + 1
    BY <1>0, <2>1, <2>2, CountsAreNumbers, FS_Subset, FS_CardinalityType
  <2>4. /\ IsFiniteSet(Verifying(ip, from) \ {call})
        /\ Cardinality(Verifying(ip, from) \ {call}) = Cardinality(Verifying(ip, from)) - 1
    BY <1>0, <1>3, CountsAreNumbers, FS_RemoveElement
  <2>5. Cardinality(Verifying(ip, from)') <= Cardinality(Verifying(ip, from)) - 1
          /\ Cardinality(Verifying(ip, from)') \in Nat
    BY <2>4, FS_Subset, FS_CardinalityType
  <2>6. Cardinality(GuessRows(ip, from)') \in Nat
    BY <2>1, <2>2, FS_Subset, FS_CardinalityType
  <2> QED
    BY <1>0, <1>1, <1>2, <2>3, <2>5, <2>6, CountsAreNumbers DEF L!SignInAssumption
<1>4. CASE call \notin Verifying(ip, from)
  <2>1. GuessRows(ip, from)' = GuessRows(ip, from)
    BY <1>4 DEF GuessRows, Verifying
  <2>2. Verifying(ip, from)' \subseteq Verifying(ip, from)
    OBVIOUS
  <2>3. Cardinality(Verifying(ip, from)') <= Cardinality(Verifying(ip, from))
          /\ Cardinality(Verifying(ip, from)') \in Nat
    BY <1>0, <2>2, CountsAreNumbers, FS_Subset, FS_CardinalityType
  <2> QED
    BY <1>0, <1>1, <1>2, <2>1, <2>3, CountsAreNumbers DEF L!SignInAssumption
<1> QED
  BY <1>3, <1>4

-----------------------------------------------------------------------------
(* The lockout: the steps.                                                 *)

LEMMA SignInStarts == ASSUME L!SignInAssumption, L!Init PROVE SignInInv
<1>1. SignInTypes
  BY FS_EmptySet DEF L!Init, SignInTypes, L!Never, L!SignInAssumption
<1>2. \A ip, from : GuessRows(ip, from) = {} /\ Verifying(ip, from) = {}
  BY Stages DEF L!Init, GuessRows, Verifying
<1>3. GuessesToCome
  <2>1. IsFiniteSet(attempts)
    BY <1>1 DEF SignInTypes
  <2>2. \A ip, from : L!Guesses(ip, from) = 0 /\ Cardinality(Verifying(ip, from)) = 0
    BY <1>2, <2>1, CountsAreNumbers, FS_EmptySet
  <2>3. Cardinality(Calls) \in Nat
    BY <2>1, CountsAreNumbers
  <2> QED
    BY <2>2, <2>3 DEF GuessesToCome, L!SignInAssumption
<1>4. Waits /\ Patient
  BY Stages DEF L!Init, Waits, Patient
<1> QED
  BY <1>1, <1>3, <1>4 DEF SignInInv

\* A call that takes no step is what it was, or has lost its patience.
Kin(call) ==
  \/ calls'[call] = calls[call]
  \/ /\ calls[call] \in Asking /\ calls'[call] \in Asking
     /\ calls'[call].stage = calls[call].stage /\ calls'[call].ip = calls[call].ip
     /\ calls'[call].at = calls[call].at /\ ~calls'[call].patient

LEMMA Kinship ==
  ASSUME SignInTypes, NEW call \in Calls, Kin(call)
  PROVE  /\ calls'[call] = L!Idle <=> calls[call] = L!Idle
         /\ calls'[call] \in Asking <=> calls[call] \in Asking
         /\ calls'[call] \in Pausing <=> calls[call] \in Pausing
         /\ calls[call] \in Pausing => calls'[call] = calls[call]
         /\ calls[call] # L!Idle => calls'[call].ip = calls[call].ip
         /\ calls'[call].stage = calls[call].stage
         /\ calls[call] \in Asking =>
              calls'[call].at = calls[call].at /\ (calls'[call].patient => calls[call].patient)
  BY Stages DEF Kin

LEMMA CallComes ==
  ASSUME L!SignInAssumption, SignInInv, NEW call \in Calls, NEW ip \in Ips,
         NEW right \in BOOLEAN, L!Ask(call, ip, right)
  PROVE  SignInInv'
<1> DEFINE waited == told[ip] + COOLDOWN <= now
           new == [stage |-> "counting", ip |-> ip, right |-> right, at |-> now,
                   patient |-> waited]
<1>0. /\ calls[call] = L!Idle /\ now' = now /\ attempts' = attempts
      /\ told' = [told EXCEPT ![ip] = L!Never]
      /\ calls' = [other \in Calls |->
           CASE other = call -> new
             [] other \in L!Callers(ip) /\ calls[other].stage = "counting" ->
                  [calls[other] EXCEPT !.patient = FALSE]
             [] OTHER -> calls[other]]
  BY DEF L!Ask
<1>a. calls'[call] = new
  <2> DEFINE f(other) ==
               CASE other = call -> new
                 [] other \in L!Callers(ip) /\ calls[other].stage = "counting" ->
                      [calls[other] EXCEPT !.patient = FALSE]
                 [] OTHER -> calls[other]
  <2>1. calls'[call] = f(call)
    <3>1. calls' = [other \in Calls |-> f(other)]
      BY <1>0
    <3> HIDE DEF f
    <3> QED
      BY <3>1
  <2>2. call \notin L!Callers(ip)
    BY <1>0 DEF L!Callers
  <2> HIDE DEF new
  <2>3. f(call) = new
    BY <2>2
  <2> QED
    BY <2>1, <2>3
<1>b. calls' = [other \in Calls |-> calls'[other]]
  <2> DEFINE f[other \in Calls] ==
               CASE other = call -> new
                 [] other \in L!Callers(ip) /\ calls[other].stage = "counting" ->
                      [calls[other] EXCEPT !.patient = FALSE]
                 [] OTHER -> calls[other]
  <2>1. calls' = f
    BY <1>0
  <2>2. f = [other \in Calls |-> f[other]]
    OBVIOUS
  <2> QED
    BY <2>1, <2>2, Zenon
<1>1. /\ calls[call] = L!Idle /\ calls'[call] = new
      /\ calls' = [other \in Calls |-> calls'[other]]
      /\ told' = [told EXCEPT ![ip] = L!Never] /\ now' = now /\ attempts' = attempts
  BY <1>0, <1>a, <1>b
<1>2. ASSUME NEW other \in Calls \ {call}
      PROVE  /\ Kin(other)
             /\ calls[other] \in Asking /\ calls[other].stage = "counting" /\ calls[other].ip = ip
                  => ~calls'[other].patient
  <2>1. CASE other \in L!Callers(ip) /\ calls[other].stage = "counting"
    <3>1. calls'[other] = [calls[other] EXCEPT !.patient = FALSE]
      BY <2>1 DEF L!Ask
    <3>2. calls[other] \in Asking
      BY <2>1, Stages DEF SignInInv, SignInTypes, L!Callers
    <3> QED
      BY <3>1, <3>2 DEF Kin, Asking
  <2>2. CASE ~(other \in L!Callers(ip) /\ calls[other].stage = "counting")
    <3>1. calls'[other] = calls[other]
      BY <2>2 DEF L!Ask
    <3> QED
      BY <2>2, <3>1, Stages DEF Kin, L!Callers
  <2> QED
    BY <2>1, <2>2
<1>3. waited \in BOOLEAN /\ now \in Nat /\ now <= MaxClock
  BY DEF SignInInv, SignInTypes, L!SignInAssumption
<1> HIDE DEF waited
<1>4. /\ new \in Asking /\ new.stage = "counting" /\ new.ip = ip /\ new.at = now
      /\ new.patient = waited
  BY <1>3 DEF Asking
<1> HIDE DEF new
<1>5. \A other \in Calls \ {call} :
         /\ calls'[other] = L!Idle <=> calls[other] = L!Idle
         /\ calls'[other] \in Asking <=> calls[other] \in Asking
         /\ calls'[other] \in Pausing <=> calls[other] \in Pausing
         /\ calls[other] \in Pausing => calls'[other] = calls[other]
         /\ calls[other] # L!Idle => calls'[other].ip = calls[other].ip
         /\ calls'[other].stage = calls[other].stage
         /\ calls[other] \in Asking =>
              calls'[other].at = calls[other].at /\ (calls'[other].patient => calls[other].patient)
  BY <1>2, Kinship DEF SignInInv
<1>6. SignInTypes'
  <2>1. \A other \in Calls : calls'[other] \in {L!Idle} \cup Asking \cup Pausing
    BY <1>1, <1>4, <1>5 DEF SignInInv, SignInTypes
  <2>2. L!Never \in Nat
    BY DEF L!Never, L!SignInAssumption
  <2> QED
    BY <1>1, <2>1, <2>2 DEF SignInInv, SignInTypes
<1>7. GuessesToCome'
  <2>1. \A who, from : GuessRows(who, from)' = GuessRows(who, from)
    BY <1>1 DEF GuessRows
  <2>2. ASSUME NEW who \in Ips, NEW from \in Nat
        PROVE  Verifying(who, from)' \subseteq Verifying(who, from)
    <3> SUFFICES ASSUME NEW other \in Verifying(who, from)'
                 PROVE  other \in Verifying(who, from)
      OBVIOUS
    <3>1. other \in Calls \ {call} /\ calls'[other].stage = "verifying"
      BY <1>1, <1>4 DEF Verifying
    <3>2. calls[other] \in Asking
      BY <3>1, <1>5, Stages DEF SignInInv, SignInTypes
    <3> QED
      BY <3>1, <3>2, <1>5, Stages DEF Verifying
  <2> QED
    BY <2>1, <2>2, NothingMoreToCome DEF SignInInv
<1>8. Waits'
  <2>1. \A c \in Calls : calls'[c] \in Asking => calls'[c].at <= now
    BY <1>1, <1>3, <1>4, <1>5 DEF SignInInv, Waits
  <2>2. \A c \in Calls : calls'[c] # L!Idle => told'[calls'[c].ip] = L!Never
    BY <1>1, <1>4, <1>5 DEF SignInInv, Waits, SignInTypes
  <2>3. \A row \in attempts : told'[row.ip] # L!Never => row.at + DELAY <= told'[row.ip]
    BY <1>1 DEF SignInInv, Waits, SignInTypes
  <2>4. \A c \in Calls : calls'[c] \in Pausing => c # call /\ calls'[c] = calls[c]
    BY <1>1, <1>4, <1>5, Stages
  <2>5. \A c \in Calls : calls[c] \in Pausing => calls'[c] = calls[c]
    BY <1>1, <1>5, Stages
  <2>6. \A c \in Calls, who \in Ips :
           calls'[c] \in Pausing /\ calls'[c].ip = who => Rested(who)'
    BY <1>1, <2>4, <2>5 DEF SignInInv, Waits, Rested
  <2> QED
    BY <1>1, <2>1, <2>2, <2>3, <2>4, <2>6 DEF SignInInv, Waits, L!Never, Rested
<1>9. Patient'
  <2>1. waited => told[ip] # L!Never
    BY <1>3 DEF waited, L!Never, L!SignInAssumption
  <2>2. waited => \A c \in Calls : calls[c] # L!Idle => calls[c].ip # ip
    BY <2>1 DEF SignInInv, Waits
  <2>3. waited => \A row \in attempts : row.ip = ip => row.at + WINDOW < now
    <3> SUFFICES ASSUME waited, NEW row \in attempts, row.ip = ip
                 PROVE  row.at + WINDOW < now
      OBVIOUS
    <3>1. row.at + DELAY <= told[ip]
      BY <2>1 DEF SignInInv, Waits
    <3>2. row.at \in Nat /\ told[ip] \in Nat
      BY DEF SignInInv, SignInTypes
    <3> QED
      BY <1>3, <3>1, <3>2 DEF waited, L!SignInAssumption
  <2> SUFFICES ASSUME NEW c \in Calls, calls'[c] \in Asking, calls'[c].patient
               PROVE  /\ calls'[c].stage # "locked"
                      /\ calls'[c].stage = "counting" =>
                           /\ \A other \in Calls \ {c} :
                                calls'[other] # L!Idle => calls'[other].ip # calls'[c].ip
                           /\ \A row \in attempts' :
                                row.ip = calls'[c].ip => row.at + WINDOW < calls'[c].at
    BY DEF Patient
  <2>4. CASE c = call
    BY <1>1, <1>4, <1>5, <2>2, <2>3, <2>4
  <2>5. CASE c # call
    <3>1. /\ calls[c] \in Asking /\ calls[c].patient /\ calls[c] # L!Idle
          /\ calls'[c].stage = calls[c].stage /\ calls'[c].ip = calls[c].ip
          /\ calls'[c].at = calls[c].at
      BY <1>5, <2>5, Stages
    <3>2. calls[c].stage # "locked"
      BY <3>1 DEF SignInInv, Patient
    <3>3. ASSUME calls[c].stage = "counting"
          PROVE  /\ \A other \in Calls \ {c} :
                      calls'[other] # L!Idle => calls'[other].ip # calls'[c].ip
                 /\ \A row \in attempts' :
                      row.ip = calls'[c].ip => row.at + WINDOW < calls'[c].at
      <4>1. calls[c].ip # ip
        BY <1>2, <2>5, <3>1, <3>3
      <4>2. \A other \in Calls \ {c} :
               calls[other] # L!Idle => calls[other].ip # calls[c].ip
        BY <3>1, <3>3 DEF SignInInv, Patient
      <4>3. \A row \in attempts : row.ip = calls[c].ip => row.at + WINDOW < calls[c].at
        BY <3>1, <3>3 DEF SignInInv, Patient
      <4> QED
        BY <1>1, <1>4, <1>5, <3>1, <4>1, <4>2, <4>3
    <3> QED
      BY <3>1, <3>2, <3>3
  <2> QED
    BY <2>4, <2>5
<1> QED
  BY <1>6, <1>7, <1>8, <1>9 DEF SignInInv

LEMMA Counts ==
  ASSUME L!SignInAssumption, SignInInv, NEW call \in Calls, L!Count(call)
  PROVE  SignInInv'
<1> DEFINE free == L!Allowed(L!Recent(calls[call].ip, L!WindowStart(calls[call].at)))
           stage == IF free THEN "verifying" ELSE "locked"
<1>1. /\ calls[call].stage = "counting" /\ calls[call] \in Asking
      /\ calls' = [calls EXCEPT ![call].stage = stage]
      /\ now' = now /\ attempts' = attempts /\ told' = told
  BY Stages DEF L!Count, SignInInv, SignInTypes
<1>2. stage \in {"verifying", "locked"} /\ (stage = "verifying" <=> free)
  OBVIOUS
<1> HIDE DEF free, stage
<1>3. /\ calls' = [c \in Calls |-> calls'[c]]
      /\ \A c \in Calls \ {call} : calls'[c] = calls[c]
      /\ calls'[call] = [calls[call] EXCEPT !.stage = stage]
  BY <1>1 DEF SignInInv, SignInTypes
<1>4. /\ calls'[call] \in Asking /\ calls'[call].stage = stage
      /\ calls'[call].ip = calls[call].ip /\ calls'[call].at = calls[call].at
      /\ calls'[call].patient = calls[call].patient
      /\ calls'[call] # L!Idle /\ calls'[call] \notin Pausing
      /\ calls[call] # L!Idle /\ calls[call] \notin Pausing
  <2>1. calls'[call] \in Asking
    BY <1>1, <1>2, <1>3 DEF Asking
  <2>2. /\ calls'[call].stage = stage
        /\ calls'[call].ip = calls[call].ip /\ calls'[call].at = calls[call].at
        /\ calls'[call].patient = calls[call].patient
    BY <1>1, <1>3 DEF Asking
  <2> QED
    BY <1>1, <2>1, <2>2, Stages
<1>5. SignInTypes'
  <2>1. \A c \in Calls : calls'[c] \in {L!Idle} \cup Asking \cup Pausing
    BY <1>3, <1>4 DEF SignInInv, SignInTypes
  <2> QED
    BY <1>1, <1>3, <2>1 DEF SignInInv, SignInTypes
<1>6. GuessesToCome'
  <2>1. \A ip, from : GuessRows(ip, from)' = GuessRows(ip, from)
    BY <1>1 DEF GuessRows
  <2>2. CASE free
    <3>1. ASSUME NEW ip \in Ips, NEW from \in Nat
          PROVE  \/ Verifying(ip, from)' \subseteq Verifying(ip, from)
                 \/ /\ Verifying(ip, from)' \subseteq Calls
                    /\ ip = calls[call].ip
                    /\ from <= calls[call].at /\ calls[call].at <= from + WINDOW
      <4>1. Verifying(ip, from)' \subseteq Verifying(ip, from) \cup {call}
        BY <1>3 DEF Verifying
      <4>2. call \in Verifying(ip, from)' =>
              /\ ip = calls[call].ip
              /\ from <= calls[call].at /\ calls[call].at <= from + WINDOW
        BY <1>4 DEF Verifying
      <4>3. Verifying(ip, from)' \subseteq Calls
        BY DEF Verifying
      <4> QED
        BY <4>1, <4>2, <4>3
    <3> QED
      BY <1>1, <2>2, <3>1, LetThrough DEF SignInInv, free
  <2>3. CASE ~free
    <3>1. \A ip, from : Verifying(ip, from)' \subseteq Verifying(ip, from)
      BY <1>2, <1>3, <1>4, <2>3 DEF Verifying
    <3> QED
      BY <2>1, <3>1, NothingMoreToCome DEF SignInInv
  <2> QED
    BY <2>2, <2>3
<1>7. Waits'
  <2>1. \A c \in Calls : calls'[c] \in Pausing <=> calls[c] \in Pausing
    BY <1>3, <1>4
  <2>2. \A c \in Calls : calls'[c] \in Pausing => calls'[c] = calls[c]
    BY <1>3, <1>4
  <2>3. \A ip : Rested(ip) => Rested(ip)'
    BY <1>1, <2>1, <2>2 DEF Rested
  <2>4. \A c \in Calls, ip \in Ips : calls'[c] \in Pausing /\ calls'[c].ip = ip => Rested(ip)'
    BY <2>1, <2>2, <2>3 DEF SignInInv, Waits
  <2>5. \A c \in Calls : calls'[c] \in Asking => calls'[c].at <= now
    BY <1>1, <1>3, <1>4 DEF SignInInv, Waits
  <2>6. \A c \in Calls : calls'[c] # L!Idle => told[calls'[c].ip] = L!Never
    BY <1>1, <1>3, <1>4 DEF SignInInv, Waits
  <2> QED
    BY <1>1, <2>4, <2>5, <2>6 DEF SignInInv, Waits, L!Never
<1>8. calls[call].patient => stage # "locked"
  <2> SUFFICES ASSUME calls[call].patient
               PROVE  free
    BY <1>2
  <2>1. \A row \in attempts : row.ip = calls[call].ip => row.at + WINDOW < calls[call].at
    BY <1>1 DEF SignInInv, Patient
  <2>2. \A row \in attempts : row.at \in Nat
    BY DEF SignInInv, SignInTypes
  <2>3. calls[call].at \in Nat
    BY <1>1 DEF Asking
  <2>4. {row \in attempts : row.ip = calls[call].ip /\ row.at + WINDOW >= calls[call].at} = {}
    BY <2>1, <2>2, <2>3 DEF L!SignInAssumption
  <2>5. L!Recent(calls[call].ip, L!WindowStart(calls[call].at)) = 0
    BY <2>4, SignInCounting, FS_EmptySet DEF L!Recent, L!WindowStart
  <2> QED
    BY <2>5 DEF L!Allowed, L!SignInAssumption, free
<1>9. Patient'
  <2> SUFFICES ASSUME NEW c \in Calls, calls'[c] \in Asking, calls'[c].patient
               PROVE  /\ calls'[c].stage # "locked"
                      /\ calls'[c].stage = "counting" =>
                           /\ \A other \in Calls \ {c} :
                                calls'[other] # L!Idle => calls'[other].ip # calls'[c].ip
                           /\ \A row \in attempts' :
                                row.ip = calls'[c].ip => row.at + WINDOW < calls'[c].at
    BY DEF Patient
  <2>1. CASE c = call
    <3>1. calls[call].patient
      BY <1>4, <2>1
    <3> QED
      BY <1>2, <1>4, <1>8, <2>1, <3>1
  <2>2. CASE c # call
    <3>1. calls'[c] = calls[c]
      BY <1>3, <2>2
    <3>2. /\ calls[c].stage # "locked"
          /\ calls[c].stage = "counting" =>
               /\ \A other \in Calls \ {c} : calls[other] # L!Idle => calls[other].ip # calls[c].ip
               /\ \A row \in attempts : row.ip = calls[c].ip => row.at + WINDOW < calls[c].at
      BY <3>1 DEF SignInInv, Patient
    <3>3. \A other \in Calls :
             (calls'[other] # L!Idle => calls[other] # L!Idle) /\ calls'[other].ip = calls[other].ip
      BY <1>3, <1>4
    <3>4. attempts' = attempts
      BY <1>1
    <3> QED
      BY <3>1, <3>2, <3>3, <3>4
  <2> QED
    BY <2>1, <2>2
<1> QED
  BY <1>5, <1>6, <1>7, <1>9 DEF SignInInv

LEMMA Records ==
  ASSUME L!SignInAssumption, SignInInv, NEW call \in Calls, L!Record(call)
  PROVE  SignInInv'
<1> DEFINE outcome == IF calls[call].stage = "locked" THEN "locked" ELSE "bad_password"
           row == L!Attempt(calls[call].ip, calls[call].at, outcome)
           locked == calls[call].stage = "locked"
           pause == [stage |-> "pausing", ip |-> calls[call].ip, locked |-> locked,
                     until |-> now + DELAY]
<1>1. /\ calls[call].stage \in {"locked", "verifying"} /\ calls[call] \in Asking
      /\ attempts' = attempts \cup {row}
      /\ calls' = [calls EXCEPT ![call] = pause]
      /\ now' = now /\ told' = told
  BY Stages DEF L!Record, L!Paused, SignInInv, SignInTypes
<1>2. now \in Nat /\ DELAY \in Nat /\ IsFiniteSet(attempts)
  BY DEF SignInInv, SignInTypes, L!SignInAssumption
<1>3. /\ row \in [ip : Ips, at : Nat, outcome : L!Outcomes, nth : Nat]
      /\ row.ip = calls[call].ip /\ row.at = calls[call].at /\ row.outcome = outcome
  <2>1. L!Alike(calls[call].ip, calls[call].at, outcome) \subseteq attempts
    BY DEF L!Alike
  <2>2. L!Cardinality(L!Alike(calls[call].ip, calls[call].at, outcome)) \in Nat
    BY <1>2, <2>1, SignInCounting, FS_Subset, FS_CardinalityType
  <2>3. outcome \in L!Outcomes
    BY DEF L!Outcomes
  <2> HIDE DEF outcome
  <2>4. calls[call].ip \in Ips /\ calls[call].at \in Nat
    BY <1>1 DEF Asking
  <2> QED
    BY <2>2, <2>3, <2>4 DEF L!Attempt
<1>4. /\ pause \in Pausing /\ pause.ip = calls[call].ip /\ pause.until = now + DELAY
      /\ pause.stage = "pausing" /\ pause \notin Asking /\ pause # L!Idle
  <2>1. locked \in BOOLEAN
    OBVIOUS
  <2>2. calls[call].ip \in Ips
    BY <1>1 DEF Asking
  <2> HIDE DEF locked
  <2>3. pause \in Pausing /\ pause.ip = calls[call].ip /\ pause.until = now + DELAY
    BY <1>2, <2>1, <2>2 DEF Pausing
  <2> QED
    BY <2>3, Stages
<1>5. outcome = "bad_password" => calls[call].stage = "verifying"
  BY <1>1
<1> HIDE DEF outcome, row, locked, pause
<1>6. /\ calls' = [c \in Calls |-> calls'[c]]
      /\ \A c \in Calls \ {call} : calls'[c] = calls[c]
      /\ calls'[call] = pause
      /\ calls[call] # L!Idle /\ calls[call] \notin Pausing
      /\ calls[call].at \in Nat /\ calls[call].ip \in Ips
  <2>1. calls[call] # L!Idle /\ calls[call] \notin Pausing
    BY <1>1, Stages
  <2>2. calls[call].at \in Nat /\ calls[call].ip \in Ips
    BY <1>1 DEF Asking
  <2> QED
    BY <1>1, <2>1, <2>2 DEF SignInInv, SignInTypes
<1>7. calls[call].at <= now /\ told[calls[call].ip] = L!Never
  BY <1>1, <1>6 DEF SignInInv, Waits
<1>8. SignInTypes'
  <2>1. \A c \in Calls : calls'[c] \in {L!Idle} \cup Asking \cup Pausing
    BY <1>4, <1>6 DEF SignInInv, SignInTypes
  <2>2. IsFiniteSet(attempts')
    BY <1>1, <1>2, FS_AddElement
  <2> QED
    BY <1>1, <1>3, <1>6, <2>1, <2>2 DEF SignInInv, SignInTypes
<1>9. GuessesToCome'
  <2>1. ASSUME NEW ip \in Ips, NEW from \in Nat
        PROVE  Verifying(ip, from)' \subseteq Verifying(ip, from) \ {call}
    BY <1>4, <1>6 DEF Verifying
  <2>2. CASE calls[call].stage = "verifying"
    BY <1>1, <1>3, <2>1, <2>2, GuessHasCome DEF SignInInv
  <2>3. CASE calls[call].stage # "verifying"
    <3>1. \A ip, from : GuessRows(ip, from)' = GuessRows(ip, from)
      BY <1>1, <1>3, <1>5, <2>3 DEF GuessRows
    <3> QED
      BY <2>1, <3>1, NothingMoreToCome DEF SignInInv
  <2> QED
    BY <2>2, <2>3
<1>10. Waits'
  <2>1. \A r \in attempts' : r.at <= now
    BY <1>1, <1>3, <1>7 DEF SignInInv, Waits
  <2>2. \A c \in Calls : calls'[c] \in Asking => calls'[c].at <= now
    BY <1>4, <1>6 DEF SignInInv, Waits
  <2>3. \A c \in Calls : calls'[c] # L!Idle => told[calls'[c].ip] = L!Never
    BY <1>4, <1>6, <1>7 DEF SignInInv, Waits
  <2>4. \A r \in attempts' : told[r.ip] # L!Never => r.at + DELAY <= told[r.ip]
    BY <1>1, <1>3, <1>7 DEF SignInInv, Waits
  <2>5. ASSUME NEW c \in Calls, NEW who \in Ips, calls'[c] \in Pausing, calls'[c].ip = who
        PROVE  Rested(who)'
    <3> SUFFICES ASSUME NEW r \in attempts', r.ip = who
                 PROVE  \/ r.at + DELAY <= now
                        \/ \E w \in Calls : /\ calls'[w] \in Pausing /\ calls'[w].ip = who
                                            /\ r.at + DELAY <= calls'[w].until
      BY <1>1 DEF Rested
    <3>1. r.at \in Nat /\ r.at <= now
      BY <1>8, <2>1 DEF SignInTypes
    <3>2. CASE r.ip = calls[call].ip
      <4>1. r.at + DELAY <= now + DELAY
        BY <1>2, <3>1
      <4> QED
        BY <1>4, <1>6, <3>2, <4>1
    <3>3. CASE r.ip # calls[call].ip
      <4>1. c # call /\ calls'[c] = calls[c] /\ r \in attempts
        BY <1>1, <1>3, <1>4, <1>6, <2>5, <3>3
      <4>2. Rested(who)
        BY <2>5, <4>1 DEF SignInInv, Waits
      <4>3. \/ r.at + DELAY <= now
            \/ \E w \in Calls : /\ calls[w] \in Pausing /\ calls[w].ip = who
                                /\ r.at + DELAY <= calls[w].until
        BY <4>1, <4>2 DEF Rested
      <4> QED
        BY <1>6, <4>3
    <3> QED
      BY <3>2, <3>3
  <2> QED
    BY <1>1, <2>1, <2>2, <2>3, <2>4, <2>5 DEF Waits, L!Never
<1>11. Patient'
  <2> SUFFICES ASSUME NEW c \in Calls, calls'[c] \in Asking, calls'[c].patient
               PROVE  /\ calls'[c].stage # "locked"
                      /\ calls'[c].stage = "counting" =>
                           /\ \A other \in Calls \ {c} :
                                calls'[other] # L!Idle => calls'[other].ip # calls'[c].ip
                           /\ \A r \in attempts' :
                                r.ip = calls'[c].ip => r.at + WINDOW < calls'[c].at
    BY DEF Patient
  <2>1. c # call /\ calls'[c] = calls[c]
    BY <1>4, <1>6
  <2>2. /\ calls[c].stage # "locked"
        /\ calls[c].stage = "counting" =>
             /\ \A other \in Calls \ {c} : calls[other] # L!Idle => calls[other].ip # calls[c].ip
             /\ \A r \in attempts : r.ip = calls[c].ip => r.at + WINDOW < calls[c].at
    BY <2>1 DEF SignInInv, Patient
  <2> QED
    BY <1>1, <1>3, <1>4, <1>6, <2>1, <2>2
<1> QED
  BY <1>8, <1>9, <1>10, <1>11 DEF SignInInv

\* A call that asked leaves nothing behind.
LEMMA Leaves ==
  ASSUME L!SignInAssumption, SignInInv, NEW call \in Calls,
         L!SucceedsWith(call) \/ L!Breaks(call)
  PROVE  SignInInv'
<1>1. /\ calls[call] \in Asking
      /\ calls' = [calls EXCEPT ![call] = L!Idle]
      /\ now' = now /\ told' = told /\ attempts' = attempts
  BY Stages DEF L!SucceedsWith, L!Breaks, SignInInv, SignInTypes
<1>2. /\ calls' = [c \in Calls |-> calls'[c]]
      /\ \A c \in Calls \ {call} : calls'[c] = calls[c]
      /\ calls'[call] = L!Idle /\ calls[call] \notin Pausing
      /\ L!Idle \notin Asking /\ L!Idle \notin Pausing /\ L!Idle.stage = "idle"
  BY <1>1, Stages DEF SignInInv, SignInTypes
<1>3. SignInTypes'
  <2>1. \A c \in Calls : calls'[c] \in {L!Idle} \cup Asking \cup Pausing
    BY <1>2 DEF SignInInv, SignInTypes
  <2> QED
    BY <1>1, <1>2, <2>1 DEF SignInInv, SignInTypes
<1>4. GuessesToCome'
  <2>1. \A ip, from : GuessRows(ip, from)' = GuessRows(ip, from)
    BY <1>1 DEF GuessRows
  <2>2. \A ip, from : Verifying(ip, from)' \subseteq Verifying(ip, from)
    BY <1>2 DEF Verifying
  <2> QED
    BY <2>1, <2>2, NothingMoreToCome DEF SignInInv
<1>5. Waits'
  <2>1. \A c \in Calls : calls'[c] \in Pausing <=> calls[c] \in Pausing
    BY <1>2
  <2>2. \A c \in Calls : calls'[c] \in Pausing => calls'[c] = calls[c]
    BY <1>2
  <2>3. \A ip : Rested(ip) => Rested(ip)'
    BY <1>1, <2>1, <2>2 DEF Rested
  <2>4. \A c \in Calls, ip \in Ips : calls'[c] \in Pausing /\ calls'[c].ip = ip => Rested(ip)'
    BY <2>1, <2>2, <2>3 DEF SignInInv, Waits
  <2>5. \A c \in Calls : calls'[c] \in Asking => calls'[c].at <= now
    BY <1>2 DEF SignInInv, Waits
  <2>6. \A c \in Calls : calls'[c] # L!Idle => told[calls'[c].ip] = L!Never
    BY <1>2 DEF SignInInv, Waits
  <2> QED
    BY <1>1, <2>4, <2>5, <2>6 DEF SignInInv, Waits, L!Never
<1>6. Patient'
  BY <1>1, <1>2 DEF SignInInv, Patient
<1> QED
  BY <1>3, <1>4, <1>5, <1>6 DEF SignInInv

LEMMA Answers ==
  ASSUME L!SignInAssumption, SignInInv, NEW call \in Calls, L!Answer(call)
  PROVE  SignInInv'
<1> DEFINE ip == calls[call].ip
           alone == calls[call].locked /\ L!Callers(ip) = {call}
           when == IF alone THEN now ELSE L!Never
<1>1. /\ calls[call] \in Pausing /\ calls[call].until <= now
      /\ calls' = [calls EXCEPT ![call] = L!Idle]
      /\ told' = [told EXCEPT ![ip] = when]
      /\ now' = now /\ attempts' = attempts
  <2>1. calls[call].stage = "pausing" /\ now >= calls[call].until
    BY DEF L!Answer
  <2>2. calls[call] \in Pausing
    BY <2>1, Stages DEF SignInInv, SignInTypes
  <2>3. calls[call].until \in Nat /\ now \in Nat
    BY <2>2 DEF Pausing, SignInInv, SignInTypes
  <2>4. /\ calls' = [calls EXCEPT ![call] = L!Idle]
        /\ told' = [told EXCEPT ![ip] = when]
        /\ now' = now /\ attempts' = attempts
    BY DEF L!Answer
  <2> QED
    BY <2>1, <2>2, <2>3, <2>4
<1>2. /\ now \in Nat /\ now <= MaxClock /\ L!Never \in Nat /\ now # L!Never /\ DELAY \in Nat
  BY DEF SignInInv, SignInTypes, L!SignInAssumption, L!Never
<1>3. /\ ip \in Ips /\ calls[call] # L!Idle /\ calls[call] \notin Asking
      /\ calls[call].until \in Nat
  <2>1. ip \in Ips /\ calls[call].until \in Nat
    BY <1>1 DEF Pausing
  <2> QED
    BY <1>1, <2>1, Stages
<1>4. /\ when \in {now, L!Never}
      /\ when # L!Never => \A c \in Calls \ {call} : calls[c] # L!Idle => calls[c].ip # ip
  BY DEF L!Callers
<1> HIDE DEF when, alone
<1>5. /\ calls' = [c \in Calls |-> calls'[c]]
      /\ \A c \in Calls \ {call} : calls'[c] = calls[c]
      /\ calls'[call] = L!Idle
      /\ L!Idle \notin Asking /\ L!Idle \notin Pausing /\ L!Idle.stage = "idle"
      /\ told' \in [Ips -> Nat] /\ told'[ip] = when
      /\ \A other \in Ips \ {ip} : told'[other] = told[other]
  BY <1>1, <1>2, <1>3, <1>4, Stages DEF SignInInv, SignInTypes
<1>6. SignInTypes'
  <2>1. \A c \in Calls : calls'[c] \in {L!Idle} \cup Asking \cup Pausing
    BY <1>5 DEF SignInInv, SignInTypes
  <2> QED
    BY <1>1, <1>5, <2>1 DEF SignInInv, SignInTypes
<1>7. GuessesToCome'
  <2>1. \A who, from : GuessRows(who, from)' = GuessRows(who, from)
    BY <1>1 DEF GuessRows
  <2>2. \A who, from : Verifying(who, from)' \subseteq Verifying(who, from)
    BY <1>5 DEF Verifying
  <2> QED
    BY <2>1, <2>2, NothingMoreToCome DEF SignInInv
<1>8. ASSUME NEW who, Rested(who)
      PROVE  Rested(who)'
  <2> SUFFICES ASSUME NEW row \in attempts, row.ip = who
               PROVE  \/ row.at + DELAY <= now
                      \/ \E c \in Calls :
                           calls'[c] \in Pausing /\ calls'[c].ip = who
                             /\ row.at + DELAY <= calls'[c].until
    BY <1>1 DEF Rested
  <2>1. row.at \in Nat
    BY DEF SignInInv, SignInTypes
  <2>2. CASE row.at + DELAY <= now
    BY <2>2
  <2>3. CASE \E c \in Calls :
               calls[c] \in Pausing /\ calls[c].ip = who /\ row.at + DELAY <= calls[c].until
    <3>1. PICK c \in Calls :
            calls[c] \in Pausing /\ calls[c].ip = who /\ row.at + DELAY <= calls[c].until
      BY <2>3
    <3>2. CASE c = call
      <4>1. row.at + DELAY <= now
        BY <1>1, <1>2, <1>3, <2>1, <3>1, <3>2
      <4> QED
        BY <4>1
    <3>3. CASE c # call
      BY <1>5, <3>1, <3>3
    <3> QED
      BY <3>2, <3>3
  <2> QED
    BY <1>8, <2>2, <2>3 DEF Rested
<1>9. Waits'
  <2>1. \A c \in Calls : calls'[c] \in Asking => calls'[c].at <= now
    BY <1>5 DEF SignInInv, Waits
  <2>2. ASSUME NEW c \in Calls, calls'[c] # L!Idle
        PROVE  told'[calls'[c].ip] = L!Never
    <3>1. c # call /\ calls'[c] = calls[c] /\ told[calls[c].ip] = L!Never
      BY <1>5, <2>2 DEF SignInInv, Waits
    <3>2. calls[c].ip \in Ips
      BY <2>2, <3>1 DEF SignInInv, SignInTypes, Asking, Pausing
    <3>3. CASE calls[c].ip = ip
      BY <1>4, <1>5, <2>2, <3>1, <3>3
    <3>4. CASE calls[c].ip # ip
      BY <1>5, <3>1, <3>2, <3>4
    <3> QED
      BY <3>3, <3>4
  <2>3. ASSUME NEW row \in attempts, told'[row.ip] # L!Never
        PROVE  row.at + DELAY <= told'[row.ip]
    <3>0. row.ip \in Ips /\ row.at \in Nat
      BY DEF SignInInv, SignInTypes
    <3>1. CASE row.ip = ip
      <4>1. when = now /\ \A c \in Calls \ {call} : calls[c] # L!Idle => calls[c].ip # ip
        BY <1>4, <1>5, <2>3, <3>1
      <4>2. Rested(ip)
        BY <1>1, <1>3 DEF SignInInv, Waits
      <4>3. \/ row.at + DELAY <= now
            \/ \E c \in Calls :
                 calls[c] \in Pausing /\ calls[c].ip = ip /\ row.at + DELAY <= calls[c].until
        BY <3>1, <4>2 DEF Rested
      <4>4. \A c \in Calls : calls[c] \in Pausing /\ calls[c].ip = ip => c = call
        BY <4>1, Stages
      <4>5. row.at + DELAY <= now
        BY <1>1, <1>2, <1>3, <3>0, <4>3, <4>4
      <4> QED
        BY <1>5, <3>1, <4>1, <4>5
    <3>2. CASE row.ip # ip
      BY <1>5, <2>3, <3>0, <3>2 DEF SignInInv, Waits
    <3> QED
      BY <3>1, <3>2
  <2>4. \A c \in Calls, who \in Ips :
           calls'[c] \in Pausing /\ calls'[c].ip = who => Rested(who)'
    <3>1. \A c \in Calls : calls'[c] \in Pausing => c # call /\ calls'[c] = calls[c]
      BY <1>5
    <3>2. \A c \in Calls, who \in Ips :
             calls[c] \in Pausing /\ calls[c].ip = who => Rested(who)'
      BY <1>8 DEF SignInInv, Waits
    <3> QED
      BY <3>1, <3>2
  <2> QED
    BY <1>1, <2>1, <2>2, <2>3, <2>4 DEF SignInInv, Waits, L!Never
<1>10. Patient'
  BY <1>1, <1>5 DEF SignInInv, Patient
<1> QED
  BY <1>6, <1>7, <1>9, <1>10 DEF SignInInv

LEMMA SignInCrashes ==
  ASSUME L!SignInAssumption, SignInInv, L!Crash
  PROVE  SignInInv'
<1>1. /\ calls' = [call \in Calls |-> L!Idle]
      /\ now' = now /\ told' = told /\ attempts' = attempts
      /\ L!Idle \notin Asking /\ L!Idle \notin Pausing /\ L!Idle.stage = "idle"
  BY Stages DEF L!Crash
<1>2. SignInTypes'
  BY <1>1 DEF SignInInv, SignInTypes
<1>3. GuessesToCome'
  <2>1. \A ip, from : GuessRows(ip, from)' = GuessRows(ip, from)
    BY <1>1 DEF GuessRows
  <2>2. \A ip, from : Verifying(ip, from)' \subseteq Verifying(ip, from)
    BY <1>1 DEF Verifying
  <2> QED
    BY <2>1, <2>2, NothingMoreToCome DEF SignInInv
<1>4. Waits' /\ Patient'
  BY <1>1 DEF SignInInv, Waits, Patient, L!Never
<1> QED
  BY <1>2, <1>3, <1>4 DEF SignInInv

LEMMA Ticks ==
  ASSUME L!SignInAssumption, SignInInv, L!Tick
  PROVE  SignInInv'
<1>1. /\ now < MaxClock /\ now' = now + 1 /\ now \in Nat
      /\ calls' = calls /\ told' = told /\ attempts' = attempts
  BY DEF L!Tick, SignInInv, SignInTypes
<1>2. SignInTypes'
  BY <1>1 DEF SignInInv, SignInTypes, L!SignInAssumption
<1>3. GuessesToCome'
  <2>1. \A ip, from : GuessRows(ip, from)' = GuessRows(ip, from)
    BY <1>1 DEF GuessRows
  <2>2. \A ip, from : Verifying(ip, from)' = Verifying(ip, from)
    BY <1>1 DEF Verifying
  <2> QED
    BY <2>1, <2>2, NothingMoreToCome DEF SignInInv
<1>4. Waits'
  <2>1. \A row \in attempts : row.at \in Nat
    BY DEF SignInInv, SignInTypes
  <2>2. \A call \in Calls : calls[call] \in Asking => calls[call].at \in Nat
    BY DEF Asking
  <2>3. DELAY \in Nat
    BY DEF L!SignInAssumption
  <2>4. \A ip : Rested(ip) => Rested(ip)'
    BY <1>1, <2>1, <2>3 DEF Rested
  <2>5. \A call \in Calls, ip \in Ips :
           calls'[call] \in Pausing /\ calls'[call].ip = ip => Rested(ip)'
    BY <1>1, <2>4 DEF SignInInv, Waits
  <2>6. (\A row \in attempts' : row.at <= now')
          /\ (\A call \in Calls : calls'[call] \in Asking => calls'[call].at <= now')
    BY <1>1, <2>1, <2>2 DEF SignInInv, Waits
  <2> QED
    BY <1>1, <2>5, <2>6 DEF SignInInv, Waits, L!Never
<1>5. Patient'
  BY <1>1 DEF SignInInv, Patient
<1> QED
  BY <1>2, <1>3, <1>4, <1>5 DEF SignInInv

LEMMA SignInSteps ==
  ASSUME L!SignInAssumption, SignInInv, [L!Next]_ofSignIn
  PROVE  SignInInv'
<1>1. CASE L!Next
  BY <1>1, CallComes, Counts, Records, Leaves, Answers, SignInCrashes, Ticks DEF L!Next
<1>2. CASE UNCHANGED ofSignIn
  BY <1>2 DEF ofSignIn, SignInInv, SignInTypes, GuessesToCome, Waits, Patient, Verifying,
              Rested, L!Guesses, L!Never
<1> QED
  BY <1>1, <1>2

LEMMA LockoutHolds ==
  ASSUME L!SignInAssumption, SignInInv
  PROVE  L!GuessesAreBounded /\ L!RetryAfterIsKept
<1>1. L!GuessesAreBounded
  <2> SUFFICES ASSUME NEW ip \in Ips, NEW from \in 0 .. now
               PROVE  L!Guesses(ip, from) < THRESHOLD + L!Cardinality(Calls)
    BY DEF L!GuessesAreBounded
  <2>1. from \in Nat /\ IsFiniteSet(attempts)
    BY DEF SignInInv, SignInTypes
  <2>2. L!Guesses(ip, from) + Cardinality(Verifying(ip, from)) < THRESHOLD + Cardinality(Calls)
    BY <2>1 DEF SignInInv, GuessesToCome
  <2> QED
    BY <2>1, <2>2, CountsAreNumbers, SignInCounting DEF L!SignInAssumption
<1>2. L!RetryAfterIsKept
  <2> SUFFICES ASSUME NEW call \in Calls, calls[call].stage = "locked"
               PROVE  ~calls[call].patient
    BY DEF L!RetryAfterIsKept
  <2>1. calls[call] \in Asking
    BY Stages DEF SignInInv, SignInTypes
  <2> QED
    BY <2>1 DEF SignInInv, Patient
<1> QED
  BY <1>1, <1>2

-----------------------------------------------------------------------------
(* Both.                                                                   *)

Inv ==
  /\ part = "accounts" => AccountsInv
  /\ part = "signin" => SignInInv

LEMMA Inductive == Spec => []Inv
<1>1. Init => Inv
  BY AccountsAssumption, SignInAssumption, AccountsStart, SignInStarts DEF Init, Inv
<1>2. Inv /\ [Next]_vars => Inv'
  <2> SUFFICES ASSUME Inv, [Next]_vars
               PROVE  Inv'
    OBVIOUS
  <2>1. CASE part = "accounts" /\ A!Next /\ UNCHANGED <<part, ofSignIn>>
    BY <2>1, AccountsAssumption, AccountsSteps DEF Inv
  <2>2. CASE part = "signin" /\ L!Next /\ UNCHANGED <<part, ofAccounts>>
    BY <2>2, SignInAssumption, SignInSteps DEF Inv
  <2>3. CASE UNCHANGED vars
    <3>1. UNCHANGED A!vars /\ UNCHANGED ofSignIn /\ part' = part
      BY <2>3 DEF vars, ofAccounts, A!vars
    <3> QED
      BY <3>1, AccountsStutter, SignInAssumption, SignInSteps DEF Inv
  <2> QED
    BY <2>1, <2>2, <2>3 DEF Next
<1> QED
  BY <1>1, <1>2, PTL DEF Spec

\* However logins, deletions, resets and restarts interleave, no session outlives its
\* account, and one under a password that is no longer its account's is about to be
\* revoked, was left to live by a kill or by a statement that threw after the password
\* was written, or comes of a login that was under way; and requests that come one at a
\* time leave an account (accounts.service.ts, auth.service.ts).
THEOREM AccountsStaySound == Spec => []AccountsAreSound
<1>1. Inv => AccountsAreSound
  BY AccountsHold DEF Inv, AccountsAreSound
<1> QED
  BY Inductive, <1>1, PTL

\* Among requests that come one at a time none takes their role from the last who manages
\* accounts, restarts in between or not (setRole of accounts.service.ts).
THEOREM AManagerIsLeft == Spec => RoleChangeLeavesManagerUnlessOverlapped
<1>1. Inv /\ [Next]_vars =>
        [part = "accounts" /\ ~overlapped => \A t \in Tasks : ~A!DemotesTheLast(t)]_vars
  BY AccountsAssumption, SetsRoles DEF Inv, A!DemotesTheLast
<1> QED
  BY Inductive, <1>1, PTL DEF Spec, RoleChangeLeavesManagerUnlessOverlapped

\* With any number of calls interleaving between the count, the verification, the row and
\* the answer, failing or killed anywhere, an address learns of fewer wrong guesses in a
\* window than the threshold and its calls in progress; and who was told to wait, waits
\* and asks nothing else is let through (login of auth.service.ts, login-policy.ts).
THEOREM LockoutStays == Spec => []LockoutIsKept
<1>1. Inv => LockoutIsKept
  BY SignInAssumption, LockoutHolds DEF Inv, LockoutIsKept
<1> QED
  BY Inductive, <1>1, PTL
=============================================================================
