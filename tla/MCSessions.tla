----------------------------- MODULE MCSessions -----------------------------
(***************************************************************************)
(* Accounts with their sessions (Accounts) and the lockout of a sign-in    *)
(* (SignIn), put together for TLC and for the theorems of SessionsProofs.  *)
(*                                                                         *)
(* A behaviour is one of one of them, `part`; the variables of the other   *)
(* stay 0.  Ids, sessions and tasks are interchangeable, and so are        *)
(* addresses and calls; of the names, the bootstrap's is not.              *)
(***************************************************************************)
EXTENDS Naturals, TLC

CONSTANTS
  \* Accounts.
  Ids, Names, Bootstrap, Sids, Tasks, MaxPasswords,
  \* SignIn.
  Ips, Calls, WINDOW, THRESHOLD, COOLDOWN, DELAY, MaxClock, MaxAsks, MaxFaults

VARIABLES
  part,
  accounts, sessions, tasks, passwords, up, cut, overlapped,
  now, attempts, calls, told, asked, faults

A == INSTANCE Accounts
L == INSTANCE SignIn

ASSUME AccountsAssumption == A!AccountsAssumption
ASSUME SignInAssumption == L!SignInAssumption

ofAccounts == <<accounts, sessions, tasks, passwords, up, cut, overlapped>>
ofSignIn == <<now, attempts, calls, told, asked, faults>>
vars == <<part, ofAccounts, ofSignIn>>

NoAccounts ==
  /\ accounts = 0 /\ sessions = 0 /\ tasks = 0 /\ passwords = 0 /\ up = 0 /\ cut = 0
  /\ overlapped = 0
NoSignIn == now = 0 /\ attempts = 0 /\ calls = 0 /\ told = 0 /\ asked = 0 /\ faults = 0

Init ==
  \/ part = "accounts" /\ A!Init /\ NoSignIn
  \/ part = "signin" /\ L!Init /\ NoAccounts

Next ==
  \/ part = "accounts" /\ A!Next /\ UNCHANGED <<part, ofSignIn>>
  \/ part = "signin" /\ L!Next /\ UNCHANGED <<part, ofAccounts>>

Spec == Init /\ [][Next]_vars

\* Accounts: no session outlives its account, one under an old password is explained,
\* and requests that come one at a time leave at least one account.
AccountsAreSound ==
  part = "accounts" =>
    A!Consistent /\ A!StaleSessionsExplained /\ A!OneAccountAliveUnlessOverlapped

\* Accounts: requests one at a time never demote the last who manages accounts.
RoleChangeLeavesManagerUnlessOverlapped ==
  [][part = "accounts" /\ ~overlapped => \A t \in Tasks : ~A!DemotesTheLast(t)]_vars

\* SignIn: an address learns of so many wrong guesses in any window, and no more, and who
\* waits as long as it was told to is let through.
LockoutIsKept == part = "signin" => L!GuessesAreBounded /\ L!RetryAfterIsKept

Symmetry ==
  Permutations(Ids) \cup Permutations(Sids) \cup Permutations(Tasks)
    \cup Permutations(Ips) \cup Permutations(Calls)
=============================================================================
