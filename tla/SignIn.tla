------------------------------- MODULE SignIn -------------------------------
(***************************************************************************)
(* The lockout of auth/auth.service.ts login(), auth/login-policy.ts and   *)
(* db/login-attempts.repo.ts.                                              *)
(*                                                                         *)
(* A call counts the failures of its address, verifies the password (a     *)
(* long computation), writes its outcome down and, if it failed, pauses    *)
(* before it answers.  Its time is the one at which it came.  Calls        *)
(* interleave between all of these.                                        *)
(*                                                                         *)
(* All try one name.  Sessions and accounts are those of module Accounts;  *)
(* a session made here is an answer.  Rows older than a day are swept,     *)
(* long after they count.                                                  *)
(***************************************************************************)
EXTENDS Naturals, FiniteSets

CONSTANTS
  Ips,         \* addresses
  Calls,       \* calls in progress at a time
  WINDOW,      \* LOCKOUT.windowMs, in steps of the clock
  THRESHOLD,   \* LOCKOUT.threshold
  COOLDOWN,    \* LOCKOUT.cooldownMs, sent as Retry-After
  DELAY,       \* FAILED_LOGIN_DELAY_MS
  MaxClock,    \* bound: the time the model runs for
  MaxAsks,     \* bound: calls made
  MaxFaults    \* bound: writes that fail, kills

\* An address is locked for as long as the window is, and then there is the pause.
SignInAssumption ==
  /\ IsFiniteSet(Calls)
  /\ THRESHOLD \in Nat \ {0}
  /\ WINDOW \in Nat /\ COOLDOWN \in Nat /\ DELAY \in Nat
  /\ WINDOW < COOLDOWN + DELAY
  /\ MaxClock \in Nat

VARIABLES
  now,
  attempts,  \* table login_attempts: its rows, those with the outcome 'ok' left out
  calls,     \* call -> Idle, or what it has got to
  told,      \* history: address -> when it was told to wait, if it asked nothing since
  asked,     \* calls made
  faults

vars == <<now, attempts, calls, told, asked, faults>>

Idle == [stage |-> "idle"]
Never == MaxClock + 1

Callers(ip) == {call \in Calls : calls[call] # Idle /\ calls[call].ip = ip}

-----------------------------------------------------------------------------
(* The policy.                                                             *)

\* Mutant: the window is a step shorter.
WindowStart_Later(at) == at + 1

\* lockoutWindowStart, with WINDOW added to both sides of its comparison.
WindowStart(at) == at

Times == 0 .. MaxClock
Outcomes == {"bad_password", "locked"}

\* insert: a row of its own, `nth` of those alike.
Alike(ip, at, outcome) ==
  {row \in attempts : row.ip = ip /\ row.at = at /\ row.outcome = outcome}
Attempt(ip, at, outcome) ==
  [ip |-> ip, at |-> at, outcome |-> outcome, nth |-> Cardinality(Alike(ip, at, outcome))]

\* recentFailuresByIp.
Recent(ip, since) == Cardinality({row \in attempts : row.ip = ip /\ row.at + WINDOW >= since})

\* decideLogin.
Allowed(failures) == failures < THRESHOLD

\* Mutant: no pause after a refusal.
Paused_NotAt(at) == at

\* When an answer that waits is sent.
Paused(at) == at + DELAY

-----------------------------------------------------------------------------
(* A call.                                                                 *)

\* It comes.  `patient`: its address was told to wait, has waited, and asks nothing
\* else from then on until this call is counted.
Ask(call, ip, right) ==
  /\ asked < MaxAsks /\ calls[call] = Idle
  /\ asked' = asked + 1
  /\ calls' = [other \in Calls |->
       CASE other = call ->
              [stage |-> "counting", ip |-> ip, right |-> right, at |-> now,
               patient |-> told[ip] + COOLDOWN <= now]
         [] other \in Callers(ip) /\ calls[other].stage = "counting" ->
              [calls[other] EXCEPT !.patient = FALSE]
         [] OTHER -> calls[other]]
  /\ told' = [told EXCEPT ![ip] = Never]
  /\ UNCHANGED <<now, attempts, faults>>

\* The failures are counted and the call is let through or not.
Count(call) ==
  /\ calls[call].stage = "counting"
  /\ calls' = [calls EXCEPT ![call].stage =
       IF Allowed(Recent(calls[call].ip, WindowStart(calls[call].at))) THEN "verifying" ELSE "locked"]
  /\ UNCHANGED <<now, attempts, told, asked, faults>>

\* The failure is written down, and the call pauses.
Record(call) ==
  LET this == calls[call] IN
  /\ \/ this.stage = "locked"
     \/ this.stage = "verifying" /\ ~this.right
  /\ attempts' = attempts \cup {Attempt(this.ip, this.at,
                                IF this.stage = "locked" THEN "locked" ELSE "bad_password")}
  /\ calls' = [calls EXCEPT ![call] =
       [stage |-> "pausing", ip |-> this.ip, locked |-> this.stage = "locked",
        until |-> Paused(now)]]
  /\ UNCHANGED <<now, told, asked, faults>>

\* The password is right: 'ok' is written, a session made, and that is the answer.
SucceedsWith(call) ==
  /\ calls[call].stage = "verifying" /\ calls[call].right
  /\ calls' = [calls EXCEPT ![call] = Idle]
  /\ UNCHANGED <<now, attempts, told, asked, faults>>

\* The pause is over.  Being told to wait counts when nobody else of that address
\* is still asking.
Answer(call) ==
  /\ calls[call].stage = "pausing" /\ now >= calls[call].until
  /\ calls' = [calls EXCEPT ![call] = Idle]
  /\ LET ip == calls[call].ip IN
     told' = [told EXCEPT ![ip] = IF calls[call].locked /\ Callers(ip) = {call} THEN now ELSE Never]
  /\ UNCHANGED <<now, attempts, asked, faults>>

\* A statement fails, and the call with it.
Breaks(call) ==
  /\ faults < MaxFaults
  /\ calls[call].stage \in {"counting", "locked", "verifying"}
  /\ calls' = [calls EXCEPT ![call] = Idle]
  /\ faults' = faults + 1
  /\ UNCHANGED <<now, attempts, told, asked>>

\* The process ends and another takes over.
Crash ==
  /\ faults < MaxFaults
  /\ calls' = [call \in Calls |-> Idle]
  /\ faults' = faults + 1
  /\ UNCHANGED <<now, attempts, told, asked>>

Tick == now < MaxClock /\ now' = now + 1 /\ UNCHANGED <<attempts, calls, told, asked, faults>>

Init ==
  /\ now = 0
  /\ attempts = {}
  /\ calls = [call \in Calls |-> Idle]
  /\ told = [ip \in Ips |-> Never]
  /\ asked = 0
  /\ faults = 0

Next ==
  \/ \E call \in Calls, ip \in Ips, right \in BOOLEAN : Ask(call, ip, right)
  \/ \E call \in Calls :
       Count(call) \/ Record(call) \/ SucceedsWith(call) \/ Answer(call) \/ Breaks(call)
  \/ Crash
  \/ Tick

Spec == Init /\ [][Next]_vars

-----------------------------------------------------------------------------
(* Properties.                                                             *)

\* Wrong guesses of one address whose calls came in the window that starts here.
Guesses(ip, from) == Cardinality(
  {row \in attempts : row.ip = ip /\ row.outcome = "bad_password"
                        /\ from <= row.at /\ row.at <= from + WINDOW})

\* An address learns the outcome of no more wrong guesses in any window than the
\* threshold and one for each other call it can have in progress, over restarts and
\* writes that fail.
GuessesAreBounded ==
  \A ip \in Ips, from \in 0 .. now : Guesses(ip, from) < THRESHOLD + Cardinality(Calls)

\* Retry-After is kept: who was told to wait, waited and asked nothing meanwhile is
\* let through, whatever others tried with whatever names.  The count takes the
\* first moment of the window in, so this hangs on the pause before the answer.
RetryAfterIsKept == \A call \in Calls : calls[call].stage = "locked" => ~calls[call].patient
=============================================================================
