-------------------------- MODULE BackupScheduler --------------------------
(***************************************************************************)
(* The timer that runs backups: backup/scheduler.ts, with matches() of     *)
(* backup/cron.ts reduced to the set of minutes an expression names, and   *)
(* setSchedule as backup/runner.ts calls it.                               *)
(*                                                                         *)
(* The interval runs on a clock of its own, in units of which a minute has *)
(* Minute; the wall clock that names minutes is that clock plus an offset. *)
(***************************************************************************)
EXTENDS Integers, FiniteSets

CONSTANTS
  Minute,       \* Units in a minute: TICK_MS.
  MaxLate,      \* How many units after it is due a tick may run.
  Expressions,  \* Cron expressions, each the set of minutes it names.
  MaxUp,        \* Bound: units a behaviour lasts, a minute at least.
  MaxSteps,     \* Bound: corrections of the wall clock, in all less than a minute.
  MaxEdits,     \* Bound: changes of the schedule.
  MaxCrashes,   \* Bound: restarts of the process.
  Never         \* #lastFiredMinute when it is null.

SchedulerAssumption ==
  /\ Minute \in Nat \ {0} /\ MaxLate \in Nat
  /\ MaxUp \in Nat /\ Minute <= MaxUp
  /\ MaxSteps \in 0 .. Minute - 1 /\ MaxEdits \in Nat /\ MaxCrashes \in Nat
  /\ Expressions \subseteq SUBSET Nat /\ Expressions # {}
  /\ Never \notin Int

VARIABLES
  up,          \* The monotonic clock.
  offset,      \* The wall clock is up + offset.
  due,         \* When the interval fires next, on the monotonic clock.
  expression,  \* #expression: the minutes it names.
  lastFired,   \* #lastFiredMinute.
  running,     \* #running.
  runs,        \* History: minute -> backups started, since the last edit.
  edits,       \* Schedule changes so far.
  crashes,     \* Restarts so far.
  quiet,       \* History: up, idle, on one schedule and one clock since.
  punctual     \* History: no tick has been late.

vars == <<up, offset, due, expression, lastFired, running, runs, edits, crashes,
          quiet, punctual>>

MinuteOf(t) == t \div Minute
Now == MinuteOf(up + offset)
Minutes == 0 .. MinuteOf(MaxUp) + 1
NoRuns == [m \in Minutes |-> 0]

Init ==
  /\ up \in 0 .. Minute - 1
  /\ offset = 1
  /\ due = up + Minute
  /\ expression \in Expressions
  /\ lastFired = Never
  /\ running = FALSE
  /\ runs = NoRuns
  /\ edits = 0
  /\ crashes = 0
  /\ quiet = up
  /\ punctual = TRUE

\* Time passes. A tick that is due waits at most MaxLate for the event loop.
Pass ==
  /\ up < MaxUp
  /\ up < due + MaxLate
  /\ up' = up + 1
  /\ punctual' = (punctual /\ up < due)
  /\ UNCHANGED <<offset, due, expression, lastFired, running, runs, edits, crashes,
                 quiet>>

\* The minute has not fired a backup already.
NotFiredYet(m) == m # lastFired

\* What #lastFiredMinute is set to.
Mark == Now

\* Mutant: minutes are counted from one.
Matches_OffByOne(m) == m + 1 \in expression

\* matches(expression, at).
Matches(m) == m \in expression

\* tick(): run the backup if this minute is named. setInterval counts the next
\* minute from the moment this tick ran.
Tick ==
  /\ up >= due
  /\ due' = up + Minute
  /\ IF Matches(Now) /\ NotFiredYet(Now) /\ ~running
       THEN /\ lastFired' = Mark
            /\ running' = TRUE
            /\ runs' = [runs EXCEPT ![Now] = @ + 1]
       ELSE UNCHANGED <<lastFired, running, runs>>
  /\ UNCHANGED <<up, offset, expression, edits, crashes, quiet, punctual>>

\* run() settles, either way.
RunEnds ==
  /\ running
  /\ running' = FALSE
  /\ quiet' = up
  /\ UNCHANGED <<up, offset, due, expression, lastFired, runs, edits, crashes,
                 punctual>>

\* setSchedule: another expression, and the minute that fired is forgotten.
SetSchedule(e) ==
  /\ e # expression
  /\ edits < MaxEdits
  /\ edits' = edits + 1
  /\ expression' = e
  /\ lastFired' = Never
  /\ runs' = NoRuns
  /\ quiet' = up
  /\ UNCHANGED <<up, offset, due, running, crashes, punctual>>

\* The wall clock is set back by less than a minute.
StepBack ==
  /\ offset > 1 - MaxSteps
  /\ up + offset > 0
  /\ offset' = offset - 1
  /\ quiet' = up
  /\ UNCHANGED <<up, due, expression, lastFired, running, runs, edits, crashes,
                 punctual>>

\* The process restarts: the first tick comes a whole interval later.
Restart ==
  /\ crashes < MaxCrashes
  /\ crashes' = crashes + 1
  /\ due' = up + Minute
  /\ lastFired' = Never
  /\ running' = FALSE
  /\ quiet' = up
  /\ UNCHANGED <<up, offset, expression, runs, edits, punctual>>

\* The bounded behaviour is over.
Over == up = MaxUp /\ UNCHANGED vars

Next ==
  \/ Pass
  \/ Tick
  \/ RunEnds
  \/ \E e \in Expressions : SetSchedule(e)
  \/ StepBack
  \/ Restart
  \/ Over

Spec == Init /\ [][Next]_vars

-----------------------------------------------------------------------------
(* Properties.                                                             *)

\* Every variable keeps its shape; lastFired is a minute, not a time.
TypeOK ==
  /\ up \in 0 .. MaxUp
  /\ offset \in 1 - MaxSteps .. 1
  /\ due \in 0 .. MaxUp + Minute
  /\ expression \in Expressions
  /\ lastFired \in Minutes \cup {Never}
  /\ running \in BOOLEAN
  /\ runs \in [Minutes -> Nat]
  /\ edits \in 0 .. MaxEdits
  /\ crashes \in 0 .. MaxCrashes
  /\ quiet \in 0 .. MaxUp
  /\ punctual \in BOOLEAN

\* "A tick that arrives twice inside one minute cannot run two backups": nor
\* can a restart inside the minute, nor a wall clock that was set back; the two
\* together could.
OncePerMinute ==
  crashes = 0 \/ offset = 1 => \A m \in Minutes : runs[m] <= 1

\* "Runs a backup on the minutes its expression names", as long as no tick has
\* run late: a named minute the scheduler was up and idle for, from start to
\* end, has run one. (One late tick is enough to step over a minute later on.)
EveryNamedMinuteRunsIfPunctual ==
  \A m \in Minutes :
    punctual /\ m \in expression /\ quiet + offset < m * Minute /\ m < Now /\ ~running
      => runs[m] > 0

=============================================================================
