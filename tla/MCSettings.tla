----------------------------- MODULE MCSettings -----------------------------
(***************************************************************************)
(* The settings (Settings), the schedule of backups they set               *)
(* (BackupScheduler) and the backups (Backups), put together for TLC and   *)
(* for the theorems of SettingsProofs.                                     *)
(*                                                                         *)
(* A behaviour is one of one of them, `part`: what is saved as a schedule  *)
(* is, for the scheduler, any of its expressions at any time, and a backup *)
(* may start whenever the scheduler is idle.  Variables that are not in    *)
(* use stay 0.  The saves are interchangeable, and so are the backups.     *)
(***************************************************************************)
EXTENDS Integers, TLC

CONSTANTS
  \* Settings.
  Bare, Paired, Open, Destination, Plains, DefaultPlain, Details, Secrets, EnvSecret,
  SealKeys, NoKey, Tasks,
  \* BackupScheduler.
  Minute, MaxLate, Expressions, MaxUp, MaxSteps, MaxEdits, MaxCrashes, Never,
  \* Backups.
  Runs, MaxSecond, MaxFaults, NoRow, NoObject

VARIABLES
  part,
  documents, configs, tasks, key, overlapped, edited,
  up, offset, due, expression, lastFired, running, runs, edits, crashes, quiet, punctual,
  second, bucket, began, byTimer, armed, flag, faults,
  rows, pc  \* of the settings, and of the backups

S == INSTANCE Settings
T == INSTANCE BackupScheduler
B == INSTANCE Backups

ASSUME SettingsAssumption == S!SettingsAssumption
ASSUME SchedulerAssumption == T!SchedulerAssumption
ASSUME BackupsAssumption == B!BackupsAssumption

ofSettings == <<documents, configs, tasks, key, overlapped, edited>>
ofSchedule == <<up, offset, due, expression, lastFired, running, runs, edits, crashes,
                quiet, punctual>>
ofBackups == <<second, bucket, began, byTimer, armed, flag, faults>>
vars == <<part, rows, pc, ofSettings, ofSchedule, ofBackups>>

NoSettings ==
  /\ documents = 0 /\ configs = 0 /\ tasks = 0 /\ key = 0 /\ overlapped = 0 /\ edited = 0
NoSchedule ==
  /\ up = 0 /\ offset = 0 /\ due = 0 /\ expression = 0 /\ lastFired = 0 /\ running = 0
  /\ runs = 0 /\ edits = 0 /\ crashes = 0 /\ quiet = 0 /\ punctual = 0
NoBackups ==
  /\ second = 0 /\ bucket = 0 /\ began = 0 /\ byTimer = 0 /\ armed = 0 /\ flag = 0
  /\ faults = 0

Init ==
  \/ part = "settings" /\ S!Init /\ NoSchedule /\ NoBackups
  \/ part = "schedule" /\ T!Init /\ NoSettings /\ NoBackups /\ rows = 0 /\ pc = 0
  \/ part = "backups" /\ B!Init /\ NoSettings /\ NoSchedule

Next ==
  \/ part = "settings" /\ S!Next /\ UNCHANGED <<part, ofSchedule, ofBackups>>
  \/ part = "schedule" /\ T!Next /\ UNCHANGED <<part, rows, pc, ofSettings, ofBackups>>
  \/ part = "backups" /\ B!Next /\ UNCHANGED <<part, ofSettings, ofSchedule>>

Spec == Init /\ [][Next]_vars

\* Settings: documents are whole wherever they are kept, and between saves the row, the
\* document and the configuration are one.
WrittenThrough == part = "settings" => S!TypeOK /\ S!WrittenThroughUnlessOverlapped

\* Settings: only what the environment seeded is ever stored in the clear.
ClearOnlyFromSeed == part = "settings" => S!ClearOnlyFromSeed

\* Settings: a save that keeps a secret leaves it as it was.
KeptSurvivesUnlessOverlapped == [][part = "settings" => S!KeepsTheKept]_vars

\* BackupScheduler: a minute runs one backup at most, and, as long as ticks are
\* punctual, every minute that is named does.
OncePerNamedMinute ==
  part = "schedule" => T!TypeOK /\ T!OncePerMinute /\ T!EveryNamedMinuteRunsIfPunctual

\* Backups: one on record as ok is in the bucket, what is in the bucket is on record,
\* and the screen says a backup is running only while one is.
RecordsAreTrue ==
  part = "backups" => B!Consistent /\ B!OkIsInTheBucket /\ B!FlagIsHonest

Symmetry == Permutations(Tasks) \cup Permutations(Runs)
=============================================================================
