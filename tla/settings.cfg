\* Settings: a channel that is a secret alone, one that need not have any; one key or
\* none; two saves.  BackupScheduler: a minute of four units, every minute or every other
\* minute; ticks up to half a minute late, a clock set back twice.  Backups: three, by
\* hand or by the timer, in two seconds, one failure.
CONSTANTS
  Bare = {discord}
  Paired = {}
  Open = {ntfy}
  Destination = bucket0
  Plains = {plain}
  DefaultPlain = plain
  Details = {detail}
  Secrets = {hook}
  EnvSecret = env
  SealKeys = {sealKey}
  NoKey = noKey
  Tasks = {t1, t2}
  Minute = 4
  MaxLate = 2
  Expressions = {{0, 1, 2, 3, 4, 5, 6, 7, 8, 9}, {1, 3, 5, 7, 9}}
  MaxUp = 20
  MaxSteps = 2
  MaxEdits = 1
  MaxCrashes = 1
  Never = never
  Runs = {r1, r2, r3}
  MaxSecond = 1
  MaxFaults = 1
  NoRow = noRow
  NoObject = noObject
SPECIFICATION Spec
SYMMETRY Symmetry
INVARIANTS WrittenThrough ClearOnlyFromSeed OncePerNamedMinute RecordsAreTrue
PROPERTIES KeptSurvivesUnlessOverlapped
