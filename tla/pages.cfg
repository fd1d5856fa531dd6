\* Two requests of a page, one of which may be given up, about one name; documents of two
\* fields, two requests for them, a save that is given up; readings of three times, of which
\* a line draws the first and the last, two frames or answers under way, one late or lost
\* (a late reading is a stale one).
CONSTANTS
  None = none
  Names = {n1}
  Calls = {a1, a2}
  MaxSecrets = 2
  MaxFaults = 1
  Fields = {f1, f2}
  Values = {"", "a"}
  Loads = {a1, a2}
  MaxTypings = 2
  STALE = 0
  LATENESS = 1
  EVERY = 2
  WINDOW = 2
  Signal = signal
  MaxClock = 2
  MaxLoads = 1
  MaxWay = 2
  MaxAsks = 2
  MaxLapses = 1
SPECIFICATION Spec
INVARIANTS SecretsReachTheirReader ListsAreCurrent SavesWhatWasTyped TestsWhatIsShown
INVARIANT ChartsMoveForward
SYMMETRY Symmetry
CHECK_DEADLOCK FALSE
