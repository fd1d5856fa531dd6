\* Two rules on one subject, two passes that may overlap, two failures.
CONSTANTS
  NumRules = 2
  Subjects = {s1}
  FireAfter <- SlowFire
  ResolveAfter <- SlowResolve
  CountCap = 2
  Ids = {i1, i2}
  Passes = {p1, p2}
  MaxFaults = 2
  NoRow = NoRow
SPECIFICATION FairSpec
INVARIANTS OneOpenPerIdentity ToldOnce NoRecoveryUntoldUnlessFailed
PROPERTIES FiresWhenHeldIfBrisk ImplementsIncidents ConditionsAreFollowed
