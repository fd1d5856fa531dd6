\* One failed pass between an alert's failure and its recovery.
CONSTANTS
  NumRules = 2
  Subjects = {s1}
  FireAfter <- MixedFire
  ResolveAfter <- MixedResolve
  CountCap = 2
  Ids = {i1, i2}
  Passes = {p1}
  MaxFaults = 1
  NoRow = NoRow
SPECIFICATION Spec
INVARIANTS NoRecoveryUntold
