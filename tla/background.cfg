\* One alert of severity warning, one channel, two drains that may overlap.
CONSTANTS
  AlertIds = {a1}
  Critical = {}
  Channels = {c1}
  Drains = {d1, d2}
  Jobs = {j1}
  MaxAttempts = 2
  DueLimit = 1
  MaxSeq = 2
  MaxEdits = 1
  MaxFaults = 2
  Polls = {p1, p2}
  Dialects = {"sqlite", "postgres"}
  MaxWorld = 3
  Sweeps = {s1, s2}
  MaxChanges = 2
  Calls = {k1, k2}
  REFRESH_INTERVAL = 2
  MaxRotations = 2
  MaxLapses = 1
SPECIFICATION Background
INVARIANTS QueueIsSound ClusterIsKnown
PROPERTIES ImplementsOutbox EveryMessageEnds SettlesOnTruth RotationsAreFollowed
CHECK_DEADLOCK FALSE
