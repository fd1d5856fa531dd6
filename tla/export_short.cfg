\* A table of four rows that nobody changes, a cap of three: a full file, and no fault.
CONSTANTS
  Nodes = {n1, n2}
  Ahead = {n2}
  Requests = {a1, a2}
  PERSIST = 1
  STALE = 1
  OLD = 2
  Absent = Absent
  Attempts = {c1}
  Noise = {b1, b2}
  SURPLUS = 1
  People = {p1}
  Execs = {e1}
  OwnerOf <- MCOwnerOf
  Unset = unset
  Polls = {a1, a2}
  Kinds = {"events", "access"}
  SECOND = 2
  INTERVAL = 2
  TAIL = 2
  CHUNK = 1
  MaxItems = 3
  MaxClock = 7
  Machines = {a1, a2}
  Members = {a1, a2}
  Bytes = {0, 1}
  MAX_SERIES_POINTS = 2
  Spans = {2, 4}
  SCALE = 12
  Null = unset
  MaxIntervals = 4
  Rows = {1, 2, 3, 4, 5}
  Stores <- MCStores
  MAX_PAGE = 2
  CAP = 3
  MaxChanges = 0
  MaxFaults = 0
SPECIFICATION Reports
INVARIANT ShortFilesSaySo
CHECK_DEADLOCK FALSE
