\* HostIngest: two nodes, the second's clock ahead, two requests.  SessionLogs: an attempt,
\* two wide lines of others, a session and an execution in it.  Sweeps: two polls at once; a
\* second is two units, the interval of the polls too, and a tail holds two lines.  Series:
\* two machines, buckets of two samples and of one.  Export: pages of two rows, a cap of
\* four.  What a1 and a2 stand for is interchangeable.
CONSTANTS
  Nodes = {n1, n2}
  Ahead = {n2}
  Requests = {a1, a2}
  PERSIST = 1
  STALE = 1
  OLD = 2
  Absent = Absent
  Attempts = {c1}
  Noise = {b1, b2}
  SURPLUS = 1
  People = {p1}
  Execs = {e1}
  OwnerOf <- MCOwnerOf
  Unset = unset
  Polls = {a1, a2}
  Kinds = {"events", "access"}
  SECOND = 2
  INTERVAL = 2
  TAIL = 2
  CHUNK = 1
  MaxItems = 3
  MaxClock = 7
  Machines = {a1, a2}
  Members = {a1, a2}
  Bytes = {0, 1}
  MAX_SERIES_POINTS = 2
  Spans = {2, 4}
  SCALE = 12
  Null = unset
  MaxIntervals = 4
  Rows = {1, 2, 3, 4, 5}
  Stores <- MCStores
  MAX_PAGE = 2
  CAP = 4
  MaxChanges = 2
  MaxFaults = 1
SPECIFICATION Reports
SYMMETRY Symmetry
INVARIANTS DeadLooksDead WrittenStaysUnlessOverlapped ReadOnceAndWhole RatesAreHonest
PROPERTIES NeverBack
CHECK_DEADLOCK FALSE
