\* Three sockets of a screen: one in use, one that closes or was left behind, one to
\* connect; two sockets at the server for one place; rows of two sorts, one to a page;
\* two requests of a screen at once.
CONSTANTS
  Socks = {s1, s2, s3}
  Nodes = {n1}
  NoNode = nobody
  NoSock = null
  MaxHurries = 1
  MaxLates = 2
  Peers = {c1, c2}
  Sids = {x1}
  Pushes = {p1, p2}
  MAX_CONNECTIONS = 1
  Sorts = {"a", "b"}
  Texts = {"a"}
  PageSize = 1
  Stores <- MCStores
  MaxRows = 2
  MaxEdits = 2
  MaxMoves = 1
  Targets = {t1, t2}
  Loads = {l1, l2}
  NoTarget = none
  Empty = empty
  MaxTime = 2
  MaxChanges = 2
  MaxFaults = 1
SPECIFICATION Spec
INVARIANTS ConnectionsAreSound ShowsWhatIsAskedFor
PROPERTIES ComesToRest WatchesWhatIsShown OnlyTheLiveAreServed EndedClientsLeave ComesToShow
CHECK_DEADLOCK FALSE
