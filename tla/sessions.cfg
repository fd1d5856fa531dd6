\* SignIn: two failures within two steps of the clock lock an address for two.
\* An address stands where an account does in the other part, and a call where a request does.
CONSTANTS
  Ids = {i1, i2}
  Names = {admin, n1}
  Bootstrap = admin
  Sids = {s1, s2}
  Tasks = {t1, t2}
  MaxPasswords = 3
  Ips = {i1, i2}
  Calls = {t1, t2}
  WINDOW = 2
  THRESHOLD = 2
  COOLDOWN = 2
  DELAY = 1
  MaxClock = 4
  MaxAsks = 4
  MaxFaults = 1
SPECIFICATION Spec
SYMMETRY Symmetry
INVARIANTS AccountsAreSound LockoutIsKept
PROPERTIES RoleChangeLeavesManagerUnlessOverlapped
CHECK_DEADLOCK FALSE
