CONSTANTS
  Ids = {i1, i2}
  Names = {admin, n1}
  Bootstrap = admin
  Sids = {s1, s2}
  Tasks = {t1, t2}
  MaxPasswords = 3
SPECIFICATION Spec
PROPERTIES RoleChangeLeavesManager
