\* One user with two keys, two requests at a time, over midnight.
SPECIFICATION Spec
CONSTANTS
  u1 = u1  k1 = k1  k2 = k2  r1 = r1  r2 = r2
  Users <- MCUsers
  NoUser = NoUser
  Keys <- MCKeys
  NoKey = NoKey
  NoRow = NoRow
  Requests <- MCRequests
  Limits = {1, 2}
  LastDay = 2
SYMMETRY Symmetry
CHECK_DEADLOCK FALSE
INVARIANTS TypeOK QuotaHeld
PROPERTIES RefusedRightly
