\* The first request with the key of a new account.
SPECIFICATION Spec
CONSTANTS
  u1 = u1  k1 = k1  k2 = k2  r1 = r1  r2 = r2
  Users <- MCUsers
  NoUser = NoUser
  Keys <- MCOneKey
  NoKey = NoKey
  NoRow = NoRow
  Requests <- MCRequests
  Limits = {1, 2}
  LastDay = 2

CHECK_DEADLOCK FALSE

PROPERTIES FirstRequestAnswered
