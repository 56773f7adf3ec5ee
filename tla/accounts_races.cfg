\* An administrator and one more account, two requests at a time, a migration.
SPECIFICATION Spec
CONSTANTS
  a1 = a1  a2 = a2  a3 = a3  s1 = s1  s2 = s2  n1 = n1  N1 = N1  n2 = n2  r1 = r1  r2 = r2
  Accounts <- MCAccounts
  NoAccount = NoAccount
  Legacy <- MCLegacy
  Names <- MCNames
  Lower <- MCLower
  LocalName = n1
  Sessions <- MCSessions
  Requests <- MCRequests
  Wishes <- MCWishes
  Keep = Keep
  MaxRequests = 3
SYMMETRY Symmetry
CHECK_DEADLOCK FALSE
INVARIANTS TypeOK DisabledLockedOut SessionsOwned NamesUnique
PROPERTIES PasswordKept
