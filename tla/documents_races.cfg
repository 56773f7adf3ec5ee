\* Two pages of one host, one of another; calls overlap and fail.
CONSTANTS
  d1 = d1
  d2 = d2
  d3 = d3
  x1 = x1
  x2 = x2
  h1 = h1
  h2 = h2
  k1 = k1
  k2 = k2
  noPage = noPage
  noRow = noRow
  noContent = noContent
  NoPage <- noPage
  NoRow <- noRow
  NoContent <- noContent
  Pages <- ThreePages
  HostOf <- Hosts
  Canonicals <- FirstOrOwn
  Contents <- TwoContents
  Callers <- TwoCallers
  MaxCalls = 4
  Hazards <- HazardKinds
SPECIFICATION Spec
SYMMETRY Symmetry
CHECK_DEADLOCK FALSE
INVARIANTS
  TypeOK
  CopiesAgree
  BlobBeforeRow
  OneRowPerCanonical
