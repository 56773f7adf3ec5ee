\* Results of one lease reach a projector, which fails once.
SPECIFICATION FairSpec
CONSTANTS
  i1 = i1  i2 = i2  l1 = l1  p1 = p1
  Items <- const_Items
  Leases <- const_Leases
  LeaseOf <- const_LeaseOf
  Projectors <- const_Projectors
  BatchSize = 1
  MaxFaults = 1
INVARIANTS TypeOK BatchTold
PROPERTY Delivered
CHECK_DEADLOCK FALSE
