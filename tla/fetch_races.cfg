\* Two tasks over one or two origins, one redirect, one retry.
SPECIFICATION Spec
CONSTANTS
  j1 = j1  j2 = j2
  o1 = o1  o2 = o2
  Jobs <- MCJobs
  Origins <- MCOrigins
  Homes <- MCHomes
  Pages <- MCPages
  MaxRedirects = 1
  MaxRetries = 1
SYMMETRY JobSymmetry
INVARIANTS TypeOK RulesHeld HopsAllowed
PROPERTIES PagesSpaced ReportFaithful
