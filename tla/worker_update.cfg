\* Two places for jobs, two releases, two requests for one.
SPECIFICATION FairSpec
CONSTANTS
  v1 = v1  v2 = v2
  s1 = s1  s2 = s2
  NoVersion = NoVersion
  Versions <- MCVersions
  FirstVersion = v1
  Slots <- MCSlots
  MaxJobs = 2
  MaxRequests = 2
INVARIANTS TypeOK UpdatesIdle RequestKept FailureHeld
PROPERTIES UpdateSettles ShutdownEnds
