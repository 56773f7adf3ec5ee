\* One job, three leases, two projection tasks, no race.
CONSTANTS
  j1 = j1
  j2 = j2
  c1 = c1
  c2 = c2
  t1 = t1
  t2 = t2
  noCrawler = noCrawler
  noItem = noItem
  Jobs <- OneJob
  Crawlers <- TwoCrawlers
  JsCrawlers <- OneJsCrawler
  NoCrawler <- noCrawler
  Tasks <- TwoTasks
  NoItem <- noItem
  MaxAttempts = 2
  MaxLeases = 3
  MaxGrants = 1
  Races <- NoRaces
SPECIFICATION Spec
SYMMETRY TaskSymmetry
CHECK_DEADLOCK FALSE
INVARIANTS
  TypeOK
  AttemptBudget
PROPERTIES
  OutcomeIsFinal
  AppliedOnce
  LifecycleImplemented
