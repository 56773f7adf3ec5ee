\* One job, two leases, two projection tasks, every race.
CONSTANTS
  j1 = j1
  j2 = j2
  c1 = c1
  c2 = c2
  t1 = t1
  t2 = t2
  noCrawler = noCrawler
  noItem = noItem
  Jobs <- OneJob
  Crawlers <- TwoCrawlers
  JsCrawlers <- OneJsCrawler
  NoCrawler <- noCrawler
  Tasks <- TwoTasks
  NoItem <- noItem
  MaxAttempts = 2
  MaxLeases = 2
  MaxGrants = 1
  Races <- AllRaces
SPECIFICATION Spec
SYMMETRY TaskSymmetry
CHECK_DEADLOCK FALSE
INVARIANTS
  HeldUnderLease
  StagedBeforeIngesting
PROPERTIES
  DeletedForGood
