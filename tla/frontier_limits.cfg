\* Two crawls of one site with limits 1 and 2, two callers, crashes and a stop.
CONSTANTS
  u1 = u1
  u2 = u2
  u3 = u3
  o1 = o1
  b1 = b1
  b2 = b2
  p1 = p1
  p2 = p2
  c1 = c1
  c2 = c2
  noUrl = noUrl
  NoUrl <- noUrl
  Origins <- OneHost
  OriginOf <- HostOf
  SeedOf <- Seeds
  Limit <- Limits
  Crawlers <- TwoCrawlers
  JsCrawlers <- OneJsCrawler
  Urls <- ThreeUrls
  Links <- LinksOfThree
  Crawls <- TwoCrawls
  MaxPages <- TwoPages
  MaxDepth = 1
  Callers <- TwoCallers
  MaxJobs = 2
  MaxInserts = 3
  MaxRequeues = 0
  Races <- CrashAndStop
SPECIFICATION Spec
SYMMETRY CallerSymmetry
CHECK_DEADLOCK FALSE
INVARIANTS
  SameOriginLimit
  
