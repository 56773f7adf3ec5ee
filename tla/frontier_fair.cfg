\* One crawl of two pages, one caller, overlapping claims and a stop.
CONSTANTS
  u1 = u1
  u2 = u2
  u3 = u3
  o1 = o1
  b1 = b1
  b2 = b2
  p1 = p1
  p2 = p2
  c1 = c1
  c2 = c2
  noUrl = noUrl
  NoUrl <- noUrl
  Origins <- OneHost
  OriginOf <- HostOf
  SeedOf <- Seeds
  Limit <- Limits
  Crawlers <- TwoCrawlers
  JsCrawlers <- OneJsCrawler
  Urls <- TwoUrls
  Links <- LinksOfTwo
  Crawls <- OneCrawl
  MaxPages <- TwoPages
  MaxDepth = 1
  Callers <- OneCaller
  MaxJobs = 1
  MaxInserts = 3
  MaxRequeues = 1
  Races <- Overlaps
SPECIFICATION FairSpec
CHECK_DEADLOCK FALSE
INVARIANTS
  TypeOK
PROPERTIES
  FrontierDrains
