SPECIFICATION Spec
CONSTANTS
  Url <- MCUrl
  Key <- MCKey
  Host <- MCHost
  KeyOf <- MCKeyOf
  HostOf <- MCHostOf
  Links <- MCLinks
  Aliases <- MCAliases
  SiteOf <- MCSiteOf
  Seeds = 2
  SeedUrl <- MCSeedUrl
  SeedPriority <- MCSeedPriority
  SitemapFile <- MCSitemapFile
  PageLocs <- MCPageLocs
  ChildLocs <- MCChildLocs
  Declared <- MCDeclared
  MaxChildSitemaps = 2
  MaxSitemapURLs = 9
  Fresh <- MCFresh
  MaxDepth = 1
  MaxPages = 4
  Concurrency = 2
  SameHostOnly = FALSE
  HasCountryFilter = TRUE
  MaxPagesPerDomain = 2
  MaxConcurrentPerHost = 1
  SitemapBatch = 1
  PagesPerRun = 2
  MaxCarried = 9
INVARIANT TypeOK
INVARIANT CrawlIsWhole
INVARIANT SitemapsAreFollowed
PROPERTY CrawlEnds
