SPECIFICATION Spec
CONSTANTS
  Task = {"t1", "t2"}
  Entry = {"e1", "e2", "e3"}
  URL <- MCURL
  Origin = {"https"}
  Host = {"h"}
  OriginOf <- MCOriginOf
  HostOf <- MCHostOf
  Files <- MCFiles
  UserAgent = "pgs"
  MaxCrawlDelay = 1
  PolitenessDelay = 0
  CacheTTL = 1
  UnreachableTTL = 1
  HostStateIdle = 2
  MaxRedirects = 1
  MaxQueue = 2
INVARIANT FetcherTyped
INVARIANT AnswersHold
PROPERTY Spaced
PROPERTY FetchesEnd
CHECK_DEADLOCK FALSE
