SPECIFICATION FairSpec
CONSTANTS
  Partition = {p1}
  MaxOffset = 3
  BatchSize = 2
  TaskRetries = 1
  SiteConcurrency = 1
  MaximumAttempts = 3
  MaxSiteAttempts = 2
  MaxFaults = 3
INVARIANT TypeOK
INVARIANT NothingIsLost
PROPERTY KeepsPromise
PROPERTY TopicDrains
CHECK_DEADLOCK FALSE
