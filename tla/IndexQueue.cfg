SPECIFICATION FairSpec
CONSTANTS
  Page = {p1, p2}
  Indexer = {i1, i2}
  BatchSize = 2
  MaxSaves = 2
  MaxFaults = 1
INVARIANT TypeOK
INVARIANT SearchIsTrue
INVARIANT OneHolder
PROPERTY QueueDrains
CHECK_DEADLOCK FALSE
