SPECIFICATION Spec
CONSTANTS
  Page = {p1}
  Indexer = {i1}
  BatchSize = 1
  MaxSaves = 2
  MaxFaults = 0
INVARIANTS CopyOfSilver
CHECK_DEADLOCK FALSE
