SPECIFICATION Spec
CONSTANTS
  Object = {1, 2}
  Worker = {"w1", "w2"}
  Chunk = 1
  Limit = 2
  MaxFaults = 1
INVARIANT TypeOK
INVARIANT IntakeIsTrue
PROPERTY SettledStays
PROPERTY IntakeDrains
CHECK_DEADLOCK FALSE
