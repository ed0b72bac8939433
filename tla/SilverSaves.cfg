SPECIFICATION Spec
CONSTANTS
  ta = ta
  tb = tb
  tc = tc
  ba = ba
  bb = bb
  bc = bc
  Url = {u1, u2, u3}
  Body = {ba, bb, bc}
  Content = {ta, tb, tc}
  TextOf <- MCTextOf
  Distance <- MCDistance
  NearLimit = 2
  Worker = {w1, w2}
  MaxFetches = 3
  MaxBronze = 3
  MaxPages = 3
  MaxQuarantines = 1
SYMMETRY Symmetry
CONSTRAINT SmallOverlaps
INVARIANT TypeOK
INVARIANT PagesAgree
PROPERTY InTurnIsTrue
PROPERTY SourceNeverOlder
PROPERTY FoldingHolds
CHECK_DEADLOCK FALSE
