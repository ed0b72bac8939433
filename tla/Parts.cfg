SPECIFICATION Spec
CONSTANTS
  p1 = p1
  p2 = p2
  c1 = c1
  c2 = c2
  c3 = c3
  c4 = c4
  c5 = c5
  w1 = w1
  w2 = w2
  blank = blank
  Page = {p1, p2}
  Writer = {w1, w2}
  Content = {c1, c2, c3, c4, c5}
  Bronze <- MCBronze
  Payload <- MCPayload
  DomainGeo <- MCDomainGeo
  Blocks <- MCBlocks
  Blank = blank
  MaxWrites = 3
  MaxRemovals = 1
INVARIANT PartsTyped
INVARIANT PartsAreWhole
PROPERTY NamesAreKept
PROPERTY WritersEnd
CHECK_DEADLOCK FALSE
