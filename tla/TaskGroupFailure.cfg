CONSTANTS
  a = a
  b = b
  c = c
  d = d
  g1 = g1
  g2 = g2
  Group = {g1, g2}
  TaskId = {a, b, c, d}
  Offered <- OfferSmall
  NoRequest = NoRequest
  NoSession = NoSession
  NoRow = NoRow
  MaxRestarts = 0
  MaxFailures = 0
SPECIFICATION FairSpec
PROPERTY FailureStops
