CONSTANTS
  a = a
  b = b
  c = c
  d = d
  g1 = g1
  g2 = g2
  Group = {g1, g2}
  TaskId = {a, b, c, d}
  Offered <- OfferMixed
  NoRequest = NoRequest
  NoSession = NoSession
  NoRow = NoRow
  MaxRestarts = 1
  MaxFailures = 1
SPECIFICATION MixedSpec
INVARIANT TypeOK
INVARIANT DependenciesFirst
INVARIANT EndsQuiet
INVARIANT HistorySound
INVARIANT PlanSound
INVARIANT ResumesLatest
PROPERTY GroupEnds
