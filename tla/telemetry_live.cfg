SPECIFICATION FairSpec
CONSTANTS
  n1 = n1
  n2 = n2
  n3 = n3
  r1 = r1
  r2 = r2
  Nonces = {n1, n2}
  Reports = {r1, r2}
  Handlers = {h1, h2}
  Runs = {cron, admin}
  Cron = cron
  None = None
  Payload <- MCTwo
  SnapshotIsolation = TRUE
  Lookback = 2
  MaxTime = 2
  MaxSends <- MCFirstTwice
  MaxFails = 0
PROPERTIES
  EventuallyProcessedOrBlocked
  RequestsEnd
