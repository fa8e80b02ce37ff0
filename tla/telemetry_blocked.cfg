SPECIFICATION FairSpec
CONSTANTS
  n1 = n1
  n2 = n2
  n3 = n3
  r1 = r1
  r2 = r2
  Nonces = {n1, n2}
  Reports = {r1}
  Handlers = {h1}
  Runs = {cron}
  Cron = cron
  None = None
  Payload <- MCMixed
  SnapshotIsolation = TRUE
  Lookback = 2
  MaxTime = 2
  MaxSends <- MCOnce
  MaxFails = 0
PROPERTY EventuallyProcessed
