SPECIFICATION Spec
CONSTANTS
  n1 = n1
  n2 = n2
  n3 = n3
  r1 = r1
  r2 = r2
  Nonces = {n1, n2}
  Reports = {r1}
  Handlers = {h1, h2}
  Runs = {cron, admin}
  Cron = cron
  None = None
  Payload <- MCPayload
  SnapshotIsolation = TRUE
  Lookback = 2
  MaxTime = 2
  MaxSends <- MCTwice
  MaxFails = 1
SYMMETRY HandlerSymmetry
INVARIANTS
  TypeOK
  CountedOnce
  InstallsRecorded
  AcceptedWhole
PROPERTIES
  RowsKept
  LedgerSpec
