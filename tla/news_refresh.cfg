SPECIFICATION FairSpec
CONSTANTS
  f1 = f1
  f2 = f2
  k1 = k1
  k2 = k2
  Files = {f1, f2}
  Keys = {k1, k2}
  KeyOf <- MCOwnKey
  Slots = {s1, s2}
  Sequential = FALSE
  Spaced = TRUE
  Reverts = FALSE
  MaxPushes = 3
  MaxDownloadFails = 1
  MaxCacheFails = 1
  MaxCrashes = 1
INVARIANTS
  TypeOK
  HashHasContent
  UpToDateMeansFresh
PROPERTIES
  NeverBackward
  EventuallyServed
