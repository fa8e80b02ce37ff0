SPECIFICATION Spec
CONSTANTS
  old = old
  r1 = r1
  r2 = r2
  bad = bad
  Releases = {r1, r2}
  Initial = {r1, r2}
  Order <- MCOrder
  PerPage = 2
  BadTags = {}
  Old = {}
  Prereleases = {r1}
  Assets = {onefile, tarball}
  Onefile = {onefile}
  Unmatched = {}
  MaxPromotions = 0
  MaxStops = 0
  MaxDownloadFails = 1
  MaxPullCuts = 0
  MaxPushCuts = 0
  MaxWipes = 0
INVARIANT SyncedIsPublished
