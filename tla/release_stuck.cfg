SPECIFICATION FairSpec
CONSTANTS
  old = old
  r1 = r1
  r2 = r2
  bad = bad
  Releases = {r1}
  Initial = {r1}
  Order <- MCOrder
  PerPage = 3
  BadTags = {}
  Old = {}
  Prereleases = {r1}
  Assets = {onefile, tarball}
  Onefile = {onefile}
  Unmatched = {}
  MaxPromotions = 0
  MaxStops = 1
  MaxDownloadFails = 0
  MaxPullCuts = 0
  MaxPushCuts = 0
  MaxWipes = 0
PROPERTY EventuallyResumed
