SPECIFICATION FairSpec
CONSTANTS
  old = old
  r1 = r1
  r2 = r2
  bad = bad
  Releases = {old, r1, r2}
  Initial = {r1, r2}
  Order <- MCOrder
  PerPage = 2
  BadTags = {}
  Old = {old}
  Prereleases = {r1}
  Assets = {onefile}
  Onefile = {onefile}
  Unmatched = {}
  MaxPromotions = 0
  MaxStops = 1
  MaxDownloadFails = 1
  MaxPullCuts = 0
  MaxPushCuts = 0
  MaxWipes = 1
INVARIANTS
  MarkedIsPublished
PROPERTIES
  EventuallySynced
  EventuallyPublished
