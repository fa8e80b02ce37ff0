SPECIFICATION Spec
CONSTANTS
  old = old
  r1 = r1
  r2 = r2
  bad = bad
  Releases = {r1, bad}
  Initial = {r1, bad}
  Order <- MCOrder
  PerPage = 2
  BadTags = {bad}
  Old = {}
  Prereleases = {r1}
  Assets = {onefile, plain}
  Onefile = {onefile, plain}
  Unmatched = {plain}
  MaxPromotions = 1
  MaxStops = 1
  MaxDownloadFails = 0
  MaxPullCuts = 1
  MaxPushCuts = 1
  MaxWipes = 1
INVARIANTS
  TypeOK
  LinkedIsWhole
  LinkedIsUsable
