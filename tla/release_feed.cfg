SPECIFICATION FairFeedSpec
CONSTANTS
  stable = stable
  build = build
  twin = twin
  testing = testing
  odd = odd
  nightly = nightly
  p1 = p1
  p2 = p2
  p3 = p3
  p4 = p4
  a = a
  b = b
  c = c
  Tags = {stable, build, twin, testing, odd, nightly}
  People = {p1, p2, p3, p4}
  Repos = {a, b, c}
  DefaultRepos = {a}
  Requests = {cron, admin}
  Cron = cron
  ReleasePage = 1
  RepoPage = 1
  PeoplePage = 1
  Worlds <- MCWorlds
  None = None
  MaxShifts = 1
  MaxMoves = 1
  MaxRuns = 1
  MaxFails = 1
  Feed = "pm"
  Texts = {"1.0.0", "1.0.0+b", "1.1.0-rc", "1.2.0", "nightly"}
  TextOf <- MCTextOf
  Versions = {"1.0.0", "1.0.0+b", "1.1.0-rc", "1.2.0"}
  Precedence <- MCPrecedence
  Prereleases = {"1.1.0-rc"}
  Undotted = {odd}
INVARIANTS
  TypeOK
  AnswerIsNewest
  MissesFew
  RepeatsFew
  OrgComplete
  CurrentIfStill
PROPERTIES
  PutsWhole
  EventuallyCurrent
  EventuallyNewest
