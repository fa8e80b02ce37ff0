SPECIFICATION FairSpec
CONSTANTS
  pm = pm
  org = org
  pypi = pypi
  GitHubSources <- MCRefreshed
  ReadOrder <- MCReadOrder
  PyPI = pypi
  Requests = {cron, admin}
  Cron = cron
  Growing = {org, pypi}
  MaxCommits = 1
  MaxChanges = 1
  MaxFails = 1
INVARIANTS
  TypeOK
  CoversLabel
PROPERTY EventuallyFresh
