# ruyi-backend in TLA+

ruyi-backend is the HTTP service behind the RuyiSDK web site and package
manager, with a worker that publishes releases. This directory holds TLA+
models of the parts of it that change state, TLC configurations that check
them on small instances, and TLAPS proofs of the most important of their
properties for every instance. Paths below are relative to the repository,
`rb/` stands for `ruyi_backend/`.

Check a module with `tlc -config X.cfg MCModule` (the module of each
configuration is in the tables below), the proofs with
`tlapm TelemetryProofs.tla` and so on. A run takes at most three minutes or so. `PROJECT.json` lists every run, the source lines
of every definition, and for every property a mutant of the code that it
catches.

## 1. The system

The server is a FastAPI application: handlers are coroutines on an event loop,
there may be several server processes, and they share a MariaDB database, a
Redis cache, and the remote services GitHub, pypistats.org and Elasticsearch.
No handler takes a lock of its own. Every `await` is a point where others run;
what serialises anything are the transactions and row locks of the database.

| component | code | state | operations |
|---|---|---|---|
| Telemetry upload | `rb/app/telemetry.py` | tables `telemetry_raw_uploads`, `telemetry_ruyi_versions`, `telemetry_raw_installation_infos` | `POST /telemetry/pm/upload-v1`: three statements in one transaction; clients send again when they see no answer |
| Telemetry processing | `rb/app/admin.py`, `rb/components/telemetry_processor.py` | `is_processed`, `telemetry_aggregated_events`, `telemetry_riscv_machine_infos`, `telemetry_installation_infos` | a run selects unprocessed uploads of a time window, inserts statistics, marks the uploads, commits; then stamps the time and refreshes the dashboard |
| Dashboard | `rb/components/frontend_dashboard_processor.py`, `rb/app/frontend.py` | cache entries: dashboard, time of last processing | computed from five cached statistics and the database after every statistics request; served from the cache |
| GitHub stats | `rb/components/github_stats.py`, `rb/app/admin.py:95-131` | four cache entries | page through the releases of three repositories, the members, the repositories and, concurrently, their contributors; store one entry after the other |
| PyPI stats | `rb/components/pypi_stats.py` | table `download_stats_daily_pypi`, one cache entry | fetch, insert new days, sum |
| News cache | `rb/components/news_items.py`, `rb/app/news.py` | two cache entries per news item: hash and content | list the repository's directory, one task per file: compare, download, write hash, write content |
| Latest releases | `rb/app/releases.py` | none (reads the GitHub stats) | newest release per channel: one pass by the order of versions, one by their text; changelog from the news cache |
| Release worker | `rb/cli/cmd_sync_releases.py` | staging directory (files, symlinks, `.synced` markers), the rsync server | every 5 minutes: for each of the newest releases concurrently: marker? pull? download, symlinks, push, mark |
| Authentication | `rb/components/auth.py`, `rb/app/oauth2.py` | none (tokens are signed, and expire after an hour) | log-in, token checks |
| Timers | `scripts/cron`, `examples/systemd` | the token of a round | hourly: log in, process, refresh GitHub, refresh news, at 8 o'clock PyPI |
| Connections, routing, configuration, command line | `rb/db`, `rb/es`, `rb/gh`, `rb/config`, `rb/app/root.py`, `rb/cli` | clients of the services | set-up and tear-down, health checks |

Interactions: uploads and runs meet in the tables; a run's commit is what the
dashboard counts; the statistics requests write cache entries that the
dashboard and the latest releases read; all of them end with the same
computation of the dashboard. The script's requests are refused when its
log-in failed or its token has expired. News and the release worker are
independent of the rest.

What is hard, and what correctness means, per component (each hazard is at its
line in `PROJECT.json`):

* *Telemetry.* Retries that overlap their first attempt; overlapping runs that
  select the same rows; runs that fail between their inserts and the mark;
  tables without unique keys; a time window that moves; row locks taken in
  different orders. Correct: every acknowledged upload is stored whole, enters
  the statistics exactly once, and in the end; no recorded row is taken back;
  requests end.
* *Dashboard.* Numbers read at different times and shown under one time stamp;
  overlapping computations whose last write wins; failures that are ignored.
  Correct: what it shows is at least what had been processed at the time it
  names, and the current numbers are shown in the end.
* *GitHub stats.* Lists that change while their pages are read; a page counter
  that begins at 0 where GitHub's begins at 1; lists read concurrently into one set;
  overlapping refreshes; a refresh that fails between two of its entries.
  Correct: a list misses or repeats no more than changed while it was read,
  only lists that were read to their end get into the cache, and the cache is
  current in the end.
* *Latest releases.* Two passes that use two notions of equality for versions,
  over a list that others replace. Correct: the answer has the newest release of
  each channel of one list, the assertion between the passes holds, and answers are drawn
  from the current list in the end.
* *News.* Hash and content are two keys written by two commands; the listing is
  older than the download; tasks of a failed request go on as orphans; two
  files may have the same key. Correct: an item called up to date is, nothing
  old replaces something new, and readers get the current content in the end.
* *Releases.* A run may be killed anywhere, or stopped by the error of a
  sibling task; rsync transfers may be cut; the next run continues from what is
  there. Releases appear at any time, and only the newest are listed. Correct: a
  channel points to whole, usable releases only, the marker is
  justified, and every release that stays listed is in its channel in the end.

## 2. The modules

| module | what it is | lines of code it stands for |
|---|---|---|
| `EventLedger` | the abstract specification of the telemetry pipeline: uploads are accepted once and counted at most once | - |
| `Telemetry` | upload handlers, processing runs, the tables, the clock | `rb/app/telemetry.py`, `rb/app/admin.py:39-80`, `rb/components/telemetry_processor.py`, `rb/schema` |
| `Dashboard` | the timer's script with its log-in, the three statistics requests and the dashboard | `scripts/cron/*.sh`, `rb/app/admin.py:68-168`, `frontend_dashboard_processor.py`, `pypi_stats.py`, parts of `auth.py`, `oauth2.py` |
| `LatestReleases` | a request for the latest releases, over a cache in which others put lists | `rb/app/releases.py` |
| `GitHubStats` | the requests that page through GitHub's lists and cache them | `rb/components/github_stats.py`, `rb/app/admin.py:95-122` |
| `ReleaseFeed` | the composition of the two, which implements both | - |
| `NewsCache` | refresh requests, their tasks, the cache | `rb/components/news_items.py` |
| `ReleaseSync` | runs of the release worker, both file trees, rsync | `rb/cli/cmd_sync_releases.py` |
| `TelemetryProofs`, `NewsCacheProofs`, `DashboardProofs`, `ReleaseSyncProofs`, `LatestReleasesProofs`, `GitHubStatsProofs`, `ReleaseFeedProofs` | theorems about the module of that name | - |
| `MC*` | payloads, orders and mappings of the small instances | - |

### Telemetry

The tables are sets and functions over nonces (an upload is known by the nonce
its client chose) and reports (the UUID of an installation). `aggregatedEvents[n]`
and `riscvInfos[n]` say how often the rows of upload `n` are in tables that
have no unique key; `rawInfos` and `installInfos` say whose record a report
has. A handler goes through `UploadBegin` (the version row), `UpsertInfo`,
`RawInsert`, `UploadCommit`, or fails at any of them; its effects are applied at
the commit, which is when others see them. A run goes through `Select` (a
snapshot of the window), the three statements of `process_telemetry_data`
(`InsertEvents`, `InsertInstallation` once for each report, `InsertMachines`),
`MarkProcessed` (the UPDATE) and `CommitRun`, or `RunFail`. Row locks are
guards: the statement that would wait is disabled. The INSERT IGNORE of
installations takes the locks of its rows one after the other, in the order of a
dict that nothing fixes, and keeps those it has while it waits for the next
(`Locked`, `Pending`). Two runs can so wait for each other (`Waits`, `InCycle`);
the database notices and rolls one of them back (`DeadlockVictim`), which the
request answers with an error. `Payload` says what each
upload carries; `fits` is whether every value fits its column in the
statistics tables (the payload schema bounds no length), and `ProcessRaise` is what
happens when one does not: the insert of the events raises, or that of the
machine data, after the installations have been locked.

`SnapshotIsolation` is the MariaDB setting `innodb_snapshot_isolation`: with
it, the UPDATE of a row that was changed since the transaction's snapshot is an
error (`MarkRefused`); without it the UPDATE simply goes through. The repository
does not set it, and its default differs between MariaDB versions; both are
modelled. The clock `now` counts the units of the timer's window; `Lookback` is how far the
window of the timer's run reaches back: the script asks for everything since
2024 (`Lookback = MaxTime`), the default of the request schema is the start of
yesterday (`Lookback = 1`). An administrator's run has any window.

### Dashboard

A number grows only and stands for everything counted up to it; a time stamp
stands for the number of processing runs that had committed by then. Each
cache access, remote query and transaction is a step. The script (`Cron`) sends
one request after the other and waits for each, an administrator sends any.
The script logs in once a round (`Login`, or `LoginFail`); a token may `Expire` at
any time, after which the script's requests are `Refused` until its next
round: `curl` reports neither, and the script goes on. The token is looked at when a request
starts, so one that is under way is not ended by its expiry.
`Fail` ends a request at any step with what it had stored so far; a failure
inside the computation is answered as success by the code, which makes no
difference to the state. `LabelDegraded` is the fallback for an unreadable time
stamp.

### NewsCache

Contents are numbered in the order of their first push, 0 is absence, and a
content stands for its hash. `QueryNewsItemInfo` lists the directory and starts
the tasks; each task goes through `CheckUpToDate`, `Download`, `SetHash`,
`SetContent`. A task that raises ends the request while its siblings go on
(`asyncio.gather` without cancellation); `serving` is the set of requests not
yet answered, so `Sequential` (no two requests at a time, which is what the
timer's script does) still lets a request overlap orphans of the one before.
`Spaced` excludes that as well: a request comes when no task of an earlier one
is left. The timer waits an hour between two requests, which makes that what normally
happens; nothing in the code ensures it.

### ReleaseSync

A tree (`local`, `remote`) gives the state of each asset (none, part, raw: right content but the mode
of `write_bytes`, full) and the compat symlinks. `same` is what rsync considers
equal and does not send. A push or pull that is cut leaves some files sent and
at most one partial (`CutTransfers`; the worker passes `-P`). Each task
goes through the steps of `run_one`, with a step for each file operation; `Stop` kills
the run, an exception in a task sets `stopping`, after which the other tasks
may be cancelled at their current step or get to make more of them.

GitHub publishes releases at any time (`published`, `Order`), and a run lists
the `PerPage` newest (`Listed`); a backport of an old version is new by its date. `Promote`
is GitHub's metadata moving a release to the other channel. `interrupted` is history: the
steps at which a task was stopped and which the next run cannot tell from finished ones
(`Fragile`), and the pushes and pulls that failed. The properties that
need it name the steps in `Undisturbed({...})`, so that each says exactly which
interruption it does not survive. `Unmatched` are the assets whose name
`transform_asset_name` leaves as it is: the symlink to such an asset would have the asset's own
name, so `CompatExists` ends the run the first time, and the asset counts as done in the next.

### GitHubStats, LatestReleases, ReleaseFeed

`github` is what GitHub has; it changes between two pages. Releases are
published and taken back (`Publish`, `TakeBack`), members join and leave
(`Join`, `Leave`), contributors come and overtake others (`Contribute`,
`Overtake`), and repositories are created and deleted (`Create`, `Delete`), each
anywhere in its list. A refresh reads the releases of the three
repositories (`FetchPage`, a cursor being the number of entries before it), stores each list
(`Store`), reads the members until a page is empty (`MembersPage`), then the
repositories page by page, with one task for the contributors of each eligible repository of
the page (`ContributorsPage`), waits for those (`Gathered`), and stores the
result (`StoreOrg`). A repository that is deleted before its contributors are
asked for ends the request (`RepoGone`), and `Fail` ends it at any step.
`began`, `added`, `removed`, `shifts` and `moves` are history: what a list held,
and what or how much changed since. The
repositories whose contributors are asked for are the default ones: the setting
for them (`rb/config/env.py:66-75`) is not passed by the request
(`rb/app/admin.py:121`), and so has no effect.

`LatestReleases` is both a model of the request and the abstract specification
of what it needs of the cache: that what is there is a list from the first
refresh on. What those lists are is the property `PutsWhole` of GitHubStats. Tags stand for releases; `TextOf` strips the "v", `Precedence` is the
order of semantic versions, in which build metadata do not count. The first
pass is a step per release, the second a step per channel. `ReleaseFeed`
instantiates it with one of the three cache entries of GitHubStats (`Feed`: the
handlers for the package manager and for the two plugins differ in that, and in that only the
former fails for an asset without a dot in its name), and implements it
(`FeedImplementsLatest` in section 4).

## 3. What is checked

Deadlock checking is on in every run unless the configuration says
otherwise, which it does where all bounded events may be used up and nothing
is left to do.

| run | module | properties | instance |
|---|---|---|---|
| `telemetry_safety` | MCTelemetry | TypeOK, CountedOnce, InstallsRecorded, AcceptedWhole, RowsKept, LedgerSpec | 2 uploads of one installation, 2 handlers (symmetric), 2 runs, each upload sent up to twice, 1 failure, conflicts detected |
| `telemetry_live` | MCTelemetry | EventuallyProcessedOrBlocked, RequestsEnd | 2 uploads of two installations, one of them sent twice, the other with an oversized value in its machine data; 2 handlers, 2 runs, fairness |
| `dashboard` | MCDashboard | TypeOK, CoversLabel, EventuallyFresh | script with log-in and administrator, 3 statistics, 1 failure, failed log-in or expired token, fairness |
| `news_refresh` | MCNewsCache | TypeOK, HashHasContent, UpToDateMeansFresh, NeverBackward, EventuallyServed | 2 files with 3 pushes, each refresh after the tasks of the earlier ones have ended (`Spaced`); a failed download, a failed cache write, a crash; fairness |
| `release_feed` | MCReleaseFeed | TypeOK, AnswerIsNewest, MissesFew, RepeatsFew, OrgComplete, CurrentIfStill, PutsWhole, EventuallyCurrent, EventuallyNewest | timer and administrator, a client; seven situations at GitHub: a release published, taken back, or both, contributors who overtake each other, members who leave, somebody who joins or contributes for the first time, a repository created or deleted, among pages of one entry; 1 failure, fairness |
| `release_sync` | MCReleaseSync | MarkedIsPublished, EventuallySynced, EventuallyPublished | 2 releases of different channels, listing of 2, a late backport; 1 kill, 1 failed download, 1 loss of the staging directory; fairness |
| `release_faults` | MCReleaseSync | TypeOK, LinkedIsWhole, LinkedIsUsable | a release with 2 onefile assets, one of them with a name of another form, and a release with a malformed tag; one each of kill, cut pull, cut push, channel change and loss of the staging directory |

Five runs end with a violation. They show where the code does not do what a
comment, a docstring or the schema of the repository says; each is a finding
in `PROJECT.json`, with the quoted line.

| run | property | what happens |
|---|---|---|
| `telemetry_double` | CountedOnce | without conflict detection, two overlapping runs count an upload twice |
| `telemetry_blocked` | EventuallyProcessed | one upload with an oversized value makes every later run fail; nothing in its window is processed any more |
| `news_orphan` | UpToDateMeansFresh | an orphan of a failed request writes an old content over a new one, and no later refresh repairs it |
| `release_unlinked` | SyncedIsPublished | the failed download of one release stops the task of another between its two pushes; the next run marks that one synced, and no channel ever gets it |
| `release_stuck` | EventuallyResumed | killed after it made a symlink, the worker fails in every later run |

### What the passing properties do not say

Some properties hold of the code only under a condition, which is part of the
property or of the instance:

* `EventuallyProcessedOrBlocked` lets one upload that does not fit its columns
  block all others (`telemetry_blocked` shows that it does), and needs a window with a fixed start, as the script's
  (`Lookback = MaxTime`). With the default of the request, an upload that no
  run gets to by the end of the next day is stepped over.
* `UpToDateMeansFresh`, `NeverBackward` and `EventuallyServed` hold only where no task of
  an earlier refresh is left when the next one comes (`Spaced`). A failed download of one file
  leaves the tasks of the others to themselves, and one that is slower than the next refresh
  stores an old content under the current hash (`news_orphan`), which is never repaired. `HashHasContent`
  needs no such condition.
* `UpToDateMeansFresh`, `HashHasContent` and `EventuallyServed` say nothing
  after a crash or a failed cache write (`Undisturbed`): the hash may then
  stand without its content, and the download is skipped. Replace
  the condition by TRUE to see it. `UpToDateMeansFresh` also needs that the
  repository does not return to an earlier content (`Reverts`), and that
  every file has a key of its own (`KeyOf <- MCSameKey` breaks it).
* `MarkedIsPublished` excepts stopped or failed pushes. After a cut push, or a
  stop between the two pushes, the next run
  finds the directory on the server and marks the release although files or
  the channel symlink are missing.
* `LinkedIsUsable` excepts stops between the write of a file and its symlink,
  and failed pulls: a file of the right size is taken as done by the next run,
  without mode and compat symlink for good.
* `LinkedIsWhole` holds whatever happens as long as the staging directory is
  kept. When it was lost, a published release is pushed again, and a cut of that push
  truncates a file: hence `wipes = 0 \/ Undisturbed({"push"})`.
* `EventuallySynced` and `EventuallyPublished` promise something to releases
  that stay among the newest: one that is pushed out of the listing before it
  is synced never is. They except disturbed pushes, after which a symlink may be there that cannot be
  made again, or the directory without its channel.
* `EventuallyPublished` also holds only when GitHub does not move the release to another
  channel (`MaxPromotions = 0`): the marker is not per channel.
* `MissesFew`, `RepeatsFew` and `OrgComplete` bound what a list misses or
  repeats by what changed while it was read, and `CurrentIfStill` says that it
  is exact if nothing did. `PutsWhole` says that what gets into the cache is within these bounds at
  that moment. That a list is always exact does not hold:
  nothing ties the pages of one list together. This goes for the
  repositories as for the releases: one that is created or deleted between two
  pages may have another counted twice, or not at all.
* The contributors of a repository that `OrgComplete` speaks of are those of the
  repositories that were read: one that was missed is missed with its people.
* `RequestsEnd` holds because the database finds the cycles of runs that lock installations in
  different orders. A request that is rolled back for it is answered with an error; nothing
  repeats it but the next run of the timer.
* `AnswerIsNewest` is about requests that are answered. One that comes before
  the first refresh fails, as does one whose release has an asset without a dot in its name.

### Bounds

* Two uploads with one report, two handlers and two runs are the smallest
  instance in which retries overlap, two uploads compete for one installation
  record, two runs overlap, and a run overlaps an upload that it does not see;
  with two reports, two runs can wait for each other's installations, and an
  upload that is sent again waits for a run that marks its row, or has that run
  wait for it (`telemetry_live`). A failure adds no wait to these, so that run has none.
  A third run or upload repeats one of these pairs; for `CountedOnce` and the
  other properties of section 4 the proofs remove the bound.
* `MaxTime` is the number of time units; with 2, an upload can be created
  before, within and after a window. `MaxSends` is the number of times each
  upload is sent: 2 is one retry.
* The failure bounds are at most 1: a failure followed by a full recovery with the
  bound used up.
* Dashboard: two statistics from GitHub, read in another order than they are
  refreshed in, and the one from PyPI; the other two are read and stored in the same
  way. One of the two and PyPI's change (`Growing`): the other is what a failure can
  come in between. Two requests at a time are the least that
  overwrite each other, and a third adds no other kind of conflict.
* News: the first push makes a file, and two more let it change between listing and
  download and after the download or the refresh. Two files are what it takes for the
  failure of one to leave the other to itself, two slots what it takes for a refresh to
  come while that goes on (`news_orphan`).
* GitHub: pages of one entry make a list of two or three entries need as many
  pages, with a change before, between and after them; a page only matters by
  where it ends, and section 4 proves the bounds for pages and lists of any length. The tags cover versions that are equal by order and by text
  (1.0.0 and v1.0.0), by order only (1.0.0+b), a prerelease, a release with an undotted asset
  and one that is no version. Each situation changes one kind of list, since the releases of the three
  repositories, the members and the repositories are read one after the other and do not depend
  on each other. Contributors and repositories do: the two changes together, and more than one of either,
  are covered by the proofs.
* Releases: a tarball, a onefile asset and one with a name of another form are the kinds the code tells
  apart. All three at once are too many for a run: `release_faults` has the last two, which are those that need a
  mode or a name, `release_unlinked` and `release_stuck` the first two, and `release_sync` an ordinary
  onefile asset, whose symlink is what a later run can trip over; the proofs are about any assets. Releases interact only by stopping each other, by the tags
  directory and by the listing they share. `PerPage` is 2 where the code has 3:
  two listed releases and one more are what it takes to push one out. `release_faults`
  has every fault once; two of a kind are covered by the proofs.

### Fairness

Fairness is stated for what the event loop and the timers do, never for
clients, pushes, failures or administrators.

* *Telemetry.* Requests that are being served go on (a started coroutine whose
  statement does not wait is resumed), and the timer starts its run again and
  again (systemd, hourly). A run that is refused or fails is answered; the next
  one starts later. Runs are strongly fair (`SF` for `RunStep`): a run that waits for a row lock
  gets it although others take and release it again and again, since the database grants a lock in
  the order of the requests for it. A weaker fairness would have a run wait for ever behind ever new runs
  that lock the row and then raise.
* *Dashboard.* The script starts its requests again and again (`WF` for
  `ScriptStep`: a log-in, a request, or one that is refused), the round at 8 o'clock comes each day (`SF` for the start
  of the request before it that chooses PyPI next), started requests go on.
* *GitHub and latest releases.* The timer's refresh comes again, requests go on,
  a client's request is answered; clients and administrators ask when they like.
* *News.* The timer's refresh comes again, tasks and orphans go on.
* *Releases.* The timer starts the next run after the one before has ended
  (a oneshot service is not started twice), and tasks go on or are cancelled.

The bounds on failures are part of every liveness result: it holds when
failures stop.

## 4. What is proved

### Telemetry

For any sets of uploads, reports, handlers and runs, any payload and any bounds:

| theorem | statement |
|---|---|
| `TypeCorrect` | `Spec => []TypeOK` |
| `CountedOnceHolds` | if `ConflictsCaught`: `Spec => []CountedOnce` |
| `ImplementsLedger` | if `ConflictsCaught`: `Spec => LedgerSpec` |
| `InstallsRecordedHolds` | `Spec => []InstallsRecorded` |
| `RowsKeptHolds` | `Spec => RowsKept` |
| `AcceptedWholeHolds` | `Spec => []AcceptedWhole` |
| `CountedPerRunHolds` | with finitely many runs at a time: `Spec => []CountedPerRun` |

`ConflictsCaught` says that the database detects snapshot conflicts, or that
there is only one run at a time. `telemetry_double` shows that it is needed.
Beyond it only the named assumptions about the constants are used (`None` is no
upload and no report; machine data comes with an installation; bounds are
natural numbers).

*Counting.* `CountedOnce` alone is not inductive: the commit of a run adds its batch to the
statistics, and nothing in `CountedOnce` says that the batch is not there yet. `CountInv` adds
that a batch consists of stored uploads, that the batch of a run that has
passed the UPDATE is disjoint from what is processed, and that two such runs have
disjoint batches (each holds the row locks of its own). Without conflict detection the batch of
every run must be fresh, which holds with one run only.

*Counting without detection.* `CountedPerRun` is what is left of `CountedOnce`
when `ConflictsCaught` does not hold: an upload is in both tables exactly when it is marked,
and at most once for each run that can be under way at a time. The invariant
`ShareInv` counts what is in the table and the runs that hold the upload
together: a run takes up an upload only while that has not been counted, and
each commit moves one from the second number to the first. TLC agrees on the
instance of `telemetry_double`, where `CountedOnce` fails.

*Installations.* A run inserts, for each report in its batch that has no record
yet, the record of one of its uploads, and an insert that finds a record is
ignored. `InstallInv` ties what a run has chosen to its batch: the chosen
record is a candidate of the batch or the one that is there, two runs never hold the same report (the
row lock of the unique key), and a report in the batch of a run past its
inserts either has a record or will get one when that run commits. It does not depend on
conflict detection: an upload that is processed twice offers the same record
twice.

*Refinement.* `rawUploads` maps to `accepted` and `aggregatedEvents` to `tally`;
the commit of an upload is `Accept` or, for a retry, a stutter; the commit of a run is
`Count` of its batch; all else stutters.

### News

| theorem | statement |
|---|---|
| `NewsTypeCorrect` | `Spec => [](TypeOK /\ ListedInv)` |
| `HashHasContentHolds` | `Spec => []HashHasContent` |
| `UpToDateMeansFreshHolds` | if `~Reverts` and `OwnKeys`: `Spec /\ []OneTask => []UpToDateMeansFresh` |
| `NeverBackwardHolds` | under the same conditions: `Spec /\ []OneTask => NeverBackward` |
| `SpacedFresh` | if `Spaced`, `~Reverts` and `OwnKeys`: `Spec => []UpToDateMeansFresh /\ NeverBackward` |
| `SingleFileFresh` | with one file, if `Sequential` and `~Reverts`: `Spec => []UpToDateMeansFresh /\ NeverBackward` |

`OneTask` says that a file has one task at a time, be it that of a request or an orphan.

*Hash and content.* Whether requests and orphans overlap (`Sequential`, `Spaced`), contents come back
(`Reverts`) or files share keys makes no difference. The type invariant says
that what a task is about to store is of a file that is there; that needs
`ListedInv`, because the hash comes from the listing and the content from the
download. Given that, `HashHasContent` is inductive: only `SetHash` can break
it, and it moves its task between the two writes; `SetContent` ends that with a content.

*History.* Contents are numbered in the order of their pushes, so "older" is
`<`. `HistoryInv` says, for each file, that nothing cached, listed or downloaded is newer than the
repository, that a task which is about to store something holds nothing older than the
cached content or than its own listing, and that where the cached hash is the
repository's, so is the content, or a task is about to write it. It is kept by a task
because no other task of the same key is under way, which is what `OwnKeys` and
`OneTask` say. The condition `OneTask` is not idle: in `news_orphan`
requests come one after the other, and it is an orphan that breaks the property. It is a
theorem where refreshes are `Spaced`, as in `news_refresh`, and for a single file, which has no sibling that could
leave it to itself; so these hold for every number of files or of pushes and failures.

### Dashboard

| theorem | statement |
|---|---|
| `DashboardTypeCorrect` | `Spec => []TypeOK` |
| `CoversLabelHolds` | `Spec => []CoversLabel` |

The type invariant ties the number a request holds, and the
position it is at, to the step it is about to make (`InRange`). `CoversLabel`
is strengthened to `StampInv`: a time stamp that is held, cached or in a draft
is never later than what is committed, and a draft that is about to be written
has a count that is not below its time stamp. It rests on the order of the
code: the stamp is taken after the commit, and the label read before the count.

### Release worker

| theorem | statement |
|---|---|
| `SyncTypeCorrect` | `Spec => []TypeOK` |
| `LinkedIsWholeHolds` | `Spec => []LinkedIsWhole` |
| `MarkedIsPublishedHolds` | `Spec => []MarkedIsPublished` |
| `LinkedIsUsableHolds` | `Spec => []LinkedIsUsable` |

For any releases, assets, order, listing limit and number of faults of every kind. Four
invariants carry them. `AssetsInv` says what a task has fetched at which step: everything but
`todo` while it goes through its assets, everything at a push. The type
invariant includes that files which rsync takes to be equal are equal; that is kept because a
task only writes to files that do not agree (`AssetsInv` has `cur` disjoint
from `same`). `LinkInv` is why a published release is never damaged: as long as staging is kept, all files of a
release that was ever linked agree on both sides, so nothing is sent again;
after a loss, only a cut push can do harm. `PushedInv` is why a successful pull
justifies a marker: what has a directory on the server is in a channel or its
task is at the second push, unless a task ended between the two. `UsableInv` says where the local tree is
usable: what a task fetches itself is, but for the asset it is at; what was pulled
need not be, but then the server has the directory, and no later task gets to
fetch or push, unless staging is lost or a pull fails.

### GitHub statistics

| theorem | statement |
|---|---|
| `GitHubTypeCorrect` | `Spec => []TypeOK` |
| `MissesFewHolds` | `Spec => []MissesFew` |
| `RepeatsFewHolds` | `Spec => []RepeatsFew` |
| `OrgCompleteHolds` | `Spec => []OrgComplete` |
| `CurrentIfStillHolds` | `Spec => []CurrentIfStill` |
| `PutsWholeHolds` | `Spec => PutsWhole` |

For any lists, page sizes, number of requests and bounds. `DistinctAssumption`
says of GitHub that it lists a release or a repository once and publishes no release that is
there; without it one name could stand for two entries, and a repetition could
not be told from them. `None`, the absent entry, is assumed to be no list. Each property speaks of requests that have read all of a list; the
invariants say what it comes to in the middle. TLC checked each of them on the instance
of `release_feed` and some of them with pages of two entries before it was proved.

*Releases.* `ReadInv` divides the current list at the cursor into what has been
passed and what is `Ahead` (empty when there is no next page). `Missed` is what was there from the
beginning, is there still, and is neither read nor ahead; `Again` is what is read and still
ahead. When a release is taken back before the cursor, one moves
from ahead to behind, and may be missed; when one is published,
one moves from behind to ahead, and may come again (`RemoveMoves`,
`PrependFacts`). So `Missed` grows by one at most with `removed`, and
`Len(got) + Cardinality(Again)` exceeds the number of different entries by
`added` at most; a page moves entries from ahead to read and leaves both sums as they
are. With nothing ahead the two are `MissesFew` and `RepeatsFew`.

*People.* `OrgInv` counts, over all lists at once, who is `Due` (before the next
page of a list, or anywhere in one that has ended) and has not been seen, `Lost`. `PagesEnd` has page 0 and page 1 end at the same
place, which is why the counter may begin at 0. Someone who overtakes others
pushes one entry at most across the end of a page, and that entry was due before unless it
is the one that moved; when a member leaves, one of those after moves before the cursor
unseen; and one who is new is the only one that may be due and unseen. So each
change costs one person at most, however many
lists are being read. The contributors of a repository are `Due` once its list has ended, whatever
becomes of the list of repositories meanwhile.

*Repositories.* They are read by cursor as the releases are, and the sums are the same:
`MissedRepos` are those that are there and neither read nor `ReposAhead`, `RepeatedRepos` those that are read and
ahead (`PagesInv`). Unlike releases, they may be created anywhere in the list. A new one before the cursor pushes
one from behind to ahead, which may be read again, and may itself be missed;
one that is deleted before the cursor pulls one from ahead to behind. Each grows a sum by
one at most, `moves` grows by one, and with nothing ahead the sums are the first two
parts of `OrgComplete`. `RowsInv` has the rest: tasks there are only while the contributors
are read, and what is read of an unchanged list is its first entries.

*Lists that do not change.* `StillInv` says that what is read of an unchanged list
is its first entries, and that only people of the members and of eligible
repositories are read. Together with `OrgInv` it gives equality.

*What is put in the cache.* Only `Store` and `StoreOrg` change an entry (`EntriesChange`), and both do so
at the end of a list, where `MissesFew`, `RepeatsFew` and `OrgComplete` speak of what
is stored. That there is nothing else in it takes an invariant of its own: what a request has read, and all that
the list holds, was there at its first page or was published since (`OwnInv`).

### Latest releases

| theorem | statement |
|---|---|
| `LatestTypeCorrect` | `Spec => []TypeOK` of LatestReleases |
| `AnswerIsNewestHolds` | `Spec => []AnswerIsNewest` of LatestReleases |
| `FeedTypeCorrect` | `FeedSpec => []TypeOK` |
| `FeedImplementsStats` | `FeedSpec => Spec` of GitHubStats |
| `FeedListsHold` | `FeedSpec => [](MissesFew /\ RepeatsFew /\ OrgComplete /\ CurrentIfStill) /\ PutsWhole` |
| `FeedAnswerIsNewest` | `FeedSpec => []AnswerIsNewest` |

For any tags, texts and order of versions. The first pass keeps, for each
channel, a version that is newest among the releases it has passed and that no
earlier release equals in precedence. The release of that text which the second
pass finds first is then the first of the newest ones, although a different text may
have the same precedence: the first with the precedence was the one
chosen. The assertion holds because the list a request works on is its own. The composition implements
LatestReleases step by step, for each of the three feeds (lemma `FeedImplementsLatest`: `FeedSpec => L!Spec`): `Store` for the list of that feed is
`Refresh`, all other steps of the statistics requests stutter; its answers are
newest by that refinement alone.

### Not proved

Every safety property and every refinement that a passing run checks is
proved. Liveness (fairness and `ENABLED` are out of the prover's reach) is
model-checked only: `EventuallyProcessedOrBlocked`, `RequestsEnd`,
`EventuallyFresh`, `EventuallyServed`, `EventuallySynced`,
`EventuallyPublished`, `EventuallyCurrent` and `EventuallyNewest`; of
`EventuallyCurrent`, the theorem about `CurrentIfStill` is the half that is safety. No module declares a
RECURSIVE operator, so that each can get its proofs.

## 5. What is not modelled

* Uploads of another format version (they touch nothing), wording of answers,
  logging, JSON and msgpack encoding.
* The transaction isolation of MariaDB beyond snapshots, row locks and
  conflict detection: gap locks, and deadlocks with them, are not shown, nor is
  which run the database chooses to roll back (it may be any in the cycle).
* The sums by category, the ten most used
  commands and the counts from Elasticsearch: Dashboard takes them as numbers.
* Assets of a release beyond the 16 that are asked for, their download counts
  and URLs: a release stands for its assets in GitHubStats and LatestReleases.
* Caches between the raw-content host of GitHub and the news refresh: a download
  may be staler in reality than in the model.
* Releases whose assets are still being uploaded while they are listed: the worker
  syncs those it sees, and marks the release.
* Files that `write_bytes` leaves longer than they should be: a size mismatch
  is repaired by the next run, as for those that are shorter.
* Password hashes, the two roles, and basic authentication of the development
  pages: checks of one request, without state.
* Health checks, routing, configuration and set-up (see `components` in
  `PROJECT.json` for each).

## 6. Plan

Done: `EventLedger`, `Telemetry`, `NewsCache`, `ReleaseSync`, `Dashboard`,
`LatestReleases`, `GitHubStats`, `ReleaseFeed`, and the proofs about each. What would come next, in
this order:

1. Composition: `Telemetry` and `Dashboard` share the commit of a run; a module that
   instantiates both and checks that the dashboard's count follows the tables.
2. Uploads in progress in `ReleaseSync`: assets that appear one by one, with
   the list a run took before; what a marker then stands for.
3. The news tasks of files with the same key: which of the two contents
   readers get, and what a rename (a new date in the name) leaves behind.
