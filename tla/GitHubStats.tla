----------------------------- MODULE GitHubStats -----------------------------
(***************************************************************************)
(* The refresh of the GitHub statistics (app/admin.py:95-122 with          *)
(* components/github_stats.py): the releases of three repositories and the *)
(* contributors of the organisation, each read page by page and cached.    *)
(* GitHub changes between two pages, and two requests may be under way.    *)
(*                                                                         *)
(* GitHub is external.  Its lists of releases come newest first, and a     *)
(* cursor is the number of entries before it (the one in the tests'        *)
(* fixtures, "NTA", is 50 in base64).  The REST lists of people are read   *)
(* by page number, ordered by merit, and page 0 is page 1.                 *)
(***************************************************************************)
EXTENDS Integers, FiniteSets, SequencesExt

CONSTANTS
  Tags,         \* releases of the three repositories
  People,       \* members and contributors
  Repos,        \* repositories of the organisation
  DefaultRepos, \* those of config/defaults.py
  Requests,     \* requests the servers work on at a time
  Cron,         \* the one the timer's script is waiting for
  ReleasePage, RepoPage, PeoplePage, \* page sizes
  Worlds,       \* what GitHub may have at first
  None,         \* no cache entry
  MaxShifts,    \* bound: changes of the lists of people
  MaxMoves,     \* bound: repositories created or deleted
  MaxRuns,      \* bound: requests of administrators
  MaxFails      \* bound: failed requests

\* The repositories of the package manager and of the two IDE plugins.
Feeds == {"pm", "eclipse", "vscode"}

WorldType ==
  [releases : [Feeds -> Seq(Tags)], planned : [Feeds -> SUBSET Tags], doubtful : SUBSET Tags,
   members : Seq(People), contributors : [Repos -> Seq(People)], newcomers : SUBSET People,
   repos : Seq(Repos), drafts : SUBSET Repos]

ASSUME RequestsAssumption == Cron \in Requests
ASSUME WorldsAssumption ==
  /\ \A w \in Worlds : w \in WorldType
  /\ None \notin Seq(Tags) /\ None \notin [people : SUBSET People, repos : Seq(Repos)]
  /\ DefaultRepos \subseteq Repos
\* GitHub lists a release and a repository once, and publishes no release
\* that is there.
ASSUME DistinctAssumption ==
  \A w \in Worlds :
    /\ IsInjective(w.repos)
    /\ \A f \in Feeds :
         IsInjective(w.releases[f]) /\ w.planned[f] \cap Range(w.releases[f]) = {}
ASSUME BoundsAssumption ==
  /\ ReleasePage \in Nat \ {0} /\ RepoPage \in Nat \ {0} /\ PeoplePage \in Nat \ {0}
  /\ MaxShifts \in Nat /\ MaxMoves \in Nat /\ MaxRuns \in Nat /\ MaxFails \in Nat

VARIABLES
  github,       \* the lists at GitHub, the releases yet to be published
                \* and those that may be taken back, the people who may
                \* come and the repositories that may be created
  releaseStats, \* the cached releases of each repository
  orgStats,     \* the cached contributors and repositories
  at,           \* what each request is at
  cursor,       \* where its next page begins, or the number of that page
  more,         \* there is a next page
  got, rows,    \* the releases and the repositories it has read
  people,       \* the members and contributors it has read
  tasks,        \* the contributor lists it is reading, each with its next page
  began, added, removed, \* what the list held when a request began to read
                \* it, and what came and went since
  shifts, moves, \* changes of the lists of people and of the list of
                \* repositories
  shiftsAt, movesAt, \* how many there were when a request began to read them
  runs, fails

progress == <<at, cursor, more, got, rows, people, tasks>>
counts == <<shifts, moves, shiftsAt, movesAt>>
history == <<began, added, removed, counts>>
bounds == <<runs, fails>>
vars == <<github, releaseStats, orgStats, progress, history, bounds>>

Stages == {"idle", "members", "repos", "contributors", "org"} \cup Feeds

\* There is no task for a repository, or it has ended.
Ended == -1
NoTasks == [r \in Repos |-> Ended]

TypeOK ==
  /\ github \in WorldType
  /\ releaseStats \in [Feeds -> Seq(Tags) \cup {None}]
  /\ orgStats \in [people : SUBSET People, repos : Seq(Repos)] \cup {None}
  /\ at \in [Requests -> Stages]
  /\ cursor \in [Requests -> Nat] /\ more \in [Requests -> BOOLEAN]
  /\ got \in [Requests -> Seq(Tags)] /\ rows \in [Requests -> Seq(Repos)]
  /\ people \in [Requests -> SUBSET People]
  /\ \A q \in Requests : at[q] = "idle" => got[q] = <<>> /\ rows[q] = <<>> /\ people[q] = {}
  /\ tasks \in [Requests -> [Repos -> Nat \cup {Ended}]]
  /\ began \in [Requests -> SUBSET Tags]
  /\ added \in [Requests -> SUBSET Tags] /\ removed \in [Requests -> SUBSET Tags]
  /\ shiftsAt \in [Requests -> Nat] /\ shifts \in 0..MaxShifts
  /\ movesAt \in [Requests -> Nat] /\ moves \in 0..MaxMoves
  /\ runs \in 0..MaxRuns /\ fails \in 0..MaxFails

Init ==
  /\ github \in Worlds
  /\ releaseStats = [f \in Feeds |-> None] /\ orgStats = None
  /\ at = [q \in Requests |-> "idle"]
  /\ cursor = [q \in Requests |-> 0] /\ more = [q \in Requests |-> TRUE]
  /\ got = [q \in Requests |-> <<>>] /\ rows = got /\ people = [q \in Requests |-> {}]
  /\ tasks = [q \in Requests |-> NoTasks]
  /\ began = [q \in Requests |-> {}] /\ added = began /\ removed = began
  /\ shifts = 0 /\ moves = 0 /\ shiftsAt = cursor /\ movesAt = cursor
  /\ runs = 0 /\ fails = 0

-----------------------------------------------------------------------------
(* GitHub.                                                                 *)

\* The n entries of s after the first k, or what there is of them.
Slice(s, k, n) == SubSeq(s, k + 1, IF k + n < Len(s) THEN k + n ELSE Len(s))

PageOf(s, p) == Slice(s, IF p = 0 THEN 0 ELSE (p - 1) * PeoplePage, PeoplePage)

\* Request q is between two pages of list f, or done with them.
Reading(q, f) == at[q] = f /\ cursor[q] > 0

Publish(f) ==
  \E t \in github.planned[f] :
    /\ github' = [github EXCEPT !.releases[f] = <<t>> \o @, !.planned[f] = @ \ {t}]
    /\ added' = [q \in Requests |-> IF Reading(q, f) THEN added[q] \cup {t} ELSE added[q]]
    /\ UNCHANGED <<releaseStats, orgStats, progress, began, removed, counts, bounds>>

TakeBack(f) ==
  \E i \in 1..Len(github.releases[f]) :
    /\ github.releases[f][i] \in github.doubtful
    /\ github' = [github EXCEPT !.releases[f] = RemoveAt(@, i)]
    /\ removed' = [q \in Requests |->
         IF Reading(q, f) THEN removed[q] \cup {github.releases[f][i]} ELSE removed[q]]
    /\ UNCHANGED <<releaseStats, orgStats, progress, began, added, counts, bounds>>

\* A list of people changes.
Shift ==
  /\ shifts < MaxShifts /\ shifts' = shifts + 1
  /\ UNCHANGED <<releaseStats, orgStats, progress, began, added, removed,
                 moves, shiftsAt, movesAt, bounds>>

\* A contributor gets past those before.
Overtake(r) ==
  \E i \in 2..Len(github.contributors[r]) :
    github' = [github EXCEPT !.contributors[r] = <<@[i]>> \o RemoveAt(@, i)] /\ Shift

\* Somebody new is among them, where his contributions put him.
Contribute(r) ==
  r \in Range(github.repos) /\ \E p \in github.newcomers \ Range(github.contributors[r]),
     i \in 1..Len(github.contributors[r]) + 1 :
    github' = [github EXCEPT !.contributors[r] = InsertAt(@, i, p)] /\ Shift

Join ==
  \E p \in github.newcomers \ Range(github.members), i \in 1..Len(github.members) + 1 :
    github' = [github EXCEPT !.members = InsertAt(@, i, p)] /\ Shift

Leave ==
  \E i \in 1..Len(github.members) :
    github' = [github EXCEPT !.members = RemoveAt(@, i)] /\ Shift

\* The list of repositories changes.
Move ==
  /\ moves < MaxMoves /\ moves' = moves + 1
  /\ UNCHANGED <<releaseStats, orgStats, progress, began, added, removed,
                 shifts, shiftsAt, movesAt, bounds>>

Create ==
  \E r \in github.drafts \ Range(github.repos), i \in 1..Len(github.repos) + 1 :
    github' = [github EXCEPT !.repos = InsertAt(@, i, r)] /\ Move

Delete ==
  \E i \in 1..Len(github.repos) :
    github' = [github EXCEPT !.repos = RemoveAt(@, i)] /\ Move

-----------------------------------------------------------------------------
(* The request.                                                            *)

\* What the history keeps of request q begins anew.
Forget(q, n, m) ==
  /\ began' = [began EXCEPT ![q] = {}]
  /\ added' = [added EXCEPT ![q] = {}] /\ removed' = [removed EXCEPT ![q] = {}]
  /\ shiftsAt' = [shiftsAt EXCEPT ![q] = n] /\ movesAt' = [movesAt EXCEPT ![q] = m]
  /\ UNCHANGED <<shifts, moves>>

\* Request q goes on to stage s and begins a list there.
Turn(q, s) ==
  /\ at' = [at EXCEPT ![q] = s]
  /\ cursor' = [cursor EXCEPT ![q] = 0]
  /\ more' = [more EXCEPT ![q] = TRUE]

After(f) == CASE f = "pm" -> "eclipse" [] f = "eclipse" -> "vscode" [] f = "vscode" -> "members"

\* A mutant: the releases are not asked for again when they are cached.
StartUnlessCached(q) ==
  /\ at[q] = "idle" /\ releaseStats["pm"] = None
  /\ q # Cron => runs < MaxRuns
  /\ runs' = IF q = Cron THEN runs ELSE runs + 1
  /\ Turn(q, "pm")
  /\ UNCHANGED <<github, releaseStats, orgStats, got, rows, people, tasks, history, fails>>

Start(q) ==
  /\ at[q] = "idle"
  /\ q # Cron => runs < MaxRuns
  /\ runs' = IF q = Cron THEN runs ELSE runs + 1
  /\ Turn(q, "pm")
  /\ UNCHANGED <<github, releaseStats, orgStats, got, rows, people, tasks, history, fails>>

\* A mutant: the last page is not asked for when it has one entry.
FetchPageShort(q) ==
  LET f == at[q]
      L == github.releases[f] IN
  /\ f \in Feeds /\ more[q]
  /\ got' = [got EXCEPT ![q] = @ \o Slice(L, cursor[q], ReleasePage)]
  /\ cursor' = [cursor EXCEPT ![q] = @ + ReleasePage]
  /\ more' = [more EXCEPT ![q] = cursor[q] + ReleasePage + 1 < Len(L)]
  /\ began' = IF cursor[q] = 0 THEN [began EXCEPT ![q] = Range(L)] ELSE began
  /\ UNCHANGED <<github, releaseStats, orgStats, at, rows, people, tasks, added, removed,
                 counts, bounds>>

\* A mutant: a page begins with the last entry of the one before.
FetchPageFromCursor(q) ==
  LET f == at[q]
      L == github.releases[f] IN
  /\ f \in Feeds /\ more[q]
  /\ got' = [got EXCEPT ![q] =
       @ \o Slice(L, IF cursor[q] = 0 THEN 0 ELSE cursor[q] - 1, ReleasePage)]
  /\ cursor' = [cursor EXCEPT ![q] = @ + ReleasePage]
  /\ more' = [more EXCEPT ![q] = cursor[q] + ReleasePage < Len(L)]
  /\ began' = IF cursor[q] = 0 THEN [began EXCEPT ![q] = Range(L)] ELSE began
  /\ UNCHANGED <<github, releaseStats, orgStats, at, rows, people, tasks, added, removed,
                 counts, bounds>>

\* A mutant: what has been read so far is put in the cache with each page.
FetchPageCaching(q) ==
  LET f == at[q]
      L == github.releases[f] IN
  /\ f \in Feeds /\ more[q]
  /\ got' = [got EXCEPT ![q] = @ \o Slice(L, cursor[q], ReleasePage)]
  /\ cursor' = [cursor EXCEPT ![q] = @ + ReleasePage]
  /\ more' = [more EXCEPT ![q] = cursor[q] + ReleasePage < Len(L)]
  /\ began' = IF cursor[q] = 0 THEN [began EXCEPT ![q] = Range(L)] ELSE began
  /\ releaseStats' = [releaseStats EXCEPT ![f] = got'[q]]
  /\ UNCHANGED <<github, orgStats, at, rows, people, tasks, added, removed, counts, bounds>>

\* One page of query_release_downloads.
FetchPage(q) ==
  LET f == at[q]
      L == github.releases[f] IN
  /\ f \in Feeds /\ more[q]
  /\ got' = [got EXCEPT ![q] = @ \o Slice(L, cursor[q], ReleasePage)]
  /\ cursor' = [cursor EXCEPT ![q] = @ + ReleasePage]
  /\ more' = [more EXCEPT ![q] = cursor[q] + ReleasePage < Len(L)]
  /\ began' = IF cursor[q] = 0 THEN [began EXCEPT ![q] = Range(L)] ELSE began
  /\ UNCHANGED <<github, releaseStats, orgStats, at, rows, people, tasks, added, removed,
                 counts, bounds>>

\* A mutant: a list that is shorter than the cached one is not stored.
StoreIfLonger(q) ==
  /\ at[q] \in Feeds /\ ~more[q]
  /\ releaseStats' = [releaseStats EXCEPT ![at[q]] =
       IF @ # None /\ Len(@) > Len(got[q]) THEN @ ELSE got[q]]
  /\ got' = [got EXCEPT ![q] = <<>>]
  /\ Turn(q, After(at[q]))
  /\ IF After(at[q]) = "members" THEN Forget(q, shifts, moves) ELSE Forget(q, 0, 0)
  /\ UNCHANGED <<github, orgStats, rows, people, tasks, bounds>>

\* The list replaces the cached one, and the next query begins.
Store(q) ==
  /\ at[q] \in Feeds /\ ~more[q]
  /\ releaseStats' = [releaseStats EXCEPT ![at[q]] = got[q]]
  /\ got' = [got EXCEPT ![q] = <<>>]
  /\ Turn(q, After(at[q]))
  /\ IF After(at[q]) = "members" THEN Forget(q, shifts, moves) ELSE Forget(q, 0, 0)
  /\ UNCHANGED <<github, orgStats, rows, people, tasks, bounds>>

\* One page of _list_org_members; an empty page is the last.
MembersPage(q) ==
  LET page == PageOf(github.members, cursor[q]) IN
  /\ at[q] = "members"
  /\ people' = [people EXCEPT ![q] = @ \cup Range(page)]
  /\ IF page = <<>> THEN Turn(q, "repos")
     ELSE cursor' = [cursor EXCEPT ![q] = @ + 1] /\ UNCHANGED <<at, more>>
  /\ UNCHANGED <<github, releaseStats, orgStats, got, rows, tasks, history, bounds>>

\* The repositories whose contributors are asked for: the caller passes no
\* list (admin.py:121), so it is the default one (lines 255-257).
Eligible == DefaultRepos

\* A mutant: the contributors of every repository are asked for.
ReposPageOfAll(q) ==
  LET page == Slice(github.repos, cursor[q], RepoPage) IN
  /\ at[q] = "repos"
  /\ rows' = [rows EXCEPT ![q] = @ \o page]
  /\ cursor' = [cursor EXCEPT ![q] = @ + RepoPage]
  /\ more' = [more EXCEPT ![q] = cursor[q] + RepoPage < Len(github.repos)]
  /\ tasks' = [tasks EXCEPT ![q] = [r \in Repos |-> IF r \in Range(page) THEN 0 ELSE Ended]]
  /\ at' = [at EXCEPT ![q] = "contributors"]
  /\ UNCHANGED <<github, releaseStats, orgStats, got, people, history, bounds>>

\* One page of repositories of query_org_stats, which starts a task for each.
ReposPage(q) ==
  LET page == Slice(github.repos, cursor[q], RepoPage) IN
  /\ at[q] = "repos"
  /\ rows' = [rows EXCEPT ![q] = @ \o page]
  /\ cursor' = [cursor EXCEPT ![q] = @ + RepoPage]
  /\ more' = [more EXCEPT ![q] = cursor[q] + RepoPage < Len(github.repos)]
  /\ tasks' = [tasks EXCEPT ![q] = [r \in Repos |->
       IF r \in Range(page) \cap Eligible THEN 0 ELSE Ended]]
  /\ at' = [at EXCEPT ![q] = "contributors"]
  /\ UNCHANGED <<github, releaseStats, orgStats, got, people, history, bounds>>

\* A mutant: the list ends with a page that brings nobody new.
ContributorsPageBrief(q, r) ==
  LET page == PageOf(github.contributors[r], tasks[q][r]) IN
  /\ at[q] = "contributors" /\ tasks[q][r] # Ended /\ r \in Range(github.repos)
  /\ people' = [people EXCEPT ![q] = @ \cup Range(page)]
  /\ tasks' = [tasks EXCEPT ![q][r] = IF Range(page) \subseteq people[q] THEN Ended ELSE @ + 1]
  /\ UNCHANGED <<github, releaseStats, orgStats, at, cursor, more, got, rows, history, bounds>>

\* One page of _list_repo_contributors, as for members.
ContributorsPage(q, r) ==
  LET page == PageOf(github.contributors[r], tasks[q][r]) IN
  /\ at[q] = "contributors" /\ tasks[q][r] # Ended /\ r \in Range(github.repos)
  /\ people' = [people EXCEPT ![q] = @ \cup Range(page)]
  /\ tasks' = [tasks EXCEPT ![q][r] = IF page = <<>> THEN Ended ELSE @ + 1]
  /\ UNCHANGED <<github, releaseStats, orgStats, at, cursor, more, got, rows, history, bounds>>

\* All tasks of a page have ended.
Gathered(q) ==
  /\ at[q] = "contributors" /\ tasks[q] = NoTasks
  /\ at' = [at EXCEPT ![q] = IF more[q] THEN "repos" ELSE "org"]
  /\ UNCHANGED <<github, releaseStats, orgStats, cursor, more, got, rows, people, tasks,
                 history, bounds>>

\* A mutant: what a request has read is left for the next one.
FinishKeeping(q) ==
  /\ Turn(q, "idle")
  /\ tasks' = [tasks EXCEPT ![q] = NoTasks]
  /\ Forget(q, 0, 0)
  /\ UNCHANGED <<got, rows, people>>

Finish(q) ==
  /\ Turn(q, "idle")
  /\ got' = [got EXCEPT ![q] = <<>>] /\ rows' = [rows EXCEPT ![q] = <<>>]
  /\ people' = [people EXCEPT ![q] = {}]
  /\ tasks' = [tasks EXCEPT ![q] = NoTasks]
  /\ Forget(q, 0, 0)

\* The contributors are counted, each once, and the repositories' numbers
\* added up.  The computation of the dashboard follows (Dashboard).
StoreOrg(q) ==
  /\ at[q] = "org"
  /\ orgStats' = [people |-> people[q], repos |-> rows[q]]
  /\ Finish(q)
  /\ UNCHANGED <<github, releaseStats, bounds>>

\* A repository is not there any more when its contributors are asked for,
\* which ends the request.
RepoGone(q) ==
  /\ at[q] = "contributors"
  /\ \E r \in Repos : tasks[q][r] # Ended /\ r \notin Range(github.repos)
  /\ Finish(q)
  /\ UNCHANGED <<github, releaseStats, orgStats, bounds>>

\* A query or a cache write raises, which ends the request.
Fail(q) ==
  /\ at[q] # "idle" /\ fails < MaxFails
  /\ fails' = fails + 1
  /\ Finish(q)
  /\ UNCHANGED <<github, releaseStats, orgStats, runs>>

Step(q) ==
  \/ FetchPage(q) \/ Store(q) \/ MembersPage(q) \/ ReposPage(q)
  \/ (\E r \in Repos : ContributorsPage(q, r)) \/ RepoGone(q) \/ Gathered(q) \/ StoreOrg(q)

Next ==
  \/ \E f \in Feeds : Publish(f) \/ TakeBack(f)
  \/ \E r \in Repos : Overtake(r) \/ Contribute(r)
  \/ Join \/ Leave
  \/ Create \/ Delete
  \/ \E q \in Requests : Start(q) \/ Step(q) \/ Fail(q)

Spec == Init /\ [][Next]_vars

\* The timer's script asks for a refresh again and again, and requests go on.
Fairness == WF_vars(Start(Cron)) /\ \A q \in Requests : WF_vars(Step(q))

FairSpec == Spec /\ Fairness

-----------------------------------------------------------------------------

ReadAll(q) == at[q] \in Feeds /\ ~more[q]

\* List s leaves out at most one release for each that was taken back since
\* request q began, and has one twice at most for each that was published.
LeavesOutFew(q, s) ==
  Cardinality((began[q] \ removed[q]) \ Range(s)) <= Cardinality(removed[q])
HasTwiceFew(q, s) == Len(s) <= Cardinality(Range(s)) + Cardinality(added[q])

\* "Fetches release download counts for all releases of the given repo."
\* (line 77): a release that is there all along is left out at most once for
\* each release that was taken back while the pages were read (lines 82-99),
\* since what follows moves up across the cursor.  Without such a change the
\* list is complete.
MissesFew == \A q \in Requests : ReadAll(q) => LeavesOutFew(q, got[q])

\* A release is listed, and its downloads are counted (lines 104-112), twice
\* at most once for each release that was published meanwhile.
RepeatsFew == \A q \in Requests : ReadAll(q) => HasTwiceFew(q, got[q])

Contributors(repos) ==
  Range(github.members)
    \cup UNION {Range(github.contributors[r]) : r \in repos \cap Range(github.repos)}

\* Repositories rs and people ps leave out at most one repository for each
\* that was created or deleted since request q began to read them, have one
\* twice at most as often, and leave out at most one of the members and of
\* the contributors of the eligible ones among rs for each change of a list
\* of people.
OrgWhole(q, rs, ps) ==
  /\ Cardinality(Range(github.repos) \ Range(rs)) <= moves - movesAt[q]
  /\ Len(rs) <= Cardinality(Range(rs)) + (moves - movesAt[q])
  /\ Cardinality(Contributors(Eligible \cap Range(rs)) \ ps) <= shifts - shiftsAt[q]

\* What was read of the organisation is whole in this sense, although the
\* repositories are read by cursor like the releases (lines 267-306), page 0
\* of a list of people is page 1 (lines 153-185, 198-215), and the lists of a
\* page of repositories are read concurrently (lines 277-288).
OrgComplete ==
  \A q \in Requests : at[q] = "org" => OrgWhole(q, rows[q], people[q])

\* What a request stores is what GitHub has, in the same order and nothing
\* beside it, if that has not changed since its first page (lines 82-112,
\* 193-226, 267-306): no page is left out at the end of a list or read into
\* it twice, nothing is left over from a request that failed, and only the
\* eligible repositories add people.
CurrentIfStill ==
  \A q \in Requests :
    /\ ReadAll(q) /\ added[q] = {} /\ removed[q] = {} => got[q] = github.releases[at[q]]
    /\ at[q] = "org" /\ shifts = shiftsAt[q] /\ moves = movesAt[q] =>
         people[q] = Contributors(Eligible) /\ rows[q] = github.repos

\* What the requests put in the cache are whole lists and nothing else
\* (admin.py:106-122), whether they overlap, fail or are overtaken by what
\* GitHub does: the step that changes an entry is the end of the reading of
\* that list by one request, and the list is what this request has read of
\* it, with no release beside those that were there meanwhile and no more
\* missing or doubled than changes of GitHub's list account for.
PutsWhole ==
  [][/\ \A f \in Feeds : releaseStats'[f] # releaseStats[f] =>
          \E q \in Requests :
            /\ at[q] = f /\ at'[q] # f /\ releaseStats'[f] # None
            /\ Range(releaseStats'[f]) \subseteq began[q] \cup added[q]
            /\ LeavesOutFew(q, releaseStats'[f]) /\ HasTwiceFew(q, releaseStats'[f])
     /\ orgStats' # orgStats =>
          /\ orgStats' # None
          /\ \E q \in Requests :
               at[q] = "org" /\ at'[q] # "org" /\ OrgWhole(q, orgStats'.repos, orgStats'.people)]_vars

\* When GitHub does not change any more, the cache has in the end what GitHub
\* has, and from then on: an administrator's request may write an older list
\* over a newer one (admin.py:106-122), or fail between two of them.
EventuallyCurrent ==
  <>[](/\ releaseStats = github.releases
       /\ orgStats = [people |-> Contributors(Eligible), repos |-> github.repos])

=============================================================================
