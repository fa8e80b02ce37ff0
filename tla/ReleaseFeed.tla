------------------------------ MODULE ReleaseFeed ------------------------------
(***************************************************************************)
(* The statistics requests (GitHubStats) together with a client's request  *)
(* for the latest releases of one of the feeds (LatestReleases), which     *)
(* works on what they left in the cache: those of the package manager or,  *)
(* in the same way, of one of the IDE plugins (app/releases.py:153-191).   *)
(***************************************************************************)
EXTENDS GitHubStats

CONSTANTS
  Feed,  \* the repository whose releases the client asks for
  Texts, TextOf, Versions, Precedence, Prereleases, Undotted

VARIABLES stats, phase, pos, latest, found

\* Only what makes the URLs of the package manager's assets looks for the dot
\* (app/releases.py:28-48, 96-108).
L == INSTANCE LatestReleases WITH
  cached <- releaseStats[Feed], Undotted <- IF Feed = "pm" THEN Undotted ELSE {}

ASSUME FeedAssumption == Feed \in Feeds
ASSUME TextsAssumption == L!TagsAssumption

allVars == <<vars, stats, phase, pos, latest, found>>

FeedInit == Init /\ L!Init

\* A client asks, or its request goes on.
Ask == UNCHANGED vars /\ L!Get
Answer == UNCHANGED vars /\ L!Step

Unread == UNCHANGED <<stats, phase, pos, latest, found>>

FeedNext ==
  \/ Next /\ Unread
  \/ Ask
  \/ Answer

FeedSpec == FeedInit /\ [][FeedNext]_allVars

\* As in GitHubStats; a request that was begun is answered, and clients ask
\* when they like.
FairFeedSpec ==
  /\ FeedSpec
  /\ WF_allVars(Start(Cron) /\ Unread)
  /\ \A q \in Requests : WF_allVars(Step(q) /\ Unread)
  /\ WF_allVars(Answer)

-----------------------------------------------------------------------------

\* "Returns the latest releases for each channel." (app/releases.py:115), of
\* the list that was in the cache when the request came.
AnswerIsNewest == L!AnswerIsNewest

\* When GitHub does not change any more, every answer from some time on is
\* drawn from the current list of releases.
EventuallyNewest ==
  <>[][L!Respond => stats = github.releases[Feed]]_allVars
=============================================================================
