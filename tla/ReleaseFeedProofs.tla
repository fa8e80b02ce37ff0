-------------------------- MODULE ReleaseFeedProofs --------------------------
(***************************************************************************)
(* Theorems about the composition of the statistics requests and their     *)
(* readers: for any lists at GitHub, page sizes, requests and bounds.      *)
(***************************************************************************)
EXTENDS ReleaseFeed, GitHubStatsProofs

\* The same in the composition.
THEOREM FeedTypeCorrect == FeedSpec => []TypeOK
<1>1. FeedInit => TypeOK
  BY TypeInit DEF FeedInit
<1>2. TypeOK /\ [FeedNext]_allVars => TypeOK'
  BY TypeStep DEF FeedNext, Ask, Answer, allVars
<1> QED
  BY <1>1, <1>2, PTL DEF FeedSpec

\* A client never disturbs the statistics requests: what they do in the
\* composition, they do alone (app/releases.py:159 only reads their entry).
THEOREM FeedImplementsStats == FeedSpec => Spec
<1>1. FeedInit => Init
  BY DEF FeedInit
<1>2. [FeedNext]_allVars => [Next]_vars
  <2> SUFFICES ASSUME [FeedNext]_allVars PROVE Next \/ vars' = vars
    OBVIOUS
  <2> QED
    BY DEF FeedNext, Ask, Answer, allVars
<1> QED
  BY <1>1, <1>2, PTL DEF FeedSpec, Spec

\* So what the lists miss, repeat and lose is bounded in the composition, too
\* (components/github_stats.py:82-112, 262-306), and the entry that a client
\* reads (app/releases.py:159) only ever goes from one whole list to another
\* (app/admin.py:106-107).
THEOREM FeedListsHold ==
  FeedSpec => /\ [](MissesFew /\ RepeatsFew /\ OrgComplete /\ CurrentIfStill)
              /\ PutsWhole
BY FeedImplementsStats, MissesFewHolds, RepeatsFewHolds, OrgCompleteHolds, CurrentIfStillHolds,
   PutsWholeHolds, PTL

\* No step of the statistics requests changes the list of a client's request
\* that is under way.
LEMMA FeedImplementsLatest == FeedSpec => L!Spec
<1>1. FeedInit => L!Init
  BY FeedAssumption DEF FeedInit, Init, L!Init
<1>2. TypeOK /\ [FeedNext]_allVars => [L!Next]_(L!vars)
  <2> SUFFICES ASSUME TypeOK, [FeedNext]_allVars PROVE L!Next \/ UNCHANGED L!vars
    OBVIOUS
  <2>1. CASE UNCHANGED allVars
    BY <2>1 DEF allVars, vars, L!vars, L!request
  <2>2. CASE Ask \/ Answer
    BY <2>2 DEF Ask, Answer, L!Next
  <2>3. CASE Next /\ UNCHANGED <<stats, phase, pos, latest, found>>
    <3>1. CASE \E q \in Requests : Store(q)
      <4>1. PICK q \in Requests : Store(q)
        BY <3>1
      <4>2. CASE at[q] = Feed
        <5>1. releaseStats'[Feed] \in Seq(Tags)
          BY <4>1, <4>2, FeedAssumption DEF Store, TypeOK
        <5> QED
          BY <5>1, <2>3 DEF L!Next, L!Refresh, L!request
      <4>3. CASE at[q] # Feed
        BY <4>1, <4>3, <2>3, FeedAssumption DEF Store, TypeOK, L!vars, L!request
      <4> QED
        BY <4>2, <4>3
    <3>2. CASE ~ \E q \in Requests : Store(q)
      <4>1. releaseStats' = releaseStats
        BY <2>3, <3>2, EntriesChange
      <4> QED
        BY <4>1, <2>3 DEF L!vars, L!request
    <3> QED
      BY <3>1, <3>2
  <2> QED
    BY <2>1, <2>2, <2>3 DEF FeedNext, Unread
<1> QED
  BY <1>1, <1>2, FeedTypeCorrect, PTL DEF FeedSpec, L!Spec

\* The theorems of LatestReleases.
LP == INSTANCE LatestReleasesProofs WITH
  cached <- releaseStats[Feed], Undotted <- IF Feed = "pm" THEN Undotted ELSE {}

\* The answers are the newest of the list that was in the cache when they
\* were asked for (app/releases.py:115), whatever the statistics requests did
\* to it: the theorem of LatestReleases, carried over by the refinement.
THEOREM FeedAnswerIsNewest == FeedSpec => []AnswerIsNewest
<1>1. LP!Spec => []LP!AnswerIsNewest
  BY TextsAssumption, LP!AnswerIsNewestHolds DEF L!TagsAssumption, LP!TagsAssumption
<1>2. L!Init => LP!Init
  BY DEF L!Init, LP!Init, L!Channels, LP!Channels
<1>3. [L!Next]_(L!vars) => [LP!Next]_(LP!vars)
  <2>1. L!Refresh => LP!Refresh
    BY DEF L!Refresh, LP!Refresh, L!request, LP!request
  <2>2. L!Get => LP!Get
    BY DEF L!Get, LP!Get, L!Idle, LP!Idle, L!Channels, LP!Channels
  <2>3. L!Scan => LP!Scan
    BY DEF L!Scan, LP!Scan, L!Replaces, LP!Replaces, L!ChannelOf, LP!ChannelOf
  <2>4. L!Respond => LP!Respond
    BY DEF L!Respond, LP!Respond, L!Scanned, LP!Scanned, L!Channels, LP!Channels,
       L!NoArch, LP!NoArch
  <2>5. ASSUME NEW c, L!Lookup(c) PROVE LP!Lookup(c)
    BY <2>5 DEF L!Lookup, LP!Lookup, L!Matches, LP!Matches, L!Wanted, LP!Wanted,
       L!Scanned, LP!Scanned, L!IsFirst, LP!IsFirst
  <2>6. UNCHANGED L!vars => UNCHANGED LP!vars
    BY DEF L!vars, LP!vars, L!request, LP!request
  <2> QED
    BY <2>1, <2>2, <2>3, <2>4, <2>5, <2>6 DEF L!Next, LP!Next, L!Step, LP!Step,
       L!Channels, LP!Channels
<1>4. LP!AnswerIsNewest => AnswerIsNewest
  BY DEF AnswerIsNewest, L!AnswerIsNewest, LP!AnswerIsNewest, L!Channels, LP!Channels,
     L!Newest, LP!Newest, L!Positions, LP!Positions, L!ChannelOf, LP!ChannelOf, L!IsFirst, LP!IsFirst
<1> QED
  BY <1>1, <1>2, <1>3, <1>4, FeedImplementsLatest, PTL DEF LP!Spec, L!Spec
=============================================================================
