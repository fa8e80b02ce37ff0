---------------------------- MODULE LatestReleases ----------------------------
(***************************************************************************)
(* The newest release of each channel (app/releases.py:111-191).  A        *)
(* request takes the list of releases from the cache, goes through it to   *)
(* find the highest version of each channel, looks the release of that     *)
(* version up by its text, and answers with the download URLs of its       *)
(* assets.                                                                 *)
(*                                                                         *)
(* The order of semantic versions is external (the semver package): a      *)
(* number stands for the precedence of a version.  Two versions that       *)
(* differ in their build metadata only have the same precedence.           *)
(***************************************************************************)
EXTENDS Integers, Sequences

CONSTANTS
  Tags,        \* tags of releases
  Texts,       \* what is left of a tag without its leading "v"
  TextOf,      \* that text for each tag
  Versions,    \* the texts that are semantic versions
  Precedence,  \* of each version
  Prereleases, \* the versions with a prerelease part
  Undotted,    \* tags of releases with an asset whose name has no dot
  None         \* no cache entry, or no version

\* What the properties need to know of these.
TagsAssumption ==
  /\ TextOf \in [Tags -> Texts]
  /\ Versions \subseteq Texts /\ Prereleases \subseteq Versions
  /\ Precedence \in [Versions -> Nat]
  /\ None \notin Seq(Tags) \cup Texts

VARIABLES
  cached,  \* the list of releases in the cache, or None
  stats,   \* the list the request works on
  phase,   \* what the request does next
  pos,     \* the position of its first pass through the list
  latest,  \* the highest version so far of each channel, or None
  found    \* where the release of that version is in the list; 0 is not yet

request == <<stats, phase, pos, latest, found>>
vars == <<cached, request>>

Channels == {"stable", "testing"}

ChannelOf(v) == IF v \in Prereleases THEN "testing" ELSE "stable"

TypeOK ==
  /\ cached \in Seq(Tags) \cup {None}
  /\ stats \in Seq(Tags)
  /\ phase \in {"idle", "scan", "answered", "failed", "asserted"}
  /\ pos \in 1..Len(stats) + 1
  /\ latest \in [Channels -> Versions \cup {None}]
  /\ found \in [Channels -> 0..Len(stats)]

Init ==
  /\ cached = None /\ stats = <<>>
  /\ phase = "idle" /\ pos = 1
  /\ latest = [c \in Channels |-> None]
  /\ found = [c \in Channels |-> 0]

-----------------------------------------------------------------------------

\* A refresh of the GitHub statistics (GitHubStats) puts a list in the cache.
Refresh ==
  /\ cached' \in Seq(Tags)
  /\ UNCHANGED request

Idle == phase # "scan"

\* A request arrives and reads the cache.  A list that is not there cannot
\* be iterated over (line 118).
Get ==
  /\ Idle
  /\ phase' = IF cached = None THEN "failed" ELSE "scan"
  /\ stats' = IF cached = None THEN <<>> ELSE cached
  /\ pos' = 1
  /\ latest' = [c \in Channels |-> None]
  /\ found' = [c \in Channels |-> 0]
  /\ UNCHANGED cached

\* A mutant: a later release of the same precedence wins.
ReplacesEqual(v, c) == latest[c] = None \/ Precedence[v] >= Precedence[latest[c]]

Replaces(v, c) == latest[c] = None \/ Precedence[v] > Precedence[latest[c]]

\* One round of the first loop: a tag that is no version is skipped.
Scan ==
  LET v == TextOf[stats[pos]] IN
  /\ phase = "scan" /\ pos <= Len(stats)
  /\ latest' = IF v \in Versions /\ Replaces(v, ChannelOf(v))
               THEN [latest EXCEPT ![ChannelOf(v)] = v] ELSE latest
  /\ pos' = pos + 1
  /\ UNCHANGED <<cached, stats, phase, found>>

Scanned == phase = "scan" /\ pos > Len(stats)

Matches(v) == {j \in 1..Len(stats) : TextOf[stats[j]] = v}

IsFirst(j, S) == j \in S /\ \A k \in S : j <= k

Wanted(c) == Scanned /\ latest[c] # None /\ found[c] = 0

\* The second loop stops at the first release with the text of the version;
\* if there is none, the assertion at line 142 fails.
Lookup(c) ==
  LET M == Matches(latest[c]) IN
  /\ Wanted(c)
  /\ found' = IF M = {} THEN found ELSE [found EXCEPT ![c] = CHOOSE j \in M : IsFirst(j, M)]
  /\ phase' = IF M = {} THEN "asserted" ELSE phase
  /\ UNCHANGED <<cached, stats, pos, latest>>

\* The architecture of an asset is what follows the last dot of its name; a
\* name without one raises (line 46).
NoArch(c) == found[c] # 0 /\ stats[found[c]] \in Undotted

\* The answer, with the URLs of the assets.
Respond ==
  /\ Scanned /\ \A c \in Channels : latest[c] # None => found[c] # 0
  /\ phase' = IF \E c \in Channels : NoArch(c) THEN "failed" ELSE "answered"
  /\ UNCHANGED <<cached, stats, pos, latest, found>>

Step == Scan \/ Respond \/ \E c \in Channels : Lookup(c)

Next == Refresh \/ Get \/ Step

Spec == Init /\ [][Next]_vars

-----------------------------------------------------------------------------

\* Positions of the versions of channel c among the first n releases, and
\* those that no other of them is newer than.
Positions(c, n) ==
  {j \in 1..n : TextOf[stats[j]] \in Versions /\ ChannelOf(TextOf[stats[j]]) = c}

Newest(c, n) ==
  {j \in Positions(c, n) : \A k \in Positions(c, n) :
     Precedence[TextOf[stats[k]]] <= Precedence[TextOf[stats[j]]]}

\* "Returns the latest releases for each channel." (line 115): the release in
\* the answer is one that no release of its channel is newer than, the first
\* of those in the list, and a channel is absent only when it has no
\* version.  The code chooses by the order of versions and looks up by text
\* (line 139), so tags that are equal as versions must not part the two, and
\* the assertion at line 142 must not fail.
AnswerIsNewest ==
  /\ phase = "answered" => \A c \in Channels :
       IF Newest(c, Len(stats)) = {} THEN found[c] = 0
       ELSE IsFirst(found[c], Newest(c, Len(stats)))
  /\ phase # "asserted"

=============================================================================
