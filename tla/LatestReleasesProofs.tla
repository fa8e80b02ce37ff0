------------------------ MODULE LatestReleasesProofs ------------------------
(***************************************************************************)
(* Theorems about LatestReleases for all lists of releases, all tags and   *)
(* every order of versions.                                                *)
(***************************************************************************)
EXTENDS LatestReleases, TLAPS

\* Release j is the newest of channel c among the first n, and the first of
\* those that are as new.
Best(c, n, j) ==
  /\ j \in Positions(c, n)
  /\ \A k \in Positions(c, n) :
       /\ Precedence[TextOf[stats[k]]] <= Precedence[TextOf[stats[j]]]
       /\ Precedence[TextOf[stats[k]]] = Precedence[TextOf[stats[j]]] => j <= k

\* What the first pass has found is the best of what it has seen.
ScanInv ==
  \A c \in Channels :
    /\ latest[c] = None => Positions(c, pos - 1) = {}
    /\ latest[c] # None => \E j \in 1..pos - 1 :
         Best(c, pos - 1, j) /\ TextOf[stats[j]] = latest[c]

\* What the second pass has found has that text, and comes after the first.
FoundInv ==
  \A c \in Channels : found[c] # 0 =>
    pos > Len(stats) /\ latest[c] # None /\ IsFirst(found[c], Matches(latest[c]))

IInv == TypeOK /\ ScanInv /\ FoundInv /\ AnswerIsNewest

\* The tags of a list, with their texts and the precedence of those that are
\* versions.
LEMMA TagFacts ==
  ASSUME TagsAssumption, stats \in Seq(Tags)
  PROVE  /\ Len(stats) \in Nat
         /\ \A j \in 1..Len(stats) : TextOf[stats[j]] \in Texts
         /\ \A v \in Versions : Precedence[v] \in Nat /\ v # None
         /\ \A v : ChannelOf(v) \in Channels
<1>1. \A j \in 1..Len(stats) : stats[j] \in Tags
  OBVIOUS
<1> QED
  BY <1>1 DEF TagsAssumption, ChannelOf, Channels

LEMMA BestIsNewest ==
  ASSUME TagsAssumption, stats \in Seq(Tags), NEW c, NEW n \in 0..Len(stats), NEW j, Best(c, n, j)
  PROVE  IsFirst(j, Newest(c, n))
<1>1. \A k \in Positions(c, n) : k \in 1..Len(stats) /\ Precedence[TextOf[stats[k]]] \in Nat
  BY TagFacts DEF Positions
<1> QED
  BY <1>1 DEF Best, Newest, IsFirst

\* The first release with the text of the best one is the best one.
LEMMA BestIsFirstMatch ==
  ASSUME TagsAssumption, stats \in Seq(Tags), NEW c, NEW j, Best(c, Len(stats), j),
         NEW k, IsFirst(k, Matches(TextOf[stats[j]]))
  PROVE  k = j
<1>1. j \in Matches(TextOf[stats[j]])
  BY DEF Best, Positions, Matches
<1>2. k \in Positions(c, Len(stats)) /\ TextOf[stats[k]] = TextOf[stats[j]]
  BY DEF Best, Positions, Matches, IsFirst
<1>3. k \in Nat /\ j \in Nat
  BY <1>1, <1>2, TagFacts DEF Positions, Matches
<1>4. k <= j
  BY <1>1 DEF IsFirst
<1>5. j <= k
  BY <1>2 DEF Best
<1> QED
  BY <1>3, <1>4, <1>5

LEMMA PositionsStep ==
  ASSUME NEW c, NEW n \in Nat
  PROVE  Positions(c, n + 1) = Positions(c, n) \cup
           {j \in {n + 1} : TextOf[stats[j]] \in Versions /\ ChannelOf(TextOf[stats[j]]) = c}
<1>1. 1..n + 1 = 1..n \cup {n + 1}
  OBVIOUS
<1> QED
  BY <1>1 DEF Positions

LEMMA ScanStep ==
  ASSUME TagsAssumption, IInv, Scan
  PROVE  TypeOK' /\ ScanInv' /\ FoundInv' /\ AnswerIsNewest'
<1> DEFINE v == TextOf[stats[pos]]
<1> USE DEF IInv
<1>0. /\ stats' = stats /\ phase' = "scan" /\ phase = "scan" /\ found' = found /\ cached' = cached
      /\ pos' = pos + 1 /\ pos \in 1..Len(stats) /\ Len(stats) \in Nat
      /\ v \in Texts /\ stats \in Seq(Tags)
  BY TagFacts DEF Scan, TypeOK
<1>1. \A c \in Channels : found[c] = 0
  BY <1>0 DEF FoundInv
<1>3. latest' \in [Channels -> Versions \cup {None}]
  BY TagFacts, <1>0 DEF Scan, TypeOK
<1>4. TypeOK'
  BY <1>0, <1>3 DEF TypeOK
<1>5. ASSUME NEW c \in Channels
      PROVE  /\ latest'[c] = None => Positions(c, pos) = {}
             /\ latest'[c] # None => \E j \in 1..pos :
                  Best(c, pos, j) /\ TextOf[stats[j]] = latest'[c]
  <2> DEFINE P == Positions(c, pos - 1)
  <2>1. Positions(c, pos) = P \cup {j \in {pos} : v \in Versions /\ ChannelOf(v) = c}
    <3>1. pos - 1 \in Nat /\ (pos - 1) + 1 = pos
      BY <1>0
    <3> HIDE DEF v
    <3> QED
      BY <3>1, PositionsStep DEF v
  <2>2. \A k \in P : k \in 1..pos - 1 /\ k < pos /\ Precedence[TextOf[stats[k]]] \in Nat
    BY <1>0, TagFacts DEF Positions
  <2>3. CASE v \in Versions /\ ChannelOf(v) = c
    <3>1. Positions(c, pos) = P \cup {pos} /\ Precedence[v] \in Nat /\ v # None
      BY <2>1, <2>3, <1>0, TagFacts
    <3>2. CASE Replaces(v, c)
      <4>1. latest'[c] = v
        BY <2>3, <3>2, <1>0 DEF Scan, TypeOK
      <4>2. \A k \in P : Precedence[TextOf[stats[k]]] < Precedence[v]
        <5>1. CASE latest[c] = None
          BY <5>1 DEF ScanInv
        <5>2. CASE latest[c] # None
          <6>1. PICK j \in 1..pos - 1 : Best(c, pos - 1, j) /\ TextOf[stats[j]] = latest[c]
            BY <5>2 DEF ScanInv
          <6>2. Precedence[latest[c]] < Precedence[v] /\ Precedence[latest[c]] \in Nat
            BY <5>2, <3>2, <3>1, TagFacts DEF Replaces, TypeOK
          <6> QED
            BY <6>1, <6>2, <2>2, <3>1 DEF Best
        <5> QED
          BY <5>1, <5>2
      <4>3. Best(c, pos, pos)
        BY <4>2, <3>1, <2>2, <1>0 DEF Best
      <4> QED
        BY <4>1, <4>3, <3>1, <1>0
    <3>3. CASE ~Replaces(v, c)
      <4>1. latest'[c] = latest[c] /\ latest[c] # None
        BY <3>3, <2>3, <1>0 DEF Scan, Replaces
      <4>2. PICK j \in 1..pos - 1 : Best(c, pos - 1, j) /\ TextOf[stats[j]] = latest[c]
        BY <4>1 DEF ScanInv
      <4>3. Precedence[v] <= Precedence[latest[c]]
        BY <3>3, <3>1, <4>1, TagFacts DEF Replaces, TypeOK
      <4>4. Best(c, pos, j)
        BY <4>2, <4>3, <3>1, <2>2, <1>0 DEF Best
      <4> QED
        BY <4>1, <4>2, <4>4, <1>0
    <3> QED
      BY <3>2, <3>3
  <2>4. CASE ~(v \in Versions /\ ChannelOf(v) = c)
    <3>1. latest'[c] = latest[c]
      BY <2>4, <1>0 DEF Scan, TypeOK
    <3>2. Positions(c, pos) = P
      BY <2>1, <2>4
    <3>3. \A j : Best(c, pos - 1, j) => Best(c, pos, j)
      BY <3>2 DEF Best
    <3> QED
      BY <3>1, <3>2, <3>3, <1>0 DEF ScanInv
  <2> QED
    BY <2>3, <2>4
<1>6. ScanInv'
  <2> SUFFICES ASSUME NEW c \in Channels
               PROVE  /\ latest'[c] = None => Positions(c, pos - 1)' = {}
                      /\ latest'[c] # None => \E j \in 1..pos' - 1 :
                           Best(c, pos - 1, j)' /\ TextOf[stats'[j]] = latest'[c]
    BY DEF ScanInv
  <2>1. pos' - 1 = pos /\ stats' = stats
    BY <1>0
  <2>2. Positions(c, pos - 1)' = Positions(c, pos)
    BY <2>1 DEF Positions
  <2>3. \A j : Best(c, pos - 1, j)' <=> Best(c, pos, j)
    BY <2>1, <2>2 DEF Best
  <2> QED
    BY <1>5, <2>1, <2>2, <2>3
<1>7. FoundInv'
  BY <1>0, <1>1 DEF FoundInv
<1>8. AnswerIsNewest'
  BY <1>0 DEF AnswerIsNewest
<1> QED
  BY <1>4, <1>6, <1>7, <1>8

\* The second pass finds the best release, and never nothing.
LEMMA LookupStep ==
  ASSUME TagsAssumption, IInv, NEW c \in Channels, Lookup(c)
  PROVE  TypeOK' /\ ScanInv' /\ FoundInv' /\ AnswerIsNewest'
<1> DEFINE M == Matches(latest[c])
<1> USE DEF IInv
<1>0. /\ stats' = stats /\ cached' = cached /\ pos' = pos /\ latest' = latest
      /\ phase = "scan" /\ pos = Len(stats) + 1 /\ Len(stats) \in Nat
      /\ latest[c] # None /\ stats \in Seq(Tags)
  BY TagFacts DEF Lookup, Wanted, Scanned, TypeOK
<1>1. PICK j \in 1..pos - 1 : Best(c, pos - 1, j) /\ TextOf[stats[j]] = latest[c]
  BY <1>0 DEF ScanInv
<1>2. j \in M /\ \A k \in M : j <= k
  BY <1>0, <1>1 DEF Best, Positions, Matches
<1>3. PICK i : i = (CHOOSE k \in M : IsFirst(k, M))
  OBVIOUS
<1>4. i \in M /\ IsFirst(i, M)
  BY <1>2, <1>3 DEF IsFirst
<1>5. found' = [found EXCEPT ![c] = i] /\ phase' = "scan" /\ i \in 1..Len(stats)
  <2>1. M # {}
    BY <1>2
  <2>2. i \in 1..Len(stats)
    BY <1>4 DEF Matches
  <2> QED
    BY <2>1, <2>2, <1>0, <1>3 DEF Lookup
<1>6. found' \in [Channels -> 0..Len(stats)] /\ found'[c] = i
      /\ \A d \in Channels \ {c} : found'[d] = found[d]
  BY <1>5, <1>0 DEF TypeOK
<1>7. TypeOK'
  BY <1>0, <1>5, <1>6 DEF TypeOK
<1>8. ScanInv'
  BY <1>0 DEF ScanInv, Best, Positions
<1>9. FoundInv'
  <2>1. ASSUME NEW d PROVE Matches(d)' = Matches(d)
    BY <1>0 DEF Matches
  <2>2. ASSUME NEW d \in Channels, found'[d] # 0
        PROVE  pos > Len(stats) /\ latest[d] # None /\ IsFirst(found'[d], Matches(latest[d]))
    BY <2>2, <1>0, <1>4, <1>6 DEF FoundInv
  <2> QED
    BY <2>1, <2>2, <1>0 DEF FoundInv, IsFirst, Matches
<1>10. AnswerIsNewest'
  BY <1>5 DEF AnswerIsNewest
<1> QED
  BY <1>7, <1>8, <1>9, <1>10

LEMMA RespondStep ==
  ASSUME TagsAssumption, IInv, Respond
  PROVE  TypeOK' /\ ScanInv' /\ FoundInv' /\ AnswerIsNewest'
<1> USE DEF IInv
<1>0. /\ UNCHANGED <<cached, stats, pos, latest, found>>
      /\ phase' \in {"answered", "failed"}
      /\ pos = Len(stats) + 1 /\ Len(stats) \in Nat /\ stats \in Seq(Tags)
      /\ \A c \in Channels : latest[c] # None => found[c] # 0
  BY TagFacts DEF Respond, Scanned, TypeOK
<1>1. TypeOK' /\ ScanInv' /\ FoundInv'
  <2>1. TypeOK'
    BY <1>0 DEF TypeOK
  <2>2. ScanInv'
    BY <1>0 DEF ScanInv, Best, Positions
  <2>3. FoundInv'
    BY <1>0 DEF FoundInv, Matches
  <2> QED
    BY <2>1, <2>2, <2>3
<1>2. ASSUME NEW c \in Channels
      PROVE  IF Newest(c, Len(stats)) = {} THEN found[c] = 0
             ELSE IsFirst(found[c], Newest(c, Len(stats)))
  <2>1. CASE latest[c] = None
    BY <2>1, <1>0 DEF ScanInv, FoundInv, Newest
  <2>2. CASE latest[c] # None
    <3>1. PICK j \in 1..pos - 1 : Best(c, pos - 1, j) /\ TextOf[stats[j]] = latest[c]
      BY <2>2 DEF ScanInv
    <3>2. Best(c, Len(stats), j) /\ Len(stats) \in 0..Len(stats)
      BY <3>1, <1>0
    <3>3. found[c] = j
      BY <2>2, <3>1, <3>2, <1>0, BestIsFirstMatch DEF FoundInv
    <3>4. IsFirst(j, Newest(c, Len(stats)))
      BY <3>2, <1>0, BestIsNewest
    <3> QED
      BY <3>3, <3>4 DEF IsFirst
  <2> QED
    BY <2>1, <2>2
<1>3. AnswerIsNewest'
  BY <1>0, <1>2 DEF AnswerIsNewest, Newest, Positions, IsFirst
<1> QED
  BY <1>1, <1>3

LEMMA QuietStep ==
  ASSUME TagsAssumption, IInv, UNCHANGED request, cached' \in Seq(Tags) \cup {None}
  PROVE  TypeOK' /\ ScanInv' /\ FoundInv' /\ AnswerIsNewest'
<1> USE DEF IInv, request
<1>1. TypeOK'
  BY DEF TypeOK
<1>2. ScanInv'
  BY DEF ScanInv, Best, Positions
<1>3. FoundInv'
  BY DEF FoundInv, Matches, IsFirst
<1>4. AnswerIsNewest'
  BY DEF AnswerIsNewest, Newest, Positions, IsFirst
<1> QED
  BY <1>1, <1>2, <1>3, <1>4

LEMMA GetStep ==
  ASSUME TagsAssumption, IInv, Get
  PROVE  TypeOK' /\ ScanInv' /\ FoundInv' /\ AnswerIsNewest'
<1> USE DEF IInv
<1>1. /\ cached' = cached /\ pos' = 1 /\ phase' \in {"scan", "failed"}
      /\ stats' \in Seq(Tags) /\ Len(stats') \in Nat
      /\ latest' = [c \in Channels |-> None] /\ found' = [c \in Channels |-> 0]
  <2>1. <<>> \in Seq(Tags)
    OBVIOUS
  <2>2. stats' \in Seq(Tags)
    BY <2>1 DEF Get, TypeOK
  <2> QED
    BY <2>2 DEF Get
<1>2. TypeOK'
  BY <1>1 DEF TypeOK
<1>3. ScanInv' /\ FoundInv' /\ AnswerIsNewest'
  BY <1>1 DEF ScanInv, FoundInv, AnswerIsNewest, Positions
<1> QED
  BY <1>2, <1>3

LEMMA InductiveInvariant ==
  ASSUME TagsAssumption
  PROVE  Spec => []IInv
<1>1. Init => IInv
  <2>1. <<>> \in Seq(Tags) /\ Len(<<>>) = 0
    OBVIOUS
  <2> QED
    BY <2>1 DEF Init, IInv, TypeOK, ScanInv, FoundInv, AnswerIsNewest, Positions
<1>2. IInv /\ [Next]_vars => IInv'
  <2> SUFFICES ASSUME TagsAssumption, IInv, [Next]_vars PROVE IInv'
    OBVIOUS
  <2>1. CASE Refresh
    BY <2>1, QuietStep DEF Refresh, IInv, TypeOK
  <2>2. CASE Get
    BY <2>2, GetStep DEF IInv
  <2>3. CASE Scan
    BY <2>3, ScanStep DEF IInv
  <2>4. CASE \E c \in Channels : Lookup(c)
    BY <2>4, LookupStep DEF IInv
  <2>5. CASE Respond
    BY <2>5, RespondStep DEF IInv
  <2>6. CASE UNCHANGED vars
    BY <2>6, QuietStep DEF vars, IInv, TypeOK
  <2> QED
    BY <2>1, <2>2, <2>3, <2>4, <2>5, <2>6 DEF Next, Step
<1> QED
  BY <1>1, <1>2, PTL DEF Spec

\* Every variable keeps its type: what the second pass has found is a release
\* of the list it looks through (app/releases.py:134-142).
THEOREM LatestTypeCorrect ==
  ASSUME TagsAssumption
  PROVE  Spec => []TypeOK
BY InductiveInvariant, PTL DEF IInv

\* The answer has the newest release of each channel, for every list of
\* releases, and the assertion at app/releases.py:142 never fails.
THEOREM AnswerIsNewestHolds ==
  ASSUME TagsAssumption
  PROVE  Spec => []AnswerIsNewest
BY InductiveInvariant, PTL DEF IInv

=============================================================================
