--------------------------- MODULE DashboardProofs ---------------------------
(***************************************************************************)
(* Theorems about Dashboard for every set of requests, every choice and    *)
(* order of statistics and every bound.                                    *)
(***************************************************************************)
EXTENDS Dashboard, TLAPS

\* There is something to read, and what is refreshed is read.
LEMMA SourceFacts ==
  /\ Len(ReadOrder) \in Nat /\ Len(ReadOrder) >= 1
  /\ Len(GitHubSources) \in Nat /\ Len(GitHubSources) >= 1
  /\ \A i \in 1..Len(ReadOrder) : ReadOrder[i] \in Sources
  /\ \A i \in 1..Len(GitHubSources) : GitHubSources[i] \in Sources
<1>1. Len(ReadOrder) \in Nat /\ Len(GitHubSources) \in Nat
  BY SourcesAssumption
<1>2. \A i \in 1..Len(ReadOrder) : ReadOrder[i] \in Sources
  BY DEF Sources
<1>3. Len(ReadOrder) >= 1
  <2>1. PICK i \in 1..Len(ReadOrder) : PyPI = ReadOrder[i]
    BY SourcesAssumption DEF Sources
  <2> QED
    BY <1>1, <2>1
<1>4. Len(GitHubSources) >= 1
  BY SourcesAssumption
<1>5. \A i \in 1..Len(GitHubSources) : GitHubSources[i] \in Sources
  <2> SUFFICES ASSUME NEW i \in 1..Len(GitHubSources) PROVE GitHubSources[i] \in Sources \ {PyPI}
    OBVIOUS
  <2> QED
    BY SourcesAssumption
<1> QED
  BY <1>1, <1>2, <1>3, <1>4, <1>5

\* The effects of the helpers, request by request.
LEMMA GotoFacts ==
  ASSUME NEW q \in Requests, NEW l \in Steps, pc \in [Requests -> Steps], Goto(q, l)
  PROVE  /\ pc' \in [Requests -> Steps] /\ pc'[q] = l
         /\ \A p \in Requests \ {q} : pc'[p] = pc[p]
BY DEF Goto

LEMMA HoldFacts ==
  ASSUME NEW q \in Requests, NEW v \in Nat, held \in [Requests -> Nat], Hold(q, v)
  PROVE  /\ held' \in [Requests -> Nat] /\ held'[q] = v
         /\ \A p \in Requests \ {q} : held'[p] = held[p]
BY DEF Hold

LEMMA ResetFacts ==
  ASSUME TypeOK, NEW q \in Requests, Reset(q)
  PROVE  /\ pc' \in [Requests -> Steps] /\ held' \in [Requests -> Nat]
         /\ idx' \in [Requests -> Nat \ {0}] /\ draft' \in [Requests -> Dashboards]
         /\ pc'[q] = "idle" /\ held'[q] = 0 /\ idx'[q] = 1 /\ draft'[q] = Empty
         /\ \A p \in Requests \ {q} :
              /\ pc'[p] = pc[p] /\ held'[p] = held[p]
              /\ idx'[p] = idx[p] /\ draft'[p] = draft[p]
<1>1. Empty \in Dashboards
  BY BoundsAssumption DEF Empty, Dashboards, Counts
<1>2. "idle" \in Steps
  BY DEF Steps
<1> QED
  BY <1>1, <1>2, GotoFacts, HoldFacts DEF Reset, TypeOK

\* A request that moves to step l with number v leaves all others in range.
LEMMA RangeStep ==
  ASSUME TypeOK, NEW q \in Requests, InRange(q)',
         \A p \in Requests \ {q} :
           pc'[p] = pc[p] /\ held'[p] = held[p] /\ idx'[p] = idx[p]
  PROVE  \A p \in Requests : InRange(p)'
BY DEF InRange, TypeOK

\* The script goes on to something it does.
LEMMA AdvanceFacts ==
  ASSUME turn \in Kinds, authorized \in BOOLEAN, Advance
  PROVE  turn' \in Turns /\ authorized' \in BOOLEAN
BY DEF Advance, NextTurns, Kinds, Turns

\* A step of the code preserves the types.
LEMMA DashboardTypeStep ==
  ASSUME TypeOK, [Next]_vars
  PROVE  TypeOK'
<1> USE BoundsAssumption DEF TypeOK, script
<1>1. ASSUME NEW s \in Sources, Grow(s) PROVE TypeOK'
  BY <1>1 DEF Grow, Counts, requests, InRange
<1>2. ASSUME NEW q \in Requests, Start(q) PROVE TypeOK'
  <2>1. PICK k \in Kinds :
          /\ Goto(q, FirstStep(k))
          /\ IF q = Cron THEN k = turn /\ authorized /\ Advance ELSE UNCHANGED script
    BY <1>2 DEF Start
  <2>5. turn' \in Turns /\ authorized' \in BOOLEAN
    BY <2>1, AdvanceFacts
  <2>2. FirstStep(k) \in Steps /\ FirstStep(k) \notin {"read", "store", "setStamp"}
    BY DEF FirstStep, Steps, Kinds
  <2>3. /\ pc' \in [Requests -> Steps] /\ pc'[q] = FirstStep(k)
        /\ \A p \in Requests \ {q} : pc'[p] = pc[p]
    BY <2>1, <2>2, GotoFacts
  <2>4. \A p \in Requests : InRange(p)'
    BY <1>2, <2>2, <2>3, SourceFacts, RangeStep DEF Start, InRange
  <2> QED
    BY <1>2, <2>1, <2>3, <2>4, <2>5 DEF Start
<1>3. ASSUME NEW q \in Requests, Process(q) PROVE TypeOK'
  <2>1. /\ pc' \in [Requests -> Steps] /\ pc'[q] = "stamp"
        /\ \A p \in Requests \ {q} : pc'[p] = pc[p]
    BY <1>3, GotoFacts DEF Process, Steps
  <2>4. committed' \in 0..MaxCommits
    BY <1>3 DEF Process, InRange, Counts, None
  <2>5. \A p \in Requests : InRange(p)'
    BY <1>3, <2>1, <2>4, SourceFacts, RangeStep DEF Process, InRange
  <2> QED
    BY <1>3, <2>1, <2>4, <2>5 DEF Process
<1>4. ASSUME NEW q \in Requests, Stamp(q) PROVE TypeOK'
  <2>1. /\ pc' \in [Requests -> Steps] /\ pc'[q] = "setStamp"
        /\ \A p \in Requests \ {q} : pc'[p] = pc[p]
    BY <1>4, GotoFacts DEF Stamp, Steps
  <2>2. committed \in 0..MaxCommits
    BY <1>4 DEF Stamp, InRange, Counts
  <2>3. /\ held' \in [Requests -> Nat] /\ held'[q] = committed
        /\ \A p \in Requests \ {q} : held'[p] = held[p]
    BY <1>4, <2>2, HoldFacts DEF Stamp
  <2>5. \A p \in Requests : InRange(p)'
    BY <1>4, <2>1, <2>2, <2>3, SourceFacts, RangeStep DEF Stamp, InRange
  <2> QED
    BY <1>4, <2>1, <2>2, <2>3, <2>5 DEF Stamp
<1>5. ASSUME NEW q \in Requests, SetStamp(q) PROVE TypeOK'
  <2>1. /\ pc' \in [Requests -> Steps] /\ pc'[q] = "label"
        /\ \A p \in Requests \ {q} : pc'[p] = pc[p]
    BY <1>5, GotoFacts DEF SetStamp, Steps
  <2>2. 0 \in 0..MaxChanges
    BY <1>5 DEF SetStamp, InRange, Counts
  <2>3. /\ held' \in [Requests -> Nat] /\ held'[q] = 0
        /\ \A p \in Requests \ {q} : held'[p] = held[p]
    BY <1>5, <2>2, HoldFacts DEF SetStamp
  <2>4. lastProcessed' \in {None} \cup 0..MaxCommits
    BY <1>5 DEF SetStamp, InRange, Counts, None
  <2>5. \A p \in Requests : InRange(p)'
    BY <1>5, <2>1, <2>2, <2>3, <2>4, SourceFacts, RangeStep DEF SetStamp, InRange
  <2> QED
    BY <1>5, <2>1, <2>2, <2>3, <2>4, <2>5 DEF SetStamp
<1>6. ASSUME NEW q \in Requests, Fetch(q) PROVE TypeOK'
  <2>1. /\ pc' \in [Requests -> Steps] /\ pc'[q] = "store"
        /\ \A p \in Requests \ {q} : pc'[p] = pc[p]
    BY <1>6, GotoFacts DEF Fetch, Steps
  <2>2. upstream[GitHubSources[idx[q]]] \in 0..MaxChanges
    BY <1>6, SourceFacts DEF Fetch, InRange, Counts
  <2>3. /\ held' \in [Requests -> Nat] /\ held'[q] = upstream[GitHubSources[idx[q]]]
        /\ \A p \in Requests \ {q} : held'[p] = held[p]
    BY <1>6, <2>2, HoldFacts DEF Fetch
  <2>4. InRange(q)' /\ idx' = idx
    BY <1>6, <2>1, <2>2, <2>3 DEF Fetch, InRange
  <2>5. \A p \in Requests : InRange(p)'
    BY <2>1, <2>3, <2>4, RangeStep
  <2> QED
    BY <1>6, <2>1, <2>2, <2>3, <2>5 DEF Fetch
<1>7. ASSUME NEW q \in Requests, Store(q) PROVE TypeOK'
  <2>1. stats' \in Counts
    BY <1>7, SourceFacts DEF Store, InRange, Counts
  <2>2. /\ held' \in [Requests -> Nat] /\ held'[q] = 0
        /\ \A p \in Requests \ {q} : held'[p] = held[p]
    BY <1>7, HoldFacts DEF Store
  <2>3. /\ pc' \in [Requests -> Steps] /\ idx' \in [Requests -> Nat \ {0}]
        /\ \A p \in Requests \ {q} : pc'[p] = pc[p] /\ idx'[p] = idx[p]
        /\ \/ pc'[q] = "fetch" /\ idx'[q] <= Len(GitHubSources)
           \/ pc'[q] = "label" /\ idx'[q] = 1
    <3>1. CASE idx[q] < Len(GitHubSources)
      <4>1. idx' = [idx EXCEPT ![q] = @ + 1] /\ Goto(q, "fetch")
        BY <1>7, <3>1 DEF Store
      <4>2. "fetch" \in Steps
        BY DEF Steps
      <4> QED
        BY <3>1, <4>1, <4>2, SourceFacts, GotoFacts
    <3>2. CASE ~(idx[q] < Len(GitHubSources))
      <4>1. idx' = [idx EXCEPT ![q] = 1] /\ Goto(q, "label")
        BY <1>7, <3>2 DEF Store
      <4>2. "label" \in Steps
        BY DEF Steps
      <4> QED
        BY <4>1, <4>2, GotoFacts
    <3> QED
      BY <3>1, <3>2
  <2>4. \A p \in Requests : InRange(p)'
    BY <1>7, <2>2, <2>3, RangeStep DEF InRange
  <2> QED
    BY <1>7, <2>1, <2>2, <2>3, <2>4 DEF Store
<1>8. ASSUME NEW q \in Requests, PyPIFetch(q) PROVE TypeOK'
  <2>1. /\ pc' \in [Requests -> Steps] /\ pc'[q] = "persist"
        /\ \A p \in Requests \ {q} : pc'[p] = pc[p]
    BY <1>8, GotoFacts DEF PyPIFetch, Steps
  <2>2. upstream[PyPI] \in 0..MaxChanges
    BY <1>8, SourcesAssumption DEF PyPIFetch, InRange, Counts
  <2>3. /\ held' \in [Requests -> Nat] /\ held'[q] = upstream[PyPI]
        /\ \A p \in Requests \ {q} : held'[p] = held[p]
    BY <1>8, <2>2, HoldFacts DEF PyPIFetch
  <2>5. \A p \in Requests : InRange(p)'
    BY <1>8, <2>1, <2>2, <2>3, SourceFacts, RangeStep DEF PyPIFetch, InRange
  <2> QED
    BY <1>8, <2>1, <2>2, <2>3, <2>5 DEF PyPIFetch
<1>9. ASSUME NEW q \in Requests, Persist(q) PROVE TypeOK'
  <2>1. /\ pc' \in [Requests -> Steps] /\ pc'[q] = "sum"
        /\ \A p \in Requests \ {q} : pc'[p] = pc[p]
    BY <1>9, GotoFacts DEF Persist, Steps
  <2>2. 0 \in 0..MaxChanges
    BY <1>9 DEF Persist, InRange, Counts
  <2>3. /\ held' \in [Requests -> Nat] /\ held'[q] = 0
        /\ \A p \in Requests \ {q} : held'[p] = held[p]
    BY <1>9, <2>2, HoldFacts DEF Persist
  <2>4. pypiRows' \in 0..MaxChanges
    BY <1>9 DEF Persist, InRange, Counts, None
  <2>5. \A p \in Requests : InRange(p)'
    BY <1>9, <2>1, <2>2, <2>3, <2>4, SourceFacts, RangeStep DEF Persist, InRange
  <2> QED
    BY <1>9, <2>1, <2>2, <2>3, <2>4, <2>5 DEF Persist
<1>10. ASSUME NEW q \in Requests, Sum(q) PROVE TypeOK'
  <2>1. /\ pc' \in [Requests -> Steps] /\ pc'[q] = "pypiStore"
        /\ \A p \in Requests \ {q} : pc'[p] = pc[p]
    BY <1>10, GotoFacts DEF Sum, Steps
  <2>2. pypiRows \in 0..MaxChanges
    BY <1>10 DEF Sum, InRange, Counts
  <2>3. /\ held' \in [Requests -> Nat] /\ held'[q] = pypiRows
        /\ \A p \in Requests \ {q} : held'[p] = held[p]
    BY <1>10, <2>2, HoldFacts DEF Sum
  <2>5. \A p \in Requests : InRange(p)'
    BY <1>10, <2>1, <2>2, <2>3, SourceFacts, RangeStep DEF Sum, InRange
  <2> QED
    BY <1>10, <2>1, <2>2, <2>3, <2>5 DEF Sum
<1>11. ASSUME NEW q \in Requests, PyPIStore(q) PROVE TypeOK'
  <2>1. /\ pc' \in [Requests -> Steps] /\ pc'[q] = "label"
        /\ \A p \in Requests \ {q} : pc'[p] = pc[p]
    BY <1>11, GotoFacts DEF PyPIStore, Steps
  <2>2. 0 \in 0..MaxChanges
    BY <1>11 DEF PyPIStore, InRange, Counts
  <2>3. /\ held' \in [Requests -> Nat] /\ held'[q] = 0
        /\ \A p \in Requests \ {q} : held'[p] = held[p]
    BY <1>11, <2>2, HoldFacts DEF PyPIStore
  <2>4. stats' \in Counts
    BY <1>11, SourcesAssumption DEF PyPIStore, InRange, Counts, None
  <2>5. \A p \in Requests : InRange(p)'
    BY <1>11, <2>1, <2>2, <2>3, <2>4, SourceFacts, RangeStep DEF PyPIStore, InRange
  <2> QED
    BY <1>11, <2>1, <2>2, <2>3, <2>4, <2>5 DEF PyPIStore
<1>12. ASSUME NEW q \in Requests, Label(q) \/ LabelDegraded(q) PROVE TypeOK'
  <2>1. /\ pc' \in [Requests -> Steps] /\ pc'[q] = "read"
        /\ \A p \in Requests \ {q} : pc'[p] = pc[p]
    BY <1>12, GotoFacts DEF Label, LabelDegraded, Steps
  <2>2. draft' \in [Requests -> Dashboards]
    <3>1. PICK v \in 0..MaxCommits : draft' = [draft EXCEPT ![q].label = v]
      BY <1>12 DEF Label, LabelDegraded, None
    <3>2. [draft[q] EXCEPT !.label = v] \in Dashboards
      BY DEF Dashboards
    <3> QED
      BY <3>1, <3>2
  <2>3. \A p \in Requests : InRange(p)'
    BY <1>12, <2>1, SourceFacts, RangeStep DEF Label, LabelDegraded, InRange
  <2> QED
    BY <1>12, <2>1, <2>2, <2>3 DEF Label, LabelDegraded
<1>13. ASSUME NEW q \in Requests, Read(q) PROVE TypeOK'
  <2>1. ReadOrder[idx[q]] \in Sources
    BY <1>13, SourceFacts DEF Read, InRange
  <2>2. draft' \in [Requests -> Dashboards]
    <3>1. stats[ReadOrder[idx[q]]] \in 0..MaxChanges
      BY <2>1 DEF Counts
    <3>2. draft[q] \in Dashboards
      OBVIOUS
    <3> DEFINE d == [draft[q] EXCEPT !.src[ReadOrder[idx[q]]] = stats[ReadOrder[idx[q]]]]
    <3>3. d \in Dashboards
      BY <2>1, <3>1, <3>2 DEF Dashboards, Counts
    <3>4. draft' = [draft EXCEPT ![q] = d]
      BY <1>13 DEF Read
    <3> QED
      BY <3>3, <3>4
  <2>3. /\ pc' \in [Requests -> Steps] /\ idx' \in [Requests -> Nat \ {0}]
        /\ \A p \in Requests \ {q} : pc'[p] = pc[p] /\ idx'[p] = idx[p]
        /\ \/ pc'[q] = "read" /\ idx'[q] <= Len(ReadOrder)
           \/ pc'[q] = "count" /\ idx'[q] = 1
    <3>1. CASE idx[q] < Len(ReadOrder)
      <4>1. idx' = [idx EXCEPT ![q] = @ + 1] /\ pc' = pc /\ pc[q] = "read"
        BY <1>13, <3>1 DEF Read
      <4> QED
        BY <3>1, <4>1, SourceFacts
    <3>2. CASE ~(idx[q] < Len(ReadOrder))
      <4>1. idx' = [idx EXCEPT ![q] = 1] /\ Goto(q, "count")
        BY <1>13, <3>2 DEF Read
      <4>2. "count" \in Steps
        BY DEF Steps
      <4> QED
        BY <4>1, <4>2, GotoFacts
    <3> QED
      BY <3>1, <3>2
  <2>4. \A p \in Requests : InRange(p)'
    BY <1>13, <2>3, RangeStep DEF Read, InRange
  <2> QED
    BY <1>13, <2>2, <2>3, <2>4 DEF Read
<1>14. ASSUME NEW q \in Requests, Count(q) PROVE TypeOK'
  <2>1. /\ pc' \in [Requests -> Steps] /\ pc'[q] = "write"
        /\ \A p \in Requests \ {q} : pc'[p] = pc[p]
    BY <1>14, GotoFacts DEF Count, Steps
  <2>2. draft' \in [Requests -> Dashboards]
    BY <1>14 DEF Count, Dashboards
  <2>3. \A p \in Requests : InRange(p)'
    BY <1>14, <2>1, RangeStep DEF Count, InRange
  <2> QED
    BY <1>14, <2>1, <2>2, <2>3 DEF Count
<1>15. ASSUME NEW q \in Requests, Write(q) \/ Fail(q) PROVE TypeOK'
  <2>1. Reset(q)
    BY <1>15 DEF Write, Fail
  <2>2. \A p \in Requests : InRange(p)'
    <3>1. InRange(q)'
      BY <2>1, ResetFacts DEF InRange
    <3>2. \A p \in Requests \ {q} :
            pc'[p] = pc[p] /\ held'[p] = held[p] /\ idx'[p] = idx[p]
      BY <2>1, ResetFacts
    <3> QED
      BY <3>1, <3>2, RangeStep
  <2>3. dashboard' \in Dashboards /\ fails' \in 0..MaxFails
    BY <1>15 DEF Write, Fail
  <2> QED
    BY <1>15, <2>1, <2>2, <2>3, ResetFacts DEF Write, Fail
<1>16. ASSUME Login \/ LoginFail \/ Expire \/ Refused PROVE TypeOK'
  <2>1. turn' \in Turns /\ authorized' \in BOOLEAN
    BY <1>16, AdvanceFacts DEF Login, LoginFail, Expire, Refused, Turns, Kinds
  <2>2. fails' \in 0..MaxFails
    BY <1>16 DEF Login, LoginFail, Expire, Refused
  <2>3. UNCHANGED <<upstream, committed, pypiRows, stats, lastProcessed, dashboard, requests>>
    BY <1>16 DEF Login, LoginFail, Expire, Refused
  <2>4. \A q \in Requests : InRange(q)'
    BY <2>3 DEF requests, InRange
  <2> QED
    BY <2>1, <2>2, <2>3, <2>4 DEF requests
<1>17. CASE UNCHANGED vars
  BY <1>17 DEF vars, requests, InRange
<1> QED
  BY <1>1, <1>2, <1>3, <1>4, <1>5, <1>6, <1>7, <1>8, <1>9,
     <1>10, <1>11, <1>12, <1>13, <1>14, <1>15, <1>16, <1>17 DEF Next, Step

\* Every variable of the dashboard requests keeps its type.
THEOREM DashboardTypeCorrect == Spec => []TypeOK
<1>1. Init => TypeOK
  <2> SUFFICES ASSUME Init PROVE TypeOK
    OBVIOUS
  <2>1. upstream \in Counts /\ stats \in Counts /\ Empty \in Dashboards
    BY BoundsAssumption DEF Init, Counts, Dashboards, Empty
  <2>2. \A q \in Requests : InRange(q)
    BY BoundsAssumption DEF Init, InRange
  <2> QED
    <3>1. turn \in Turns
      BY DEF Init, Turns
    <3>3. authorized \in BOOLEAN
      BY DEF Init
    <3>4. fails \in 0..MaxFails
      BY BoundsAssumption DEF Init
    <3>2. "idle" \in Steps
      BY DEF Steps
    <3> QED
      BY <2>1, <2>2, <3>1, <3>2, <3>3, <3>4, BoundsAssumption DEF Init, TypeOK, None
<1> QED
  BY <1>1, DashboardTypeStep, PTL DEF Spec

\* No time stamp, wherever it is held, is later than what has been committed,
\* and a draft whose numbers are complete has the count that goes with its
\* time stamp.
StampInv ==
  /\ lastProcessed <= committed
  /\ \A q \in Requests :
       /\ pc[q] = "setStamp" => held[q] <= committed
       /\ draft[q].label <= committed
       /\ pc[q] = "write" => draft[q].label <= draft[q].processed
  /\ CoversLabel

\* The dashboard covers the time stamp it shows, however many requests
\* compute it at a time, whatever they read in between and whatever fails:
\* the time stamp is read before the numbers, and is taken after the commit.
THEOREM CoversLabelHolds == Spec => []CoversLabel
<1>1. Init => StampInv
  BY DEF Init, StampInv, CoversLabel, Empty, None
<1>2. TypeOK /\ TypeOK' /\ StampInv /\ [Next]_vars => StampInv'
  <2> SUFFICES ASSUME TypeOK, TypeOK', StampInv, [Next]_vars PROVE StampInv'
    OBVIOUS
  <2> USE BoundsAssumption DEF StampInv, CoversLabel, TypeOK, Dashboards, None, requests, script
  <2>1. ASSUME committed' = committed,
               UNCHANGED <<lastProcessed, dashboard, draft>>,
               \A q \in Requests : pc'[q] = "write" => pc[q] = "write",
               \A q \in Requests : pc'[q] = "setStamp" =>
                 \/ pc[q] = "setStamp" /\ held'[q] = held[q]
                 \/ held'[q] = committed
        PROVE  StampInv'
    BY <2>1
  <2>2. ASSUME NEW s \in Sources, Grow(s) PROVE StampInv'
    BY <2>1, <2>2 DEF Grow
  <2>3. ASSUME NEW q \in Requests, Start(q) PROVE StampInv'
    BY <2>1, <2>3 DEF Start, Goto, FirstStep, Kinds
  <2>4. ASSUME NEW q \in Requests,
               \/ Stamp(q) \/ Fetch(q) \/ Store(q) \/ PyPIFetch(q) \/ Persist(q)
               \/ Sum(q) \/ PyPIStore(q)
        PROVE  StampInv'
    BY <2>1, <2>4 DEF Stamp, Fetch, Store, PyPIFetch, Persist, Sum, PyPIStore, Goto, Hold
  <2>5. ASSUME NEW q \in Requests, Process(q) PROVE StampInv'
    <3>1. /\ committed' \in Nat /\ committed <= committed'
          /\ UNCHANGED <<lastProcessed, dashboard, draft, held>>
      BY <2>5 DEF Process
    <3>2. \A p \in Requests : pc'[p] \in {"setStamp", "write"} => pc'[p] = pc[p]
      BY <2>5 DEF Process, Goto
    <3> QED
      BY <3>1, <3>2
  <2>6. ASSUME NEW q \in Requests, SetStamp(q) PROVE StampInv'
    BY <2>6 DEF SetStamp, Goto, Hold
  <2>7. ASSUME NEW q \in Requests, Label(q) \/ LabelDegraded(q) PROVE StampInv'
    BY <2>7 DEF Label, LabelDegraded, Goto
  <2>8. ASSUME NEW q \in Requests, Read(q) PROVE StampInv'
    BY <2>8 DEF Read, Goto
  <2>9. ASSUME NEW q \in Requests, Count(q) PROVE StampInv'
    BY <2>9 DEF Count, Goto
  <2>10. ASSUME NEW q \in Requests, Write(q) \/ Fail(q) PROVE StampInv'
    BY <2>10 DEF Write, Fail, Reset, Goto, Hold, Empty
  <2>11. ASSUME Login \/ LoginFail \/ Expire \/ Refused PROVE StampInv'
    BY <2>1, <2>11 DEF Login, LoginFail, Expire, Refused
  <2>12. CASE UNCHANGED vars
    BY <2>12 DEF vars
  <2> QED
    BY <2>2, <2>3, <2>4, <2>5, <2>6, <2>7, <2>8, <2>9, <2>10, <2>11, <2>12 DEF Next, Step
<1>3. StampInv => CoversLabel
  BY DEF StampInv
<1> QED
  BY <1>1, <1>2, <1>3, DashboardTypeCorrect, PTL DEF Spec
=============================================================================
