--------------------------- MODULE NewsCacheProofs ---------------------------
(***************************************************************************)
(* Theorems about NewsCache for every set of files, keys and slots and     *)
(* every bound.  The first two hold for every mapping of files to keys and *)
(* whether or not refreshes overlap and contents come back; the others     *)
(* name what they need.                                                    *)
(***************************************************************************)
EXTENDS NewsCache, TLAPS

\* What makes TypeOK inductive: a task under way has a hash from the listing,
\* so that the one it stores is never that of a missing file.
ListedInv == \A s \in Slots, f \in Files : pc[s][f] # "done" => listed[s][f] # Absent

\* A step preserves the types and what a task has from the listing.
LEMMA TypeStep ==
  ASSUME TypeOK, ListedInv, [Next]_vars
  PROVE  TypeOK' /\ ListedInv'
<1> USE KeyAssumption, BoundsAssumption DEF TypeOK, ListedInv, Contents, Absent, tasks, counters
<1>1. ASSUME NEW f \in Files, Push(f) PROVE TypeOK' /\ ListedInv'
  BY <1>1 DEF Push
<1>2. ASSUME NEW s \in Slots, QueryNewsItemInfo(s) PROVE TypeOK' /\ ListedInv'
  <2>1. /\ serving' \in SUBSET Slots
        /\ listed' \in [Slots -> [Files -> Contents]]
        /\ pc' \in [Slots -> [Files -> {"done", "check", "download", "setHash", "setContent"}]]
    BY <1>2 DEF QueryNewsItemInfo
  <2>2. ASSUME NEW t \in Slots, NEW f \in Files
        PROVE  /\ t = s => /\ pc'[t][f] = IF upstream[f] = Absent THEN "done" ELSE "check"
                           /\ listed'[t][f] = upstream[f]
               /\ t # s => pc'[t][f] = pc[t][f] /\ listed'[t][f] = listed[t][f]
    BY <1>2, <2>2 DEF QueryNewsItemInfo
  <2> QED
    BY <1>2, <2>1, <2>2 DEF QueryNewsItemInfo
<1>3. ASSUME NEW s \in Slots, Finish(s) PROVE TypeOK' /\ ListedInv'
  BY <1>3 DEF Finish
<1>4. ASSUME NEW s \in Slots, Crash(s) PROVE TypeOK' /\ ListedInv'
  <2>1. /\ serving' \in SUBSET Slots /\ crashes' \in 0..MaxCrashes
        /\ listed' \in [Slots -> [Files -> Contents]]
        /\ got' \in [Slots -> [Files -> Contents]]
        /\ pc' \in [Slots -> [Files -> {"done", "check", "download", "setHash", "setContent"}]]
    BY <1>4 DEF Crash
  <2>2. ASSUME NEW t \in Slots, NEW f \in Files
        PROVE  /\ t = s => pc'[t][f] = "done"
               /\ t # s => /\ pc'[t][f] = pc[t][f] /\ listed'[t][f] = listed[t][f]
                           /\ got'[t][f] = got[t][f]
    BY <1>4, <2>2 DEF Crash
  <2> QED
    BY <1>4, <2>1, <2>2 DEF Crash
<1>5. ASSUME NEW s \in Slots, NEW f \in Files, TaskStep(s, f) PROVE TypeOK' /\ ListedInv'
  <2> USE DEF Goto, Forget, Raise
  <2>1. CASE CheckUpToDate(s, f)
    BY <2>1 DEF CheckUpToDate
  <2>2. CASE Download(s, f)
    BY <2>2 DEF Download
  <2>3. CASE DownloadGone(s, f)
    BY <2>3 DEF DownloadGone
  <2>4. CASE SetHash(s, f)
    BY <2>4 DEF SetHash
  <2>5. CASE SetContent(s, f)
    BY <2>5 DEF SetContent
  <2> QED
    BY <1>5, <2>1, <2>2, <2>3, <2>4, <2>5 DEF TaskStep
<1>6. ASSUME NEW s \in Slots, NEW f \in Files, DownloadFail(s, f) PROVE TypeOK' /\ ListedInv'
  BY <1>6 DEF DownloadFail, Raise, Goto, Forget
<1>7. ASSUME NEW s \in Slots, NEW f \in Files, CacheFail(s, f) PROVE TypeOK' /\ ListedInv'
  BY <1>7 DEF CacheFail, Raise, Goto, Forget
<1>8. CASE UNCHANGED vars
  BY <1>8 DEF vars
<1> QED
  BY <1>1, <1>2, <1>3, <1>4, <1>5, <1>6, <1>7, <1>8 DEF Next

\* Every variable of the news cache keeps its type; in particular no task
\* stores the hash or the content of a file that is not there.
THEOREM NewsTypeCorrect == Spec => [](TypeOK /\ ListedInv)
<1>1. Init => TypeOK /\ ListedInv
  BY BoundsAssumption DEF Init, TypeOK, ListedInv, Contents, Absent
<1>2. TypeOK /\ ListedInv /\ [Next]_vars => (TypeOK /\ ListedInv)'
  BY TypeStep
<1> QED
  BY <1>1, <1>2, PTL DEF Spec

\* A hash without a content, in the code's order of the two writes, is only
\* there while a task is between them: for any number of overlapping
\* refreshes and orphaned tasks, as long as no cache write fails and no
\* process stops.
THEOREM HashHasContentHolds == Spec => []HashHasContent
<1>1. Init => HashHasContent
  BY DEF Init, HashHasContent, Absent
<1>2. TypeOK /\ ListedInv /\ HashHasContent /\ [Next]_vars => HashHasContent'
  <2> SUFFICES ASSUME TypeOK, ListedInv, HashHasContent, Next PROVE HashHasContent'
    BY DEF vars, tasks, counters, HashHasContent, Undisturbed, Writing
  <2> SUFFICES ASSUME Undisturbed', NEW k \in Keys, hashCache'[k] # Absent
               PROVE  contentCache'[k] # Absent \/ Writing(k)'
    BY DEF HashHasContent
  <2> USE DEF Undisturbed, Absent
  <2>1. ASSUME Undisturbed, hashCache'[k] = hashCache[k], contentCache'[k] = contentCache[k],
               \A s \in Slots, f \in Files :
                 KeyOf[f] = k /\ pc[s][f] = "setContent" => pc'[s][f] = "setContent"
        PROVE  contentCache'[k] # Absent \/ Writing(k)'
    BY <2>1 DEF HashHasContent, Writing
  <2>2. ASSUME NEW f \in Files, Push(f) PROVE contentCache'[k] # Absent \/ Writing(k)'
    BY <2>1, <2>2 DEF Push, tasks
  <2>3. ASSUME NEW s \in Slots, QueryNewsItemInfo(s) \/ Finish(s)
        PROVE  contentCache'[k] # Absent \/ Writing(k)'
    BY <2>1, <2>3 DEF QueryNewsItemInfo, Finish, counters, TypeOK
  <2>4. ASSUME NEW s \in Slots, Crash(s) PROVE FALSE
    BY <2>4 DEF Crash, TypeOK
  <2>5. ASSUME NEW s \in Slots, NEW f \in Files, CacheFail(s, f) PROVE FALSE
    BY <2>5 DEF CacheFail, TypeOK
  <2>6. ASSUME NEW s \in Slots, NEW f \in Files,
               \/ CheckUpToDate(s, f) \/ Download(s, f)
               \/ DownloadGone(s, f) \/ DownloadFail(s, f)
        PROVE  contentCache'[k] # Absent \/ Writing(k)'
    BY <2>1, <2>6 DEF CheckUpToDate, Download, DownloadGone, DownloadFail, Raise, Goto,
                      counters, TypeOK
  <2>7. ASSUME NEW s \in Slots, NEW f \in Files, SetHash(s, f)
        PROVE  contentCache'[k] # Absent \/ Writing(k)'
    <3>1. CASE KeyOf[f] = k
      BY <2>7, <3>1 DEF SetHash, Goto, Writing, TypeOK
    <3>2. CASE KeyOf[f] # k
      BY <2>1, <2>7, <3>2, KeyAssumption DEF SetHash, Goto, counters, TypeOK
    <3> QED
      BY <3>1, <3>2
  <2>8. ASSUME NEW s \in Slots, NEW f \in Files, SetContent(s, f)
        PROVE  contentCache'[k] # Absent \/ Writing(k)'
    <3>1. CASE KeyOf[f] = k
      BY <2>8, <3>1 DEF SetContent, TypeOK
    <3>2. CASE KeyOf[f] # k
      BY <2>1, <2>8, <3>2, KeyAssumption DEF SetContent, Goto, counters, TypeOK
    <3> QED
      BY <3>1, <3>2
  <2> QED
    BY <2>2, <2>3, <2>4, <2>5, <2>6, <2>7, <2>8 DEF Next, TaskStep
<1> QED
  BY <1>1, <1>2, NewsTypeCorrect, PTL DEF Spec

-----------------------------------------------------------------------------
(* Where no two tasks of a file overlap, what is cached, listed and          *)
(* downloaded is of one history of the file, and in its order.               *)

\* Every file has keys of its own, and a content never comes back.
OwnKeys == \A f, g \in Files : KeyOf[f] = KeyOf[g] => f = g

\* A file has one task at a time, be it that of a request or an orphan.
OneTask ==
  \A f \in Files : \A s, t \in Slots : pc[s][f] # "done" /\ pc[t][f] # "done" => s = t

Known(f, c) == c \in Nat /\ c <= pushes /\ (upstream[f] # Absent => c <= upstream[f])

Storing(s, f) == pc[s][f] \in {"setHash", "setContent"}

FileInv(f) ==
  LET k == KeyOf[f] IN
  /\ Known(f, hashCache[k]) /\ Known(f, contentCache[k])
  /\ \A s \in Slots : Known(f, listed[s][f]) /\ Known(f, got[s][f])
  /\ \A s \in Slots : Storing(s, f) =>
       contentCache[k] <= got[s][f] /\ listed[s][f] <= got[s][f]
  /\ Undisturbed /\ upstream[f] # Absent /\ hashCache[k] = upstream[f] =>
       \/ contentCache[k] = upstream[f]
       \/ \E s \in Slots : pc[s][f] = "setContent" /\ got[s][f] = upstream[f]

HistoryInv ==
  /\ pushes \in Nat
  /\ \A f \in Files : upstream[f] <= pushes /\ FileInv(f)

\* A step that stores nothing of the file: its tasks go on to a listing or a
\* download, or end, and one that is about to write the content stays there
\* unless the step is a failure.
LEMMA FileInvKept ==
  ASSUME NEW f \in Files, NEW k, k = KeyOf[f], TypeOK, FileInv(f), upstream[f] <= pushes,
         pushes \in Nat, pushes' \in Nat, pushes <= pushes', upstream'[f] = upstream[f],
         hashCache'[k] = hashCache[k], contentCache'[k] = contentCache[k],
         \A s \in Slots : /\ listed'[s][f] \in {listed[s][f], Absent, upstream[f]}
                          /\ got'[s][f] \in {got[s][f], Absent}
                          /\ Storing(s, f)' =>
                               /\ Storing(s, f)
                               /\ listed'[s][f] = listed[s][f] /\ got'[s][f] = got[s][f],
         Undisturbed' =>
           /\ Undisturbed
           /\ \A s \in Slots : pc[s][f] = "setContent" =>
                pc'[s][f] = "setContent" /\ got'[s][f] = got[s][f]
  PROVE  upstream'[f] <= pushes' /\ FileInv(f)'
<1> USE DEF Absent
<1>0. upstream[f] \in Nat
  BY DEF TypeOK, Contents
<1>1. \A c : Known(f, c) => Known(f, c)'
  BY <1>0 DEF Known
<1>2. Known(f, Absent)' /\ Known(f, upstream[f])'
  BY <1>0 DEF Known
<1>3. Known(f, hashCache[k])' /\ Known(f, contentCache[k])'
  BY <1>1 DEF FileInv
<1>4. \A s \in Slots : Known(f, listed[s][f])' /\ Known(f, got[s][f])'
  BY <1>1, <1>2 DEF FileInv, Known
<1>5. \A s \in Slots : Storing(s, f)' =>
        contentCache'[k] <= got'[s][f] /\ listed'[s][f] <= got'[s][f]
  BY DEF FileInv
<1>6. Undisturbed' /\ upstream'[f] # Absent /\ hashCache'[k] = upstream'[f] =>
        \/ contentCache'[k] = upstream'[f]
        \/ \E s \in Slots : pc'[s][f] = "setContent" /\ got'[s][f] = upstream'[f]
  BY DEF FileInv
<1> QED
  BY <1>0, <1>3, <1>4, <1>5, <1>6 DEF FileInv

\* What a step of task s, f leaves of the other tasks and files.
LEMMA OtherFiles ==
  ASSUME OwnKeys, TypeOK, HistoryInv, NEW s \in Slots, NEW f \in Files,
         TaskStep(s, f) \/ DownloadFail(s, f) \/ CacheFail(s, f),
         NEW g \in Files, g # f
  PROVE  upstream'[g] <= pushes' /\ FileInv(g)'
<1> DEFINE k == KeyOf[g]
<1>1. k # KeyOf[f] /\ k \in Keys /\ KeyOf[f] \in Keys
  BY KeyAssumption DEF OwnKeys
<1> HIDE DEF k
<1>2. /\ hashCache'[k] = hashCache[k] /\ contentCache'[k] = contentCache[k]
      /\ UNCHANGED <<upstream, pushes>> /\ (Undisturbed' => Undisturbed)
  BY <1>1 DEF TypeOK, TaskStep, CheckUpToDate, Download, DownloadGone, SetHash, SetContent,
              DownloadFail, CacheFail, Raise, counters, Undisturbed
<1>3. \A t \in Slots : /\ pc'[t][g] = pc[t][g] /\ listed'[t][g] = listed[t][g]
                       /\ got'[t][g] = got[t][g]
  BY DEF TypeOK, TaskStep, CheckUpToDate, Download, DownloadGone, SetHash, SetContent,
         DownloadFail, CacheFail, Raise, Goto, Forget
<1>4. pushes \in Nat /\ FileInv(g) /\ upstream[g] <= pushes
  BY DEF HistoryInv
<1> QED
  BY <1>2, <1>3, <1>4, FileInvKept DEF k, Storing

LEMMA HistoryOfTasks ==
  ASSUME OwnKeys, OneTask, TypeOK, HistoryInv, NEW s \in Slots, NEW f \in Files,
         TaskStep(s, f) \/ DownloadFail(s, f) \/ CacheFail(s, f)
  PROVE  HistoryInv'
<1> DEFINE k == KeyOf[f]
<1>1. k \in Keys
  BY KeyAssumption
<1>2. pushes' = pushes /\ upstream' = upstream /\ pushes \in Nat
      /\ (Undisturbed' => Undisturbed)
  BY DEF HistoryInv, TypeOK, TaskStep, CheckUpToDate, Download, DownloadGone, SetHash, SetContent,
         DownloadFail, CacheFail, Raise, counters, Undisturbed
<1>4. FileInv(f) /\ upstream[f] <= pushes /\ upstream[f] \in Nat
  BY DEF HistoryInv, TypeOK, Contents
<1>5. pc[s][f] # "done" => \A t \in Slots \ {s} : pc[t][f] = "done"
  BY DEF OneTask
<1>6. \A t \in Slots \ {s} : /\ pc'[t][f] = pc[t][f] /\ listed'[t][f] = listed[t][f]
                            /\ got'[t][f] = got[t][f]
  BY DEF TypeOK, TaskStep, CheckUpToDate, Download, DownloadGone, SetHash, SetContent,
         DownloadFail, CacheFail, Raise, Goto, Forget
<1>7. FileInv(f)'
  <2> HIDE DEF k
  <2> USE DEF Absent
  <2>1. CASE CheckUpToDate(s, f) \/ DownloadGone(s, f) \/ DownloadFail(s, f) \/ CacheFail(s, f)
    <3>1. hashCache'[k] = hashCache[k] /\ contentCache'[k] = contentCache[k]
      BY <2>1 DEF CheckUpToDate, DownloadGone, DownloadFail, CacheFail, Raise
    <3>2. /\ listed'[s][f] \in {listed[s][f], Absent, upstream[f]}
          /\ got'[s][f] \in {got[s][f], Absent}
          /\ ~Storing(s, f)'
      BY <2>1 DEF TypeOK, CheckUpToDate, DownloadGone, DownloadFail, CacheFail, Raise, Goto,
                  Forget, Storing
    <3>3. Undisturbed' => pc[s][f] # "setContent"
      BY <2>1 DEF TypeOK, CheckUpToDate, DownloadGone, DownloadFail, CacheFail, Undisturbed
    <3> QED
      BY <1>2, <1>4, <1>6, <3>1, <3>2, <3>3, FileInvKept DEF k, Storing
  <2>2. CASE Download(s, f)
    <3>1. /\ got'[s][f] = upstream[f] /\ upstream[f] # 0 /\ listed'[s][f] = listed[s][f]
          /\ pc[s][f] = "download" /\ UNCHANGED <<hashCache, contentCache, cacheFails, crashes>>
      BY <2>2 DEF TypeOK, Download, Goto, counters
    <3>2. Known(f, upstream[f])
      BY <1>4 DEF Known
    <3>3. \A t \in Slots : Known(f, listed'[t][f]) /\ Known(f, got'[t][f])
      BY <1>4, <1>6, <3>1, <3>2 DEF FileInv
    <3>4. contentCache[k] <= upstream[f] /\ listed[s][f] <= upstream[f]
      BY <1>4, <3>1 DEF FileInv, Known, k
    <3>5. \A t \in Slots : Storing(t, f)' =>
            contentCache'[k] <= got'[t][f] /\ listed'[t][f] <= got'[t][f]
      BY <1>5, <1>6, <3>1, <3>4 DEF Storing
    <3> QED
      BY <1>2, <1>4, <1>6, <3>1, <3>3, <3>5 DEF FileInv, Known, Undisturbed, k
  <2>3. CASE SetHash(s, f)
    <3>1. /\ hashCache'[k] = listed[s][f] /\ pc[s][f] = "setHash" /\ pc'[s][f] = "setContent"
          /\ listed'[s][f] = listed[s][f] /\ got'[s][f] = got[s][f]
          /\ UNCHANGED <<contentCache, cacheFails, crashes>>
      BY <1>1, <2>3 DEF TypeOK, SetHash, Goto, counters, k
    <3>2. listed[s][f] <= got[s][f] /\ Known(f, listed[s][f]) /\ Known(f, got[s][f])
      BY <1>4, <3>1 DEF FileInv, Storing
    <3>3. upstream[f] # 0 /\ listed[s][f] = upstream[f] => got[s][f] = upstream[f]
      BY <1>4, <3>2 DEF Known
    <3>4. \A t \in Slots : Known(f, listed'[t][f]) /\ Known(f, got'[t][f])
      BY <1>4, <1>6, <3>1 DEF FileInv
    <3>5. \A t \in Slots : Storing(t, f)' =>
            contentCache'[k] <= got'[t][f] /\ listed'[t][f] <= got'[t][f]
      BY <1>4, <1>6, <3>1 DEF FileInv, Storing, k
    <3> QED
      BY <1>2, <1>4, <3>1, <3>2, <3>3, <3>4, <3>5 DEF FileInv, Known, k
  <2>4. CASE SetContent(s, f)
    <3>1. /\ contentCache'[k] = got[s][f] /\ pc[s][f] = "setContent" /\ pc'[s][f] = "done"
          /\ listed'[s][f] = 0 /\ got'[s][f] = 0
          /\ UNCHANGED <<hashCache, cacheFails, crashes>>
      BY <1>1, <2>4 DEF TypeOK, SetContent, Goto, Forget, counters, k
    <3>2. contentCache[k] <= got[s][f] /\ Known(f, got[s][f]) /\ Known(f, contentCache[k])
      BY <1>4, <3>1 DEF FileInv, Storing, k
    <3>3. Known(f, 0)
      BY <1>2, <1>4 DEF Known
    <3>4. \A t \in Slots : Known(f, listed'[t][f]) /\ Known(f, got'[t][f])
      BY <1>4, <1>6, <3>1, <3>3 DEF FileInv
    <3>5. \A t \in Slots : ~Storing(t, f)'
      BY <1>5, <1>6, <3>1 DEF Storing
    <3>6. Undisturbed' /\ upstream[f] # 0 /\ hashCache[k] = upstream[f] => got[s][f] = upstream[f]
      <4> SUFFICES ASSUME Undisturbed, upstream[f] # 0, hashCache[k] = upstream[f]
                   PROVE  got[s][f] = upstream[f]
        BY <1>2
      <4>1. CASE contentCache[k] = upstream[f]
        BY <1>4, <3>2, <4>1 DEF Known
      <4>2. CASE \E t \in Slots : pc[t][f] = "setContent" /\ got[t][f] = upstream[f]
        BY <1>5, <3>1, <4>2
      <4> QED
        BY <1>4, <4>1, <4>2 DEF FileInv, k
    <3> QED
      BY <1>2, <1>4, <3>1, <3>2, <3>4, <3>5, <3>6 DEF FileInv, Known, k
  <2> QED
    BY <2>1, <2>2, <2>3, <2>4 DEF TaskStep
<1>8. ASSUME NEW g \in Files PROVE upstream'[g] <= pushes' /\ FileInv(g)'
  BY <1>2, <1>4, <1>7, OtherFiles
<1> QED
  BY <1>2, <1>8 DEF HistoryInv

LEMMA HistoryOfPush ==
  ASSUME ~Reverts, TypeOK, HistoryInv, NEW f \in Files, Push(f)
  PROVE  HistoryInv'
<1> USE DEF Absent, tasks
<1>1. /\ pushes \in Nat /\ pushes' = pushes + 1
      /\ \A g \in Files : upstream[g] <= pushes /\ FileInv(g)
      /\ UNCHANGED <<hashCache, contentCache, pc, listed, got, cacheFails, crashes>>
  BY DEF Push, HistoryInv
<1>2. /\ upstream'[f] \in {0, pushes + 1}
      /\ \A g \in Files \ {f} : upstream'[g] = upstream[g]
  BY DEF Push, TypeOK
<1>3. ASSUME NEW g \in Files, g # f PROVE upstream'[g] <= pushes' /\ FileInv(g)'
  BY <1>1, <1>2, <1>3, FileInvKept DEF Storing, Undisturbed
<1>4. upstream'[f] <= pushes' /\ FileInv(f)'
  <2>1. \A c : Known(f, c) => Known(f, c)' /\ (upstream'[f] # 0 => c # upstream'[f])
    BY <1>1, <1>2 DEF Known
  <2> QED
    BY <1>1, <1>2, <2>1 DEF FileInv, Storing
<1> QED
  BY <1>1, <1>3, <1>4 DEF HistoryInv

LEMMA HistoryOfRequests ==
  ASSUME TypeOK, HistoryInv, NEW s \in Slots,
         QueryNewsItemInfo(s) \/ Finish(s) \/ Crash(s)
  PROVE  HistoryInv'
<1> USE DEF Absent
<1>1. pushes \in Nat /\ UNCHANGED <<pushes, upstream, hashCache, contentCache>>
      /\ \A g \in Files : upstream[g] <= pushes /\ FileInv(g)
  BY DEF QueryNewsItemInfo, Finish, Crash, HistoryInv, counters
<1>3. ASSUME NEW f \in Files PROVE upstream'[f] <= pushes' /\ FileInv(f)'
  <2>1. \A t \in Slots : /\ listed'[t][f] \in {listed[t][f], 0, upstream[f]}
                         /\ got'[t][f] \in {got[t][f], 0}
    <3>1. CASE QueryNewsItemInfo(s)
      BY <3>1 DEF TypeOK, QueryNewsItemInfo
    <3>2. CASE Finish(s)
      BY <3>2 DEF TypeOK, Finish
    <3>3. CASE Crash(s)
      BY <3>3 DEF TypeOK, Crash
    <3> QED
      BY <3>1, <3>2, <3>3
  <2>2. \A t \in Slots : Storing(t, f)' =>
          /\ Storing(t, f) /\ listed'[t][f] = listed[t][f] /\ got'[t][f] = got[t][f]
    <3>1. CASE QueryNewsItemInfo(s)
      BY <3>1 DEF TypeOK, QueryNewsItemInfo, Storing
    <3>2. CASE Finish(s)
      BY <3>2 DEF TypeOK, Finish, Storing
    <3>3. CASE Crash(s)
      BY <3>3 DEF TypeOK, Crash, Storing
    <3> QED
      BY <3>1, <3>2, <3>3
  <2>3. Undisturbed' =>
          /\ Undisturbed
          /\ \A t \in Slots : pc[t][f] = "setContent" =>
               pc'[t][f] = "setContent" /\ got'[t][f] = got[t][f]
    BY DEF TypeOK, QueryNewsItemInfo, Finish, Crash, Undisturbed, counters
  <2> QED
    BY <1>1, <2>1, <2>2, <2>3, FileInvKept
<1> QED
  BY <1>1, <1>3 DEF HistoryInv

LEMMA HistoryStep ==
  ASSUME ~Reverts, OwnKeys, OneTask, TypeOK, HistoryInv, [Next]_vars
  PROVE  HistoryInv'
<1>1. CASE UNCHANGED vars
  BY <1>1 DEF vars, tasks, counters, HistoryInv, FileInv, Known, Storing, Undisturbed
<1>2. CASE Next
  BY <1>2, HistoryOfTasks, HistoryOfPush, HistoryOfRequests DEF Next
<1> QED
  BY <1>1, <1>2

LEMMA HistoryInit == ASSUME Init PROVE HistoryInv
BY KeyAssumption DEF Init, HistoryInv, FileInv, Known, Storing, Absent

\* An item that the cache calls up to date has the content of the repository
\* (news_items.py:139-177), for any files and keys, when no two tasks of a
\* file overlap, no two files share a key and no content comes back, whatever
\* downloads fail and whatever requests there are.
THEOREM UpToDateMeansFreshHolds ==
  ASSUME ~Reverts, OwnKeys
  PROVE  Spec /\ []OneTask => []UpToDateMeansFresh
<1>1. Init => TypeOK /\ ListedInv /\ HistoryInv
  BY HistoryInit, BoundsAssumption DEF Init, TypeOK, ListedInv, Contents, Absent
<1>2. TypeOK /\ ListedInv /\ HistoryInv /\ OneTask /\ [Next]_vars
        => (TypeOK /\ ListedInv /\ HistoryInv)'
  BY TypeStep, HistoryStep
<1>3. HistoryInv => UpToDateMeansFresh
  BY DEF HistoryInv, FileInv, UpToDateMeansFresh, Writing
<1> QED
  BY <1>1, <1>2, <1>3, PTL DEF Spec

\* Under the same conditions the content served for a key never goes back to
\* an older one, whatever fails or stops.
THEOREM NeverBackwardHolds ==
  ASSUME ~Reverts, OwnKeys
  PROVE  Spec /\ []OneTask => NeverBackward
<1>1. Init => TypeOK /\ ListedInv /\ HistoryInv
  BY HistoryInit, BoundsAssumption DEF Init, TypeOK, ListedInv, Contents, Absent
<1>2. TypeOK /\ ListedInv /\ HistoryInv /\ OneTask /\ [Next]_vars
        => (TypeOK /\ ListedInv /\ HistoryInv)'
  BY TypeStep, HistoryStep
<1>3. TypeOK /\ HistoryInv /\ [Next]_vars => [NewerContent]_vars
  <2> SUFFICES ASSUME TypeOK, HistoryInv, Next, NEW k \in Keys
               PROVE  contentCache'[k] >= contentCache[k]
    BY DEF NewerContent
  <2>1. contentCache[k] \in Nat
    BY DEF TypeOK, Contents
  <2>2. CASE \E s \in Slots, f \in Files : SetContent(s, f)
    <3>1. PICK s \in Slots, f \in Files : SetContent(s, f)
      BY <2>2
    <3>2. contentCache[KeyOf[f]] <= got[s][f]
      BY <3>1 DEF SetContent, HistoryInv, FileInv, Storing
    <3>3. got[s][f] \in Nat
      BY DEF TypeOK, Contents
    <3> QED
      BY <2>1, <3>1, <3>2, <3>3, KeyAssumption DEF SetContent, TypeOK
  <2>3. CASE contentCache' = contentCache
    BY <2>1, <2>3
  <2> QED
    BY <2>2, <2>3 DEF Next, TaskStep, Push, QueryNewsItemInfo, Finish, Crash, CheckUpToDate,
       Download, DownloadGone, SetHash, DownloadFail, CacheFail, Raise
<1> QED
  BY <1>1, <1>2, <1>3, PTL DEF Spec, NeverBackward

\* No two tasks of a file overlap when each refresh comes after the tasks of
\* the earlier ones, orphans included, have ended.
LEMMA SpacedOneTask ==
  ASSUME Spaced
  PROVE  Spec => []OneTask
<1>1. Init => OneTask
  BY DEF Init, OneTask
<1>2. TypeOK /\ OneTask /\ [Next]_vars => OneTask'
  <2> SUFFICES ASSUME TypeOK, OneTask, [Next]_vars PROVE OneTask'
    OBVIOUS
  <2> USE DEF TypeOK, OneTask
  <2>1. ASSUME \A s \in Slots, f \in Files : pc'[s][f] # "done" => pc[s][f] # "done"
        PROVE  OneTask'
    BY <2>1
  <2>2. ASSUME NEW s \in Slots, QueryNewsItemInfo(s) PROVE OneTask'
    <3>1. \A t \in Slots \ {s}, f \in Files : pc'[t][f] = "done"
      BY <2>2 DEF QueryNewsItemInfo
    <3> QED
      BY <3>1
  <2>3. ASSUME NEW s \in Slots, Finish(s) \/ Crash(s) PROVE OneTask'
    <3>1. CASE Finish(s)
      BY <2>1, <3>1 DEF Finish
    <3>2. CASE Crash(s)
      <4>1. \A t \in Slots, f \in Files : pc'[t][f] = IF t = s THEN "done" ELSE pc[t][f]
        BY <3>2 DEF Crash
      <4> QED
        BY <2>1, <4>1
    <3> QED
      BY <2>3, <3>1, <3>2
  <2>4. ASSUME NEW s \in Slots, NEW f \in Files,
               TaskStep(s, f) \/ DownloadFail(s, f) \/ CacheFail(s, f)
        PROVE  OneTask'
    <3>1. pc[s][f] # "done" /\ \E l : Goto(s, f, l)
      BY <2>4 DEF TaskStep, CheckUpToDate, Download, DownloadGone, SetHash, SetContent,
                  DownloadFail, CacheFail, Raise
    <3>2. \A t \in Slots, g \in Files : t # s \/ g # f => pc'[t][g] = pc[t][g]
      BY <3>1 DEF Goto
    <3>3. \A t \in Slots, g \in Files : pc'[t][g] # "done" => pc[t][g] # "done"
      BY <3>1, <3>2
    <3> QED
      BY <2>1, <3>3
  <2>5. CASE UNCHANGED vars \/ \E f \in Files : Push(f)
    BY <2>1, <2>5 DEF vars, tasks, Push
  <2> QED
    BY <2>2, <2>3, <2>4, <2>5 DEF Next
<1> QED
  BY <1>1, <1>2, NewsTypeCorrect, PTL DEF Spec

\* So refreshes that are spaced keep the cache fresh and never undo each
\* other, for any number of files: the tasks that a failed sibling leaves
\* behind do no harm when they end before the next refresh (lines 86 and
\* 155-177; run news_orphan shows what happens when they do not).
THEOREM SpacedFresh ==
  ASSUME Spaced, ~Reverts, OwnKeys
  PROVE  Spec => []UpToDateMeansFresh /\ NeverBackward
<1>1. Spec => []OneTask
  BY SpacedOneTask
<1>2. Spec /\ []OneTask => []UpToDateMeansFresh
  BY UpToDateMeansFreshHolds
<1>3. Spec /\ []OneTask => NeverBackward
  BY NeverBackwardHolds
<1> QED
  BY <1>1, <1>2, <1>3, PTL

-----------------------------------------------------------------------------
(* A single file has no siblings: a task that fails leaves no orphan.        *)

\* No task goes on after its request has been answered.
NoOrphans == \A s \in Slots, f \in Files : pc[s][f] # "done" => s \in serving

OneServed == \A s, t \in serving : s = t

LEMMA SingleFileOneTask ==
  ASSUME Sequential, NEW f \in Files, Files = {f}
  PROVE  Spec => []OneTask
<1>1. Init => TypeOK /\ ListedInv /\ NoOrphans /\ OneServed
  BY BoundsAssumption
     DEF Init, TypeOK, ListedInv, NoOrphans, OneServed, Contents, Absent
<1>2. TypeOK /\ ListedInv /\ NoOrphans /\ OneServed /\ [Next]_vars
        => (TypeOK /\ ListedInv /\ NoOrphans /\ OneServed)'
  <2> SUFFICES ASSUME TypeOK, NoOrphans, OneServed, [Next]_vars PROVE NoOrphans' /\ OneServed'
    BY TypeStep
  <2> USE DEF OneServed
  <2>1. ASSUME NEW s \in Slots, QueryNewsItemInfo(s) \/ Finish(s) \/ Crash(s)
        PROVE  NoOrphans' /\ OneServed'
    <3>1. OneServed'
      BY <2>1 DEF QueryNewsItemInfo, Finish, Crash
    <3>2. CASE QueryNewsItemInfo(s)
      BY <3>1, <3>2 DEF TypeOK, NoOrphans, QueryNewsItemInfo
    <3>3. CASE Finish(s)
      BY <3>1, <3>3 DEF TypeOK, NoOrphans, Finish
    <3>4. CASE Crash(s)
      BY <3>1, <3>4 DEF TypeOK, NoOrphans, Crash
    <3> QED
      BY <2>1, <3>2, <3>3, <3>4
  <2>2. ASSUME NEW s \in Slots, CheckUpToDate(s, f) \/ Download(s, f) \/ SetHash(s, f)
                                \/ SetContent(s, f)
        PROVE  NoOrphans' /\ OneServed'
    BY <2>2 DEF TypeOK, NoOrphans, CheckUpToDate, Download, SetHash, SetContent, Goto
  <2>3. ASSUME NEW s \in Slots, DownloadGone(s, f) \/ DownloadFail(s, f) \/ CacheFail(s, f)
        PROVE  NoOrphans' /\ OneServed'
    <3>1. Raise(s, f)
      BY <2>3 DEF DownloadGone, DownloadFail, CacheFail
    <3>2. serving' = serving \ {s}
          /\ \A t \in Slots : pc'[t][f] = IF t = s THEN "done" ELSE pc[t][f]
      BY <3>1 DEF TypeOK, Raise, Goto
    <3> QED
      BY <3>2 DEF NoOrphans
  <2>4. CASE UNCHANGED vars \/ \E g \in Files : Push(g)
    BY <2>4 DEF NoOrphans, Push, vars, tasks
  <2> QED
    BY <2>1, <2>2, <2>3, <2>4 DEF Next, TaskStep
<1>3. NoOrphans /\ OneServed => OneTask
  BY DEF NoOrphans, OneServed, OneTask
<1> QED
  BY <1>1, <1>2, <1>3, PTL DEF Spec

\* So the two hold for one file (maybe_update_news_item, lines 155-177) with
\* no condition on when the next refresh comes but that the request before it
\* has been answered.
THEOREM SingleFileFresh ==
  ASSUME Sequential, ~Reverts, NEW f \in Files, Files = {f}
  PROVE  Spec => []UpToDateMeansFresh /\ NeverBackward
<1>1. OwnKeys
  BY DEF OwnKeys
<1>2. Spec => []OneTask
  BY SingleFileOneTask
<1>3. Spec /\ []OneTask => []UpToDateMeansFresh
  BY <1>1, UpToDateMeansFreshHolds
<1>4. Spec /\ []OneTask => NeverBackward
  BY <1>1, NeverBackwardHolds
<1> QED
  BY <1>2, <1>3, <1>4, PTL

=============================================================================
