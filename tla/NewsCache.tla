------------------------------ MODULE NewsCache ------------------------------
(***************************************************************************)
(* The news items that ruyi-backend serves from its cache                  *)
(* (components/news_items.py, app/news.py).  A refresh lists the news      *)
(* directory of a GitHub repository and starts one asyncio task per file   *)
(* (gather); a task compares the file's hash with the cached one and, when *)
(* they differ, downloads the file and writes hash and content under two   *)
(* cache keys.  Each await is a step; a task that raises ends the request  *)
(* but not its sibling tasks, which go on as orphans.                      *)
(*                                                                         *)
(* The repository and the cache server are external.  The listing gives    *)
(* the hash of each file at that moment; the download URL names the branch *)
(* and gives the content at the moment of the download.                    *)
(***************************************************************************)
EXTENDS Integers, FiniteSets

CONSTANTS
  Files,         \* news files of the repository
  Keys,          \* (news id, language) pairs the file names are mapped to
  KeyOf,         \* the key of each file; the date in the name is dropped
  Slots,         \* refresh requests the servers may have tasks of at a time
  Sequential,    \* no two refresh requests are being served at a time
  Spaced,        \* no refresh request comes while a task of an earlier one,
                 \* an orphan too, is still under way
  Reverts,       \* the repository may return to an earlier content
  MaxPushes,     \* bound: changes of the repository
  MaxDownloadFails, \* bound: failed checks and downloads
  MaxCacheFails, \* bound: failed writes to the cache
  MaxCrashes     \* bound: server processes that stop

ASSUME KeyAssumption == KeyOf \in [Files -> Keys]
ASSUME SwitchAssumption ==
  Sequential \in BOOLEAN /\ Spaced \in BOOLEAN /\ Reverts \in BOOLEAN
ASSUME BoundsAssumption ==
  /\ MaxPushes \in Nat /\ MaxDownloadFails \in Nat
  /\ MaxCacheFails \in Nat /\ MaxCrashes \in Nat

\* Contents are numbered in the order in which they are first pushed; 0 is
\* no file, or no entry in the cache.  A content stands for its hash too.
Contents == 0..MaxPushes
Absent == 0

VARIABLES
  upstream,      \* the content of each file in the repository
  hashCache,     \* cached hash of each key
  contentCache,  \* cached content of each key
  serving,       \* slots whose request waits for its tasks
  pc,            \* the next step of the task of each slot and file
  listed,        \* the hash a task has from the listing
  got,           \* the content a task has downloaded
  pushes, downloadFails, cacheFails, crashes   \* counters for the bounds

tasks == <<serving, pc, listed, got>>
counters == <<pushes, downloadFails, cacheFails, crashes>>
vars == <<upstream, hashCache, contentCache, tasks, counters>>

TypeOK ==
  /\ upstream \in [Files -> Contents]
  /\ hashCache \in [Keys -> Contents]
  /\ contentCache \in [Keys -> Contents]
  /\ serving \in SUBSET Slots
  /\ pc \in [Slots -> [Files -> {"done", "check", "download", "setHash", "setContent"}]]
  /\ listed \in [Slots -> [Files -> Contents]]
  /\ got \in [Slots -> [Files -> Contents]]
  /\ \A s \in Slots, f \in Files :
       pc[s][f] \in {"setHash", "setContent"} => got[s][f] # Absent /\ listed[s][f] # Absent
  /\ pushes \in 0..MaxPushes /\ downloadFails \in 0..MaxDownloadFails
  /\ cacheFails \in 0..MaxCacheFails /\ crashes \in 0..MaxCrashes

Init ==
  /\ upstream = [f \in Files |-> Absent]
  /\ hashCache = [k \in Keys |-> Absent]
  /\ contentCache = [k \in Keys |-> Absent]
  /\ serving = {}
  /\ pc = [s \in Slots |-> [f \in Files |-> "done"]]
  /\ listed = [s \in Slots |-> [f \in Files |-> Absent]]
  /\ got = [s \in Slots |-> [f \in Files |-> Absent]]
  /\ pushes = 0 /\ downloadFails = 0 /\ cacheFails = 0 /\ crashes = 0

-----------------------------------------------------------------------------

\* Somebody pushes a new content of a file, an earlier one, or removes it.
Push(f) ==
  /\ pushes < MaxPushes
  /\ pushes' = pushes + 1
  /\ \E c \in (IF Reverts THEN 0..pushes + 1 ELSE {Absent, pushes + 1}) :
       c # upstream[f] /\ upstream' = [upstream EXCEPT ![f] = c]
  /\ UNCHANGED <<hashCache, contentCache, tasks, downloadFails, cacheFails, crashes>>

\* A request arrives, the directory is listed and a task made of each file.
QueryNewsItemInfo(s) ==
  /\ s \notin serving /\ \A f \in Files : pc[s][f] = "done"
  /\ Sequential => serving = {}
  /\ Spaced => \A t \in Slots, f \in Files : pc[t][f] = "done"
  /\ serving' = serving \cup {s}
  /\ listed' = [listed EXCEPT ![s] = upstream]
  /\ pc' = [pc EXCEPT ![s] = [f \in Files |->
              IF upstream[f] = Absent THEN "done" ELSE "check"]]
  /\ UNCHANGED <<upstream, hashCache, contentCache, got, counters>>

\* The task of s and f goes on to step l; one that ends forgets its data.
Goto(s, f, l) ==
  /\ pc' = [pc EXCEPT ![s][f] = l]
  /\ listed' = IF l = "done" THEN [listed EXCEPT ![s][f] = Absent] ELSE listed

Forget(s, f) == got' = [got EXCEPT ![s][f] = Absent]

CachedAtAll(s, f) == hashCache[KeyOf[f]] # Absent   \* a mutant: any hash will do

IsNewsItemUpToDate(s, f) == hashCache[KeyOf[f]] = listed[s][f]

\* A mutant: the new hash is stored before the download.
CheckAndStoreHash(s, f) ==
  /\ pc[s][f] = "check"
  /\ Goto(s, f, IF IsNewsItemUpToDate(s, f) THEN "done" ELSE "download")
  /\ hashCache' = [hashCache EXCEPT ![KeyOf[f]] = listed[s][f]]
  /\ UNCHANGED <<upstream, contentCache, serving, got, counters>>

CheckUpToDate(s, f) ==
  /\ pc[s][f] = "check"
  /\ Goto(s, f, IF IsNewsItemUpToDate(s, f) THEN "done" ELSE "download")
  /\ UNCHANGED <<upstream, hashCache, contentCache, serving, got, counters>>

\* Mutants: the outdated entry is dropped first; an error page is kept.
DownloadAfterDelete(s, f) ==
  /\ pc[s][f] = "download" /\ upstream[f] # Absent
  /\ got' = [got EXCEPT ![s][f] = upstream[f]]
  /\ contentCache' = [contentCache EXCEPT ![KeyOf[f]] = Absent]
  /\ Goto(s, f, "setHash")
  /\ UNCHANGED <<upstream, hashCache, serving, counters>>

DownloadAnything(s, f) ==
  /\ pc[s][f] = "download"
  /\ got' = [got EXCEPT ![s][f] = upstream[f]]
  /\ Goto(s, f, "setHash")
  /\ UNCHANGED <<upstream, hashCache, contentCache, serving, counters>>

Download(s, f) ==
  /\ pc[s][f] = "download" /\ upstream[f] # Absent
  /\ got' = [got EXCEPT ![s][f] = upstream[f]]
  /\ Goto(s, f, "setHash")
  /\ UNCHANGED <<upstream, hashCache, contentCache, serving, counters>>

\* A mutant: the hash is asked for again when it is written.
SetCurrentHash(s, f) ==
  /\ pc[s][f] = "setHash"
  /\ hashCache' = [hashCache EXCEPT ![KeyOf[f]] = upstream[f]]
  /\ Goto(s, f, "setContent")
  /\ UNCHANGED <<upstream, contentCache, serving, got, counters>>

SetHash(s, f) ==
  /\ pc[s][f] = "setHash"
  /\ hashCache' = [hashCache EXCEPT ![KeyOf[f]] = listed[s][f]]
  /\ Goto(s, f, "setContent")
  /\ UNCHANGED <<upstream, contentCache, serving, got, counters>>

SetContent(s, f) ==
  /\ pc[s][f] = "setContent"
  /\ contentCache' = [contentCache EXCEPT ![KeyOf[f]] = got[s][f]]
  /\ Goto(s, f, "done") /\ Forget(s, f)
  /\ UNCHANGED <<upstream, hashCache, serving, counters>>

\* A task raises: gather passes the exception on at once, the request is
\* answered with an error, and the sibling tasks are left to themselves.
Raise(s, f) ==
  /\ Goto(s, f, "done") /\ Forget(s, f)
  /\ serving' = serving \ {s}
  /\ UNCHANGED <<upstream, hashCache, contentCache, pushes, crashes>>

\* The file to download is gone.
DownloadGone(s, f) ==
  /\ pc[s][f] = "download" /\ upstream[f] = Absent
  /\ Raise(s, f) /\ UNCHANGED <<downloadFails, cacheFails>>

DownloadFail(s, f) ==
  /\ pc[s][f] \in {"check", "download"} /\ downloadFails < MaxDownloadFails
  /\ downloadFails' = downloadFails + 1
  /\ Raise(s, f) /\ UNCHANGED cacheFails

CacheFail(s, f) ==
  /\ pc[s][f] \in {"setHash", "setContent"} /\ cacheFails < MaxCacheFails
  /\ cacheFails' = cacheFails + 1
  /\ Raise(s, f) /\ UNCHANGED downloadFails

\* gather has all its results and the request is answered.
Finish(s) ==
  /\ s \in serving /\ \A f \in Files : pc[s][f] = "done"
  /\ serving' = serving \ {s}
  /\ UNCHANGED <<upstream, hashCache, contentCache, pc, listed, got, counters>>

\* The process that runs the tasks of s stops.
Crash(s) ==
  /\ crashes < MaxCrashes /\ \E f \in Files : pc[s][f] # "done"
  /\ crashes' = crashes + 1
  /\ serving' = serving \ {s}
  /\ pc' = [pc EXCEPT ![s] = [f \in Files |-> "done"]]
  /\ listed' = [listed EXCEPT ![s] = [f \in Files |-> Absent]]
  /\ got' = [got EXCEPT ![s] = [f \in Files |-> Absent]]
  /\ UNCHANGED <<upstream, hashCache, contentCache, pushes, downloadFails, cacheFails>>

TaskStep(s, f) ==
  \/ CheckUpToDate(s, f) \/ Download(s, f) \/ DownloadGone(s, f)
  \/ SetHash(s, f) \/ SetContent(s, f)

Next == \/ \E f \in Files : Push(f)
        \/ \E s \in Slots :
             \/ QueryNewsItemInfo(s) \/ Finish(s) \/ Crash(s)
             \/ \E f \in Files : TaskStep(s, f) \/ DownloadFail(s, f) \/ CacheFail(s, f)

Spec == Init /\ [][Next]_vars

\* The timer asks for a refresh again and again, and tasks that have been
\* started go on (scripts/cron, the event loop).
FairSpec ==
  /\ Spec
  /\ \A s \in Slots : /\ WF_vars(QueryNewsItemInfo(s)) /\ WF_vars(Finish(s))
                      /\ \A f \in Files : WF_vars(TaskStep(s, f))

-----------------------------------------------------------------------------

Writing(k) == \E s \in Slots, f \in Files : KeyOf[f] = k /\ pc[s][f] = "setContent"

\* No process has stopped, and no write to the cache has failed, between the
\* two writes of a task or elsewhere: hash and content may differ for ever
\* after that.
Undisturbed == cacheFails = 0 /\ crashes = 0

\* An item the cache calls up to date has the content of the repository
\* (is_news_item_up_to_date, lines 139-152): else no later refresh would
\* ever repair it, since lines 163-164 skip the download.  It takes a key of
\* its own for each file, contents that do not come back, and no orphan that
\* is still under way when the next refresh comes (Spaced).
UpToDateMeansFresh ==
  Undisturbed => \A f \in Files :
    LET k == KeyOf[f] IN
    upstream[f] # Absent /\ hashCache[k] = upstream[f] /\ ~Writing(k)
      => contentCache[k] = upstream[f]

\* A cached hash without a content, for which readers get 404 and refreshes
\* see no work, lasts only while a task is about to write the content
\* (lines 175-177), whatever downloads fail.
HashHasContent ==
  Undisturbed => \A k \in Keys :
    hashCache[k] # Absent => contentCache[k] # Absent \/ Writing(k)

\* The content served for a key never goes back to an older one.
NewerContent == \A k \in Keys : contentCache'[k] >= contentCache[k]

\* Refreshes whose tasks do not overlap (Spaced) never undo each other, also
\* when one fails or stops half-way (the unguarded writes at lines 176-177).
NeverBackward == [][NewerContent]_vars

\* Readers get the current content of each file in the end
\* (maybe_update_news_item, lines 155-177), although the download of it or of
\* a sibling fails and the tasks left behind go on as orphans, provided that
\* these have ended when the next refresh comes (Spaced): one that has not
\* may store an old content under the current hash.
EventuallyServed ==
  \A f \in Files : \A c \in Contents \ {Absent} :
    (upstream[f] = c) ~> \/ contentCache[KeyOf[f]] = c
                         \/ upstream[f] # c \/ ~Undisturbed

=============================================================================
