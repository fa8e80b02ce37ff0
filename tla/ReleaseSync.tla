----------------------------- MODULE ReleaseSync -----------------------------
(***************************************************************************)
(* The release worker of ruyi-backend (cli/cmd_sync_releases.py): a timer  *)
(* starts a run that lists the newest releases of a GitHub repository and, *)
(* for each of them concurrently, fetches the assets into a staging        *)
(* directory, makes symbolic links, and pushes both to an rsync server.    *)
(* A run that raises, or is killed, stops all its tasks where they are;    *)
(* the next run starts from what is left on disk and on the server.        *)
(*                                                                         *)
(* GitHub and rsync are external.  rsync -P keeps a file it was sending    *)
(* when the transfer is cut, under its final name; it skips a file whose   *)
(* size and time agree on both sides (same), and it does not create        *)
(* missing parents of its target.  The timer starts one run at a time.     *)
(***************************************************************************)
EXTENDS Integers, FiniteSets

CONSTANTS
  Releases,     \* the releases of the repository
  Initial,      \* those that GitHub has when the worker is put to use
  Order,        \* their order: the higher, the newer
  PerPage,      \* how many of the newest are listed
  BadTags,      \* those whose tag is no semantic version
  Old,          \* those up to 0.6.0
  Prereleases,  \* those that are testing releases at first
  Assets,       \* the files of each release
  Onefile,      \* those that are no tarballs
  Unmatched,    \* those of them with a name of another form
  MaxPromotions, \* bound: releases that GitHub moves to the other channel
  MaxStops,     \* bound: runs that are killed
  MaxDownloadFails, \* bound: failed downloads
  MaxPullCuts,  \* bound: pulls that rsync cannot finish
  MaxPushCuts,  \* bound: pushes that are cut, by rsync or with the run
  MaxWipes      \* bound: losses of the staging directory

ASSUME SetsAssumption ==
  /\ BadTags \subseteq Releases /\ Old \subseteq Releases
  /\ Prereleases \subseteq Releases /\ Onefile \subseteq Assets
  /\ Unmatched \subseteq Onefile
ASSUME ListingAssumption ==
  Initial \subseteq Releases /\ Order \in [Releases -> Nat] /\ PerPage \in Nat
ASSUME BoundsAssumption ==
  /\ MaxPromotions \in Nat /\ MaxStops \in Nat /\ MaxDownloadFails \in Nat
  /\ MaxPullCuts \in Nat /\ MaxPushCuts \in Nat /\ MaxWipes \in Nat

Channels == {"stable", "testing"}

\* A file is absent, shorter than it should be, whole but with the mode it
\* was written with, or whole with the mode it should have.
States == {"none", "part", "raw", "full"}

Steps == {"check", "pull", "pullMark", "pullLink", "mkdir", "assets", "download",
          "chmod", "compat", "push", "pushLink", "mark"}

\* The steps whose interruption leaves something the next run cannot see.
Fragile == {"chmod", "compat", "push", "pushLink"}

Trees == [files : [Assets -> States], compat : SUBSET Onefile]

EmptyTree == [files |-> [a \in Assets |-> "none"], compat |-> {}]

VARIABLES
  published,    \* the releases GitHub has
  channelOf,    \* the channel GitHub's metadata put each release in
  local, remote, \* tags/<release> in the staging directory and on the server
  same,         \* files that agree in size and time on both sides
  tagsDir,      \* tags/ exists in the staging directory
  remoteDir,    \* releases whose directory exists on the server
  link, remoteLink, \* channel symlinks, <<channel, release>>, on both sides
  marker,       \* releases with a .synced marker
  active,       \* a run is under way
  stopping,     \* the run is stopping
  channel, pc, todo, cur,  \* the task of each release
  interrupted,  \* history: the steps that failed, or that tasks were stopped at
  promotions, stops, downloadFails, pullCuts, pushCuts, wipes

github == <<published, channelOf>>
staging == <<local, same, tagsDir, link, marker>>
server == <<remote, remoteDir, remoteLink>>
tasks == <<channel, pc, todo, cur>>
counters == <<promotions, stops, downloadFails, pullCuts, pushCuts, wipes>>
bounds == <<interrupted, counters>>
vars == <<github, staging, server, active, stopping, tasks, bounds>>

TypeOK ==
  /\ published \in SUBSET Releases
  /\ channelOf \in [Releases -> Channels] /\ channel \in [Releases -> Channels]
  /\ local \in [Releases -> Trees] /\ remote \in [Releases -> Trees]
  /\ same \in [Releases -> SUBSET Assets]
  /\ \A r \in Releases : \A a \in same[r] : local[r].files[a] = remote[r].files[a]
  /\ tagsDir \in BOOLEAN /\ active \in BOOLEAN /\ stopping \in BOOLEAN
  /\ stopping => active
  /\ remoteDir \in SUBSET Releases /\ marker \in SUBSET Releases
  /\ link \in SUBSET (Channels \X Releases) /\ remoteLink \in SUBSET (Channels \X Releases)
  /\ pc \in [Releases -> Steps \cup {"done"}] /\ interrupted \in SUBSET Steps
  /\ todo \in [Releases -> SUBSET Assets] /\ cur \in [Releases -> SUBSET Assets]
  /\ \A r \in Releases : ~active => pc[r] = "done"

Init ==
  /\ published = Initial
  /\ channelOf = [r \in Releases |-> IF r \in Prereleases THEN "testing" ELSE "stable"]
  /\ channel = channelOf
  /\ local = [r \in Releases |-> EmptyTree] /\ remote = local
  /\ same = [r \in Releases |-> {}]
  /\ tagsDir = FALSE /\ remoteDir = {} /\ link = {} /\ remoteLink = {} /\ marker = {}
  /\ active = FALSE /\ stopping = FALSE
  /\ pc = [r \in Releases |-> "done"]
  /\ todo = [r \in Releases |-> {}] /\ cur = todo
  /\ interrupted = {} /\ promotions = 0 /\ stops = 0 /\ downloadFails = 0
  /\ pullCuts = 0 /\ pushCuts = 0 /\ wipes = 0

-----------------------------------------------------------------------------
(* rsync.                                                                  *)

Present(t) == {a \in Assets : t.files[a] # "none"}

\* What a finished transfer of src into dst leaves, and what it makes equal.
Transferred(src, dst) ==
  [files |-> [a \in Assets |-> IF a \in Present(src) THEN src.files[a] ELSE dst.files[a]],
   compat |-> dst.compat \cup src.compat]

\* What a cut transfer may leave: files that agree are not touched, others
\* may have been sent, and one of them may have been cut off.
CutTransfers(r, src, dst) ==
  LET sendable == Present(src) \ same[r] IN
  {[sent |-> S,
    tree |-> [files |-> [a \in Assets |-> IF a \in S THEN src.files[a]
                                          ELSE IF a \in P THEN "part" ELSE dst.files[a]],
              compat |-> C]] :
     S \in SUBSET sendable,
     P \in {Q \in SUBSET sendable : Cardinality(Q) <= 1},
     C \in {D \in SUBSET (dst.compat \cup src.compat) : dst.compat \subseteq D}}

-----------------------------------------------------------------------------
(* The run and its tasks.                                                  *)

Goto(r, l) == pc' = [pc EXCEPT ![r] = l]

\* list_releases: the newest releases, and no further page.
Listed ==
  {r \in published : Cardinality({s \in published : Order[s] > Order[r]}) < PerPage}

StartRun ==
  /\ ~active
  /\ active' = TRUE
  /\ channel' = channelOf
  /\ pc' = [r \in Releases |-> IF r \in Listed THEN "check" ELSE "done"]
  /\ UNCHANGED <<github, staging, server, stopping, todo, cur, bounds>>

\* The end of the task of r: it returns, or raises, which stops the run.
End(r) ==
  /\ Goto(r, "done")
  /\ todo' = [todo EXCEPT ![r] = {}] /\ cur' = [cur EXCEPT ![r] = {}]
  /\ UNCHANGED channel

Raise(r) == End(r) /\ stopping' = TRUE

\* run_one up to the marker: Version.parse raises for a bad tag.
ParseFails(r) ==
  /\ pc[r] = "check" /\ r \in BadTags
  /\ Raise(r)
  /\ UNCHANGED <<github, staging, server, active, bounds>>

CheckMarker(r) ==
  /\ pc[r] = "check" /\ r \notin BadTags
  /\ IF r \in Old \cup marker
     THEN End(r) ELSE Goto(r, "pull") /\ UNCHANGED <<channel, todo, cur>>
  /\ UNCHANGED <<github, staging, server, active, stopping, bounds>>

\* check_remote: the pull succeeds, and the release counts as synced.
Pull(r) ==
  /\ pc[r] = "pull" /\ r \in remoteDir /\ tagsDir
  /\ local' = [local EXCEPT ![r] = Transferred(remote[r], @)]
  /\ same' = [same EXCEPT ![r] = @ \cup Present(remote[r])]
  /\ Goto(r, "pullMark")
  /\ UNCHANGED <<github, tagsDir, link, marker, server, active, stopping,
                 channel, todo, cur, bounds>>

PullMark(r) ==
  /\ pc[r] = "pullMark"
  /\ marker' = marker \cup {r}
  /\ Goto(r, "pullLink")
  /\ UNCHANGED <<github, local, same, tagsDir, link, server, active, stopping,
                 channel, todo, cur, bounds>>

PullLink(r) ==
  /\ pc[r] = "pullLink"
  /\ link' = link \cup {<<channel[r], r>>}
  /\ End(r)
  /\ UNCHANGED <<github, local, same, tagsDir, marker, server, active, stopping, bounds>>

\* A mutant: the exit code of rsync is not looked at.
PullUnchecked(r) ==
  /\ pc[r] = "pull" /\ ~(r \in remoteDir /\ tagsDir)
  /\ Goto(r, "pullMark")
  /\ UNCHANGED <<github, staging, server, active, stopping, channel, todo, cur, bounds>>

\* The pull has no source, or no directory to put its target in.
PullNothing(r) ==
  /\ pc[r] = "pull" /\ ~(r \in remoteDir /\ tagsDir)
  /\ Goto(r, "mkdir")
  /\ UNCHANGED <<github, staging, server, active, stopping, channel, todo, cur, bounds>>

CutLocal(r) ==
  \E t \in CutTransfers(r, remote[r], local[r]) :
    /\ local' = [local EXCEPT ![r] = t.tree]
    /\ same' = [same EXCEPT ![r] = @ \cup t.sent]
    /\ UNCHANGED <<tagsDir, link, marker>>

\* The pull is cut, for which the code takes the server to have nothing.
PullCut(r) ==
  /\ pc[r] = "pull" /\ r \in remoteDir /\ tagsDir /\ pullCuts < MaxPullCuts
  /\ pullCuts' = pullCuts + 1
  /\ interrupted' = interrupted \cup {"pull"}
  /\ CutLocal(r)
  /\ Goto(r, "mkdir")
  /\ UNCHANGED <<github, server, active, stopping, channel, todo, cur,
                 promotions, stops, downloadFails, pushCuts, wipes>>

\* A mutant: the channel symlink is made before the assets are fetched.
MkdirAndLink(r) ==
  /\ pc[r] = "mkdir"
  /\ tagsDir' = TRUE
  /\ link' = link \cup {<<channel[r], r>>}
  /\ todo' = [todo EXCEPT ![r] = Assets]
  /\ Goto(r, "assets")
  /\ UNCHANGED <<github, local, same, marker, server, active, stopping,
                 channel, cur, bounds>>

Mkdir(r) ==
  /\ pc[r] = "mkdir"
  /\ tagsDir' = TRUE
  /\ todo' = [todo EXCEPT ![r] = Assets]
  /\ Goto(r, "assets")
  /\ UNCHANGED <<github, local, same, link, marker, server, active, stopping,
                 channel, cur, bounds>>

SetFile(r, a, st) == local' = [local EXCEPT ![r].files[a] = st]

\* ensure_release_assets: a file of the right size is left as it is, any
\* other is removed and downloaded.
SkipAsset(r, a) ==
  /\ pc[r] = "assets" /\ a \in todo[r]
  /\ local[r].files[a] \in {"raw", "full"}
  /\ todo' = [todo EXCEPT ![r] = @ \ {a}]
  /\ UNCHANGED <<github, staging, server, active, stopping, channel, pc, cur, bounds>>

RemoveAsset(r, a) ==
  /\ pc[r] = "assets" /\ a \in todo[r]
  /\ local[r].files[a] \in {"none", "part"}
  /\ SetFile(r, a, "none")
  /\ same' = [same EXCEPT ![r] = @ \ {a}]
  /\ cur' = [cur EXCEPT ![r] = {a}]
  /\ todo' = [todo EXCEPT ![r] = @ \ {a}]
  /\ Goto(r, "download")
  /\ UNCHANGED <<github, tagsDir, link, marker, server, active, stopping, channel, bounds>>

\* A tarball has the mode it needs already when it is written.
Download(r, a) ==
  /\ pc[r] = "download" /\ a \in cur[r]
  /\ SetFile(r, a, IF a \in Onefile THEN "raw" ELSE "full")
  /\ Goto(r, "chmod")
  /\ UNCHANGED <<github, same, tagsDir, link, marker, server, active, stopping,
                 channel, todo, cur, bounds>>

DownloadFail(r) ==
  /\ pc[r] = "download" /\ downloadFails < MaxDownloadFails
  /\ downloadFails' = downloadFails + 1
  /\ Raise(r)
  /\ UNCHANGED <<github, staging, server, active, interrupted, promotions, stops,
                 pullCuts, pushCuts, wipes>>

\* A mutant: no compat symlink.
ChmodOnly(r, a) ==
  /\ pc[r] = "chmod" /\ a \in cur[r]
  /\ SetFile(r, a, "full")
  /\ Goto(r, "assets")
  /\ UNCHANGED <<github, same, tagsDir, link, marker, server, active, stopping,
                 channel, todo, cur, bounds>>

Chmod(r, a) ==
  /\ pc[r] = "chmod" /\ a \in cur[r]
  /\ SetFile(r, a, "full")
  /\ Goto(r, IF a \in Onefile THEN "compat" ELSE "assets")
  /\ UNCHANGED <<github, same, tagsDir, link, marker, server, active, stopping,
                 channel, todo, cur, bounds>>

\* The onefile assets whose name without a version is taken in tree t: by the
\* link, or by the asset itself when its name does not match (lines 40-42).
Named(t) == t.compat \cup Unmatched

\* symlink_to raises FileExistsError when there is something of that name.
CompatLink(r, a) ==
  /\ pc[r] = "compat" /\ a \in cur[r] /\ a \notin Named(local[r])
  /\ local' = [local EXCEPT ![r].compat = @ \cup {a}]
  /\ Goto(r, "assets")
  /\ UNCHANGED <<github, same, tagsDir, link, marker, server, active, stopping,
                 channel, todo, cur, bounds>>

CompatExists(r, a) ==
  /\ pc[r] = "compat" /\ a \in cur[r] /\ a \in Named(local[r])
  /\ Raise(r)
  /\ UNCHANGED <<github, staging, server, active, bounds>>

AssetsEnsured(r) == pc[r] = "assets" /\ todo[r] = {}

ChannelLink(r) ==
  /\ AssetsEnsured(r) /\ <<channel[r], r>> \notin link
  /\ link' = link \cup {<<channel[r], r>>}
  /\ Goto(r, "push")
  /\ UNCHANGED <<github, local, same, tagsDir, marker, server, active, stopping,
                 channel, todo, cur, bounds>>

ChannelLinkExists(r) ==
  /\ AssetsEnsured(r) /\ <<channel[r], r>> \in link
  /\ Raise(r)
  /\ UNCHANGED <<github, staging, server, active, bounds>>

\* A mutant: the channel symlink is not pushed.
PushDirOnly(r) ==
  /\ pc[r] = "push"
  /\ remote' = [remote EXCEPT ![r] = Transferred(local[r], @)]
  /\ same' = [same EXCEPT ![r] = @ \cup Present(local[r])]
  /\ remoteDir' = remoteDir \cup {r}
  /\ Goto(r, "mark")
  /\ UNCHANGED <<github, local, tagsDir, link, marker, remoteLink, active, stopping,
                 channel, todo, cur, bounds>>

\* sync: first the release directory, then the channel symlink.
PushDir(r) ==
  /\ pc[r] = "push"
  /\ remote' = [remote EXCEPT ![r] = Transferred(local[r], @)]
  /\ same' = [same EXCEPT ![r] = @ \cup Present(local[r])]
  /\ remoteDir' = remoteDir \cup {r}
  /\ Goto(r, "pushLink")
  /\ UNCHANGED <<github, local, tagsDir, link, marker, remoteLink, active, stopping,
                 channel, todo, cur, bounds>>

PushLink(r) ==
  /\ pc[r] = "pushLink"
  /\ remoteLink' = remoteLink \cup {<<channel[r], r>>}
  /\ Goto(r, "mark")
  /\ UNCHANGED <<github, staging, remote, remoteDir, active, stopping,
                 channel, todo, cur, bounds>>

MarkReleaseSynced(r) ==
  /\ pc[r] = "mark"
  /\ marker' = marker \cup {r}
  /\ End(r)
  /\ UNCHANGED <<github, local, same, tagsDir, link, server, active, stopping, bounds>>

FinishStillStopping ==   \* a mutant
  /\ active /\ \A r \in Releases : pc[r] = "done"
  /\ active' = FALSE
  /\ UNCHANGED <<github, staging, server, tasks, stopping, bounds>>

Finish ==
  /\ active /\ \A r \in Releases : pc[r] = "done"
  /\ active' = FALSE /\ stopping' = FALSE
  /\ UNCHANGED <<github, staging, server, tasks, bounds>>

-----------------------------------------------------------------------------
(* Failures, and the world around the worker.                              *)

\* A push that is cut, by a failure of rsync or with the run: the server may
\* have got nothing, the directory, or a part of the files.
CutRemote(r) ==
  /\ pushCuts < MaxPushCuts
  /\ pushCuts' = pushCuts + 1
  /\ \/ pc[r] = "pushLink" /\ UNCHANGED <<same, remote, remoteDir>>
     \/ /\ pc[r] = "push"
        /\ \/ UNCHANGED <<same, remote, remoteDir>>
           \/ \E t \in CutTransfers(r, local[r], remote[r]) :
                /\ remote' = [remote EXCEPT ![r] = t.tree]
                /\ same' = [same EXCEPT ![r] = @ \cup t.sent]
                /\ remoteDir' = remoteDir \cup {r}
  /\ UNCHANGED <<local, tagsDir, link, marker, remoteLink,
                 promotions, stops, downloadFails, pullCuts, wipes>>

\* A mutant: the push of the directory is called without check=True.
PushFailIgnored(r) ==
  /\ pc[r] = "push"
  /\ interrupted' = interrupted \cup {pc[r]}
  /\ CutRemote(r)
  /\ Goto(r, "pushLink")
  /\ UNCHANGED <<github, active, stopping, channel, todo, cur>>

\* rsync fails: check=True raises.
PushFail(r) ==
  /\ interrupted' = interrupted \cup {pc[r]}
  /\ CutRemote(r) /\ Raise(r)
  /\ UNCHANGED <<github, active>>

\* The worker is killed, or the host stops.
Stop ==
  /\ active /\ ~stopping /\ stops < MaxStops
  /\ stops' = stops + 1
  /\ stopping' = TRUE
  /\ UNCHANGED <<github, staging, server, active, tasks, interrupted, promotions,
                 downloadFails, pullCuts, pushCuts, wipes>>

\* A task of a run that is stopping ends where it is, between two steps or
\* in the middle of a write or a transfer; steps that others take
\* meanwhile are those they took just before.
Cancel(r) ==
  /\ stopping /\ pc[r] # "done"
  /\ interrupted' = interrupted \cup ({pc[r]} \cap Fragile)
  /\ End(r)
  /\ \/ UNCHANGED <<staging, server, counters>>
     \/ /\ pc[r] = "download"
        /\ \E a \in cur[r] : SetFile(r, a, "part")
        /\ UNCHANGED <<same, tagsDir, link, marker, server, counters>>
     \/ /\ pc[r] = "pull" /\ r \in remoteDir /\ tagsDir
        /\ CutLocal(r)
        /\ UNCHANGED <<server, counters>>
     \/ CutRemote(r)
  /\ UNCHANGED <<github, active, stopping>>

\* A release is published.
Publish(r) ==
  /\ r \notin published
  /\ published' = published \cup {r}
  /\ UNCHANGED <<channelOf, staging, server, active, stopping, tasks, bounds>>

\* GitHub's metadata move a release to the other channel.
Promote(r) ==
  /\ promotions < MaxPromotions
  /\ promotions' = promotions + 1
  /\ channelOf' = [channelOf EXCEPT ![r] = CHOOSE c \in Channels : c # @]
  /\ UNCHANGED <<published, staging, server, active, stopping, tasks, interrupted,
                 stops, downloadFails, pullCuts, pushCuts, wipes>>

\* The staging directory is lost between two runs: a cold start.
Wipe ==
  /\ ~active /\ wipes < MaxWipes
  /\ wipes' = wipes + 1
  /\ local' = [r \in Releases |-> EmptyTree]
  /\ same' = [r \in Releases |-> {}]
  /\ tagsDir' = FALSE /\ link' = {} /\ marker' = {}
  /\ UNCHANGED <<github, server, active, stopping, tasks, interrupted, promotions,
                 stops, downloadFails, pullCuts, pushCuts>>

TaskStep(r) ==
  \/ ParseFails(r) \/ CheckMarker(r)
  \/ Pull(r) \/ PullMark(r) \/ PullLink(r) \/ PullNothing(r) \/ Mkdir(r)
  \/ \E a \in Assets : \/ SkipAsset(r, a) \/ RemoveAsset(r, a) \/ Download(r, a)
                       \/ Chmod(r, a) \/ CompatLink(r, a) \/ CompatExists(r, a)
  \/ ChannelLink(r) \/ ChannelLinkExists(r)
  \/ PushDir(r) \/ PushLink(r) \/ MarkReleaseSynced(r)

Fault(r) == PullCut(r) \/ DownloadFail(r) \/ PushFail(r) \/ Cancel(r) \/ Promote(r)

Next == \/ StartRun \/ Finish \/ Stop \/ Wipe
        \/ \E r \in Releases : TaskStep(r) \/ Fault(r) \/ Publish(r)

Spec == Init /\ [][Next]_vars

\* The timer starts a run again and again (examples/systemd), and a run
\* goes on until it is through or stopped.
FairSpec == /\ Spec
            /\ WF_vars(StartRun) /\ WF_vars(Finish)
            /\ \A r \in Releases : WF_vars(TaskStep(r) \/ Cancel(r))

-----------------------------------------------------------------------------

Whole(r) == \A a \in Assets : remote[r].files[a] \in {"raw", "full"}

\* No task was stopped at one of the steps, or before it, and none failed.
Undisturbed(steps) == interrupted \cap steps = {}

\* A channel never points to a release with files missing or cut off on the
\* server (the order of the two pushes at lines 164-173), whatever stops,
\* fails or is cut in which order, as long as the staging directory is kept;
\* and when it is lost and everything is pushed again, as long as no push of a
\* directory is cut.
LinkedIsWhole ==
  wipes = 0 \/ Undisturbed({"push"}) =>
    \A c \in Channels, r \in Releases : <<c, r>> \in remoteLink => Whole(r)

\* ... and its onefile assets can be executed and have the names without a
\* version that downstream relies on (lines 211-222), provided that no task
\* was stopped between the write of an asset and its symlink and that rsync
\* has not failed in a pull: an asset of the right size is taken as done
\* (line 202), whether or not its symlink is there.
LinkedIsUsable ==
  Undisturbed({"pull", "chmod", "compat"}) =>
    \A c \in Channels, r \in Releases : <<c, r>> \in remoteLink =>
      \A a \in Onefile : remote[r].files[a] # "raw" /\ a \in Named(remote[r])

Published(r) == Whole(r) /\ \E c \in Channels : <<c, r>> \in remoteLink

\* The marker, which makes every later run skip the release, is only there
\* for one that is whole on the server and in a channel (lines 90-98, 133-156
\* and 270-271), provided that no push was cut and no task stopped between
\* the two: the next run judges by the directory alone (line 139).
MarkedIsPublished ==
  Undisturbed({"push", "pushLink"}) => \A r \in marker : Published(r)

\* The same whatever is stopped, as the comment at lines 144-145 has it: the
\* remote already has this version.  (Violated: the error of one release
\* stops the task of another between its two pushes.)
SyncedIsPublished == \A r \in marker : Published(r)

\* The work on a release comes to an end, after which later runs have nothing
\* to do for it: a run that starts from what an earlier one left never fails
\* in the same way for ever (is_release_synced at lines 90-98 and run_one).
\* A release that newer ones push out of the listing (line 50) is not seen
\* any more, and may be left for ever as it is; and a task that was stopped
\* after it made a symlink cannot make it again.
EventuallySynced ==
  \A r \in Releases \ Old :
    <>[](r \in Listed) => <>(r \in marker \/ ~Undisturbed({"push"}))

\* The same whatever is stopped.  (Violated: see above.)
EventuallyResumed == \A r \in Releases \ Old : <>[](r \in Listed) => <>(r \in marker)

\* Every release the worker is responsible for, and keeps seeing, ends up in
\* the channel that GitHub's metadata give it (lines 241-271), although
\* downloads fail and the error of one release stops the task of another.
EventuallyPublished ==
  \A r \in Releases \ Old :
    <>[](r \in Listed) => <>[](\/ <<channelOf[r], r>> \in remoteLink
                              \/ ~Undisturbed({"push", "pushLink"}))

=============================================================================
